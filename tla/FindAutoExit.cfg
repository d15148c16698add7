SPECIFICATION Spec
CONSTANTS
  Names = {n1, n2}
  Sess = {s1, s2}
  Handler = {h1}
  Kinds = {"create", "attach"}
  Faults = {}
  AutoExit = TRUE
  MaxOut = 0
  MaxTick = 0
  MaxStart = 1
  Nil = Nil
  NoFile = NoFile
  Torn = Torn
SYMMETRY Symmetry
PROPERTIES AutoExitSpares
CHECK_DEADLOCK FALSE
