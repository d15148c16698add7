SPECIFICATION Spec
CONSTANTS
  Names = {n1}
  Sess = {s1, s2}
  Handler = {h1, h2}
  Kinds = {"create", "attach"}
  Faults = {"attach", "write", "clean", "signal", "crash"}
  AutoExit = TRUE
  MaxOut = 1
  MaxTick = 1
  MaxStart = 1
  Nil = Nil
  NoFile = NoFile
  Torn = Torn
SYMMETRY Symmetry
INVARIANTS TypeOK NoLostSession WholeFile
PROPERTIES NoStaleSave LastScreenSaved
CHECK_DEADLOCK FALSE
