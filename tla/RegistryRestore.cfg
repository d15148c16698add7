SPECIFICATION Spec
CONSTANTS
  Names = {n1}
  Sess = {s1, s2, s3}
  Handler = {h1}
  Kinds = {"create", "attach", "restore", "force", "prune"}
  Faults = {"start", "attach", "remove", "crash"}
  AutoExit = FALSE
  MaxOut = 1
  MaxTick = 0
  MaxStart = 2
  Nil = Nil
  NoFile = NoFile
  Torn = Torn
 
PROPERTIES FailedRestoreKeeps
CHECK_DEADLOCK FALSE
