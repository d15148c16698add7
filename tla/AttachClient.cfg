SPECIFICATION MCSpec
CONSTANTS
  Modes = {TRUE, FALSE}
  Command = TRUE
  HasRaw = TRUE
  Sizes = {z1, z2}
  Faults = {"stdout", "raw", "torn", "error", "split"}
  MaxOut = 2
  MaxPush = 1
  MaxHost = 3
  UpCap = 1
  MaxEvent = 3
INVARIANTS TypeOK HostStream HostClean InputUpToDetach
PROPERTIES DetachReturns SizeReported
CHECK_DEADLOCK FALSE
