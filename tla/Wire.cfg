SPECIFICATION Spec
CONSTANTS
  Base = 4
  FrameMax = 150
  Writer <- MCWriter
  Msgs <- MCMsgs
  Types = {"Detach", "Kill"}
  Patterns = {"short", "mixed", "full", "over"}
  Versions = {1, 2}
  Closes = {"client", "server"}
  MaxSend = 1
INVARIANTS RoundTrip Understood VersionGate Settled
CHECK_DEADLOCK FALSE
