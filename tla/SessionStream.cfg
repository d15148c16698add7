SPECIFICATION Spec
CONSTANTS
  Conn = {c1, c2}
  Sizes <- OneSize
  Modes = {TRUE}
  Policy = "smallest"
  Calls = {"info"}
  Vanishing = {}
  MaxChunk = 2
  PtyCap = 1
  FeedCap = 1
  ActCap = 1
  OutCap = 1
INVARIANTS ClientStream ExitedLast HeldBack
PROPERTIES ImplementsView
SYMMETRY ConnSymmetry
CHECK_DEADLOCK FALSE
