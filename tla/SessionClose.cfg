SPECIFICATION Spec
CONSTANTS
  Conn = {c1, c2}
  Sizes <- TwoSizes
  Modes = {TRUE, FALSE}
  Policy = "smallest"
  Calls = {"resize", "close"}
  Vanishing = {}
  MaxChunk = 0
  PtyCap = 1
  FeedCap = 1
  ActCap = 1
  OutCap = 1
INVARIANTS NoClosedChannel TerminalClosedLast
PROPERTIES ArbitratedChange
SYMMETRY ConnSymmetry
CHECK_DEADLOCK FALSE
