SPECIFICATION FairSpec
CONSTANTS
  Conn = {c1}
  Sizes <- OneSize
  Modes = {TRUE}
  Policy = "smallest"
  Calls = {"kill", "close"}
  Vanishing = {c1}
  MaxChunk = 1
  PtyCap = 1
  FeedCap = 1
  ActCap = 1
  OutCap = 1
INVARIANT TypeOK
PROPERTIES SessionEnds CloseReturns
CHECK_DEADLOCK FALSE
