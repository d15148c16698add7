SPECIFICATION FairSpec
CONSTANTS
  Conn = {c1}
  Sizes <- OneSize
  Modes = {TRUE}
  Policy = "smallest"
  Calls = {"kick"}
  Vanishing = {}
  MaxChunk = 2
  PtyCap = 1
  FeedCap = 1
  ActCap = 1
  OutCap = 1
PROPERTIES CallAnswered OutputDelivered
CHECK_DEADLOCK FALSE
