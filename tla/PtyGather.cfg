SPECIFICATION FairSpec
CONSTANTS
  Total = 7
  ReadSize = 5
  BatchSize = 3
  Threshold = 2
  PtyCap = 1
INVARIANTS TypeOK InOrder Lossless BatchFits ClosedLast
PROPERTY Flushed
CHECK_DEADLOCK FALSE
