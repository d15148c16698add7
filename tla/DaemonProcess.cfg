SPECIFICATION FairSpec
CONSTANTS
  Daemon = {d1, d2}
  Client = {c1, c2}
  Faults = {"signal", "crash", "slow", "pid", "hand"}
  Nil = Nil
  Stale = Stale
INVARIANTS TypeOK OneListener Reachable
PROPERTIES ClientEnds
CHECK_DEADLOCK FALSE
