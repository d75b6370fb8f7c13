SPECIFICATION FairSpec
CONSTANTS
  Conns = {c1, c2, c3}
  PoolSize = 1
  SlowPings = TRUE
  MaxSignals = 3
CHECK_DEADLOCK FALSE
INVARIANTS
  TypeOK
  NotCutShort
PROPERTIES
  Ends
