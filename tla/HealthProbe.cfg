SPECIFICATION Spec
CONSTANTS
  Conns = {c1, c2}
  PoolSize = 1
  SlowPings = FALSE
  MaxSignals = 0
CHECK_DEADLOCK FALSE
INVARIANTS
  HealthAnswers
