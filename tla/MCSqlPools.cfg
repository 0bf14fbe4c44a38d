\* Deadlock is not checked: after a shutdown the driver may stay idle.
CONSTANTS
  Conns = {c1, c2}
  Callers = {r1, r2}
  Shutdowns = 2
  MaxAttempts = 3
SPECIFICATION PoolSpec
CHECK_DEADLOCK FALSE
INVARIANTS
  PoolTypeOK
  NoPoolLeak
  CacheIsUsable
  ClosedOnce
