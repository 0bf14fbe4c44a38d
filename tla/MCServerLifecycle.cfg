\* Deadlock is not checked: the process ends.
CONSTANTS
  SessionIds = {s1}
  Stops = {1, 2}
  Ttls = {2}
  MaxTime = 2
  Conns = {c1}
  Callers = {r1}
  Shutdowns = 2
  MaxAttempts = 2
SPECIFICATION FairServerSpec
CHECK_DEADLOCK FALSE
INVARIANTS
  ServerTypeOK
  OpenIsHeld
  ExitIsOrderly
PROPERTIES
  LeavesForCause
  ShutdownExits
