\* Deadlock is not checked: once every call is answered nothing is left to do.
CONSTANTS
  first = t1
  second = t2
  TargetIds = {t1, t2}
  Calls = {c1}
  NoTarget = NoTarget
  Files <- MCFiles
  Variables <- MCVariables
SPECIFICATION Spec
CHECK_DEADLOCK FALSE
INVARIANTS
  TypeOK
  ProductionIsFenced
  StrictFailsClosed
  DiagnosticsAreUnambiguous
