\* Deadlock is not checked: at the bound on writes a flush has no successor.
CONSTANTS
  Columns = {c1}
  Targets = {t1, t2}
  Clis = {k1, k2}
  MaxWrites = 3
  MaxUses = 2
SPECIFICATION Spec
SYMMETRY Symmetry
CHECK_DEADLOCK FALSE
INVARIANTS
  TypeOK
  QueriesSeeVerdicts
  CleanIsPublished
  ShutdownFlushes
PROPERTIES
  FlushKeepsVerdicts
  UnwrittenIsKept
