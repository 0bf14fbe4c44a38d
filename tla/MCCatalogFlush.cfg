\* One command line process: a save lost by a flush.
CONSTANTS
  Columns = {c1}
  Targets = {t1}
  Clis = {k1}
  MaxWrites = 3
  MaxUses = 2
SPECIFICATION Spec
CHECK_DEADLOCK FALSE
PROPERTY OnlyCliChangesVerdicts
