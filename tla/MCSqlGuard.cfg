\* Deadlock is not checked: a text ends at the bound of its clauses.
CONSTANTS
  MaxClauses = 6
  MaxStatements = 2
SPECIFICATION Spec
CHECK_DEADLOCK FALSE
INVARIANTS
  ReadsOnlyRead
  
  SingleStatementsPass
