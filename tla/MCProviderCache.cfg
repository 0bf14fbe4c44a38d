\* Deadlock is checked: a query can always begin or go on.
CONSTANTS
  t1 = t1
  t2 = t2
  a = a
  b = b
  c = c
  tab = tab
  Columns = {a, b, c}
  Kinds = {name}
  Requests <- MCRequests
  Deployments <- MCDeployments
  Queries = {q1, q2}
  MaxCached = 2
  MaxAsked = 2
SPECIFICATION FairSpec
INVARIANTS
  TypeOK
  TargetsApart
  VerdictsReachTheRows
PROPERTIES
  ImplementsRegisters
  QueriesGoOn
