CONSTANTS
  t1 = t1
  t2 = t2
  a = a
  b = b
  c = c
  tab = tab
  Columns = {a, b, c}
  Kinds = {name}
  Requests <- MCRequests
  Deployments <- MCDeployments
  Queries = {q1}
  MaxCached = 2
  MaxAsked = 2
SPECIFICATION FairSpec
INVARIANT NoneWasSaid
