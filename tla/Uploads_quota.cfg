SPECIFICATION FairSpec
CONSTANTS
  l = l
  p = p
  k1 = k1
  k2 = k2
  k3 = k3
  r1 = r1
  r2 = r2
  noRow = noRow
  Nodes = {l, p}
  Local = l
  Rows <- MCRows
  DefaultRow <- MCDefaultRow
  NoRow = noRow
  Requests = {r1, r2}
  Keys = {k1, k2}
  Sizes = {1}
  PoolSize = 2
INVARIANTS LocalKept
PROPERTIES RemovedOnlyDrains QuotaIfAlone UploadsEnd
