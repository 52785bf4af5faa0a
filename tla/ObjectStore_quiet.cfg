SPECIFICATION FairQuietSpec
CONSTANTS
  b0 = b0
  b1 = b1
  n1 = n1
  n2 = n2
  f1 = f1
  f2 = f2
  f3 = f3
  r1 = r1
  r2 = r2
  w = w
  noFile = noFile
  noBucket = noBucket
  noKey = noKey
  Buckets = {b0}
  DefaultBucket = b0
  Names = {n1}
  Files = {f1, f2}
  Requests = {r1, r2}
  PurgeWorker = w
  NoFile = noFile
  NoBucket = noBucket
  NoKey = noKey
INVARIANTS BlobPresent
PROPERTIES ExpiredLeaves
