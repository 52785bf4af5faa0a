SPECIFICATION FairSpec
CONSTANTS
  o1 = o1
  md5 = md5
  sha256 = sha256
  r1 = r1
  r2 = r2
  x1 = x1
  x2 = x2
  Objects = {o1}
  Uploaded = {}
  Types = {md5, sha256}
  Default = md5
  Requests = {r1, r2}
  Tasks = {x1, x2}
INVARIANTS RunningExplained
PROPERTIES OverlapIsARace DoneIsComplete RehashEnds
