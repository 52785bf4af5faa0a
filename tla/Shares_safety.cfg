SPECIFICATION Spec
CONSTANTS
  u1 = u1
  u2 = u2
  b1 = b1
  b2 = b2
  n1 = n1
  n2 = n2
  d = d
  s1 = s1
  s2 = s2
  r1 = r1
  r2 = r2
  none = none
  Accounts = {u1, u2}
  Owners = {u1}
  Buckets = {b1}
  Names = {n1}
  Targets = {n1, d}
  Scope <- MCScope
  Shares = {s1, s2}
  Asks <- MCAsks
  Requests = {r1, r2}
  ShareTTL = 1
  PersonalTTL = 1
  Forever = 9
  MaxTime = 2
  MaxTokens = 1
  None = none
CONSTRAINT OneMissing
SYMMETRY Symmetry
INVARIANTS ShareReferences RecipientsAsRequested RevocationBites StaleAccessBounded
CHECK_DEADLOCK FALSE
