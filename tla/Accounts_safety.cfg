SPECIFICATION Spec
CONSTANTS
  a1 = a1
  a2 = a2
  a3 = a3
  own = own
  x1 = x1
  b0 = b0
  b1 = b1
  t1 = t1
  t2 = t2
  r1 = r1
  r2 = r2
  nobody = nobody
  Accounts = {a1, a2}
  Roles = {own, x1}
  OwnerRole = own
  Buckets = {b1}
  Seeded = {}
  Tokens = {t1}
  Requests = {r1, r2}
  Nobody = nobody
SYMMETRY Symmetry
INVARIANTS References LockoutExplained OldSessionsExplained
PROPERTIES NeverRebootstrapped
CHECK_DEADLOCK FALSE
