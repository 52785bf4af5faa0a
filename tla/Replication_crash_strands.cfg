SPECIFICATION FairSpec
CONSTANTS
  A = A
  B = B
  f1 = f1
  f2 = f2
  k1 = k1
  Nodes = {A, B}
  Writers = {A}
  Files = {f1}
  KeyOf <- MCKeyOf
  Unreliable = TRUE
  MaxJobs = 2
  MaxPurges = 0
  MaxFaults = 1
PROPERTIES Convergence
