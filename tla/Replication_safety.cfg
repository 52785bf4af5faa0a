SPECIFICATION Spec
CONSTANTS
  A = A
  B = B
  f1 = f1
  f2 = f2
  k1 = k1
  Nodes = {A, B}
  Writers = {A}
  Files = {f1, f2}
  KeyOf <- MCKeyOf
  Unreliable = TRUE
  MaxJobs = 2
  MaxPurges = 1
  MaxFaults = 1
INVARIANTS NoDuplicatePuts NeverForgotten DamagedHasRepair GhostsWerePurged
CONSTRAINT FaultOrPurge
