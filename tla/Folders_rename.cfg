SPECIFICATION Spec
CONSTANTS
  a = a
  A = A
  b = b
  x = x
  keep = keep
  r1 = r1
  r2 = r2
  t1 = t1
  i1 = i1
  i2 = i2
  i3 = i3
  Keys <- MCKeys
  Fold <- MCFold
  Keep = keep
  Ids = {i1, i2, i3}
  Requests = {r1, r2}
  Temps = {t1}
SYMMETRY Symmetry
INVARIANTS TypeOK NamesUnique ArchiveWhole TempsAccounted
PROPERTIES OnlyTheFolderMoves BinKeepsNames
CHECK_DEADLOCK FALSE
