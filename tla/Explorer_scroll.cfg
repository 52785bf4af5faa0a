SPECIFICATION Spec
CONSTANTS
  a = a
  A = A
  b = b
  x = x
  keep = keep
  c1 = c1
  c2 = c2
  Keys <- MCKeys
  Fold <- MCFold
  Keep = keep
  KeyOrder <- MCKeyOrder
  FolderOrder <- MCFolderOrder
  Views <- MCViews
  PageSize = 2
  Calls = {c1, c2}
INVARIANTS ShownInPlace ScrollComplete
