------------------------------ MODULE MCFolders -----------------------------
EXTENDS Folders, TLC

CONSTANTS a, A, b, x, keep, r1, r2, t1, i1, i2, i3

MCFold == [s \in {a, A, b, x, keep} |-> IF s = A THEN a ELSE s]

\* Two folders that differ in case, a marker, and a/b/x for a rename of a
\* folder into itself.
MCKeys == {<<a, x>>, <<A, x>>, <<a, keep>>, <<a, b, x>>}

Symmetry == Permutations(Ids) \cup Permutations(Requests)
=============================================================================
