---------------------------- MODULE MCObjectStore ----------------------------
EXTENDS ObjectStore, TLC

CONSTANTS b0, b1, n1, n2, f1, f2, f3, r1, r2, w, noFile, noBucket, noKey

\* Uploads and request slots are interchangeable.
Symmetry == Permutations(Files) \cup Permutations(Requests)
=============================================================================
