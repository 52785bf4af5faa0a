----------------------------- MODULE MCExplorer -----------------------------
EXTENDS Explorer

CONSTANTS a, A, b, x, keep, c1, c2

MCFold == [s \in {a, A, b, x, keep} |-> IF s = A THEN a ELSE s]

\* a/x, A/x, an empty folder b, x, and a marker at the root: the root has three
\* folders and an object, the search for x three objects, that for the marker
\* two folders.
MCKeyOrder == <<(<<keep>>), (<<A, x>>), (<<a, x>>), (<<b, keep>>), (<<x>>)>>
MCKeys == {MCKeyOrder[n] : n \in DOMAIN MCKeyOrder}
MCFolderOrder == <<(<<>>), (<<A>>), (<<a>>), (<<b>>)>>

MCViews == {<<"level", <<>>>>, <<"level", <<a>>>>, <<"search", x>>, <<"search", keep>>}
=============================================================================
