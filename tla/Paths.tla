------------------------------- MODULE Paths --------------------------------
(***************************************************************************)
(* Object keys and folder prefixes (server/keys.rs, and the prefix tests   *)
(* of db/repository.rs).  A normalized key is the sequence of its          *)
(* segments, a folder prefix (`a/b/`) that of the segments before each     *)
(* `/`: cutting at `/` is all that the code does with either.  Whether two *)
(* segments differ only in the case of ASCII letters is given by Fold.     *)
(***************************************************************************)
EXTENDS Naturals, Sequences

CONSTANTS
    Keys,      \* normalized object keys
    Fold,      \* [segment -> the segment in lower case]
    Keep       \* the segment `.keep`, which marks an otherwise empty folder

Segments == DOMAIN Fold

ASSUME PathsAssumption == \A k \in Keys : k \in Seq(Segments) /\ k # <<>>

Leaf(k) == k[Len(k)]

\* The folders that the key lies in, innermost last.
Ancestors(k) == {SubSeq(k, 1, n) : n \in 1 .. Len(k) - 1}

\* normalize_folder_prefix refuses the root.
FolderPrefixes == UNION {Ancestors(k) : k \in Keys}

\* starts_with and strip_prefix.
Under(p, k) == Len(p) < Len(k) /\ SubSeq(k, 1, Len(p)) = p

Folded(k) == [n \in DOMAIN k |-> Fold[k[n]]]

\* LIKE 'prefix%', in which SQLite ignores case.
Like(p, k) == Under(Folded(p), Folded(k))

Renamed(k, p, q) == q \o SubSeq(k, Len(p) + 1, Len(k))
=============================================================================
