------------------------------ MODULE Explorer ------------------------------
(***************************************************************************)
(* Listing a bucket page by page: list_objects_with_prefix with its        *)
(* grouping and paging (db/repository.rs, objects_list in                  *)
(* server/web_routes.rs) and the explorer that scrolls through the pages   *)
(* (loadExplorerPage in web-ui/static/app.js), while the bucket changes.   *)
(*                                                                         *)
(* The bucket is the set of its live keys: the unique index allows one row *)
(* per key.  The delimiter is `/`; a search is for a whole segment.        *)
(* Sizes, dates and the counts shown beside folders are left out.          *)
(***************************************************************************)
EXTENDS Paths, FiniteSets, SequencesExt

CONSTANTS
    KeyOrder,     \* the keys as ORDER BY original_filename sorts them
    FolderOrder,  \* the prefixes as a BTreeSet does; the empty one stands for `/`
    Views,        \* what the explorer can show: <<"level", p>> or <<"search", s>>
    PageSize,     \* EXPLORER_PAGE_SIZE, within the clamp of objects_list
    Calls         \* slots for list requests on their way

ASSUME ExplorerAssumption ==
    /\ KeyOrder \in Seq(Keys) /\ ToSet(KeyOrder) = Keys
    /\ FolderOrder \in Seq(FolderPrefixes \cup {<<>>})
    /\ ToSet(FolderOrder) = FolderPrefixes \cup {<<>>}
    /\ \A v \in Views : v[1] = "level" => v[2] \in Seq(Segments)
    /\ PageSize \in 1 .. 500

VARIABLES
    live,      \* keys of the bucket's live objects
    \* the explorer
    view,      \* currentPrefix, or searchQuery
    shown,     \* the rows of the listing
    offset,    \* explorerOffset
    hasMore,   \* explorerHasMore
    loading,   \* explorerLoadingMore
    calls,     \* [Calls -> the request and, once the server has it, its answer]
    \* history, since the listing was cleared
    overtaken, \* an earlier call was still on its way
    failed,    \* the first page has not come
    came,      \* entries new in the bucket, as long as
    left       \* no entry has gone

client  == <<view, shown, offset, hasMore, loading, calls>>
history == <<overtaken, failed, came, left>>
vars    == <<live, view, shown, offset, hasMore, loading, calls,
             overtaken, failed, came, left>>
-----------------------------------------------------------------------------
(***************************************************************************)
(* list_objects_with_prefix                                                *)
(***************************************************************************)

\* Mutated: what LIKE returns is not looked at again.
AtLevel_LikeOnly(p, k) == Like(p, k)

\* The rows of a level: LIKE, and then starts_with.
AtLevel(p, k) == Like(p, k) /\ Under(p, k)

\* common: the prefix up to the next delimiter.
LevelFolders(p, S) == {SubSeq(k, 1, Len(p) + 1) : k \in {j \in S : AtLevel(p, j) /\ Len(j) > Len(p) + 1}}

LevelObjects(p, S) == {k \in S : AtLevel(p, k) /\ Len(k) = Len(p) + 1 /\ Leaf(k) # Keep}

\* LIKE '%s%', which ignores case like to_lowercase in search_folder_prefixes.
Found(s, k) == \E n \in DOMAIN k : Fold[k[n]] = Fold[s]

\* search_folder_prefixes: a marker stands for its folder (one at the root for
\* a folder `/`), any other key for those of its folders that match.
SearchFolders(s, S) ==
    UNION {IF Leaf(k) = Keep THEN {Front(k)}
           ELSE {f \in Ancestors(k) : Fold[Leaf(f)] = Fold[s]} : k \in {j \in S : Found(s, j)}}

SearchObjects(s, S) == {k \in S : Found(s, k) /\ Leaf(k) # Keep}

FoldersOf(v, S) == IF v[1] = "level" THEN LevelFolders(v[2], S) ELSE SearchFolders(v[2], S)
ObjectsOf(v, S) == IF v[1] = "level" THEN LevelObjects(v[2], S) ELSE SearchObjects(v[2], S)

\* Sorting the elements of T: the n-th is the one with n of them up to it in
\* the order.  (SelectSeq, without the recursion that keeps it from proofs.)
Places(order, T) == {n \in DOMAIN order : order[n] \in T}
Rank(P, n)       == Cardinality({m \in P : m <= n})
Nth(P, n)        == CHOOSE m \in P : Rank(P, m) = n

Sorted(order, T) ==
    [n \in 1 .. Cardinality(Places(order, T)) |-> order[Nth(Places(order, T), n)]]

\* Each entry is marked as what it is.
Marked(mark, list) == [n \in DOMAIN list |-> <<mark, list[n]>>]

FolderList(v, S) == Marked("folder", Sorted(FolderOrder, FoldersOf(v, S)))
ObjectList(v, S) == Marked("object", Sorted(KeyOrder, ObjectsOf(v, S)))

Listing(v, S) == FolderList(v, S) \o ObjectList(v, S)

\* The entries of every listing of every bucket.
Entries == [v \in Views |-> [S \in SUBSET Keys |-> ToSet(Listing(v, S))]]

Least(m, n) == IF m <= n THEN m ELSE n

\* Mutated: the objects are sliced with the offset of the whole listing.
ObjectStart_Raw(at, folders) == IF folders = 0 THEN 0 ELSE at

\* offset.saturating_sub(folder_len).
ObjectStart(at, folders) == IF at <= folders THEN 0 ELSE at - folders

\* page_folder_object_lists: a window of folders, then objects.
Page(v, S, at) ==
    LET folders == FolderList(v, S)
        objects == ObjectList(v, S)
        end     == at + PageSize
        some    == SubSeq(folders, at + 1, Least(end, Len(folders)))
        others  == IF end <= Len(folders) THEN <<>>
                   ELSE SubSeq(objects, ObjectStart(at, Len(folders)) + 1,
                               Least(end - Len(folders), Len(objects)))
    IN [entries |-> some \o others,
        more    |-> at + Len(some \o others) < Len(folders) + Len(objects)]
-----------------------------------------------------------------------------
(***************************************************************************)
(* loadExplorerPage                                                        *)
(***************************************************************************)

Idle == [step |-> "idle"]
Sent(v, append, at) == [step |-> "sent", view |-> v, append |-> append, at |-> at]
Answered(call, page) ==
    [step |-> "answered", append |-> call.append, entries |-> page.entries, more |-> page.more]

\* What a listing can have in it.
Row == ({"folder"} \X (FolderPrefixes \cup {<<>>})) \cup ({"object"} \X Keys)

Requests == [step : {"sent"}, view : Views, append : BOOLEAN, at : Nat]
Answers  == [step : {"answered"}, append : BOOLEAN, entries : Seq(Row), more : BOOLEAN]

TypeOK ==
    /\ live \subseteq Keys
    /\ view \in Views
    /\ shown \in Seq(Row)
    /\ offset \in Nat
    /\ hasMore \in BOOLEAN /\ loading \in BOOLEAN
    /\ calls \in [Calls -> {Idle} \cup Requests \cup Answers]
    /\ overtaken \in BOOLEAN /\ failed \in BOOLEAN /\ left \in BOOLEAN
    /\ came \subseteq Row

InFlight == {c \in Calls : calls[c] # Idle}

Init ==
    /\ live \in SUBSET Keys
    /\ view \in Views
    /\ shown = <<>> /\ offset = 0
    /\ hasMore = FALSE /\ loading = FALSE
    /\ calls = [c \in Calls |-> Idle]
    /\ overtaken = FALSE /\ failed = TRUE
    /\ came = {} /\ left = FALSE

\* Opening a folder, searching, or refreshing after an operation: the listing
\* is cleared at once, whatever is still on its way.  (navigateToPrefix leaves
\* the rest to the hashchange event that it causes; a page asked for before that
\* is then on its way like any other.)
Refresh(c, v) ==
    /\ calls[c] = Idle
    /\ view' = v
    /\ shown' = <<>> /\ offset' = 0
    /\ hasMore' = FALSE /\ loading' = TRUE
    /\ calls' = [calls EXCEPT ![c] = Sent(v, FALSE, 0)]
    /\ overtaken' = (InFlight # {})
    /\ failed' = TRUE /\ came' = {} /\ left' = FALSE
    /\ UNCHANGED live

MayLoadMore(c) == calls[c] = Idle /\ hasMore /\ ~loading

\* The end of the listing scrolls into view.
LoadMore(c) ==
    /\ MayLoadMore(c)
    /\ loading' = TRUE
    /\ calls' = [calls EXCEPT ![c] = Sent(view, TRUE, offset)]
    /\ UNCHANGED <<live, view, shown, offset, hasMore, history>>

\* objects_list reads the bucket.
Serve(c) ==
    /\ calls[c].step = "sent"
    /\ calls' = [calls EXCEPT ![c] = Answered(@, Page(@.view, live, @.at))]
    /\ UNCHANGED <<live, view, shown, offset, hasMore, loading, history>>

\* The next offset: what the explorer has, and what came.
Advance(call) == (IF call.append THEN offset ELSE 0) + Len(call.entries)

\* The answer is appended, whatever the listing shows by now.
Receive(c) ==
    /\ calls[c].step = "answered"
    /\ shown' = shown \o calls[c].entries
    /\ offset' = Advance(calls[c])
    /\ hasMore' = calls[c].more
    /\ loading' = FALSE
    /\ calls' = [calls EXCEPT ![c] = Idle]
    /\ failed' = (failed /\ calls[c].append)
    /\ UNCHANGED <<live, view, overtaken, came, left>>

\* An error answer, or none.
Fail(c) ==
    /\ calls[c] # Idle
    /\ loading' = FALSE
    /\ calls' = [calls EXCEPT ![c] = Idle]
    /\ UNCHANGED <<live, view, shown, offset, hasMore, history>>

\* Any statement or transaction of module Folders or ObjectStore: one object
\* or many come, go or change their names.
Change(S) ==
    /\ S # live
    /\ live' = S
    /\ left' = (left \/ ~ (overtaken \/ Entries[view][live] \subseteq Entries[view][S]))
    /\ came' = IF left' \/ overtaken THEN {}
               ELSE came \cup (Entries[view][S] \ Entries[view][live])
    /\ UNCHANGED <<client, overtaken, failed>>

Next ==
    \/ \E c \in Calls : \/ \E v \in Views : Refresh(c, v)
                        \/ LoadMore(c) \/ Serve(c) \/ Receive(c) \/ Fail(c)
    \/ \E S \in SUBSET Keys : Change(S)

Spec == Init /\ [][Next]_vars
-----------------------------------------------------------------------------
\* e belongs to the folder or to the answer of the search, which for `.keep` are
\* the folders with a marker.
InPlace(v, e) ==
    IF v[1] = "level"
    THEN Len(e[2]) = Len(v[2]) + 1 /\ Under(v[2], e[2])
    ELSE Found(v[2], e[2]) \/ (e[1] = "folder" /\ Fold[v[2]] = Fold[Keep])

\* The explorer shows entries of the open folder only, unless an answer for
\* the folder before was still on its way when it was opened: loadExplorerPage
\* appends it all the same.
ShownInPlace == ~ overtaken => \A n \in DOMAIN shown : InPlace(view, shown[n])

\* Scrolling skips nothing: as long as no entry goes away, every entry before
\* the offset is on the screen or has come since; and if nothing has come
\* either, the screen is the start of the listing, each entry once, there is
\* more exactly if it does not end there, and the next page then brings it
\* forward.  (An entry that goes away moves
\* the rest to lower offsets, so that the next page skips one.)
ScrollComplete ==
    LET list == Listing(view, live)
    IN InFlight = {} /\ ~ overtaken /\ ~ failed /\ ~ left =>
         /\ \A n \in 1 .. Least(offset, Len(list)) : list[n] \in ToSet(shown) \cup came
         /\ came = {} => /\ shown = SubSeq(list, 1, offset)
                         /\ hasMore <=> offset < Len(list)
                         /\ hasMore => Page(view, live, offset).entries # <<>>
=============================================================================
