------------------------------ MODULE Folders -------------------------------
(***************************************************************************)
(* Folders of one bucket: they exist only as prefixes of object keys.      *)
(* rename_folder, delete_folder and folder_archive (server/web_routes.rs,  *)
(* db/repository.rs, server/folder_archive.rs) run against uploads,        *)
(* deletes, restores and purges.                                           *)
(*                                                                         *)
(* The statements of the single-object handlers, which module ObjectStore  *)
(* takes apart, address a row by the id that they read before, at any      *)
(* earlier time, so here they may run at any time; a purge and its unlink  *)
(* are one step.                                                           *)
(***************************************************************************)
EXTENDS Paths, FiniteSets

CONSTANTS
    Ids,       \* object ids, AUTOINCREMENT: never used again
    Requests,
    Temps      \* uuid paths under tmp/

VARIABLES
    state,     \* [Ids -> "none", "live", "bin" (soft-deleted) or "gone"]
    key,       \* [Ids -> original_filename]
    tmp,       \* [Temps -> "none", "partial" or "whole"]
    \* handlers
    pc,        \* [Requests -> the await the handler is at]
    from,      \* [Requests -> the prefix of the rename or of the archive]
    todo,      \* [Requests -> rows (id, new key) of the loop to come]
    plan,      \* [Requests -> those already checked or archived]
    temp,      \* [Requests -> its archive file, as a set of at most one]
    \* history
    listed,    \* [Requests -> what the archive listing selected]
    moved,     \* [Requests -> ids renamed by others since the listing]
    abandoned  \* archive files whose handler ended, or died, without the Drop of
               \* a TempArchive

rows     == <<state, key>>
handlers == <<pc, from, todo, plan, temp>>
history  == <<listed, moved, abandoned>>
vars == <<state, key, tmp, pc, from, todo, plan, temp, listed, moved, abandoned>>

Moves == Ids \X Keys

TypeOK ==
    /\ state \in [Ids -> {"none", "live", "bin", "gone"}]
    /\ key \in [Ids -> Keys \cup {<<>>}]
    /\ \A i \in Ids : key[i] \in Keys <=> state[i] \in {"live", "bin"}
    /\ tmp \in [Temps -> {"none", "partial", "whole"}]
    /\ pc \in [Requests -> {"idle", "check", "build", "open", "stream"}]
    /\ from \in [Requests -> FolderPrefixes \cup {<<>>}]
    /\ todo \in [Requests -> SUBSET Moves]
    /\ plan \in [Requests -> SUBSET Moves]
    /\ temp \in [Requests -> SUBSET Temps]
    /\ listed \in [Requests -> SUBSET Moves]
    /\ moved \in [Requests -> SUBSET Ids]
    /\ abandoned \subseteq Temps

Live == {i \in Ids : state[i] = "live"}

\* idx_object_bucket_key_active lets row i be live under key k.
Free(i, k) == \A j \in Live \ {i} : key[j] # k

Init ==
    /\ state = [i \in Ids |-> "none"]
    /\ key = [i \in Ids |-> <<>>]
    /\ tmp = [t \in Temps |-> "none"]
    /\ pc = [r \in Requests |-> "idle"]
    /\ from = [r \in Requests |-> <<>>]
    /\ todo = [r \in Requests |-> {}]
    /\ plan = [r \in Requests |-> {}]
    /\ temp = [r \in Requests |-> {}]
    /\ listed = [r \in Requests |-> {}]
    /\ moved = [r \in Requests |-> {}]
    /\ abandoned = {}
-----------------------------------------------------------------------------
(***************************************************************************)
(* Single objects, and delete_folder                                       *)
(***************************************************************************)

Upload(i, k) ==
    /\ state[i] = "none"
    /\ Free(i, k)
    /\ state' = [state EXCEPT ![i] = "live"]
    /\ key' = [key EXCEPT ![i] = k]
    /\ UNCHANGED <<tmp, handlers, history>>

Recycle(i) ==
    /\ state[i] = "live"
    /\ state' = [state EXCEPT ![i] = "bin"]
    /\ UNCHANGED <<key, tmp, handlers, history>>

Restore(i) ==
    /\ state[i] = "bin"
    /\ Free(i, key[i])
    /\ state' = [state EXCEPT ![i] = "live"]
    /\ UNCHANGED <<key, tmp, handlers, history>>

\* By id, whatever deleted_at is by now.
Purge(i) ==
    /\ state[i] \in {"live", "bin"}
    /\ state' = [state EXCEPT ![i] = "gone"]
    /\ key' = [key EXCEPT ![i] = <<>>]
    /\ UNCHANGED <<tmp, handlers, history>>

\* Mutated: the folder's objects are unlinked instead of recycled.
DeleteFolder_Hard(p) ==
    /\ \E i \in Live : Like(p, key[i])
    /\ state' = [i \in Ids |-> IF i \in Live /\ Like(p, key[i]) THEN "gone" ELSE state[i]]
    /\ UNCHANGED <<key, tmp, handlers, history>>

\* soft_delete_prefix: one UPDATE, and so the folders that differ in case too.
DeleteFolder(p) ==
    /\ \E i \in Live : Like(p, key[i])
    /\ state' = [i \in Ids |-> IF i \in Live /\ Like(p, key[i]) THEN "bin" ELSE state[i]]
    /\ UNCHANGED <<key, tmp, handlers, history>>
-----------------------------------------------------------------------------
(***************************************************************************)
(* rename_folder: rename_prefix                                            *)
(***************************************************************************)

Finish(r) ==
    /\ pc' = [pc EXCEPT ![r] = "idle"]
    /\ from' = [from EXCEPT ![r] = <<>>]
    /\ todo' = [todo EXCEPT ![r] = {}]
    /\ plan' = [plan EXCEPT ![r] = {}]
    /\ temp' = [temp EXCEPT ![r] = {}]
    /\ listed' = [listed EXCEPT ![r] = {}]

\* Mutated: the rows are taken as LIKE returned them.
Selected_ByLike(p, i) == i \in Live /\ Like(p, key[i])

\* A row of list_keys_under_prefix that strip_prefix does not refuse.
Selected(p, i) == i \in Live /\ Like(p, key[i]) /\ Under(p, key[i])

\* The listing.  An empty one, or p = q, ends the request.  (Keys bounds how
\* deep a rename may nest.)
RenameList(r, p, q) ==
    /\ pc[r] = "idle"
    /\ p # q
    /\ \E i \in Live : Like(p, key[i])
    /\ \A i \in Ids : Selected(p, i) => Renamed(key[i], p, q) \in Keys
    /\ pc' = [pc EXCEPT ![r] = "check"]
    /\ from' = [from EXCEPT ![r] = p]
    /\ todo' = [todo EXCEPT ![r] = {<<i, Renamed(key[i], p, q)>> : i \in {j \in Ids : Selected(p, j)}}]
    /\ UNCHANGED <<rows, tmp, plan, temp, history>>

\* One row of the loop: "target key already exists" ends the request.
RenameCheck(r, m) ==
    /\ pc[r] = "check" /\ m \in todo[r]
    /\ IF \E j \in Live : key[j] = m[2]
       THEN Finish(r) /\ moved' = [moved EXCEPT ![r] = {}]
       ELSE /\ todo' = [todo EXCEPT ![r] = @ \ {m}]
            /\ plan' = [plan EXCEPT ![r] = @ \cup {m}]
            /\ UNCHANGED <<pc, from, temp, listed, moved>>
    /\ UNCHANGED <<rows, tmp, abandoned>>

\* Mutated: the transaction does not look at deleted_at.
Movable_Any(i) == state[i] # "gone"

\* WHERE id = ? AND deleted_at IS NULL.
Movable(i) == state[i] = "live"

NewKeys(r) ==
    [i \in Ids |-> IF Movable(i) /\ \E k \in Keys : <<i, k>> \in plan[r]
                   THEN CHOOSE k \in Keys : <<i, k>> \in plan[r]
                   ELSE key[i]]

\* Mutated: no unique index.
IndexHolds_Not(names) == names \in [Ids -> Keys \cup {<<>>}]

\* The unique index, once all the rows have moved.  (SQLite asks after each
\* statement, and so fails some transactions that this lets through.)
IndexHolds(names) == \A i, j \in Live : names[i] = names[j] => i = j

\* The transaction with one UPDATE per row, by id.
RenameCommit(r) ==
    /\ pc[r] = "check" /\ todo[r] = {}
    /\ IndexHolds(NewKeys(r))
    /\ key' = NewKeys(r)
    /\ moved' = [q \in Requests |->
                   IF q # r /\ pc[q] = "check"
                   THEN moved[q] \cup {i \in Ids : NewKeys(r)[i] # key[i]}
                   ELSE {}]
    /\ Finish(r)
    /\ UNCHANGED <<state, tmp, abandoned>>
-----------------------------------------------------------------------------
(***************************************************************************)
(* folder_archive: filter_archive_entries, build_archive, TempArchive      *)
(***************************************************************************)

\* filter_archive_entries, for keys without NUL, "." and "..".
Packed(p, i) == Selected(p, i) /\ Leaf(key[i]) # Keep

\* The listing; the archive is created by the blocking worker.
ArchiveList(r, p, t) ==
    /\ pc[r] = "idle"
    /\ tmp[t] = "none"
    /\ \E i \in Ids : Packed(p, i)
    /\ tmp' = [tmp EXCEPT ![t] = "partial"]
    /\ pc' = [pc EXCEPT ![r] = "build"]
    /\ from' = [from EXCEPT ![r] = p]
    /\ todo' = [todo EXCEPT ![r] = {<<i, key[i]>> : i \in {j \in Ids : Packed(p, j)}}]
    /\ listed' = [listed EXCEPT ![r] = todo'[r]]
    /\ temp' = [temp EXCEPT ![r] = {t}]
    /\ UNCHANGED <<rows, plan, moved, abandoned>>

\* Mutated: a blob that is gone is left out.
ArchiveAdd_Skips(r, m) ==
    /\ pc[r] = "build" /\ m \in todo[r]
    /\ todo' = [todo EXCEPT ![r] = @ \ {m}]
    /\ plan' = [plan EXCEPT ![r] = IF state[m[1]] = "gone" THEN @ ELSE @ \cup {m}]
    /\ UNCHANGED <<rows, tmp, pc, from, temp, history>>

\* One entry; a blob that cannot be opened ends the request.
ArchiveAdd(r, m) ==
    /\ pc[r] = "build" /\ m \in todo[r]
    /\ state[m[1]] # "gone"
    /\ todo' = [todo EXCEPT ![r] = @ \ {m}]
    /\ plan' = [plan EXCEPT ![r] = @ \cup {m}]
    /\ UNCHANGED <<rows, tmp, pc, from, temp, history>>

ArchiveBuilt(r) ==
    /\ pc[r] = "build" /\ todo[r] = {}
    /\ tmp' = [t \in Temps |-> IF t \in temp[r] THEN "whole" ELSE tmp[t]]
    /\ pc' = [pc EXCEPT ![r] = "open"]
    /\ UNCHANGED <<rows, from, todo, plan, temp, history>>

\* TempArchive::open and its length: from here on the file has an owner ...
ArchiveOpen(r) ==
    /\ pc[r] = "open"
    /\ pc' = [pc EXCEPT ![r] = "stream"]
    /\ UNCHANGED <<rows, tmp, from, todo, plan, temp, history>>

\* Mutated: the file stays.
Removed_Not(r, t) == t \in temp[r] /\ pc[r] = "idle"

\* ... whose Drop removes it.
Removed(r, t) == t \in temp[r] /\ pc[r] = "stream"

\* The request ends: the body has been sent, a blob is gone, a statement has
\* failed, or the client has.  (The blocking worker of a handler that was cut
\* off goes on, and leaves its file whole or not, which nobody looks at.)
End(r) ==
    /\ pc[r] # "idle"
    /\ tmp' = [t \in Temps |-> IF Removed(r, t) THEN "none" ELSE tmp[t]]
    /\ abandoned' = abandoned \cup (IF pc[r] = "stream" THEN {} ELSE temp[r])
    /\ Finish(r)
    /\ moved' = [moved EXCEPT ![r] = {}]
    /\ UNCHANGED rows

\* The process dies or exits (put_storage_settings calls exit) and starts again:
\* no Drop runs, and nothing at startup looks into tmp/.
Crash ==
    /\ \E r \in Requests : pc[r] # "idle"
    /\ abandoned' = abandoned \cup UNION {temp[r] : r \in Requests}
    /\ pc' = [r \in Requests |-> "idle"]
    /\ from' = [r \in Requests |-> <<>>]
    /\ todo' = [r \in Requests |-> {}]
    /\ plan' = [r \in Requests |-> {}]
    /\ temp' = [r \in Requests |-> {}]
    /\ listed' = [r \in Requests |-> {}]
    /\ moved' = [r \in Requests |-> {}]
    /\ UNCHANGED <<rows, tmp>>
-----------------------------------------------------------------------------
Objects ==
    \/ \E i \in Ids : Recycle(i) \/ Restore(i) \/ Purge(i) \/ \E k \in Keys : Upload(i, k)
    \/ \E p \in FolderPrefixes : DeleteFolder(p)

Handler(r) ==
    \/ \E p, q \in FolderPrefixes : RenameList(r, p, q)
    \/ \E m \in todo[r] : RenameCheck(r, m) \/ ArchiveAdd(r, m)
    \/ \E p \in FolderPrefixes, t \in Temps : ArchiveList(r, p, t)
    \/ RenameCommit(r) \/ ArchiveBuilt(r) \/ ArchiveOpen(r) \/ End(r)

Next == Objects \/ Crash \/ \E r \in Requests : Handler(r)

Spec == Init /\ [][Next]_vars
-----------------------------------------------------------------------------
\* However renames, uploads and restores interleave between the conflict
\* check and the transaction, no two live objects end up under one key.
NamesUnique == \A i, j \in Live : key[i] = key[j] => i = j

\* A rename takes an object out of a folder that it was not asked to rename
\* only if another rename has moved the object since it was listed.
OnlyTheFolderMoves ==
    [][\A r \in Requests, i \in Ids :
         pc[r] = "check" /\ pc'[r] = "idle" /\ key'[i] # key[i] =>
             Under(from[r], key[i]) \/ i \in moved[r]]_vars

\* An object in the recycle bin keeps its name, also while a rename that has
\* listed it goes on: it is restored where it was deleted.
BinKeepsNames ==
    [][\A i \in Ids : state[i] = "bin" /\ state'[i] # "gone" => key'[i] = key[i]]_vars

\* What is sent as an archive holds every object that was in the folder when
\* it was listed, or nothing is sent: objects are purged, deleted and renamed
\* while the worker packs them.
ArchiveWhole ==
    \A r \in Requests : pc[r] = "stream" => plan[r] = listed[r] /\ plan[r] # {}

\* A file under tmp/ belongs to a running request, or to one that failed or was
\* cut off before it had opened its archive, or that a crash ended.  While one
\* is sent it is whole, and no other request's, whose Drop would remove it.
TempsAccounted ==
    \A t \in Temps :
        /\ tmp[t] # "none" => t \in abandoned \/ \E r \in Requests : t \in temp[r]
        /\ \A r \in Requests : pc[r] = "stream" /\ t \in temp[r] =>
             /\ tmp[t] = "whole" /\ t \notin abandoned
             /\ \A q \in Requests \ {r} : t \notin temp[q]
=============================================================================
