---------------------------- MODULE FoldersProofs ----------------------------
(***************************************************************************)
(* Folder renames and archives are safe against every interleaving, for    *)
(* any sets of keys, objects, requests and temporary files.                *)
(***************************************************************************)
EXTENDS Folders, TLAPS

\* What a rename has listed were rows, and lie in its folder unless they are
\* gone or another rename has moved them since.
PlansOK ==
    \A r \in Requests : pc[r] = "check" => \A m \in todo[r] \cup plan[r] :
        /\ state[m[1]] # "none"
        /\ state[m[1]] = "gone" \/ m[1] \in moved[r] \/ Under(from[r], key[m[1]])

\* A handler that has not begun, or renames, has no archive file; one that has
\* not begun has no rows.
LocalsOK ==
    \A r \in Requests :
        /\ pc[r] = "idle" => todo[r] = {} /\ plan[r] = {}
        /\ pc[r] \in {"idle", "check"} => temp[r] = {}

\* An archive holds, or is still to hold, exactly what was listed.
ArchivesOK ==
    \A r \in Requests : pc[r] \in {"build", "open", "stream"} =>
        /\ listed[r] # {}
        /\ todo[r] \cup plan[r] = listed[r]
        /\ pc[r] # "build" => todo[r] = {}

\* A file under tmp/ is abandoned or has one request, whose it stays and which
\* opens it only when it is whole.
FilesOK ==
    /\ \A t \in Temps : tmp[t] # "none" => t \in abandoned \/ \E r \in Requests : t \in temp[r]
    /\ \A t \in abandoned : tmp[t] # "none"
    /\ \A r \in Requests : \A t \in temp[r] :
         /\ tmp[t] # "none" /\ t \notin abandoned
         /\ pc[r] \in {"open", "stream"} => tmp[t] = "whole"
         /\ \A q \in Requests \ {r} : t \notin temp[q]

\* The inductive invariant.
FInv == TypeOK /\ NamesUnique /\ PlansOK /\ LocalsOK /\ ArchivesOK /\ FilesOK

\* No key is the empty sequence, which stands for the name of no row.
LEMMA NoEmptyKey == <<>> \notin Keys
  BY PathsAssumption

\* What the transaction of a rename writes: a key for every row, the old one
\* for all but live rows of its plan.
LEMMA NewKeysFacts ==
  ASSUME TypeOK, NEW r \in Requests
  PROVE  /\ NewKeys(r) \in [Ids -> Keys \cup {<<>>}]
         /\ \A i \in Ids : state[i] = "live" => NewKeys(r)[i] \in Keys
         /\ \A i \in Ids : state[i] # "live" => NewKeys(r)[i] = key[i]
         /\ \A i \in Ids : NewKeys(r)[i] # key[i] =>
              state[i] = "live" /\ \E k \in Keys : <<i, k>> \in plan[r]
  BY DEF NewKeys, Movable, TypeOK

\* The server starts with no rows and no handlers.
LEMMA InitInv == Init => FInv
<1> SUFFICES ASSUME Init PROVE FInv
  OBVIOUS
<1>1. TypeOK
  BY NoEmptyKey DEF Init, TypeOK
<1> QED BY <1>1 DEF Init, FInv, NamesUnique, Live, PlansOK, LocalsOK, ArchivesOK, FilesOK

\* Uploads, deletes, restores and purges of single objects, and delete_folder.
LEMMA ObjectsStep == FInv /\ Objects => FInv'
<1> SUFFICES ASSUME FInv, Objects PROVE FInv'
  OBVIOUS
<1> USE NoEmptyKey DEF FInv
<1>1. UNCHANGED <<tmp, handlers, history>>
  BY DEF Objects, Recycle, Restore, Purge, Upload, DeleteFolder
<1>2. TypeOK' /\ NamesUnique' /\ PlansOK'
  <2> USE DEF TypeOK, Moves, NamesUnique, PlansOK, Live, handlers, history
  <2>1. CASE \E i \in Ids : Recycle(i)
    BY <1>1, <2>1 DEF Recycle
  <2>2. CASE \E i \in Ids : Restore(i)
    BY <1>1, <2>2 DEF Restore, Free
  <2>3. CASE \E i \in Ids : Purge(i)
    BY <1>1, <2>3 DEF Purge
  <2>4. CASE \E i \in Ids, k \in Keys : Upload(i, k)
    BY <1>1, <2>4 DEF Upload, Free
  <2>5. CASE \E p \in FolderPrefixes : DeleteFolder(p)
    BY <1>1, <2>5 DEF DeleteFolder
  <2> QED BY <2>1, <2>2, <2>3, <2>4, <2>5 DEF Objects
<1>3. LocalsOK' /\ ArchivesOK' /\ FilesOK'
  BY <1>1 DEF LocalsOK, ArchivesOK, FilesOK, handlers, history
<1> QED BY <1>2, <1>3

\* The listing of a rename, and its check of one row.
LEMMA RenameChecksStep ==
  ASSUME FInv, NEW r \in Requests,
         \/ \E p, q \in FolderPrefixes : RenameList(r, p, q)
         \/ \E m \in todo[r] : RenameCheck(r, m)
  PROVE  FInv'
<1> USE NoEmptyKey DEF FInv
<1>1. UNCHANGED <<state, key, tmp, abandoned>>
  BY DEF RenameList, RenameCheck, rows, history
<1>2. CASE \E p, q \in FolderPrefixes : RenameList(r, p, q)
  <2> PICK p \in FolderPrefixes, q \in FolderPrefixes : RenameList(r, p, q)
    BY <1>2
  <2>1. todo'[r] \subseteq Moves /\ \A m \in todo'[r] : state[m[1]] = "live" /\ Under(p, key[m[1]])
    BY DEF RenameList, Selected, Live, Moves, TypeOK
  <2>2. TypeOK'
    BY <1>1, <2>1 DEF RenameList, TypeOK, history
  <2>3. PlansOK'
    BY <1>1, <2>1 DEF RenameList, TypeOK, PlansOK, LocalsOK, history
  <2>4. NamesUnique' /\ LocalsOK' /\ ArchivesOK' /\ FilesOK'
    BY <1>1 DEF RenameList, TypeOK, NamesUnique, Live, LocalsOK, ArchivesOK, FilesOK, history
  <2> QED BY <2>2, <2>3, <2>4
<1>3. CASE \E m \in todo[r] : RenameCheck(r, m)
  <2> PICK m \in todo[r] : RenameCheck(r, m)
    BY <1>3
  <2>1. TypeOK'
    BY <1>1 DEF RenameCheck, Finish, TypeOK
  <2>2. PlansOK'
    BY <1>1 DEF RenameCheck, Finish, TypeOK, PlansOK
  <2>3. NamesUnique' /\ LocalsOK' /\ ArchivesOK' /\ FilesOK'
    BY <1>1 DEF RenameCheck, Finish, TypeOK, NamesUnique, Live, LocalsOK, ArchivesOK, FilesOK
  <2> QED BY <2>1, <2>2, <2>3
<1> QED BY <1>2, <1>3

\* The transaction of a rename: the unique index keeps names unique, and
\* requests that have listed a row it moves are told so by `moved`.
LEMMA RenameCommitStep ==
  ASSUME FInv, NEW r \in Requests, RenameCommit(r)
  PROVE  FInv'
<1> USE NoEmptyKey DEF FInv
<1>1. TypeOK'
  BY NewKeysFacts DEF RenameCommit, Finish, TypeOK
<1>2. NamesUnique'
  BY DEF RenameCommit, NamesUnique, IndexHolds, Live
<1>3. PlansOK'
  <2> SUFFICES ASSUME NEW q \in Requests, pc'[q] = "check", NEW m \in todo'[q] \cup plan'[q]
               PROVE  /\ state'[m[1]] # "none"
                      /\ state'[m[1]] = "gone" \/ m[1] \in moved'[q] \/ Under(from'[q], key'[m[1]])
    BY DEF PlansOK
  <2>1. q # r /\ pc[q] = "check" /\ m \in todo[q] \cup plan[q] /\ from'[q] = from[q] /\ state' = state
    BY DEF RenameCommit, Finish, TypeOK
  <2>2. m[1] \in Ids
    BY <2>1 DEF TypeOK, Moves
  <2>3. moved'[q] = moved[q] \cup {i \in Ids : NewKeys(r)[i] # key[i]} /\ key' = NewKeys(r)
    BY <2>1 DEF RenameCommit
  <2> QED BY <2>1, <2>2, <2>3 DEF PlansOK
<1>4. LocalsOK' /\ ArchivesOK' /\ FilesOK'
  BY DEF RenameCommit, Finish, TypeOK, LocalsOK, ArchivesOK, FilesOK
<1> QED BY <1>1, <1>2, <1>3, <1>4

\* Packing, opening and ending an archive, and ending a rename.
LEMMA ArchiveStep ==
  ASSUME FInv, NEW r \in Requests,
         \/ \E p \in FolderPrefixes, t \in Temps : ArchiveList(r, p, t)
         \/ \E m \in todo[r] : ArchiveAdd(r, m)
         \/ ArchiveBuilt(r) \/ ArchiveOpen(r) \/ End(r)
  PROVE  FInv'
<1> USE NoEmptyKey DEF FInv, rows, history
<1>1. UNCHANGED <<state, key>>
  BY DEF ArchiveList, ArchiveAdd, ArchiveBuilt, ArchiveOpen, End
<1>2. NamesUnique'
  BY <1>1 DEF NamesUnique, Live
<1>3. CASE \E p \in FolderPrefixes, t \in Temps : ArchiveList(r, p, t)
  <2> PICK p \in FolderPrefixes, t \in Temps : ArchiveList(r, p, t)
    BY <1>3
  <2>1. todo'[r] \subseteq Moves /\ todo'[r] # {} /\ listed'[r] = todo'[r]
    <3>1. todo'[r] = {<<i, key[i]>> : i \in {j \in Ids : Packed(p, j)}} /\ listed'[r] = todo'[r]
      BY DEF ArchiveList, TypeOK
    <3>2. PICK i \in Ids : Packed(p, i)
      BY DEF ArchiveList
    <3>3. <<i, key[i]>> \in todo'[r]
      BY <3>1, <3>2
    <3>4. \A j \in Ids : Packed(p, j) => key[j] \in Keys
      BY DEF Packed, Selected, Live, TypeOK
    <3>5. todo'[r] \subseteq Moves
      BY <3>1, <3>4 DEF Moves
    <3>6. todo'[r] # {}
      BY <3>3, Zenon
    <3> QED BY <3>1, <3>5, <3>6
  <2>2. TypeOK'
    BY <1>1, <2>1 DEF ArchiveList, TypeOK
  <2>3. PlansOK' /\ LocalsOK' /\ ArchivesOK'
    BY <1>1, <2>1 DEF ArchiveList, TypeOK, PlansOK, LocalsOK, ArchivesOK
  <2>4. FilesOK'
    BY DEF ArchiveList, TypeOK, LocalsOK, FilesOK
  <2> QED BY <1>2, <2>2, <2>3, <2>4
<1>4. CASE \E m \in todo[r] : ArchiveAdd(r, m)
  <2>1. TypeOK'
    BY <1>1, <1>4 DEF ArchiveAdd, TypeOK
  <2>2. PlansOK' /\ LocalsOK' /\ FilesOK'
    BY <1>1, <1>4 DEF ArchiveAdd, TypeOK, PlansOK, LocalsOK, FilesOK
  <2>3. ArchivesOK'
    BY <1>4 DEF ArchiveAdd, TypeOK, ArchivesOK
  <2> QED BY <1>2, <2>1, <2>2, <2>3
<1>5. CASE ArchiveBuilt(r) \/ ArchiveOpen(r)
  <2>1. TypeOK'
    BY <1>1, <1>5 DEF ArchiveBuilt, ArchiveOpen, TypeOK
  <2>2. PlansOK' /\ LocalsOK' /\ ArchivesOK' /\ FilesOK'
    BY <1>1, <1>5 DEF ArchiveBuilt, ArchiveOpen, TypeOK, PlansOK, LocalsOK, ArchivesOK, FilesOK
  <2> QED BY <1>2, <2>1, <2>2
<1>6. CASE End(r)
  <2>1. TypeOK'
    BY <1>1, <1>6 DEF End, Finish, TypeOK
  <2>2. PlansOK' /\ LocalsOK' /\ ArchivesOK'
    BY <1>1, <1>6 DEF End, Finish, TypeOK, PlansOK, LocalsOK, ArchivesOK
  <2>3. FilesOK'
    BY <1>6 DEF End, Finish, Removed, TypeOK, FilesOK
  <2> QED BY <1>2, <2>1, <2>2, <2>3
<1> QED BY <1>3, <1>4, <1>5, <1>6

\* A crash leaves the files to nobody.
LEMMA CrashStep == FInv /\ Crash => FInv'
<1> SUFFICES ASSUME FInv, Crash PROVE FInv'
  OBVIOUS
<1> USE DEF FInv, rows
<1>1. abandoned' \subseteq Temps
  BY DEF Crash, TypeOK
<1>2. TypeOK'
  BY <1>1 DEF Crash, TypeOK
<1>3. NamesUnique' /\ PlansOK' /\ LocalsOK' /\ ArchivesOK'
  BY DEF Crash, NamesUnique, Live, PlansOK, LocalsOK, ArchivesOK
<1>4. FilesOK'
  BY DEF Crash, FilesOK
<1> QED BY <1>2, <1>3, <1>4

\* Every step keeps the invariant.
LEMMA NextInv == FInv /\ [Next]_vars => FInv'
<1> SUFFICES ASSUME FInv, [Next]_vars PROVE FInv'
  OBVIOUS
<1>1. CASE Objects
  BY <1>1, ObjectsStep
<1>2. CASE \E r \in Requests : Handler(r)
  BY <1>2, RenameChecksStep, RenameCommitStep, ArchiveStep DEF Handler
<1>3. CASE UNCHANGED vars
  BY <1>3 DEF vars, FInv, TypeOK, Moves, NamesUnique, Live, PlansOK, LocalsOK, ArchivesOK, FilesOK
<1> QED BY <1>1, <1>2, <1>3, CrashStep DEF Next

\* The invariant holds in every behaviour.
LEMMA Invariance == Spec => []FInv
  BY InitInv, NextInv, PTL DEF Spec

\* Types; in particular a row has a name exactly as long as it exists.
THEOREM TypeCorrect == Spec => []TypeOK
  BY Invariance, PTL DEF FInv

\* rename_prefix checks each new key and renames later: however uploads,
\* restores and renames come in between, live names stay unique.
THEOREM UniqueNames == Spec => []NamesUnique
  BY Invariance, PTL DEF FInv

\* An archive that is sent is whole.
THEOREM WholeArchives == Spec => []ArchiveWhole
<1>1. FInv => ArchiveWhole
  BY DEF FInv, ArchivesOK, ArchiveWhole
<1> QED BY <1>1, Invariance, PTL

\* A file under tmp/ has a running request, or one that ended before it had
\* opened it or in a crash; what is being sent is whole and nobody else's.
THEOREM AccountedTemps == Spec => []TempsAccounted
<1>1. FInv => TempsAccounted
  BY DEF FInv, FilesOK, TempsAccounted
<1> QED BY <1>1, Invariance, PTL

\* A rename moves objects of its own folder, and what other renames have
\* taken out of it.
THEOREM FolderAlone == Spec => OnlyTheFolderMoves
<1> DEFINE Step == \A r \in Requests, i \in Ids :
                     pc[r] = "check" /\ pc'[r] = "idle" /\ key'[i] # key[i] =>
                         Under(from[r], key[i]) \/ i \in moved[r]
<1>1. ASSUME FInv, Next, NEW r \in Requests, NEW i \in Ids,
             pc[r] = "check", pc'[r] = "idle", key'[i] # key[i]
      PROVE  Under(from[r], key[i]) \/ i \in moved[r]
  <2> USE DEF FInv
  <2>1. PICK q \in Requests : RenameCommit(q)
    BY <1>1 DEF Next, Objects, Handler, Recycle, Restore, Purge, Upload, DeleteFolder, RenameList,
                RenameCheck, ArchiveList, ArchiveAdd, ArchiveBuilt, ArchiveOpen, End, Crash, rows, handlers
  <2>2. q = r
    BY <1>1, <2>1 DEF RenameCommit, Finish, TypeOK
  <2>3. state[i] = "live" /\ \E k \in Keys : <<i, k>> \in plan[r]
    BY <1>1, <2>1, <2>2, NewKeysFacts DEF RenameCommit
  <2>4. PICK k \in Keys : <<i, k>> \in plan[r]
    BY <2>3
  <2> QED BY <1>1, <2>3, <2>4 DEF PlansOK
<1>2. FInv /\ [Next]_vars => [Step]_vars
  BY <1>1
<1> QED BY <1>2, Invariance, PTL DEF Spec, OnlyTheFolderMoves

\* What is restored from the recycle bin is restored where it was deleted.
THEOREM NamesInBin == Spec => BinKeepsNames
<1> DEFINE Step == \A i \in Ids : state[i] = "bin" /\ state'[i] # "gone" => key'[i] = key[i]
<1>1. ASSUME FInv, Next, NEW i \in Ids, state[i] = "bin", state'[i] # "gone"
      PROVE  key'[i] = key[i]
  <2> USE DEF FInv
  <2>1. CASE Objects
    BY <1>1, <2>1 DEF Objects, Recycle, Restore, Purge, Upload, DeleteFolder, TypeOK
  <2>2. CASE \E r \in Requests : RenameCommit(r)
    BY <1>1, <2>2, NewKeysFacts DEF RenameCommit
  <2>3. CASE UNCHANGED key
    BY <2>3
  <2> QED BY <1>1, <2>1, <2>2, <2>3 DEF Next, Handler, RenameList, RenameCheck, ArchiveList,
             ArchiveAdd, ArchiveBuilt, ArchiveOpen, End, Crash, rows
<1>2. FInv /\ [Next]_vars => [Step]_vars
  BY <1>1
<1> QED BY <1>2, Invariance, PTL DEF Spec, BinKeepsNames
=============================================================================
