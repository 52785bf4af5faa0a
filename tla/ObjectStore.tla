----------------------------- MODULE ObjectStore -----------------------------
(***************************************************************************)
(* One MyS3 node: the `object` and `bucket` tables of metadata.db, the     *)
(* blobs under objects/, and the HTTP handlers and the retention worker    *)
(* that change them.  Every handler is cut at its awaits: one action per   *)
(* SQL statement, committed transaction or file operation, so that two     *)
(* requests, the purge worker and a storage reconcile interleave as they   *)
(* do on the tokio runtime.                                                *)
(*                                                                         *)
(* A file stands for the fresh uuid path that put_chunks draws for an      *)
(* upload, and also for the AUTOINCREMENT id of the row that names it: on  *)
(* one node neither is ever reused, and the row is inserted at most once.  *)
(* Sizes, etags and dates are left out; the quota check is a free choice   *)
(* between passing and failing.                                            *)
(***************************************************************************)
EXTENDS Naturals, FiniteSets

CONSTANTS
    Buckets,        \* bucket ids
    DefaultBucket,  \* the seeded `storage` bucket
    Names,          \* normalized object keys
    Files,          \* uuid file paths, one per upload
    Requests,       \* slots for concurrently running HTTP handlers
    PurgeWorker,    \* run_recycle_purge_worker
    NoFile,
    NoBucket,
    NoKey

ASSUME ConstantsAssumption ==
    /\ DefaultBucket \in Buckets
    /\ PurgeWorker \notin Requests
    /\ NoFile \notin Files
    /\ NoBucket \notin Buckets
    /\ NoKey \notin [bucket : Buckets, name : Names]

Procs == Requests \cup {PurgeWorker}
Keys  == [bucket : Buckets, name : Names]

VARIABLES
    \* metadata.db
    status,    \* the row of a file: "absent", "active", or soft-deleted:
               \* "recycled" (within retention) or "expired" (past it)
    keyOf,     \* (bucket_id, original_filename) the file was uploaded for
    buckets,   \* rows of the bucket table
    putJobs,   \* PUT jobs inserted into replication_outbox for the file
    delJobs,   \* DELETE jobs inserted for the file
    \* objects/
    disk,      \* "none", "partial" (still streaming, or cut off) or "full"
    \* handlers
    pc,        \* the await a handler is at
    file,      \* the blob an upload has created
    victim,    \* the row a handler has read and is about to write
    todo,      \* the rows or paths a loop still has to visit
    target,    \* the bucket delete_bucket works on
    \* history
    spent,     \* uuids already drawn
    dropped    \* blobs whose handler ended without running its cleanup

db       == <<status, keyOf, buckets, putJobs, delJobs>>
handlers == <<pc, file, victim, todo, target>>
vars     == <<status, keyOf, buckets, putJobs, delJobs, disk,
              pc, file, victim, todo, target, spent, dropped>>

UploadPcs    == {"stream", "quota", "find", "recycle", "insert"}
UnlinkPcs    == {"purgeUnlink", "dropUnlink", "tickUnlink"}
ReconcilePcs == {"classify", "sweep"}
RequestPcs   == {"idle", "delete", "restoreCheck", "restoreWrite", "purge",
                 "purgeUnlink", "drop", "dropUnlink"}
                \cup UploadPcs \cup ReconcilePcs
WorkerPcs    == {"idle", "tick", "tickUnlink"}

TypeOK ==
    /\ status \in [Files -> {"absent", "active", "recycled", "expired"}]
    /\ keyOf \in [Files -> Keys \cup {NoKey}]
    /\ buckets \subseteq Buckets
    /\ putJobs \in [Files -> Nat]
    /\ delJobs \in [Files -> Nat]
    /\ disk \in [Files -> {"none", "partial", "full"}]
    /\ pc \in [Procs -> RequestPcs \cup WorkerPcs]
    /\ pc[PurgeWorker] \in WorkerPcs
    /\ \A p \in Requests : pc[p] \in RequestPcs
    /\ file \in [Procs -> Files \cup {NoFile}]
    /\ victim \in [Procs -> Files \cup {NoFile}]
    /\ todo \in [Procs -> SUBSET Files]
    /\ target \in [Procs -> Buckets \cup {NoBucket}]
    /\ spent \subseteq Files
    /\ dropped \subseteq Files

Row(f)      == status[f] # "absent"
Recycled(f) == status[f] \in {"recycled", "expired"}
Rows        == {f \in Files : Row(f)}
ActiveAt(k) == {f \in Files : status[f] = "active" /\ keyOf[f] = k}

\* The partial unique index idx_object_bucket_key_active lets f become active.
\* Mutated: no such index.
KeyIsFree_NoIndex(f) == f \in Files

KeyIsFree(f) == ActiveAt(keyOf[f]) \ {f} = {}

Init ==
    /\ status = [f \in Files |-> "absent"]
    /\ keyOf = [f \in Files |-> NoKey]
    /\ buckets = Buckets
    /\ putJobs = [f \in Files |-> 0]
    /\ delJobs = [f \in Files |-> 0]
    /\ disk = [f \in Files |-> "none"]
    /\ pc = [p \in Procs |-> "idle"]
    /\ file = [p \in Procs |-> NoFile]
    /\ victim = [p \in Procs |-> NoFile]
    /\ todo = [p \in Procs |-> {}]
    /\ target = [p \in Procs |-> NoBucket]
    /\ spent = {}
    /\ dropped = {}

Finish(p) ==
    /\ pc' = [pc EXCEPT ![p] = "idle"]
    /\ file' = [file EXCEPT ![p] = NoFile]
    /\ victim' = [victim EXCEPT ![p] = NoFile]
    /\ todo' = [todo EXCEPT ![p] = {}]
    /\ target' = [target EXCEPT ![p] = NoBucket]

Goto(p, label) ==
    /\ pc' = [pc EXCEPT ![p] = label]
    /\ UNCHANGED <<file, todo, target>>
-----------------------------------------------------------------------------
(***************************************************************************)
(* PUT: put_object_keyed_in_bucket                                         *)
(***************************************************************************)

\* put_chunks draws a uuid and creates the blob.
PutBegin(p, k, f) ==
    /\ pc[p] = "idle"
    /\ k.bucket \in buckets
    /\ f \notin spent
    /\ spent' = spent \cup {f}
    /\ keyOf' = [keyOf EXCEPT ![f] = k]
    /\ disk' = [disk EXCEPT ![f] = "partial"]
    /\ pc' = [pc EXCEPT ![p] = "stream"]
    /\ file' = [file EXCEPT ![p] = f]
    /\ UNCHANGED <<status, buckets, putJobs, delJobs, victim, todo, target, dropped>>

\* The body has been written and hashed.
PutStored(p) ==
    /\ pc[p] = "stream"
    /\ disk' = [disk EXCEPT ![file[p]] = "full"]
    /\ Goto(p, "quota")
    /\ UNCHANGED <<db, victim, spent, dropped>>

\* check_hard_quota passes.
PutQuota(p) ==
    /\ pc[p] = "quota"
    /\ Goto(p, "find")
    /\ UNCHANGED <<db, disk, victim, spent, dropped>>

\* The SELECT of soft_delete_object_by_filename: the row to replace, if any.
PutFind(p) ==
    /\ pc[p] = "find"
    /\ \/ /\ ActiveAt(keyOf[file[p]]) = {}
          /\ Goto(p, "insert")
          /\ UNCHANGED victim
       \/ \E f \in ActiveAt(keyOf[file[p]]) :
             /\ Goto(p, "recycle")
             /\ victim' = [victim EXCEPT ![p] = f]
    /\ UNCHANGED <<db, disk, spent, dropped>>

\* Its UPDATE by id, on the pool and so committed at once: a no-op when the
\* row is gone, and a fresh deleted_at when it is already soft-deleted.
SoftDelete(f) ==
    status' = IF Row(f) THEN [status EXCEPT ![f] = "recycled"] ELSE status

PutRecycle(p) ==
    /\ pc[p] = "recycle"
    /\ SoftDelete(victim[p])
    /\ Goto(p, "insert")
    /\ victim' = [victim EXCEPT ![p] = NoFile]
    /\ UNCHANGED <<keyOf, buckets, putJobs, delJobs, disk, spent, dropped>>

\* The transaction: the row and its PUT jobs.
PutCommit(p) ==
    /\ pc[p] = "insert"
    /\ keyOf[file[p]].bucket \in buckets
    /\ KeyIsFree(file[p])
    /\ status' = [status EXCEPT ![file[p]] = "active"]
    /\ putJobs' = [putJobs EXCEPT ![file[p]] = @ + 1]
    /\ Finish(p)
    /\ UNCHANGED <<keyOf, buckets, delJobs, disk, spent, dropped>>

\* Mutated: the blob of a failed upload is kept.
PutFail_KeepsBlob(p) ==
    /\ pc[p] \in {"quota", "find", "recycle", "insert"}
    /\ Finish(p)
    /\ UNCHANGED <<db, disk, spent, dropped>>

\* Quota exceeded, a constraint or any other database error after the upload:
\* the transaction is rolled back and the blob unlinked.
PutFail(p) ==
    /\ pc[p] \in {"quota", "find", "recycle", "insert"}
    /\ disk' = [disk EXCEPT ![file[p]] = "none"]
    /\ Finish(p)
    /\ UNCHANGED <<db, spent, dropped>>
-----------------------------------------------------------------------------
(***************************************************************************)
(* DELETE: delete_object_keyed_in_bucket (soft delete)                     *)
(***************************************************************************)

\* The web route names the bucket, the S3 route does not and takes any row.
DeleteFind(p, f) ==
    /\ pc[p] = "idle"
    /\ status[f] = "active"
    /\ Goto(p, "delete")
    /\ victim' = [victim EXCEPT ![p] = f]
    /\ UNCHANGED <<db, disk, spent, dropped>>

DeleteWrite(p) ==
    /\ pc[p] = "delete"
    /\ SoftDelete(victim[p])
    /\ Finish(p)
    /\ UNCHANGED <<keyOf, buckets, putJobs, delJobs, disk, spent, dropped>>

\* The retention period of a recycled row passes.
Expire(f) ==
    /\ status[f] = "recycled"
    /\ status' = [status EXCEPT ![f] = "expired"]
    /\ UNCHANGED <<keyOf, buckets, putJobs, delJobs, disk, handlers, spent, dropped>>
-----------------------------------------------------------------------------
(***************************************************************************)
(* Recycle bin: restore_object and hard_purge_object                       *)
(***************************************************************************)

RestoreRead(p, f) ==
    /\ pc[p] = "idle"
    /\ Recycled(f)
    /\ Goto(p, "restoreCheck")
    /\ victim' = [victim EXCEPT ![p] = f]
    /\ UNCHANGED <<db, disk, spent, dropped>>

RestoreCheck(p) ==
    /\ pc[p] = "restoreCheck"
    /\ \/ /\ KeyIsFree(victim[p])
          /\ Goto(p, "restoreWrite")
          /\ UNCHANGED victim
       \/ /\ ~ KeyIsFree(victim[p])
          /\ Finish(p)
    /\ UNCHANGED <<db, disk, spent, dropped>>

\* Mutated: the row is written back even if it was purged meanwhile.
Restorable_Upsert(f) == KeyIsFree(f)

\* UPDATE deleted_at = NULL by id: the unique index may refuse it, and the
\* row may be gone ("object missing after restore").
Restorable(f) == Row(f) /\ KeyIsFree(f)

RestoreWrite(p) ==
    /\ pc[p] = "restoreWrite"
    /\ status' = IF Restorable(victim[p])
                 THEN [status EXCEPT ![victim[p]] = "active"]
                 ELSE status
    /\ Finish(p)
    /\ UNCHANGED <<keyOf, buckets, putJobs, delJobs, disk, spent, dropped>>

\* DELETE /recycle-bin/{id} and POST /recycle-bin/purge: the row is read and
\* must be soft-deleted.
PurgeItem(p, f) ==
    /\ pc[p] = "idle"
    /\ Recycled(f)
    /\ pc' = [pc EXCEPT ![p] = "purge"]
    /\ todo' = [todo EXCEPT ![p] = {f}]
    /\ UNCHANGED <<db, disk, file, victim, target, spent, dropped>>

\* purge_all_recycle_items, for one bucket or for all of them.
PurgeAll(p, B) ==
    /\ pc[p] = "idle"
    /\ pc' = [pc EXCEPT ![p] = "purge"]
    /\ todo' = [todo EXCEPT ![p] = {f \in Files : Recycled(f) /\ keyOf[f].bucket \in B}]
    /\ UNCHANGED <<db, disk, file, victim, target, spent, dropped>>

\* Mutated: the jobs are inserted without looking for the row.
DeleteRow_NoJoin(f) ==
    /\ status' = [status EXCEPT ![f] = "absent"]
    /\ delJobs' = [delJobs EXCEPT ![f] = @ + 1]

\* One transaction: the DELETE jobs (joined with the row) and the row's
\* DELETE by id, whatever its deleted_at is by now.
DeleteRow(f) ==
    /\ status' = [status EXCEPT ![f] = "absent"]
    /\ delJobs' = [delJobs EXCEPT ![f] = IF Row(f) THEN @ + 1 ELSE @]

HardPurge(p, f) ==
    /\ pc[p] \in {"purge", "drop"}
    /\ f \in todo[p]
    /\ Row(f)
    /\ DeleteRow(f)
    /\ pc' = [pc EXCEPT ![p] = IF pc[p] = "purge" THEN "purgeUnlink" ELSE "dropUnlink"]
    /\ victim' = [victim EXCEPT ![p] = f]
    /\ todo' = [todo EXCEPT ![p] = @ \ {f}]
    /\ UNCHANGED <<keyOf, buckets, putJobs, disk, file, target, spent, dropped>>

\* "object not found", or a database error: reported, and the loop goes on.
PurgeSkip(p, f) ==
    /\ pc[p] = "purge"
    /\ f \in todo[p]
    /\ todo' = [todo EXCEPT ![p] = @ \ {f}]
    /\ UNCHANGED <<db, disk, pc, file, victim, target, spent, dropped>>

\* Mutated: the worker's loop ends in the request's.
LoopPc_Mixed(l) == IF l = "dropUnlink" THEN "drop" ELSE "purge"

LoopPc(l) == IF l = "purgeUnlink" THEN "purge" ELSE IF l = "dropUnlink" THEN "drop" ELSE "tick"

PurgeUnlink(p) ==
    /\ pc[p] \in UnlinkPcs
    /\ disk' = [disk EXCEPT ![victim[p]] = "none"]
    /\ pc' = [pc EXCEPT ![p] = LoopPc(@)]
    /\ victim' = [victim EXCEPT ![p] = NoFile]
    /\ UNCHANGED <<db, file, todo, target, spent, dropped>>

PurgeDone(p) ==
    /\ pc[p] \in {"purge", "tick"}
    /\ todo[p] = {}
    /\ Finish(p)
    /\ UNCHANGED <<db, disk, spent, dropped>>
-----------------------------------------------------------------------------
(***************************************************************************)
(* delete_bucket: purge every row of the bucket, then drop the bucket      *)
(***************************************************************************)

DropBegin(p, b) ==
    /\ pc[p] = "idle"
    /\ b \in buckets \ {DefaultBucket}
    /\ pc' = [pc EXCEPT ![p] = "drop"]
    /\ todo' = [todo EXCEPT ![p] = {f \in Rows : keyOf[f].bucket = b}]
    /\ target' = [target EXCEPT ![p] = b]
    /\ UNCHANGED <<db, disk, file, victim, spent, dropped>>

\* Mutated: only the active rows of the bucket are counted.
InUse_ActiveOnly(b) == \E f \in Rows : keyOf[f].bucket = b /\ status[f] = "active"

\* The COUNT of rbac::delete_bucket, and the foreign key object.bucket_id.
InUse(b) == \E f \in Rows : keyOf[f].bucket = b

DropBucket(p) ==
    /\ pc[p] = "drop"
    /\ todo[p] = {}
    /\ buckets' = IF InUse(target[p])
                  THEN buckets
                  ELSE buckets \ {target[p]}
    /\ Finish(p)
    /\ UNCHANGED <<status, keyOf, putJobs, delJobs, disk, spent, dropped>>
-----------------------------------------------------------------------------
(***************************************************************************)
(* purge_once, the tick of the retention worker                            *)
(***************************************************************************)

\* Mutated: the comparison with the cutoff is turned round.
PastRetention_Reversed(f) == status[f] = "recycled"

\* list_expired_deleted_objects: deleted_at <= cutoff.
PastRetention(f) == status[f] = "expired"

TickList ==
    /\ pc[PurgeWorker] = "idle"
    /\ pc' = [pc EXCEPT ![PurgeWorker] = "tick"]
    /\ todo' = [todo EXCEPT ![PurgeWorker] = {f \in Files : PastRetention(f)}]
    /\ UNCHANGED <<db, disk, file, victim, target, spent, dropped>>

\* The row is not looked at again: the listing decides.
TickPurge(f) ==
    /\ pc[PurgeWorker] = "tick"
    /\ f \in todo[PurgeWorker]
    /\ DeleteRow(f)
    /\ pc' = [pc EXCEPT ![PurgeWorker] = "tickUnlink"]
    /\ victim' = [victim EXCEPT ![PurgeWorker] = f]
    /\ todo' = [todo EXCEPT ![PurgeWorker] = @ \ {f}]
    /\ UNCHANGED <<keyOf, buckets, putJobs, disk, file, target, spent, dropped>>

\* A database error ends the tick; the next one lists again.
TickFail ==
    /\ pc[PurgeWorker] = "tick"
    /\ Finish(PurgeWorker)
    /\ UNCHANGED <<db, disk, spent, dropped>>
-----------------------------------------------------------------------------
(***************************************************************************)
(* reconcile::reconcile: list the rows, list the directory, unlink the     *)
(* difference                                                              *)
(***************************************************************************)

\* Mutated: the recycle bin is forgotten.
KnownPaths_ActiveOnly == {f \in Files : status[f] = "active"}

\* list_db_object_files: every row, soft-deleted or not.
KnownPaths == Rows

ReconcileRows(p) ==
    /\ pc[p] = "idle"
    /\ pc' = [pc EXCEPT ![p] = "classify"]
    /\ todo' = [todo EXCEPT ![p] = KnownPaths]
    /\ UNCHANGED <<db, disk, file, victim, target, spent, dropped>>

ReconcileDisk(p) ==
    /\ pc[p] = "classify"
    /\ pc' = [pc EXCEPT ![p] = "sweep"]
    /\ todo' = [todo EXCEPT ![p] = {f \in Files : disk[f] # "none"} \ todo[p]]
    /\ UNCHANGED <<db, disk, file, victim, target, spent, dropped>>

ReconcileUnlink(p, f) ==
    /\ pc[p] = "sweep"
    /\ f \in todo[p]
    /\ disk' = [disk EXCEPT ![f] = "none"]
    /\ todo' = [todo EXCEPT ![p] = @ \ {f}]
    /\ UNCHANGED <<db, pc, file, victim, target, spent, dropped>>

ReconcileDone(p) ==
    /\ pc[p] = "sweep"
    /\ todo[p] = {}
    /\ Finish(p)
    /\ UNCHANGED <<db, disk, spent, dropped>>
-----------------------------------------------------------------------------
(***************************************************************************)
(* Failures                                                                *)
(***************************************************************************)

\* The blob process p is responsible for and has not yet linked or unlinked.
Owned(p) == IF pc[p] \in UploadPcs THEN {file[p]}
            ELSE IF pc[p] \in UnlinkPcs THEN {victim[p]}
            ELSE {}

\* A handler ends where it is: the upload stream fails, a `?` returns a
\* database error, or the client is gone and the handler's future dropped
\* (an open transaction is then rolled back).  No cleanup runs.
CutOff(p) ==
    /\ pc[p] # "idle"
    /\ dropped' = dropped \cup Owned(p)
    /\ Finish(p)
    /\ UNCHANGED <<db, disk, spent>>

\* The process dies and is started again: only the database and the
\* directory survive.
Crash ==
    /\ \E p \in Procs : pc[p] # "idle"
    /\ dropped' = dropped \cup UNION {Owned(p) : p \in Procs}
    /\ pc' = [p \in Procs |-> "idle"]
    /\ file' = [p \in Procs |-> NoFile]
    /\ victim' = [p \in Procs |-> NoFile]
    /\ todo' = [p \in Procs |-> {}]
    /\ target' = [p \in Procs |-> NoBucket]
    /\ UNCHANGED <<db, disk, spent>>
-----------------------------------------------------------------------------
Put(p) ==
    \/ \E k \in Keys, f \in Files : PutBegin(p, k, f)
    \/ PutStored(p) \/ PutQuota(p) \/ PutFind(p) \/ PutRecycle(p)
    \/ PutCommit(p) \/ PutFail(p)

Recycle(p) ==
    \/ \E f \in Files : DeleteFind(p, f) \/ RestoreRead(p, f) \/ PurgeItem(p, f)
    \/ DeleteWrite(p) \/ RestoreCheck(p) \/ RestoreWrite(p)
    \/ \E B \in {Buckets} \cup {{b} : b \in Buckets} : PurgeAll(p, B)
    \/ \E f \in Files : HardPurge(p, f) \/ PurgeSkip(p, f)
    \/ PurgeUnlink(p) \/ PurgeDone(p)

Drop(p) == DropBucket(p) \/ \E b \in Buckets : DropBegin(p, b)

Reconcile(p) ==
    \/ ReconcileRows(p) \/ ReconcileDisk(p) \/ ReconcileDone(p)
    \/ \E f \in Files : ReconcileUnlink(p, f)

Tick ==
    \/ TickList \/ TickFail \/ PurgeUnlink(PurgeWorker) \/ PurgeDone(PurgeWorker)
    \/ \E f \in Files : TickPurge(f)

Next ==
    \/ \E p \in Requests : Put(p) \/ Recycle(p) \/ Drop(p) \/ Reconcile(p) \/ CutOff(p)
    \/ Tick
    \/ \E f \in Files : Expire(f)
    \/ Crash

Spec == Init /\ [][Next]_vars

\* The operator reconciles only while no upload is running, and none starts
\* before the reconcile ends.  Nothing in the code enforces it.
Quiet ==
    (\E p \in Requests : pc[p] \in ReconcilePcs)
        => \A q \in Requests : pc[q] \notin UploadPcs

QuietSpec == Init /\ [][Next /\ Quiet']_vars

\* The tokio interval keeps ticking, and the errors that end a tick are
\* transient: a row that is listed again and again is purged in the end.
FairQuietSpec ==
    /\ QuietSpec
    /\ WF_vars(Tick)
    /\ WF_vars(TickList)
    /\ \A f \in Files : SF_vars(TickPurge(f))
-----------------------------------------------------------------------------
(***************************************************************************)
(* Properties                                                              *)
(***************************************************************************)

\* However PUT, restore and delete interleave, a bucket never holds two
\* active objects under one key (the index of migration 0003 is what makes
\* the loser of two concurrent PUTs or restores fail).
UniqueActiveKey ==
    \A f, g \in Files :
        status[f] = "active" /\ status[g] = "active" /\ keyOf[f] = keyOf[g] => f = g

\* An upload that started before delete_bucket leaves no object in a bucket
\* that is gone.
RowsHaveBucket ==
    \A f \in Files : Row(f) => keyOf[f] \in Keys /\ keyOf[f].bucket \in buckets

\* The transactional outbox: a row has had its PUT jobs inserted exactly once
\* and no DELETE jobs, a purged row exactly one of each, an upload that never
\* committed none, whatever crashes and whoever else purges the same row.
OutboxExact ==
    \A f \in Files :
        IF Row(f) THEN putJobs[f] = 1 /\ delJobs[f] = 0
                  ELSE putJobs[f] = delJobs[f] /\ delJobs[f] \in {0, 1}

\* Every row, active or in the recycle bin, has its whole blob on disk, so
\* that GET and restore can serve it (open_read on record.filepath).
BlobPresent == \A f \in Files : Row(f) => disk[f] = "full"

\* A blob that neither a row nor a running handler accounts for was left by
\* a handler that was cut off: no error path and no purge leaks a file.
NoLeak ==
    \A f \in Files :
        disk[f] # "none" /\ f \notin dropped
            => Row(f) \/ \E p \in Procs : f \in Owned(p)

\* The abstract view of a node: a file whose upload has not committed is a
\* free version, a purged one is gone.
StageOf(f) ==
    CASE status[f] = "active"              -> "live"
      [] Recycled(f)                       -> "bin"
      [] status[f] = "absent" /\ delJobs[f] = 0 -> "free"
      [] OTHER                             -> "gone"

Abstract == INSTANCE Versions WITH
    Versions <- Files,
    stage <- [f \in Files |-> StageOf(f)],
    key <- [f \in Files |-> IF StageOf(f) = "free" THEN NoKey ELSE keyOf[f]]

\* Every step of every handler is a step of the version life cycle or
\* changes nothing a user can see: in particular a purged object never comes
\* back, and a failed or crashed upload never shows.
RefinesVersions == Abstract!Spec

\* A soft-deleted object past its retention does not stay in the recycle bin:
\* it is purged, unless it is restored or deleted anew.
ExpiredLeaves == \A f \in Files : status[f] = "expired" ~> status[f] # "expired"
=============================================================================
