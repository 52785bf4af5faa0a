-------------------------- MODULE ObjectStoreProofs --------------------------
(***************************************************************************)
(* Proofs about ObjectStore for any number of buckets, keys, uploads and   *)
(* concurrently running requests, and about the clock of its purge worker, *)
(* module Retention, for any day length and any retention.                 *)
(***************************************************************************)
EXTENDS ObjectStore, Retention, TLAPS

\* A running upload works on a blob of its own that no row names yet and for
\* which no job was ever inserted; a uuid that was not drawn has left no trace.
UploadsOK ==
    /\ \A p \in Procs : pc[p] \in UploadPcs =>
          /\ file[p] \in spent
          /\ status[file[p]] = "absent"
          /\ putJobs[file[p]] = 0
          /\ keyOf[file[p]] \in Keys
    /\ \A p, q \in Procs :
          pc[p] \in UploadPcs /\ pc[q] \in UploadPcs /\ file[p] = file[q] => p = q
    /\ \A f \in Files : f \notin spent =>
          status[f] = "absent" /\ putJobs[f] = 0 /\ disk[f] = "none"

\* Whatever a purge still has to visit was once a row, and a blob about to be
\* unlinked by a purge has no row any more: no upload can be working on it.
PurgePcs == {"purge", "drop", "tick"} \cup UnlinkPcs

PurgesOK ==
    /\ \A p \in Procs : pc[p] \in PurgePcs => \A f \in todo[p] : putJobs[f] = 1
    /\ \A p \in Procs : pc[p] \in UnlinkPcs =>
          /\ victim[p] \in Files
          /\ status[victim[p]] = "absent"
          /\ putJobs[victim[p]] = 1

\* The inductive invariant of Spec.
SInv ==
    /\ TypeOK
    /\ UniqueActiveKey
    /\ RowsHaveBucket
    /\ OutboxExact
    /\ UploadsOK
    /\ PurgesOK
    /\ NoLeak

\* Nothing has been drawn, nothing runs: the invariant holds initially.
LEMMA InitSInv == Init => SInv
  BY ConstantsAssumption
     DEF Init, SInv, TypeOK, UniqueActiveKey, RowsHaveBucket, OutboxExact, UploadsOK, PurgesOK, NoLeak,
         Row, Procs, Keys, RequestPcs, WorkerPcs, UploadPcs, UnlinkPcs, PurgePcs, ReconcilePcs

\* The steps of an upload.
LEMMA PutSInv ==
  ASSUME SInv, NEW p \in Requests, Put(p)
  PROVE  SInv'
<1> USE ConstantsAssumption DEF Procs, Row
<1>1. CASE \E k \in Keys, f \in Files : PutBegin(p, k, f)
  <2> USE <1>1 DEF PutBegin
  <2>1. TypeOK'
    BY DEF SInv, TypeOK, RequestPcs, UploadPcs, ReconcilePcs
  <2>2. UniqueActiveKey' /\ RowsHaveBucket' /\ OutboxExact'
    BY DEF SInv, TypeOK, UniqueActiveKey, RowsHaveBucket, OutboxExact, UploadsOK
  <2>3. UploadsOK'
    BY DEF SInv, TypeOK, UploadsOK, UploadPcs
  <2>4. NoLeak'
    BY DEF SInv, TypeOK, NoLeak, Owned, UploadPcs, UnlinkPcs, UploadsOK
  <2>5. PurgesOK'
    BY DEF SInv, TypeOK, OutboxExact, UploadsOK, PurgesOK, UploadPcs, UnlinkPcs, PurgePcs
  <2> QED BY <2>1, <2>2, <2>3, <2>4, <2>5 DEF SInv
<1>2. CASE PutStored(p)
  <2> USE <1>2 DEF PutStored, Goto, db
  <2>1. TypeOK'
    BY DEF SInv, TypeOK, RequestPcs, UploadPcs, ReconcilePcs
  <2>2. UniqueActiveKey' /\ RowsHaveBucket' /\ OutboxExact'
    BY DEF SInv, TypeOK, UniqueActiveKey, RowsHaveBucket, OutboxExact
  <2>3. UploadsOK'
    BY DEF SInv, TypeOK, UploadsOK, UploadPcs
  <2>4. NoLeak'
    BY DEF SInv, TypeOK, NoLeak, Owned, UploadPcs, UnlinkPcs, UploadsOK
  <2>5. PurgesOK'
    BY DEF SInv, TypeOK, OutboxExact, UploadsOK, PurgesOK, UploadPcs, UnlinkPcs, PurgePcs
  <2> QED BY <2>1, <2>2, <2>3, <2>4, <2>5 DEF SInv
<1>3. CASE PutQuota(p)
  <2> USE <1>3 DEF PutQuota, Goto, db
  <2>1. TypeOK'
    BY DEF SInv, TypeOK, RequestPcs, UploadPcs, ReconcilePcs
  <2>2. UniqueActiveKey' /\ RowsHaveBucket' /\ OutboxExact'
    BY DEF SInv, TypeOK, UniqueActiveKey, RowsHaveBucket, OutboxExact
  <2>3. UploadsOK'
    BY DEF SInv, TypeOK, UploadsOK, UploadPcs
  <2>4. NoLeak'
    BY DEF SInv, TypeOK, NoLeak, Owned, UploadPcs, UnlinkPcs
  <2>5. PurgesOK'
    BY DEF SInv, TypeOK, OutboxExact, UploadsOK, PurgesOK, UploadPcs, UnlinkPcs, PurgePcs
  <2> QED BY <2>1, <2>2, <2>3, <2>4, <2>5 DEF SInv
<1>4. CASE PutFind(p)
  <2> USE <1>4 DEF PutFind, ActiveAt, Goto, db
  <2>1. TypeOK'
    BY DEF SInv, TypeOK, RequestPcs, UploadPcs, ReconcilePcs
  <2>2. UniqueActiveKey' /\ RowsHaveBucket' /\ OutboxExact'
    BY DEF SInv, TypeOK, UniqueActiveKey, RowsHaveBucket, OutboxExact
  <2>3. UploadsOK'
    BY DEF SInv, TypeOK, UploadsOK, UploadPcs
  <2>4. NoLeak'
    BY DEF SInv, TypeOK, NoLeak, Owned, UploadPcs, UnlinkPcs
  <2>5. PurgesOK'
    BY DEF SInv, TypeOK, OutboxExact, UploadsOK, PurgesOK, UploadPcs, UnlinkPcs, PurgePcs
  <2> QED BY <2>1, <2>2, <2>3, <2>4, <2>5 DEF SInv
<1>5. CASE PutRecycle(p)
  <2> USE <1>5 DEF PutRecycle, SoftDelete, Goto
  <2>1. TypeOK'
    BY DEF SInv, TypeOK, RequestPcs, UploadPcs, ReconcilePcs
  <2>2. UniqueActiveKey' /\ RowsHaveBucket' /\ OutboxExact'
    BY DEF SInv, TypeOK, UniqueActiveKey, RowsHaveBucket, OutboxExact
  <2>3. UploadsOK'
    BY DEF SInv, TypeOK, UploadsOK, UploadPcs
  <2>4. NoLeak'
    BY DEF SInv, TypeOK, NoLeak, Owned, UploadPcs, UnlinkPcs
  <2>5. PurgesOK'
    BY DEF SInv, TypeOK, OutboxExact, UploadsOK, PurgesOK, UploadPcs, UnlinkPcs, PurgePcs
  <2> QED BY <2>1, <2>2, <2>3, <2>4, <2>5 DEF SInv
<1>6. CASE PutCommit(p)
  <2> USE <1>6 DEF PutCommit, Finish
  <2> DEFINE f == file[p]
  <2>0. f \in Files /\ status[f] = "absent" /\ putJobs[f] = 0 /\ keyOf[f] \in Keys
    BY DEF SInv, TypeOK, UploadsOK, UploadPcs
  <2>1. TypeOK'
    <3>1. status' \in [Files -> {"absent", "active", "recycled", "expired"}]
      BY DEF SInv, TypeOK
    <3>2. putJobs' \in [Files -> Nat]
      BY <2>0 DEF SInv, TypeOK
    <3> QED BY <3>1, <3>2 DEF SInv, TypeOK, RequestPcs
  <2>2. UniqueActiveKey'
    BY <2>0 DEF SInv, TypeOK, UniqueActiveKey, KeyIsFree, ActiveAt
  <2>3. RowsHaveBucket'
    BY <2>0 DEF SInv, TypeOK, RowsHaveBucket
  <2>4. OutboxExact'
    BY <2>0 DEF SInv, TypeOK, OutboxExact
  <2>5. UploadsOK'
    BY <2>0 DEF SInv, TypeOK, UploadsOK, UploadPcs
  <2>6. NoLeak'
    BY <2>0 DEF SInv, TypeOK, NoLeak, Owned, UploadPcs, UnlinkPcs
  <2>7. PurgesOK'
    BY <2>0 DEF SInv, TypeOK, PurgesOK, UploadPcs, UnlinkPcs, PurgePcs
  <2> QED BY <2>1, <2>2, <2>3, <2>4, <2>5, <2>6, <2>7 DEF SInv
<1>7. CASE PutFail(p)
  <2> USE <1>7 DEF PutFail, Finish, db
  <2>1. TypeOK'
    BY DEF SInv, TypeOK, RequestPcs, UploadPcs, ReconcilePcs
  <2>2. UniqueActiveKey' /\ RowsHaveBucket' /\ OutboxExact'
    BY DEF SInv, TypeOK, UniqueActiveKey, RowsHaveBucket, OutboxExact
  <2>3. UploadsOK'
    BY DEF SInv, TypeOK, UploadsOK, UploadPcs
  <2>4. NoLeak'
    BY DEF SInv, TypeOK, NoLeak, Owned, UploadPcs, UnlinkPcs
  <2>5. PurgesOK'
    BY DEF SInv, TypeOK, OutboxExact, UploadsOK, PurgesOK, UploadPcs, UnlinkPcs, PurgePcs
  <2> QED BY <2>1, <2>2, <2>3, <2>4, <2>5 DEF SInv
<1> QED BY <1>1, <1>2, <1>3, <1>4, <1>5, <1>6, <1>7 DEF Put

\* DELETE, restore and the purges of the recycle bin.
LEMMA RecycleSInv ==
  ASSUME SInv, NEW p \in Requests, Recycle(p)
  PROVE  SInv'
<1> USE ConstantsAssumption DEF Procs, Row
<1>1. CASE \E f \in Files : DeleteFind(p, f)
  <2> USE <1>1 DEF DeleteFind, Goto, db
  <2>1. TypeOK'
    BY DEF SInv, TypeOK, RequestPcs, UploadPcs, ReconcilePcs
  <2>2. UniqueActiveKey' /\ RowsHaveBucket' /\ OutboxExact'
    BY DEF SInv, TypeOK, UniqueActiveKey, RowsHaveBucket, OutboxExact
  <2>3. UploadsOK'
    BY DEF SInv, TypeOK, UploadsOK, UploadPcs
  <2>4. NoLeak'
    BY DEF SInv, TypeOK, NoLeak, Owned, UploadPcs, UnlinkPcs
  <2>5. PurgesOK'
    BY DEF SInv, TypeOK, OutboxExact, UploadsOK, PurgesOK, UploadPcs, UnlinkPcs, PurgePcs
  <2> QED BY <2>1, <2>2, <2>3, <2>4, <2>5 DEF SInv
<1>2. CASE \E f \in Files : RestoreRead(p, f)
  <2> USE <1>2 DEF RestoreRead, Goto, db
  <2>1. TypeOK'
    BY DEF SInv, TypeOK, RequestPcs, UploadPcs, ReconcilePcs
  <2>2. UniqueActiveKey' /\ RowsHaveBucket' /\ OutboxExact'
    BY DEF SInv, TypeOK, UniqueActiveKey, RowsHaveBucket, OutboxExact
  <2>3. UploadsOK'
    BY DEF SInv, TypeOK, UploadsOK, UploadPcs
  <2>4. NoLeak'
    BY DEF SInv, TypeOK, NoLeak, Owned, UploadPcs, UnlinkPcs
  <2>5. PurgesOK'
    BY DEF SInv, TypeOK, OutboxExact, UploadsOK, PurgesOK, UploadPcs, UnlinkPcs, PurgePcs
  <2> QED BY <2>1, <2>2, <2>3, <2>4, <2>5 DEF SInv
<1>3. CASE \E f \in Files : PurgeItem(p, f)
  <2> USE <1>3 DEF PurgeItem, Recycled, db
  <2>1. TypeOK'
    BY DEF SInv, TypeOK, RequestPcs, UploadPcs, ReconcilePcs
  <2>2. UniqueActiveKey' /\ RowsHaveBucket' /\ OutboxExact'
    BY DEF SInv, TypeOK, UniqueActiveKey, RowsHaveBucket, OutboxExact
  <2>3. UploadsOK'
    BY DEF SInv, TypeOK, UploadsOK, UploadPcs
  <2>4. NoLeak'
    BY DEF SInv, TypeOK, NoLeak, Owned, UploadPcs, UnlinkPcs
  <2>5. PurgesOK'
    BY DEF SInv, TypeOK, OutboxExact, UploadsOK, PurgesOK, UploadPcs, UnlinkPcs, PurgePcs
  <2> QED BY <2>1, <2>2, <2>3, <2>4, <2>5 DEF SInv
<1>4. CASE DeleteWrite(p)
  <2> USE <1>4 DEF DeleteWrite, SoftDelete, Finish
  <2>1. TypeOK'
    BY DEF SInv, TypeOK, RequestPcs, UploadPcs, ReconcilePcs
  <2>2. UniqueActiveKey' /\ RowsHaveBucket' /\ OutboxExact'
    BY DEF SInv, TypeOK, UniqueActiveKey, RowsHaveBucket, OutboxExact
  <2>3. UploadsOK'
    BY DEF SInv, TypeOK, UploadsOK, UploadPcs
  <2>4. NoLeak'
    BY DEF SInv, TypeOK, NoLeak, Owned, UploadPcs, UnlinkPcs
  <2>5. PurgesOK'
    BY DEF SInv, TypeOK, OutboxExact, UploadsOK, PurgesOK, UploadPcs, UnlinkPcs, PurgePcs
  <2> QED BY <2>1, <2>2, <2>3, <2>4, <2>5 DEF SInv
<1>5. CASE RestoreCheck(p)
  <2> USE <1>5 DEF RestoreCheck, Goto, Finish, db
  <2>1. TypeOK'
    BY DEF SInv, TypeOK, RequestPcs, UploadPcs, ReconcilePcs
  <2>2. UniqueActiveKey' /\ RowsHaveBucket' /\ OutboxExact'
    BY DEF SInv, TypeOK, UniqueActiveKey, RowsHaveBucket, OutboxExact
  <2>3. UploadsOK'
    BY DEF SInv, TypeOK, UploadsOK, UploadPcs
  <2>4. NoLeak'
    BY DEF SInv, TypeOK, NoLeak, Owned, UploadPcs, UnlinkPcs
  <2>5. PurgesOK'
    BY DEF SInv, TypeOK, OutboxExact, UploadsOK, PurgesOK, UploadPcs, UnlinkPcs, PurgePcs
  <2> QED BY <2>1, <2>2, <2>3, <2>4, <2>5 DEF SInv
<1>6. CASE RestoreWrite(p)
  <2> USE <1>6 DEF RestoreWrite, Restorable, KeyIsFree, ActiveAt, Finish
  <2>1. TypeOK'
    BY DEF SInv, TypeOK, RequestPcs, UploadPcs, ReconcilePcs
  <2>2. UniqueActiveKey' /\ RowsHaveBucket' /\ OutboxExact'
    BY DEF SInv, TypeOK, UniqueActiveKey, RowsHaveBucket, OutboxExact
  <2>3. UploadsOK'
    BY DEF SInv, TypeOK, UploadsOK, UploadPcs
  <2>4. NoLeak'
    BY DEF SInv, TypeOK, NoLeak, Owned, UploadPcs, UnlinkPcs
  <2>5. PurgesOK'
    BY DEF SInv, TypeOK, OutboxExact, UploadsOK, PurgesOK, UploadPcs, UnlinkPcs, PurgePcs
  <2> QED BY <2>1, <2>2, <2>3, <2>4, <2>5 DEF SInv
<1>7. CASE \E B \in {Buckets} \cup {{b} : b \in Buckets} : PurgeAll(p, B)
  <2> USE <1>7 DEF PurgeAll, Recycled, db
  <2>1. TypeOK'
    BY DEF SInv, TypeOK, RequestPcs, UploadPcs, ReconcilePcs
  <2>2. UniqueActiveKey' /\ RowsHaveBucket' /\ OutboxExact'
    BY DEF SInv, TypeOK, UniqueActiveKey, RowsHaveBucket, OutboxExact
  <2>3. UploadsOK'
    BY DEF SInv, TypeOK, UploadsOK, UploadPcs
  <2>4. NoLeak'
    BY DEF SInv, TypeOK, NoLeak, Owned, UploadPcs, UnlinkPcs
  <2>5. PurgesOK'
    BY DEF SInv, TypeOK, OutboxExact, UploadsOK, PurgesOK, UploadPcs, UnlinkPcs, PurgePcs
  <2> QED BY <2>1, <2>2, <2>3, <2>4, <2>5 DEF SInv
<1>8. CASE \E f \in Files : HardPurge(p, f)
  <2> USE <1>8 DEF HardPurge, DeleteRow
  <2>1. TypeOK'
    BY DEF SInv, TypeOK, RequestPcs, UploadPcs, ReconcilePcs
  <2>2. UniqueActiveKey' /\ RowsHaveBucket' /\ OutboxExact'
    BY DEF SInv, TypeOK, UniqueActiveKey, RowsHaveBucket, OutboxExact
  <2>3. UploadsOK'
    BY DEF SInv, TypeOK, UploadsOK, UploadPcs
  <2>4. NoLeak'
    BY DEF SInv, TypeOK, NoLeak, Owned, UploadPcs, UnlinkPcs
  <2>5. PurgesOK'
    BY DEF SInv, TypeOK, OutboxExact, UploadsOK, PurgesOK, UploadPcs, UnlinkPcs, PurgePcs
  <2> QED BY <2>1, <2>2, <2>3, <2>4, <2>5 DEF SInv
<1>9. CASE \E f \in Files : PurgeSkip(p, f)
  <2> USE <1>9 DEF PurgeSkip, db
  <2>1. TypeOK'
    BY DEF SInv, TypeOK, RequestPcs, UploadPcs, ReconcilePcs
  <2>2. UniqueActiveKey' /\ RowsHaveBucket' /\ OutboxExact'
    BY DEF SInv, TypeOK, UniqueActiveKey, RowsHaveBucket, OutboxExact
  <2>3. UploadsOK'
    BY DEF SInv, TypeOK, UploadsOK, UploadPcs
  <2>4. NoLeak'
    BY DEF SInv, TypeOK, NoLeak, Owned, UploadPcs, UnlinkPcs
  <2>5. PurgesOK'
    BY DEF SInv, TypeOK, OutboxExact, UploadsOK, PurgesOK, UploadPcs, UnlinkPcs, PurgePcs
  <2> QED BY <2>1, <2>2, <2>3, <2>4, <2>5 DEF SInv
<1>10. CASE PurgeUnlink(p)
  <2> USE <1>10 DEF PurgeUnlink, LoopPc, UnlinkPcs, db
  <2>1. TypeOK'
    BY DEF SInv, TypeOK, RequestPcs, UploadPcs, ReconcilePcs, WorkerPcs
  <2>2. UniqueActiveKey' /\ RowsHaveBucket' /\ OutboxExact'
    BY DEF SInv, TypeOK, UniqueActiveKey, RowsHaveBucket, OutboxExact
  <2>3. UploadsOK'
    BY DEF SInv, TypeOK, UploadsOK, UploadPcs
  <2>4. NoLeak'
    BY DEF SInv, TypeOK, NoLeak, Owned, UploadPcs, UnlinkPcs
  <2>5. PurgesOK'
    BY DEF SInv, TypeOK, OutboxExact, UploadsOK, PurgesOK, UploadPcs, UnlinkPcs, PurgePcs
  <2> QED BY <2>1, <2>2, <2>3, <2>4, <2>5 DEF SInv
<1>11. CASE PurgeDone(p)
  <2> USE <1>11 DEF PurgeDone, Finish, db
  <2>1. TypeOK'
    BY DEF SInv, TypeOK, RequestPcs, UploadPcs, ReconcilePcs
  <2>2. UniqueActiveKey' /\ RowsHaveBucket' /\ OutboxExact'
    BY DEF SInv, TypeOK, UniqueActiveKey, RowsHaveBucket, OutboxExact
  <2>3. UploadsOK'
    BY DEF SInv, TypeOK, UploadsOK, UploadPcs
  <2>4. NoLeak'
    BY DEF SInv, TypeOK, NoLeak, Owned, UploadPcs, UnlinkPcs
  <2>5. PurgesOK'
    BY DEF SInv, TypeOK, OutboxExact, UploadsOK, PurgesOK, UploadPcs, UnlinkPcs, PurgePcs
  <2> QED BY <2>1, <2>2, <2>3, <2>4, <2>5 DEF SInv
<1> QED BY <1>1, <1>2, <1>3, <1>4, <1>5, <1>6, <1>7, <1>8, <1>9, <1>10, <1>11 DEF Recycle

\* delete_bucket.
LEMMA DropSInv ==
  ASSUME SInv, NEW p \in Requests, Drop(p)
  PROVE  SInv'
<1> USE ConstantsAssumption DEF Procs, Row
<1>1. CASE \E b \in Buckets : DropBegin(p, b)
  <2> USE <1>1 DEF DropBegin, Rows, db
  <2>1. TypeOK'
    BY DEF SInv, TypeOK, RequestPcs, UploadPcs, ReconcilePcs
  <2>2. UniqueActiveKey' /\ RowsHaveBucket' /\ OutboxExact'
    BY DEF SInv, TypeOK, UniqueActiveKey, RowsHaveBucket, OutboxExact
  <2>3. UploadsOK'
    BY DEF SInv, TypeOK, UploadsOK, UploadPcs
  <2>4. NoLeak'
    BY DEF SInv, TypeOK, NoLeak, Owned, UploadPcs, UnlinkPcs
  <2>5. PurgesOK'
    BY DEF SInv, TypeOK, OutboxExact, UploadsOK, PurgesOK, UploadPcs, UnlinkPcs, PurgePcs
  <2> QED BY <2>1, <2>2, <2>3, <2>4, <2>5 DEF SInv
<1>2. CASE DropBucket(p)
  <2> USE <1>2 DEF DropBucket, InUse, Rows, Finish
  <2>1. TypeOK'
    BY DEF SInv, TypeOK, RequestPcs, UploadPcs, ReconcilePcs
  <2>2. UniqueActiveKey' /\ RowsHaveBucket' /\ OutboxExact'
    BY DEF SInv, TypeOK, UniqueActiveKey, RowsHaveBucket, OutboxExact
  <2>3. UploadsOK'
    BY DEF SInv, TypeOK, UploadsOK, UploadPcs
  <2>4. NoLeak'
    BY DEF SInv, TypeOK, NoLeak, Owned, UploadPcs, UnlinkPcs
  <2>5. PurgesOK'
    BY DEF SInv, TypeOK, OutboxExact, UploadsOK, PurgesOK, UploadPcs, UnlinkPcs, PurgePcs
  <2> QED BY <2>1, <2>2, <2>3, <2>4, <2>5 DEF SInv
<1> QED BY <1>1, <1>2 DEF Drop

\* Storage reconcile.
LEMMA ReconcileSInv ==
  ASSUME SInv, NEW p \in Requests, Reconcile(p)
  PROVE  SInv'
<1> USE ConstantsAssumption DEF Procs, Row
<1>1. CASE ReconcileRows(p)
  <2> USE <1>1 DEF ReconcileRows, KnownPaths, Rows, db
  <2>1. TypeOK'
    BY DEF SInv, TypeOK, RequestPcs, UploadPcs, ReconcilePcs
  <2>2. UniqueActiveKey' /\ RowsHaveBucket' /\ OutboxExact'
    BY DEF SInv, TypeOK, UniqueActiveKey, RowsHaveBucket, OutboxExact
  <2>3. UploadsOK'
    BY DEF SInv, TypeOK, UploadsOK, UploadPcs
  <2>4. NoLeak'
    BY DEF SInv, TypeOK, NoLeak, Owned, UploadPcs, UnlinkPcs
  <2>5. PurgesOK'
    BY DEF SInv, TypeOK, OutboxExact, UploadsOK, PurgesOK, UploadPcs, UnlinkPcs, PurgePcs
  <2> QED BY <2>1, <2>2, <2>3, <2>4, <2>5 DEF SInv
<1>2. CASE ReconcileDisk(p)
  <2> USE <1>2 DEF ReconcileDisk, db
  <2>1. TypeOK'
    BY DEF SInv, TypeOK, RequestPcs, UploadPcs, ReconcilePcs
  <2>2. UniqueActiveKey' /\ RowsHaveBucket' /\ OutboxExact'
    BY DEF SInv, TypeOK, UniqueActiveKey, RowsHaveBucket, OutboxExact
  <2>3. UploadsOK'
    BY DEF SInv, TypeOK, UploadsOK, UploadPcs
  <2>4. NoLeak'
    BY DEF SInv, TypeOK, NoLeak, Owned, UploadPcs, UnlinkPcs
  <2>5. PurgesOK'
    BY DEF SInv, TypeOK, OutboxExact, UploadsOK, PurgesOK, UploadPcs, UnlinkPcs, PurgePcs
  <2> QED BY <2>1, <2>2, <2>3, <2>4, <2>5 DEF SInv
<1>3. CASE \E f \in Files : ReconcileUnlink(p, f)
  <2> USE <1>3 DEF ReconcileUnlink, db
  <2>1. TypeOK'
    BY DEF SInv, TypeOK, RequestPcs, UploadPcs, ReconcilePcs
  <2>2. UniqueActiveKey' /\ RowsHaveBucket' /\ OutboxExact'
    BY DEF SInv, TypeOK, UniqueActiveKey, RowsHaveBucket, OutboxExact
  <2>3. UploadsOK'
    BY DEF SInv, TypeOK, UploadsOK, UploadPcs
  <2>4. NoLeak'
    BY DEF SInv, TypeOK, NoLeak, Owned, UploadPcs, UnlinkPcs
  <2>5. PurgesOK'
    BY DEF SInv, TypeOK, OutboxExact, UploadsOK, PurgesOK, UploadPcs, UnlinkPcs, PurgePcs
  <2> QED BY <2>1, <2>2, <2>3, <2>4, <2>5 DEF SInv
<1>4. CASE ReconcileDone(p)
  <2> USE <1>4 DEF ReconcileDone, Finish, db
  <2>1. TypeOK'
    BY DEF SInv, TypeOK, RequestPcs, UploadPcs, ReconcilePcs
  <2>2. UniqueActiveKey' /\ RowsHaveBucket' /\ OutboxExact'
    BY DEF SInv, TypeOK, UniqueActiveKey, RowsHaveBucket, OutboxExact
  <2>3. UploadsOK'
    BY DEF SInv, TypeOK, UploadsOK, UploadPcs
  <2>4. NoLeak'
    BY DEF SInv, TypeOK, NoLeak, Owned, UploadPcs, UnlinkPcs
  <2>5. PurgesOK'
    BY DEF SInv, TypeOK, OutboxExact, UploadsOK, PurgesOK, UploadPcs, UnlinkPcs, PurgePcs
  <2> QED BY <2>1, <2>2, <2>3, <2>4, <2>5 DEF SInv
<1> QED BY <1>1, <1>2, <1>3, <1>4 DEF Reconcile

\* The retention worker.
LEMMA TickSInv ==
  ASSUME SInv, Tick
  PROVE  SInv'
<1> USE ConstantsAssumption DEF Procs, Row
<1>1. CASE TickList
  <2> USE <1>1 DEF TickList, PastRetention, db
  <2>1. TypeOK'
    BY DEF SInv, TypeOK, RequestPcs, UploadPcs, ReconcilePcs, WorkerPcs
  <2>2. UniqueActiveKey' /\ RowsHaveBucket' /\ OutboxExact'
    BY DEF SInv, TypeOK, UniqueActiveKey, RowsHaveBucket, OutboxExact
  <2>3. UploadsOK'
    BY DEF SInv, TypeOK, UploadsOK, UploadPcs
  <2>4. NoLeak'
    BY DEF SInv, TypeOK, NoLeak, Owned, UploadPcs, UnlinkPcs
  <2>5. PurgesOK'
    BY DEF SInv, TypeOK, OutboxExact, UploadsOK, PurgesOK, UploadPcs, UnlinkPcs, PurgePcs
  <2> QED BY <2>1, <2>2, <2>3, <2>4, <2>5 DEF SInv
<1>2. CASE \E f \in Files : TickPurge(f)
  <2> USE <1>2 DEF TickPurge, DeleteRow
  <2>1. TypeOK'
    BY DEF SInv, TypeOK, RequestPcs, UploadPcs, ReconcilePcs, WorkerPcs
  <2>2. UniqueActiveKey' /\ RowsHaveBucket' /\ OutboxExact'
    BY DEF SInv, TypeOK, UniqueActiveKey, RowsHaveBucket, OutboxExact
  <2>3. UploadsOK'
    BY DEF SInv, TypeOK, UploadsOK, UploadPcs
  <2>4. NoLeak'
    BY DEF SInv, TypeOK, NoLeak, Owned, UploadPcs, UnlinkPcs
  <2>5. PurgesOK'
    BY DEF SInv, TypeOK, OutboxExact, UploadsOK, PurgesOK, UploadPcs, UnlinkPcs, PurgePcs
  <2> QED BY <2>1, <2>2, <2>3, <2>4, <2>5 DEF SInv
<1>3. CASE TickFail
  <2> USE <1>3 DEF TickFail, Finish, db
  <2>1. TypeOK'
    BY DEF SInv, TypeOK, RequestPcs, UploadPcs, ReconcilePcs, WorkerPcs
  <2>2. UniqueActiveKey' /\ RowsHaveBucket' /\ OutboxExact'
    BY DEF SInv, TypeOK, UniqueActiveKey, RowsHaveBucket, OutboxExact
  <2>3. UploadsOK'
    BY DEF SInv, TypeOK, UploadsOK, UploadPcs
  <2>4. NoLeak'
    BY DEF SInv, TypeOK, NoLeak, Owned, UploadPcs, UnlinkPcs
  <2>5. PurgesOK'
    BY DEF SInv, TypeOK, OutboxExact, UploadsOK, PurgesOK, UploadPcs, UnlinkPcs, PurgePcs
  <2> QED BY <2>1, <2>2, <2>3, <2>4, <2>5 DEF SInv
<1>4. CASE PurgeUnlink(PurgeWorker)
  <2> USE <1>4 DEF PurgeUnlink, LoopPc, UnlinkPcs, db
  <2>1. TypeOK'
    BY DEF SInv, TypeOK, RequestPcs, UploadPcs, ReconcilePcs, WorkerPcs
  <2>2. UniqueActiveKey' /\ RowsHaveBucket' /\ OutboxExact'
    BY DEF SInv, TypeOK, UniqueActiveKey, RowsHaveBucket, OutboxExact
  <2>3. UploadsOK'
    BY DEF SInv, TypeOK, UploadsOK, UploadPcs
  <2>4. NoLeak'
    BY DEF SInv, TypeOK, NoLeak, Owned, UploadPcs, UnlinkPcs
  <2>5. PurgesOK'
    BY DEF SInv, TypeOK, OutboxExact, UploadsOK, PurgesOK, UploadPcs, UnlinkPcs, PurgePcs
  <2> QED BY <2>1, <2>2, <2>3, <2>4, <2>5 DEF SInv
<1>5. CASE PurgeDone(PurgeWorker)
  <2> USE <1>5 DEF PurgeDone, Finish, db
  <2>1. TypeOK'
    BY DEF SInv, TypeOK, RequestPcs, UploadPcs, ReconcilePcs, WorkerPcs
  <2>2. UniqueActiveKey' /\ RowsHaveBucket' /\ OutboxExact'
    BY DEF SInv, TypeOK, UniqueActiveKey, RowsHaveBucket, OutboxExact
  <2>3. UploadsOK'
    BY DEF SInv, TypeOK, UploadsOK, UploadPcs
  <2>4. NoLeak'
    BY DEF SInv, TypeOK, NoLeak, Owned, UploadPcs, UnlinkPcs
  <2>5. PurgesOK'
    BY DEF SInv, TypeOK, OutboxExact, UploadsOK, PurgesOK, UploadPcs, UnlinkPcs, PurgePcs
  <2> QED BY <2>1, <2>2, <2>3, <2>4, <2>5 DEF SInv
<1> QED BY <1>1, <1>2, <1>3, <1>4, <1>5 DEF Tick

\* Retention passing, handlers cut off, the process dying.
LEMMA FailureSInv ==
  ASSUME SInv,
         (\E f \in Files : Expire(f)) \/ (\E p \in Requests : CutOff(p)) \/ Crash
  PROVE  SInv'
<1> USE ConstantsAssumption DEF Procs, Row
<1>1. CASE \E f \in Files : Expire(f)
  <2> USE <1>1 DEF Expire, handlers
  <2>1. TypeOK'
    BY DEF SInv, TypeOK
  <2>2. UniqueActiveKey' /\ RowsHaveBucket' /\ OutboxExact'
    BY DEF SInv, TypeOK, UniqueActiveKey, RowsHaveBucket, OutboxExact
  <2>3. UploadsOK'
    BY DEF SInv, TypeOK, UploadsOK
  <2>4. NoLeak'
    BY DEF SInv, TypeOK, NoLeak, Owned
  <2>5. PurgesOK'
    BY DEF SInv, TypeOK, OutboxExact, UploadsOK, PurgesOK, UploadPcs, UnlinkPcs, PurgePcs
  <2> QED BY <2>1, <2>2, <2>3, <2>4, <2>5 DEF SInv
<1>2. CASE \E p \in Requests : CutOff(p)
  <2> USE <1>2 DEF CutOff, Finish, db
  <2>1. TypeOK'
    BY DEF SInv, TypeOK, Owned, RequestPcs, UploadsOK, PurgesOK
  <2>2. UniqueActiveKey' /\ RowsHaveBucket' /\ OutboxExact'
    BY DEF SInv, TypeOK, UniqueActiveKey, RowsHaveBucket, OutboxExact
  <2>3. UploadsOK'
    BY DEF SInv, TypeOK, UploadsOK, UploadPcs
  <2>4. NoLeak'
    BY DEF SInv, TypeOK, NoLeak, Owned, UploadPcs, UnlinkPcs
  <2>5. PurgesOK'
    BY DEF SInv, TypeOK, OutboxExact, UploadsOK, PurgesOK, UploadPcs, UnlinkPcs, PurgePcs
  <2> QED BY <2>1, <2>2, <2>3, <2>4, <2>5 DEF SInv
<1>3. CASE Crash
  <2> USE <1>3 DEF Crash, db
  <2>1. TypeOK'
    BY DEF SInv, TypeOK, Owned, RequestPcs, WorkerPcs, UploadsOK, PurgesOK
  <2>2. UniqueActiveKey' /\ RowsHaveBucket' /\ OutboxExact'
    BY DEF SInv, TypeOK, UniqueActiveKey, RowsHaveBucket, OutboxExact
  <2>3. UploadsOK'
    BY DEF SInv, TypeOK, UploadsOK, UploadPcs
  <2>4. NoLeak'
    BY DEF SInv, TypeOK, NoLeak
  <2>5. PurgesOK'
    BY DEF SInv, TypeOK, OutboxExact, UploadsOK, PurgesOK, UploadPcs, UnlinkPcs, PurgePcs
  <2> QED BY <2>1, <2>2, <2>3, <2>4, <2>5 DEF SInv
<1> QED BY <1>1, <1>2, <1>3

\* Every step keeps the invariant.
LEMMA NextSInv == SInv /\ [Next]_vars => SInv'
<1> SUFFICES ASSUME SInv, [Next]_vars PROVE SInv'
  OBVIOUS
<1>1. CASE \E p \in Requests : Put(p) \/ Recycle(p) \/ Drop(p) \/ Reconcile(p)
  BY <1>1, PutSInv, RecycleSInv, DropSInv, ReconcileSInv
<1>2. CASE Tick
  BY <1>2, TickSInv
<1>3. CASE (\E f \in Files : Expire(f)) \/ (\E p \in Requests : CutOff(p)) \/ Crash
  BY <1>3, FailureSInv
<1>4. CASE UNCHANGED vars
  <2> USE <1>4 DEF vars
  <2>1. TypeOK'
    BY DEF SInv, TypeOK
  <2>2. UniqueActiveKey' /\ RowsHaveBucket' /\ OutboxExact'
    BY DEF SInv, UniqueActiveKey, RowsHaveBucket, OutboxExact, Row
  <2>3. UploadsOK' /\ PurgesOK' /\ NoLeak'
    BY DEF SInv, UploadsOK, PurgesOK, NoLeak, Owned, Row
  <2> QED BY <2>1, <2>2, <2>3 DEF SInv
<1> QED BY <1>1, <1>2, <1>3, <1>4 DEF Next

\* The inductive invariant holds in every reachable state.
THEOREM SpecSInv == Spec => []SInv
  BY InitSInv, NextSInv, PTL DEF Spec

\* Every variable keeps its type, and handler and worker their own labels.
THEOREM TypeCorrect == Spec => []TypeOK
<1>1. SInv => TypeOK
  BY DEF SInv
<1> QED BY <1>1, SpecSInv, PTL

\* However PUT, restore and delete interleave, a bucket never holds two active
\* objects under one key.
THEOREM KeysUnique == Spec => []UniqueActiveKey
<1>1. SInv => UniqueActiveKey
  BY DEF SInv
<1> QED BY <1>1, SpecSInv, PTL

\* No object outlives its bucket.
THEOREM NoStrayRows == Spec => []RowsHaveBucket
<1>1. SInv => RowsHaveBucket
  BY DEF SInv
<1> QED BY <1>1, SpecSInv, PTL

\* Row and outbox change together: one PUT per object, one DELETE per purge.
THEOREM OutboxCorrect == Spec => []OutboxExact
<1>1. SInv => OutboxExact
  BY DEF SInv
<1> QED BY <1>1, SpecSInv, PTL

\* Only handlers that were cut off leave blobs behind.
THEOREM LeakFree == Spec => []NoLeak
<1>1. SInv => NoLeak
  BY DEF SInv
<1> QED BY <1>1, SpecSInv, PTL
-----------------------------------------------------------------------------
(***************************************************************************)
(* Refinement: every step of Spec is a step of Versions or a stutter.      *)
(***************************************************************************)

\* A step that leaves rows, keys of rows and DELETE jobs alone is invisible.
LEMMA InvisibleStep ==
  ASSUME TypeOK, UNCHANGED <<status, delJobs>>,
         \A f \in Files : Row(f) \/ delJobs[f] # 0 => keyOf'[f] = keyOf[f]
  PROVE  UNCHANGED Abstract!vars
<1>1. \A f \in Files : StageOf(f)' = StageOf(f)
  BY DEF StageOf, Recycled
<1>2. \A f \in Files : StageOf(f) # "free" => keyOf'[f] = keyOf[f]
  BY DEF TypeOK, StageOf, Recycled, Row
<1> QED BY <1>1, <1>2 DEF Abstract!vars

\* A file that enters status s with its DELETE jobs at d moves its version to
\* the stage of (s, d) and no other version.
LEMMA OneRowStep ==
  ASSUME TypeOK, NEW f \in Files, NEW s \in {"absent", "active", "recycled", "expired"},
         status' = [status EXCEPT ![f] = s],
         \A g \in Files \ {f} : delJobs'[g] = delJobs[g],
         delJobs' \in [Files -> Nat],
         UNCHANGED keyOf,
         NEW st, st = StageOf(f)'
  PROVE  [g \in Files |-> StageOf(g)'] = [[g \in Files |-> StageOf(g)] EXCEPT ![f] = st]
<1>1. \A g \in Files \ {f} : StageOf(g)' = StageOf(g)
  BY DEF TypeOK, StageOf, Recycled
<1> QED BY <1>1

\* The UPDATE of a soft delete.
LEMMA SoftDeleteRefines ==
  ASSUME SInv, NEW f \in Files, SoftDelete(f), UNCHANGED <<keyOf, delJobs>>
  PROVE  [Abstract!Next]_(Abstract!vars)
<1>1. CASE ~ Row(f)
  <2>1. UNCHANGED Abstract!vars
    BY <1>1, InvisibleStep DEF SInv, SoftDelete
  <2> QED BY <2>1
<1>2. CASE Row(f)
  <2>1. StageOf(f)' = "bin"
    BY <1>2 DEF SInv, TypeOK, SoftDelete, StageOf, Recycled, Row
  <2>2. [g \in Files |-> StageOf(g)'] = [[g \in Files |-> StageOf(g)] EXCEPT ![f] = "bin"]
    BY <1>2, <2>1, OneRowStep DEF SInv, TypeOK, SoftDelete
  <2>3. \A g \in Files : (StageOf(g) = "free")' <=> StageOf(g) = "free"
    BY <1>2, <2>1 DEF SInv, TypeOK, SoftDelete, StageOf, Recycled, Row
  <2>4. CASE status[f] = "active"
    <3>1. StageOf(f) = "live"
      BY <2>4 DEF StageOf, Recycled
    <3>2. Abstract!Bin(f)
      BY <2>2, <2>3, <3>1 DEF Abstract!Bin
    <3> QED BY <3>2 DEF Abstract!Next
  <2>5. CASE status[f] # "active"
    <3>1. StageOf(f) = "bin"
      BY <1>2, <2>5 DEF SInv, TypeOK, StageOf, Recycled, Row
    <3>2. UNCHANGED Abstract!vars
      BY <2>2, <2>3, <3>1 DEF Abstract!vars
    <3> QED BY <3>2
  <2> QED BY <2>4, <2>5
<1> QED BY <1>1, <1>2

\* The UPDATE of a restore.
LEMMA RestoreRefines ==
  ASSUME SInv, NEW f \in Files, Restorable(f),
         status' = [status EXCEPT ![f] = "active"], UNCHANGED <<keyOf, delJobs>>
  PROVE  [Abstract!Next]_(Abstract!vars)
<1>1. StageOf(f)' = "live"
  BY DEF SInv, TypeOK, StageOf, Recycled
<1>2. [g \in Files |-> StageOf(g)'] = [[g \in Files |-> StageOf(g)] EXCEPT ![f] = "live"]
  BY <1>1, OneRowStep DEF SInv, TypeOK
<1>3. \A g \in Files : (StageOf(g) = "free")' <=> StageOf(g) = "free"
  BY <1>1 DEF SInv, TypeOK, StageOf, Recycled, Restorable, Row
<1>4. CASE status[f] = "active"
  <2>1. StageOf(f) = "live"
    BY <1>4 DEF StageOf, Recycled
  <2>2. UNCHANGED Abstract!vars
    BY <1>2, <1>3, <2>1 DEF Abstract!vars
  <2> QED BY <2>2
<1>5. CASE status[f] # "active"
  <2>1. StageOf(f) = "bin"
    BY <1>5 DEF SInv, TypeOK, StageOf, Recycled, Restorable, Row
  <2>2. \A g \in Files \ {f} : ~ (StageOf(g) = "live" /\ keyOf[g] = keyOf[f])
    BY DEF SInv, TypeOK, StageOf, Recycled, Restorable, KeyIsFree, ActiveAt
  <2>3. Abstract!Restore(f)
    BY <1>2, <1>3, <2>1, <2>2 DEF Abstract!Restore, Abstract!Vacant
  <2> QED BY <2>3 DEF Abstract!Next
<1> QED BY <1>4, <1>5

\* The commit of an upload.
LEMMA CommitRefines ==
  ASSUME SInv, NEW p \in Requests, PutCommit(p)
  PROVE  [Abstract!Next]_(Abstract!vars)
<1>1. PICK f \in Files : f = file[p]
  BY DEF PutCommit, Procs, SInv, TypeOK, UploadsOK, UploadPcs
<1>2. status[f] = "absent" /\ delJobs[f] = 0 /\ keyOf[f] \in Keys
  BY <1>1 DEF PutCommit, Procs, SInv, TypeOK, UploadsOK, UploadPcs, OutboxExact, Row
<1>3. status' = [status EXCEPT ![f] = "active"] /\ UNCHANGED <<keyOf, delJobs>>
  BY <1>1 DEF PutCommit
<1>4. StageOf(f) = "free" /\ StageOf(f)' = "live"
  BY <1>2, <1>3 DEF SInv, TypeOK, StageOf, Recycled
<1>5. [g \in Files |-> StageOf(g)'] = [[g \in Files |-> StageOf(g)] EXCEPT ![f] = "live"]
  BY <1>3, <1>4, OneRowStep DEF SInv, TypeOK
<1>6. \A g \in Files \ {f} : (StageOf(g) = "free")' <=> StageOf(g) = "free"
  BY <1>3 DEF SInv, TypeOK, StageOf, Recycled
<1>7. \A g \in Files \ {f} : ~ (StageOf(g) = "live" /\ keyOf[g] = keyOf[f])
  BY <1>1 DEF PutCommit, SInv, TypeOK, StageOf, Recycled, KeyIsFree, ActiveAt
<1>8. PICK k \in Keys : k = keyOf[f]
  BY <1>2
<1>9. Abstract!Create(f, k)
  BY <1>3, <1>4, <1>5, <1>6, <1>7, <1>8, ConstantsAssumption DEF Abstract!Create, Abstract!Vacant
<1> QED BY <1>9 DEF Abstract!Next

\* The transaction of a purge.
LEMMA DeleteRowRefines ==
  ASSUME SInv, NEW f \in Files, DeleteRow(f), UNCHANGED keyOf
  PROVE  [Abstract!Next]_(Abstract!vars)
<1> USE DEF DeleteRow
<1>1. CASE ~ Row(f)
  <2>1. UNCHANGED <<status, delJobs>>
    BY <1>1 DEF SInv, TypeOK, Row
  <2>2. UNCHANGED Abstract!vars
    BY <2>1, InvisibleStep DEF SInv
  <2> QED BY <2>2
<1>2. CASE Row(f)
  <2>1. delJobs' \in [Files -> Nat] /\ delJobs'[f] # 0
    BY <1>2 DEF SInv, TypeOK
  <2>2. StageOf(f) \in {"live", "bin"} /\ StageOf(f)' = "gone"
    BY <1>2, <2>1 DEF SInv, TypeOK, StageOf, Recycled, Row
  <2>3. [g \in Files |-> StageOf(g)'] = [[g \in Files |-> StageOf(g)] EXCEPT ![f] = "gone"]
    BY <2>1, <2>2, OneRowStep DEF SInv, TypeOK
  <2>4. \A g \in Files : (StageOf(g) = "free")' <=> StageOf(g) = "free"
    BY <2>2 DEF SInv, TypeOK, StageOf, Recycled
  <2>5. Abstract!Purge(f)
    BY <2>2, <2>3, <2>4 DEF Abstract!Purge
  <2> QED BY <2>5 DEF Abstract!Next
<1> QED BY <1>1, <1>2

\* A recycled row that expires stays in the bin.
LEMMA ExpireRefines ==
  ASSUME SInv, NEW f \in Files, Expire(f)
  PROVE  UNCHANGED Abstract!vars
<1>1. \A g \in Files : StageOf(g)' = StageOf(g) /\ keyOf'[g] = keyOf[g]
  BY DEF SInv, TypeOK, Expire, StageOf, Recycled
<1> QED BY <1>1 DEF Abstract!vars

\* Every step is a step of Versions or a stutter.
LEMMA StepRefines ==
  ASSUME SInv, SInv', [Next]_vars
  PROVE  [Abstract!Next]_(Abstract!vars)
<1> USE DEF Procs
<1>1. CASE \E p \in Requests, k \in Keys, f \in Files : PutBegin(p, k, f)
  <2>1. UNCHANGED Abstract!vars
    BY <1>1, InvisibleStep DEF PutBegin, SInv, TypeOK, UploadsOK, OutboxExact, Row
  <2> QED BY <2>1
<1>2. CASE \E p \in Requests : PutCommit(p)
  BY <1>2, CommitRefines
<1>3. CASE \E p \in Requests : PutRecycle(p) \/ DeleteWrite(p)
  <2>1. PICK p \in Requests : PutRecycle(p) \/ DeleteWrite(p)
    BY <1>3
  <2>2. CASE victim[p] \in Files
    BY <2>1, <2>2, SoftDeleteRefines DEF PutRecycle, DeleteWrite
  <2>3. CASE victim[p] \notin Files
    <3>1. UNCHANGED status
      BY <2>1, <2>3 DEF PutRecycle, DeleteWrite, SoftDelete, SInv, TypeOK
    <3>2. UNCHANGED Abstract!vars
      BY <2>1, <3>1, InvisibleStep DEF PutRecycle, DeleteWrite, SInv
    <3> QED BY <3>2
  <2> QED BY <2>2, <2>3
<1>4. CASE \E p \in Requests : RestoreWrite(p)
  <2>1. PICK p \in Requests : RestoreWrite(p)
    BY <1>4
  <2>2. CASE victim[p] \in Files /\ Restorable(victim[p])
    BY <2>1, <2>2, RestoreRefines DEF RestoreWrite
  <2>3. CASE ~ (victim[p] \in Files /\ Restorable(victim[p]))
    <3>1. UNCHANGED status
      BY <2>1, <2>3 DEF RestoreWrite, SInv, TypeOK
    <3>2. UNCHANGED Abstract!vars
      BY <2>1, <3>1, InvisibleStep DEF RestoreWrite, SInv
    <3> QED BY <3>2
  <2> QED BY <2>2, <2>3
<1>5. CASE \E f \in Files : TickPurge(f) \/ \E p \in Requests : HardPurge(p, f)
  BY <1>5, DeleteRowRefines DEF TickPurge, HardPurge
<1>6. CASE \E f \in Files : Expire(f)
  BY <1>6, ExpireRefines
<1>7. CASE UNCHANGED <<status, delJobs, keyOf>>
  <2>1. UNCHANGED Abstract!vars
    BY <1>7, InvisibleStep DEF SInv
  <2> QED BY <2>1
<1>8. \/ \E p \in Requests, k \in Keys, f \in Files : PutBegin(p, k, f)
      \/ \E p \in Requests : PutCommit(p) \/ PutRecycle(p) \/ DeleteWrite(p) \/ RestoreWrite(p)
      \/ \E f \in Files : TickPurge(f) \/ Expire(f) \/ \E p \in Requests : HardPurge(p, f)
      \/ UNCHANGED <<status, delJobs, keyOf>>
  BY DEF Next, vars, db, Put, Recycle, Drop, Reconcile, Tick, PutStored, PutQuota, PutFind, PutFail,
         DeleteFind, RestoreRead, RestoreCheck, PurgeItem, PurgeAll, PurgeSkip, PurgeUnlink,
         PurgeDone, DropBegin, DropBucket, ReconcileRows, ReconcileDisk, ReconcileUnlink,
         ReconcileDone, TickList, TickFail, CutOff, Crash
<1> QED BY <1>1, <1>2, <1>3, <1>4, <1>5, <1>6, <1>7, <1>8

\* The node implements the version life cycle.
THEOREM Refinement == Spec => RefinesVersions
<1>1. Init => Abstract!Init
  BY DEF Init, Abstract!Init, StageOf, Recycled
<1>2. SInv /\ SInv' /\ [Next]_vars => [Abstract!Next]_(Abstract!vars)
  BY StepRefines
<1> QED BY <1>1, <1>2, SpecSInv, PTL DEF Spec, RefinesVersions, Abstract!Spec
-----------------------------------------------------------------------------
(***************************************************************************)
(* Blobs, when reconciles keep out of the way of uploads.                  *)
(***************************************************************************)

\* An upload past its stream has its whole blob.
StoredOK ==
    \A p \in Procs : pc[p] \in UploadPcs \ {"stream"} => disk[file[p]] = "full"

\* What a reconcile lists as known covers the rows, and what it is about to
\* unlink is no row's blob.
SweepOK ==
    /\ \A p \in Procs : pc[p] = "classify" => \A f \in Files : Row(f) => f \in todo[p]
    /\ \A p \in Procs : pc[p] = "sweep" => \A f \in todo[p] : ~ Row(f)

BlobsOK == BlobPresent /\ StoredOK /\ SweepOK

\* The inductive invariant of QuietSpec.
QInv == SInv /\ Quiet /\ BlobsOK

\* Uploads: a reconcile that is running excludes them.
LEMMA PutBlobs ==
  ASSUME QInv, NEW p \in Requests, Put(p)
  PROVE  BlobsOK'
<1> USE ConstantsAssumption DEF Procs, QInv, BlobsOK
<1>1. CASE \E k \in Keys, f \in Files : PutBegin(p, k, f)
  <2> USE <1>1 DEF PutBegin
  <2>1. BlobPresent'
    BY DEF BlobPresent, StoredOK, SweepOK, SInv, TypeOK, UploadsOK, PurgesOK, PurgePcs, UploadPcs, UnlinkPcs, Row
  <2>2. StoredOK'
    BY DEF StoredOK, SInv, TypeOK, UploadsOK, PurgesOK, Quiet, ReconcilePcs, UploadPcs, UnlinkPcs
  <2>3. SweepOK'
    BY DEF SweepOK, SInv, TypeOK, Quiet, ReconcilePcs, UploadPcs, UnlinkPcs, Row
  <2> QED BY <2>1, <2>2, <2>3
<1>2. CASE PutStored(p)
  <2> USE <1>2 DEF PutStored, Goto, db
  <2>1. BlobPresent'
    BY DEF BlobPresent, StoredOK, SweepOK, SInv, TypeOK, UploadsOK, PurgesOK, PurgePcs, UploadPcs, UnlinkPcs, Row
  <2>2. StoredOK'
    BY DEF StoredOK, SInv, TypeOK, UploadsOK, PurgesOK, Quiet, ReconcilePcs, UploadPcs, UnlinkPcs
  <2>3. SweepOK'
    BY DEF SweepOK, SInv, TypeOK, Quiet, ReconcilePcs, UploadPcs, UnlinkPcs, Row
  <2> QED BY <2>1, <2>2, <2>3
<1>3. CASE PutQuota(p)
  <2> USE <1>3 DEF PutQuota, Goto, db
  <2>1. BlobPresent'
    BY DEF BlobPresent, StoredOK, SweepOK, SInv, TypeOK, UploadsOK, PurgesOK, PurgePcs, UploadPcs, UnlinkPcs, Row
  <2>2. StoredOK'
    BY DEF StoredOK, SInv, TypeOK, UploadsOK, PurgesOK, Quiet, ReconcilePcs, UploadPcs, UnlinkPcs
  <2>3. SweepOK'
    BY DEF SweepOK, SInv, TypeOK, Quiet, ReconcilePcs, UploadPcs, UnlinkPcs, Row
  <2> QED BY <2>1, <2>2, <2>3
<1>4. CASE PutFind(p)
  <2> USE <1>4 DEF PutFind, ActiveAt, Goto, db
  <2>1. BlobPresent'
    BY DEF BlobPresent, StoredOK, SweepOK, SInv, TypeOK, UploadsOK, PurgesOK, PurgePcs, UploadPcs, UnlinkPcs, Row
  <2>2. StoredOK'
    BY DEF StoredOK, SInv, TypeOK, UploadsOK, PurgesOK, Quiet, ReconcilePcs, UploadPcs, UnlinkPcs
  <2>3. SweepOK'
    BY DEF SweepOK, SInv, TypeOK, Quiet, ReconcilePcs, UploadPcs, UnlinkPcs, Row
  <2> QED BY <2>1, <2>2, <2>3
<1>5. CASE PutRecycle(p)
  <2> USE <1>5 DEF PutRecycle, SoftDelete, Goto
  <2>1. BlobPresent'
    BY DEF BlobPresent, StoredOK, SweepOK, SInv, TypeOK, UploadsOK, PurgesOK, PurgePcs, UploadPcs, UnlinkPcs, Row
  <2>2. StoredOK'
    BY DEF StoredOK, SInv, TypeOK, UploadsOK, PurgesOK, Quiet, ReconcilePcs, UploadPcs, UnlinkPcs
  <2>3. SweepOK'
    BY DEF SweepOK, SInv, TypeOK, Quiet, ReconcilePcs, UploadPcs, UnlinkPcs, Row
  <2> QED BY <2>1, <2>2, <2>3
<1>6. CASE PutCommit(p)
  <2> USE <1>6 DEF PutCommit, Finish
  <2>1. BlobPresent'
    BY DEF BlobPresent, StoredOK, SweepOK, SInv, TypeOK, UploadsOK, PurgesOK, PurgePcs, UploadPcs, UnlinkPcs, Row
  <2>2. StoredOK'
    BY DEF StoredOK, SInv, TypeOK, UploadsOK, PurgesOK, Quiet, ReconcilePcs, UploadPcs, UnlinkPcs
  <2>3. SweepOK'
    <3>1. \A q \in Procs : pc[q] \notin ReconcilePcs
      BY DEF SInv, TypeOK, Quiet, ReconcilePcs, UploadPcs, WorkerPcs
    <3> QED BY <3>1 DEF SweepOK, SInv, TypeOK, ReconcilePcs
  <2> QED BY <2>1, <2>2, <2>3
<1>7. CASE PutFail(p)
  <2> USE <1>7 DEF PutFail, Finish, db
  <2>1. BlobPresent'
    BY DEF BlobPresent, StoredOK, SweepOK, SInv, TypeOK, UploadsOK, PurgesOK, PurgePcs, UploadPcs, UnlinkPcs, Row
  <2>2. StoredOK'
    BY DEF StoredOK, SInv, TypeOK, UploadsOK, PurgesOK, Quiet, ReconcilePcs, UploadPcs, UnlinkPcs
  <2>3. SweepOK'
    BY DEF SweepOK, SInv, TypeOK, Quiet, ReconcilePcs, UploadPcs, UnlinkPcs, Row
  <2> QED BY <2>1, <2>2, <2>3
<1> QED BY <1>1, <1>2, <1>3, <1>4, <1>5, <1>6, <1>7 DEF Put

\* The recycle bin: rows go before their blobs.
LEMMA RecycleBlobs ==
  ASSUME QInv, NEW p \in Requests, Recycle(p)
  PROVE  BlobsOK'
<1> USE ConstantsAssumption DEF Procs, QInv, BlobsOK
<1>1. CASE \E f \in Files : DeleteFind(p, f)
  <2> USE <1>1 DEF DeleteFind, Goto, db
  <2>1. BlobPresent'
    BY DEF BlobPresent, StoredOK, SweepOK, SInv, TypeOK, UploadsOK, PurgesOK, PurgePcs, UploadPcs, UnlinkPcs, Row
  <2>2. StoredOK'
    BY DEF StoredOK, SInv, TypeOK, UploadsOK, PurgesOK, Quiet, ReconcilePcs, UploadPcs, UnlinkPcs
  <2>3. SweepOK'
    BY DEF SweepOK, SInv, TypeOK, Quiet, ReconcilePcs, UploadPcs, UnlinkPcs, Row
  <2> QED BY <2>1, <2>2, <2>3
<1>2. CASE \E f \in Files : RestoreRead(p, f)
  <2> USE <1>2 DEF RestoreRead, Goto, db
  <2>1. BlobPresent'
    BY DEF BlobPresent, StoredOK, SweepOK, SInv, TypeOK, UploadsOK, PurgesOK, PurgePcs, UploadPcs, UnlinkPcs, Row
  <2>2. StoredOK'
    BY DEF StoredOK, SInv, TypeOK, UploadsOK, PurgesOK, Quiet, ReconcilePcs, UploadPcs, UnlinkPcs
  <2>3. SweepOK'
    BY DEF SweepOK, SInv, TypeOK, Quiet, ReconcilePcs, UploadPcs, UnlinkPcs, Row
  <2> QED BY <2>1, <2>2, <2>3
<1>3. CASE \E f \in Files : PurgeItem(p, f)
  <2> USE <1>3 DEF PurgeItem, db
  <2>1. BlobPresent'
    BY DEF BlobPresent, StoredOK, SweepOK, SInv, TypeOK, UploadsOK, PurgesOK, PurgePcs, UploadPcs, UnlinkPcs, Row
  <2>2. StoredOK'
    BY DEF StoredOK, SInv, TypeOK, UploadsOK, PurgesOK, Quiet, ReconcilePcs, UploadPcs, UnlinkPcs
  <2>3. SweepOK'
    BY DEF SweepOK, SInv, TypeOK, Quiet, ReconcilePcs, UploadPcs, UnlinkPcs, Row
  <2> QED BY <2>1, <2>2, <2>3
<1>4. CASE DeleteWrite(p)
  <2> USE <1>4 DEF DeleteWrite, SoftDelete, Finish
  <2>1. BlobPresent'
    BY DEF BlobPresent, StoredOK, SweepOK, SInv, TypeOK, UploadsOK, PurgesOK, PurgePcs, UploadPcs, UnlinkPcs, Row
  <2>2. StoredOK'
    BY DEF StoredOK, SInv, TypeOK, UploadsOK, PurgesOK, Quiet, ReconcilePcs, UploadPcs, UnlinkPcs
  <2>3. SweepOK'
    BY DEF SweepOK, SInv, TypeOK, Quiet, ReconcilePcs, UploadPcs, UnlinkPcs, Row
  <2> QED BY <2>1, <2>2, <2>3
<1>5. CASE RestoreCheck(p)
  <2> USE <1>5 DEF RestoreCheck, Goto, Finish, db
  <2>1. BlobPresent'
    BY DEF BlobPresent, StoredOK, SweepOK, SInv, TypeOK, UploadsOK, PurgesOK, PurgePcs, UploadPcs, UnlinkPcs, Row
  <2>2. StoredOK'
    BY DEF StoredOK, SInv, TypeOK, UploadsOK, PurgesOK, Quiet, ReconcilePcs, UploadPcs, UnlinkPcs
  <2>3. SweepOK'
    BY DEF SweepOK, SInv, TypeOK, Quiet, ReconcilePcs, UploadPcs, UnlinkPcs, Row
  <2> QED BY <2>1, <2>2, <2>3
<1>6. CASE RestoreWrite(p)
  <2> USE <1>6 DEF RestoreWrite, Restorable, Finish
  <2>1. BlobPresent'
    BY DEF BlobPresent, StoredOK, SweepOK, SInv, TypeOK, UploadsOK, PurgesOK, PurgePcs, UploadPcs, UnlinkPcs, Row
  <2>2. StoredOK'
    BY DEF StoredOK, SInv, TypeOK, UploadsOK, PurgesOK, Quiet, ReconcilePcs, UploadPcs, UnlinkPcs
  <2>3. SweepOK'
    BY DEF SweepOK, SInv, TypeOK, Quiet, ReconcilePcs, UploadPcs, UnlinkPcs, Row
  <2> QED BY <2>1, <2>2, <2>3
<1>7. CASE \E B \in {Buckets} \cup {{b} : b \in Buckets} : PurgeAll(p, B)
  <2> USE <1>7 DEF PurgeAll, db
  <2>1. BlobPresent'
    BY DEF BlobPresent, StoredOK, SweepOK, SInv, TypeOK, UploadsOK, PurgesOK, PurgePcs, UploadPcs, UnlinkPcs, Row
  <2>2. StoredOK'
    BY DEF StoredOK, SInv, TypeOK, UploadsOK, PurgesOK, Quiet, ReconcilePcs, UploadPcs, UnlinkPcs
  <2>3. SweepOK'
    BY DEF SweepOK, SInv, TypeOK, Quiet, ReconcilePcs, UploadPcs, UnlinkPcs, Row
  <2> QED BY <2>1, <2>2, <2>3
<1>8. CASE \E f \in Files : HardPurge(p, f)
  <2> USE <1>8 DEF HardPurge, DeleteRow
  <2>1. BlobPresent'
    BY DEF BlobPresent, StoredOK, SweepOK, SInv, TypeOK, UploadsOK, PurgesOK, PurgePcs, UploadPcs, UnlinkPcs, Row
  <2>2. StoredOK'
    BY DEF StoredOK, SInv, TypeOK, UploadsOK, PurgesOK, Quiet, ReconcilePcs, UploadPcs, UnlinkPcs
  <2>3. SweepOK'
    BY DEF SweepOK, SInv, TypeOK, Quiet, ReconcilePcs, UploadPcs, UnlinkPcs, Row
  <2> QED BY <2>1, <2>2, <2>3
<1>9. CASE \E f \in Files : PurgeSkip(p, f)
  <2> USE <1>9 DEF PurgeSkip, db
  <2>1. BlobPresent'
    BY DEF BlobPresent, StoredOK, SweepOK, SInv, TypeOK, UploadsOK, PurgesOK, PurgePcs, UploadPcs, UnlinkPcs, Row
  <2>2. StoredOK'
    BY DEF StoredOK, SInv, TypeOK, UploadsOK, PurgesOK, Quiet, ReconcilePcs, UploadPcs, UnlinkPcs
  <2>3. SweepOK'
    BY DEF SweepOK, SInv, TypeOK, Quiet, ReconcilePcs, UploadPcs, UnlinkPcs, Row
  <2> QED BY <2>1, <2>2, <2>3
<1>10. CASE PurgeUnlink(p)
  <2> USE <1>10 DEF PurgeUnlink, LoopPc, db
  <2>1. BlobPresent'
    BY DEF BlobPresent, StoredOK, SweepOK, SInv, TypeOK, UploadsOK, PurgesOK, PurgePcs, UploadPcs, UnlinkPcs, Row
  <2>2. StoredOK'
    BY DEF StoredOK, SInv, TypeOK, UploadsOK, PurgesOK, Quiet, ReconcilePcs, UploadPcs, UnlinkPcs
  <2>3. SweepOK'
    BY DEF SweepOK, SInv, TypeOK, Quiet, ReconcilePcs, UploadPcs, UnlinkPcs, Row
  <2> QED BY <2>1, <2>2, <2>3
<1>11. CASE PurgeDone(p)
  <2> USE <1>11 DEF PurgeDone, Finish, db
  <2>1. BlobPresent'
    BY DEF BlobPresent, StoredOK, SweepOK, SInv, TypeOK, UploadsOK, PurgesOK, PurgePcs, UploadPcs, UnlinkPcs, Row
  <2>2. StoredOK'
    BY DEF StoredOK, SInv, TypeOK, UploadsOK, PurgesOK, Quiet, ReconcilePcs, UploadPcs, UnlinkPcs
  <2>3. SweepOK'
    BY DEF SweepOK, SInv, TypeOK, Quiet, ReconcilePcs, UploadPcs, UnlinkPcs, Row
  <2> QED BY <2>1, <2>2, <2>3
<1> QED BY <1>1, <1>2, <1>3, <1>4, <1>5, <1>6, <1>7, <1>8, <1>9, <1>10, <1>11 DEF Recycle

\* delete_bucket.
LEMMA DropBlobs ==
  ASSUME QInv, NEW p \in Requests, Drop(p)
  PROVE  BlobsOK'
<1> USE ConstantsAssumption DEF Procs, QInv, BlobsOK
<1>1. CASE \E b \in Buckets : DropBegin(p, b)
  <2> USE <1>1 DEF DropBegin, db
  <2>1. BlobPresent'
    BY DEF BlobPresent, StoredOK, SweepOK, SInv, TypeOK, UploadsOK, PurgesOK, PurgePcs, UploadPcs, UnlinkPcs, Row
  <2>2. StoredOK'
    BY DEF StoredOK, SInv, TypeOK, UploadsOK, PurgesOK, Quiet, ReconcilePcs, UploadPcs, UnlinkPcs
  <2>3. SweepOK'
    BY DEF SweepOK, SInv, TypeOK, Quiet, ReconcilePcs, UploadPcs, UnlinkPcs, Row
  <2> QED BY <2>1, <2>2, <2>3
<1>2. CASE DropBucket(p)
  <2> USE <1>2 DEF DropBucket, Finish
  <2>1. BlobPresent'
    BY DEF BlobPresent, StoredOK, SweepOK, SInv, TypeOK, UploadsOK, PurgesOK, PurgePcs, UploadPcs, UnlinkPcs, Row
  <2>2. StoredOK'
    BY DEF StoredOK, SInv, TypeOK, UploadsOK, PurgesOK, Quiet, ReconcilePcs, UploadPcs, UnlinkPcs
  <2>3. SweepOK'
    BY DEF SweepOK, SInv, TypeOK, Quiet, ReconcilePcs, UploadPcs, UnlinkPcs, Row
  <2> QED BY <2>1, <2>2, <2>3
<1> QED BY <1>1, <1>2 DEF Drop

\* Storage reconcile.
LEMMA ReconcileBlobs ==
  ASSUME QInv, NEW p \in Requests, Reconcile(p)
  PROVE  BlobsOK'
<1> USE ConstantsAssumption DEF Procs, QInv, BlobsOK
<1>1. CASE ReconcileRows(p)
  <2> USE <1>1 DEF ReconcileRows, KnownPaths, Rows, db
  <2>1. BlobPresent'
    BY DEF BlobPresent, StoredOK, SweepOK, SInv, TypeOK, UploadsOK, PurgesOK, PurgePcs, UploadPcs, UnlinkPcs, Row
  <2>2. StoredOK'
    BY DEF StoredOK, SInv, TypeOK, UploadsOK, PurgesOK, Quiet, ReconcilePcs, UploadPcs, UnlinkPcs
  <2>3. SweepOK'
    BY DEF SweepOK, SInv, TypeOK, Quiet, ReconcilePcs, UploadPcs, UnlinkPcs, Row
  <2> QED BY <2>1, <2>2, <2>3
<1>2. CASE ReconcileDisk(p)
  <2> USE <1>2 DEF ReconcileDisk, db
  <2>1. BlobPresent'
    BY DEF BlobPresent, StoredOK, SweepOK, SInv, TypeOK, UploadsOK, PurgesOK, PurgePcs, UploadPcs, UnlinkPcs, Row
  <2>2. StoredOK'
    BY DEF StoredOK, SInv, TypeOK, UploadsOK, PurgesOK, Quiet, ReconcilePcs, UploadPcs, UnlinkPcs
  <2>3. SweepOK'
    BY DEF SweepOK, SInv, TypeOK, Quiet, ReconcilePcs, UploadPcs, UnlinkPcs, Row
  <2> QED BY <2>1, <2>2, <2>3
<1>3. CASE \E f \in Files : ReconcileUnlink(p, f)
  <2> USE <1>3 DEF ReconcileUnlink, db
  <2>1. BlobPresent'
    BY DEF BlobPresent, StoredOK, SweepOK, SInv, TypeOK, UploadsOK, PurgesOK, PurgePcs, UploadPcs, UnlinkPcs, Row
  <2>2. StoredOK'
    <3>1. \A q \in Procs : pc[q] \notin UploadPcs
      BY DEF SInv, TypeOK, Quiet, ReconcilePcs, UploadPcs, WorkerPcs
    <3> QED BY <3>1 DEF StoredOK
  <2>3. SweepOK'
    BY DEF SweepOK, SInv, TypeOK, Quiet, ReconcilePcs, UploadPcs, UnlinkPcs, Row
  <2> QED BY <2>1, <2>2, <2>3
<1>4. CASE ReconcileDone(p)
  <2> USE <1>4 DEF ReconcileDone, Finish, db
  <2>1. BlobPresent'
    BY DEF BlobPresent, StoredOK, SweepOK, SInv, TypeOK, UploadsOK, PurgesOK, PurgePcs, UploadPcs, UnlinkPcs, Row
  <2>2. StoredOK'
    BY DEF StoredOK, SInv, TypeOK, UploadsOK, PurgesOK, Quiet, ReconcilePcs, UploadPcs, UnlinkPcs
  <2>3. SweepOK'
    BY DEF SweepOK, SInv, TypeOK, Quiet, ReconcilePcs, UploadPcs, UnlinkPcs, Row
  <2> QED BY <2>1, <2>2, <2>3
<1> QED BY <1>1, <1>2, <1>3, <1>4 DEF Reconcile

\* The retention worker.
LEMMA TickBlobs ==
  ASSUME QInv, Tick
  PROVE  BlobsOK'
<1> USE ConstantsAssumption DEF Procs, QInv, BlobsOK
<1>1. CASE TickList
  <2> USE <1>1 DEF TickList, db
  <2>1. BlobPresent'
    BY DEF BlobPresent, StoredOK, SweepOK, SInv, TypeOK, UploadsOK, PurgesOK, PurgePcs, UploadPcs, UnlinkPcs, Row
  <2>2. StoredOK'
    BY DEF StoredOK, SInv, TypeOK, UploadsOK, PurgesOK, Quiet, ReconcilePcs, UploadPcs, UnlinkPcs
  <2>3. SweepOK'
    BY DEF SweepOK, SInv, TypeOK, Quiet, ReconcilePcs, UploadPcs, UnlinkPcs, Row
  <2> QED BY <2>1, <2>2, <2>3
<1>2. CASE \E f \in Files : TickPurge(f)
  <2> USE <1>2 DEF TickPurge, DeleteRow
  <2>1. BlobPresent'
    BY DEF BlobPresent, StoredOK, SweepOK, SInv, TypeOK, UploadsOK, PurgesOK, PurgePcs, UploadPcs, UnlinkPcs, Row
  <2>2. StoredOK'
    BY DEF StoredOK, SInv, TypeOK, UploadsOK, PurgesOK, Quiet, ReconcilePcs, UploadPcs, UnlinkPcs
  <2>3. SweepOK'
    BY DEF SweepOK, SInv, TypeOK, Quiet, ReconcilePcs, UploadPcs, UnlinkPcs, Row
  <2> QED BY <2>1, <2>2, <2>3
<1>3. CASE TickFail
  <2> USE <1>3 DEF TickFail, Finish, db
  <2>1. BlobPresent'
    BY DEF BlobPresent, StoredOK, SweepOK, SInv, TypeOK, UploadsOK, PurgesOK, PurgePcs, UploadPcs, UnlinkPcs, Row
  <2>2. StoredOK'
    BY DEF StoredOK, SInv, TypeOK, UploadsOK, PurgesOK, Quiet, ReconcilePcs, UploadPcs, UnlinkPcs
  <2>3. SweepOK'
    BY DEF SweepOK, SInv, TypeOK, Quiet, ReconcilePcs, UploadPcs, UnlinkPcs, Row
  <2> QED BY <2>1, <2>2, <2>3
<1>4. CASE PurgeUnlink(PurgeWorker)
  <2> USE <1>4 DEF PurgeUnlink, LoopPc, db
  <2>1. BlobPresent'
    BY DEF BlobPresent, StoredOK, SweepOK, SInv, TypeOK, UploadsOK, PurgesOK, PurgePcs, UploadPcs, UnlinkPcs, Row
  <2>2. StoredOK'
    BY DEF StoredOK, SInv, TypeOK, UploadsOK, PurgesOK, Quiet, ReconcilePcs, UploadPcs, UnlinkPcs
  <2>3. SweepOK'
    BY DEF SweepOK, SInv, TypeOK, Quiet, ReconcilePcs, UploadPcs, UnlinkPcs, Row
  <2> QED BY <2>1, <2>2, <2>3
<1>5. CASE PurgeDone(PurgeWorker)
  <2> USE <1>5 DEF PurgeDone, Finish, db
  <2>1. BlobPresent'
    BY DEF BlobPresent, StoredOK, SweepOK, SInv, TypeOK, UploadsOK, PurgesOK, PurgePcs, UploadPcs, UnlinkPcs, Row
  <2>2. StoredOK'
    BY DEF StoredOK, SInv, TypeOK, UploadsOK, PurgesOK, Quiet, ReconcilePcs, UploadPcs, UnlinkPcs
  <2>3. SweepOK'
    BY DEF SweepOK, SInv, TypeOK, Quiet, ReconcilePcs, UploadPcs, UnlinkPcs, Row
  <2> QED BY <2>1, <2>2, <2>3
<1> QED BY <1>1, <1>2, <1>3, <1>4, <1>5 DEF Tick

\* Retention passing, handlers cut off, the process dying.
LEMMA FailureBlobs ==
  ASSUME QInv,
         (\E f \in Files : Expire(f)) \/ (\E p \in Requests : CutOff(p)) \/ Crash
  PROVE  BlobsOK'
<1> USE ConstantsAssumption DEF Procs, QInv, BlobsOK, BlobPresent, StoredOK, SweepOK, Row
<1>1. CASE \E f \in Files : Expire(f)
  BY <1>1 DEF Expire, handlers, SInv, TypeOK
<1>2. CASE \E p \in Requests : CutOff(p)
  BY <1>2 DEF CutOff, Finish, db, SInv, TypeOK, UploadPcs
<1>3. CASE Crash
  BY <1>3 DEF Crash, db, SInv, TypeOK, UploadPcs
<1> QED BY <1>1, <1>2, <1>3

\* Every step of a quiet behaviour keeps rows and blobs together.
LEMMA NextQInv == QInv /\ [Next /\ Quiet']_vars => QInv'
<1> SUFFICES ASSUME QInv, [Next /\ Quiet']_vars PROVE QInv'
  OBVIOUS
<1>1. SInv'
  BY NextSInv DEF QInv
<1>2. Quiet'
  BY DEF QInv, Quiet, vars
<1>3. CASE \E p \in Requests : Put(p) \/ Recycle(p) \/ Drop(p) \/ Reconcile(p)
  BY <1>1, <1>2, <1>3, PutBlobs, RecycleBlobs, DropBlobs, ReconcileBlobs DEF QInv
<1>4. CASE Tick
  BY <1>1, <1>2, <1>4, TickBlobs DEF QInv
<1>5. CASE (\E f \in Files : Expire(f)) \/ (\E p \in Requests : CutOff(p)) \/ Crash
  BY <1>1, <1>2, <1>5, FailureBlobs DEF QInv
<1>6. CASE UNCHANGED vars
  BY <1>1, <1>2, <1>6 DEF QInv, BlobsOK, BlobPresent, StoredOK, SweepOK, Row, vars
<1> QED BY <1>3, <1>4, <1>5, <1>6 DEF Next

\* If no upload runs during a reconcile, every row has its whole blob on disk,
\* through concurrent overwrites, restores, purges, cut-off handlers and
\* crashes.
THEOREM BlobsPresent == QuietSpec => []BlobPresent
<1>1. Init => QInv
  <2>1. Init => Quiet /\ BlobsOK
    BY DEF Init, Quiet, BlobsOK, BlobPresent, StoredOK, SweepOK, Row, Procs, UploadPcs,
           ReconcilePcs
  <2> QED BY <2>1, InitSInv DEF QInv
<1>2. QInv => BlobPresent
  BY DEF QInv, BlobsOK
<1> QED BY <1>1, <1>2, NextQInv, PTL DEF QuietSpec
-----------------------------------------------------------------------------
(***************************************************************************)
(* How far the comparison of texts in list_expired_deleted_objects can be  *)
(* from the comparison of instants it stands for.                          *)
(***************************************************************************)

\* Every instant lies within its date.
LEMMA DayBounds ==
  ASSUME NEW t \in Int
  PROVE  /\ Day(t) \in Int
         /\ DayLen * Day(t) <= t
         /\ t < DayLen * Day(t) + DayLen
  BY RetentionAssumption, Z3 DEF Day

\* The text comparison accepts all it should, and errs by less than a day.
LEMMA ExpiredBounds ==
  ASSUME NEW t \in Int, NEW c \in Int
  PROVE  /\ t <= c => Expired(t, c)
         /\ Expired(t, c) => t < c + DayLen
<1>0. DayLen \in Nat \ {0}
  BY RetentionAssumption
<1>1. ASSUME NEW i \in Int, NEW j \in Int, i <= j PROVE DayLen * i <= DayLen * j
  BY <1>0, <1>1, Z3
<1>2. ASSUME NEW i \in Int, NEW j \in Int, j + 1 <= i PROVE DayLen * j + DayLen <= DayLen * i
  <2>1. DayLen * (j + 1) <= DayLen * i
    BY <1>1, <1>2
  <2>2. DayLen * (j + 1) = DayLen * j + DayLen
    BY <1>0, Z3
  <2> QED BY <2>1, <2>2
<1>3. ASSUME t <= c PROVE Expired(t, c)
  <2>1. SUFFICES ASSUME ~ (Day(t) <= Day(c)) PROVE FALSE
    BY DEF Expired
  <2>2. Day(c) \in Int /\ Day(t) \in Int /\ Day(c) + 1 <= Day(t)
    BY <2>1, DayBounds
  <2>3. DayLen * Day(c) + DayLen <= DayLen * Day(t)
    BY <1>2, <2>2
  <2> QED BY <1>0, <1>3, <2>3, DayBounds
<1>4. ASSUME Expired(t, c) PROVE t < c + DayLen
  <2>1. DayLen * Day(t) <= DayLen * Day(c)
    BY <1>1, <1>4, DayBounds DEF Expired
  <2> QED BY <1>0, <2>1, DayBounds
<1> QED BY <1>3, <1>4

\* A retention in seconds is a natural number.
LEMMA KeepType == ASSUME RetentionTypeOK PROVE Keep \in Nat
<1>1. value * UnitSecs[unit] \in Nat
  BY RetentionAssumption, Z3 DEF RetentionTypeOK
<1> QED BY RetentionAssumption, <1>1 DEF Keep, ToSeconds

\* The clock, the settings and the rows keep their types; in particular the
\* guard of set_recycle_retention keeps the retention non-negative.
THEOREM RetentionTypes == RetentionSpec => []RetentionTypeOK
<1>1. RetentionInit => RetentionTypeOK
  BY RetentionAssumption DEF RetentionInit, RetentionTypeOK
<1>2. RetentionTypeOK /\ [RetentionNext]_retentionVars => RetentionTypeOK'
  <2> SUFFICES ASSUME RetentionTypeOK, [RetentionNext]_retentionVars PROVE RetentionTypeOK'
    OBVIOUS
  <2> USE RetentionAssumption DEF RetentionTypeOK
  <2>1. CASE \E o \in Objects : SoftDeleteRow(o) \/ RestoreRow(o)
    BY <2>1 DEF SoftDeleteRow, RestoreRow
  <2>2. CASE \E v \in Values, u \in DOMAIN UnitSecs : SetRetention(v, u)
    BY <2>2 DEF SetRetention
  <2>3. CASE PurgeOnce
    BY <2>3 DEF PurgeOnce
  <2>4. CASE Advance
    BY <2>4 DEF Advance
  <2>5. CASE UNCHANGED retentionVars
    BY <2>5 DEF retentionVars
  <2> QED BY <2>1, <2>2, <2>3, <2>4, <2>5 DEF RetentionNext
<1> QED BY <1>1, <1>2, PTL DEF RetentionSpec

\* However often the retention is changed, no tick purges a row a whole day
\* or more before its retention has passed.
THEOREM EarlyByLessThanADay == RetentionSpec => LessThanADayEarly
<1>1. ASSUME RetentionTypeOK, [RetentionNext]_retentionVars, NEW o \in Objects, Purged(o)
      PROVE  Age(o) > Keep - DayLen
  <2>1. purged' # purged
    BY <1>1 DEF Purged
  <2>2. PurgeOnce
    BY <1>1, <2>1 DEF RetentionNext, retentionVars, SoftDeleteRow, RestoreRow,
                         SetRetention, Advance
  <2>3. deletedAt[o] # NotDeleted /\ Expired(deletedAt[o], now - Keep)
    BY <1>1, <2>2 DEF PurgeOnce, Purged
  <2>4. deletedAt[o] \in Int /\ now \in Int /\ Keep \in Int
    BY RetentionAssumption, <1>1, <2>3, KeepType DEF RetentionTypeOK
  <2>5. now - Keep \in Int
    BY <2>4
  <2>6. deletedAt[o] < now - Keep + DayLen
    BY <2>3, <2>4, <2>5, ExpiredBounds
  <2> QED BY RetentionAssumption, <2>4, <2>6 DEF Age
<1>2. RetentionTypeOK /\ [RetentionNext]_retentionVars =>
        [\A o \in Objects : Purged(o) => Age(o) > Keep - DayLen]_retentionVars
  BY <1>1
<1> QED BY <1>2, RetentionTypes, PTL DEF RetentionSpec, LessThanADayEarly

\* purge_once: a tick that does not end the worker takes every row that is past
\* its retention, whatever the texts compare: of DueIsPurged it is the part
\* that needs no fairness.
THEOREM TickTakesAllDue ==
    RetentionSpec => [][PurgeOnce /\ worker' = "running" =>
                             \A o \in Objects : Due(o) => o \in purged']_retentionVars
<1>1. ASSUME RetentionTypeOK, PurgeOnce, worker' = "running", NEW o \in Objects, Due(o)
      PROVE  o \in purged'
  <2>1. deletedAt[o] # NotDeleted /\ now - deletedAt[o] >= Keep
    BY <1>1 DEF Due, Age
  <2>2. deletedAt[o] \in Int /\ now \in Int /\ Keep \in Int
    BY RetentionAssumption, <1>1, <2>1, KeepType DEF RetentionTypeOK
  <2>3. now - Keep \in Int /\ deletedAt[o] <= now - Keep
    BY <2>1, <2>2
  <2>4. Expired(deletedAt[o], now - Keep)
    BY <2>2, <2>3, ExpiredBounds
  <2> QED BY <1>1, <2>1, <2>4 DEF PurgeOnce
<1>2. RetentionTypeOK /\ [RetentionNext]_retentionVars =>
        [PurgeOnce /\ worker' = "running" =>
            \A o \in Objects : Due(o) => o \in purged']_retentionVars
  BY <1>1
<1> QED BY <1>2, RetentionTypes, PTL DEF RetentionSpec
=============================================================================
