------------------------------ MODULE Uploads ------------------------------
(***************************************************************************)
(* Uploads under hard quotas and the connection pool                       *)
(* (put_object_keyed_in_bucket in server/s3_routes.rs, check_hard_quota in *)
(* db/repository.rs), together with the edits of BucketNodes that change   *)
(* the quotas.                                                             *)
(*                                                                         *)
(* An upload begins its transaction, and keeps that connection, before it  *)
(* asks the pool for one connection after the other: to read the size it   *)
(* replaces, the bytes in use and the quotas, and to soft-delete what it   *)
(* replaces.  What those statements and the transaction do otherwise is in *)
(* ObjectStore.  The recycle bin holds versions of every key and size.     *)
(***************************************************************************)
EXTENDS BucketNodes, FiniteSetsExt

CONSTANTS
    Keys,
    Sizes,     \* of objects
    PoolSize   \* max_connections

ASSUME UploadsAssumption ==
    /\ Sizes \subseteq Nat \ {0} /\ IsFiniteSet(Keys) /\ Keys # {}
    /\ PoolSize \in Nat \ {0}

VARIABLES
    size,    \* [Keys -> the size of the live object, or 0]
    pc,      \* [Requests -> the statement the upload is at]
    key, new,\* [Requests -> its key and the size of its body]
    growth,  \* [Requests -> net_growth, once it is known]
    used,    \* [Requests -> the bytes in use that it has read]
    \* history
    passed   \* by others: uploads during which a size or a quota has changed

uploadVars == <<size, pc, key, new, growth, used, passed>>
vars == <<peers, all, alloc, step, node, value, queued, asked, gone, lapsed,
          size, pc, key, new, growth, used, passed>>

Waiting == {"previous", "used", "quota", "replace"}

TypeOK ==
    /\ NodesTypeOK
    /\ size \in [Keys -> Sizes \cup {0}]
    /\ pc \in [Requests -> {"idle", "begin", "insert"} \cup Waiting]
    /\ key \in [Requests -> Keys]
    /\ new \in [Requests -> Sizes \cup {0}]
    /\ growth \in [Requests -> Int]
    /\ used \in [Requests -> Nat]
    /\ passed \subseteq Requests

NoKey == CHOOSE k \in Keys : TRUE

Init ==
    /\ NodesInit
    /\ size = [k \in Keys |-> 0]
    /\ pc = [r \in Requests |-> "idle"]
    /\ key = [r \in Requests |-> NoKey]
    /\ new = [r \in Requests |-> 0]
    /\ growth = [r \in Requests |-> 0]
    /\ used = [r \in Requests |-> 0]
    /\ passed = {}

\* bucket_used_bytes.
Used == MapThenSumSet(LAMBDA k : size[k], Keys)

Uploading(r) == pc[r] \notin {"idle", "begin"}
Free == PoolSize - Cardinality({r \in Requests : Uploading(r)})

\* The uploads under way that have not seen what r (or nobody of them) does.
Overtaken(r) == {q \in Requests \ {r} : pc[q] # "idle"}

Goto(r, label) == pc' = [pc EXCEPT ![r] = label]

Leave(r) ==
    /\ Goto(r, "idle")
    /\ key' = [key EXCEPT ![r] = NoKey]
    /\ new' = [new EXCEPT ![r] = 0]
    /\ growth' = [growth EXCEPT ![r] = 0]
    /\ used' = [used EXCEPT ![r] = 0]
-----------------------------------------------------------------------------
\* put_chunks has written and hashed the body.
Stored(r, k, s) ==
    /\ pc[r] = "idle" /\ step[r] = "idle"
    /\ Goto(r, "begin")
    /\ key' = [key EXCEPT ![r] = k]
    /\ new' = [new EXCEPT ![r] = s]
    /\ UNCHANGED <<nodeVars, size, growth, used, passed>>

\* state.db.begin(): from here on the request holds a connection.
BeginTx(r) ==
    /\ pc[r] = "begin" /\ Free > 0
    /\ Goto(r, "previous")
    /\ UNCHANGED <<nodeVars, size, key, new, growth, used, passed>>

\* saturating_sub of i64: signed.
NetGrowth(r) == new[r] - size[key[r]]

\* check_hard_quota asks nothing if the object does not grow.
ReadPrevious(r) ==
    /\ pc[r] = "previous" /\ Free > 0
    /\ growth' = [growth EXCEPT ![r] = NetGrowth(r)]
    /\ Goto(r, IF NetGrowth(r) <= 0 THEN "replace" ELSE "used")
    /\ UNCHANGED <<nodeVars, size, key, new, used, passed>>

ReadUsed(r) ==
    /\ pc[r] = "used" /\ Free > 0
    /\ used' = [used EXCEPT ![r] = Used]
    /\ Goto(r, "quota")
    /\ UNCHANGED <<nodeVars, size, key, new, growth, passed>>

HardQuotas == {alloc[n].bytes : n \in {m \in Nodes : alloc[m] # NoRow /\ alloc[m].mode = "hard"}}

\* Mutated: the growth is forgotten.
Exceeds_UsedOnly(r, q) == used[r] > q

Exceeds(r, q) == used[r] + growth[r] > q

\* Every hard row must have room; otherwise 413, and the blob is unlinked.
CheckQuota(r) ==
    /\ pc[r] = "quota" /\ Free > 0
    /\ IF \E q \in HardQuotas : Exceeds(r, q)
       THEN Leave(r) /\ passed' = passed \ {r}
       ELSE /\ Goto(r, "replace")
            /\ used' = [used EXCEPT ![r] = 0]
            /\ UNCHANGED <<key, new, growth, passed>>
    /\ UNCHANGED <<nodeVars, size>>

\* soft_delete_object_by_filename, on the pool, outside the transaction.  Its
\* UPDATE is by the id that its SELECT has read: if another upload has replaced
\* that row in between, it changes no size, and the insert fails as it does
\* when this step is taken at the SELECT.
Replace(r) ==
    /\ pc[r] = "replace" /\ Free > 0
    /\ size' = [size EXCEPT ![key[r]] = 0]
    /\ passed' = passed \cup Overtaken(r)
    /\ Goto(r, "insert")
    /\ UNCHANGED <<nodeVars, key, new, growth, used>>

\* The transaction: insert_object_tx fails if the key is live again; the jobs
\* are part of it.
Commit(r) ==
    /\ pc[r] = "insert"
    /\ IF size[key[r]] = 0
       THEN /\ size' = [size EXCEPT ![key[r]] = new[r]]
            /\ passed' = (passed \cup Overtaken(r)) \ {r}
            /\ EnqueueJobs
       ELSE UNCHANGED <<size, nodeVars>> /\ passed' = passed \ {r}
    /\ Leave(r)

\* Mutated: an acquire waits for ever.
MayTimeOut_Never(r) == r \notin Requests

\* The pool has been empty for its acquire_timeout.
MayTimeOut(r) == pc[r] \in Waiting \cup {"begin"} /\ Free = 0

\* The upload fails: its blob is unlinked, its transaction rolled back.
TimeOut(r) ==
    /\ MayTimeOut(r)
    /\ Leave(r)
    /\ passed' = passed \ {r}
    /\ UNCHANGED <<nodeVars, size>>

\* It fails otherwise, or its client is gone.
UploadCutOff(r) ==
    /\ pc[r] # "idle"
    /\ Leave(r)
    /\ passed' = passed \ {r}
    /\ UNCHANGED <<nodeVars, size>>
-----------------------------------------------------------------------------
\* delete_object and restore_object; neither looks at quotas.
Delete(k) ==
    /\ size[k] # 0 /\ Free > 0
    /\ size' = [size EXCEPT ![k] = 0]
    /\ passed' = passed \cup {q \in Requests : pc[q] # "idle"}
    /\ UNCHANGED <<nodeVars, pc, key, new, growth, used>>

Restore(k, s) ==
    /\ size[k] = 0 /\ Free > 0
    /\ size' = [size EXCEPT ![k] = s]
    /\ passed' = passed \cup {q \in Requests : pc[q] # "idle"}
    /\ UNCHANGED <<nodeVars, pc, key, new, growth, used>>

\* An edit of BucketNodes needs a connection like everybody else.
EditNodes(r) ==
    /\ pc[r] = "idle" /\ Free > 0
    /\ Edit(r) \/ EditCutOff(r) \/ EnsureLocal \/ \E n \in Nodes : RegisterPeer(n)
    /\ passed' = IF alloc' = alloc THEN passed
                 ELSE passed \cup {q \in Requests : pc[q] # "idle"}
    /\ UNCHANGED <<size, pc, key, new, growth, used>>

\* The workers that write the outbox, and the one that empties it.
OutboxWork ==
    /\ Free > 0
    /\ Outbox
    /\ UNCHANGED uploadVars

Upload(r) ==
    \/ BeginTx(r) \/ ReadPrevious(r) \/ ReadUsed(r) \/ CheckQuota(r)
    \/ Replace(r) \/ Commit(r)

Next ==
    \/ \E r \in Requests : \/ Upload(r) \/ TimeOut(r) \/ UploadCutOff(r) \/ EditNodes(r)
                           \/ \E k \in Keys, s \in Sizes : Stored(r, k, s)
    \/ \E k \in Keys : Delete(k) \/ \E s \in Sizes : Restore(k, s)
    \/ OutboxWork

Spec == Init /\ [][Next]_vars

\* A handler runs on; one that waits for a connection gets it, or is given up
\* by the pool's timeout.
FairSpec == Spec /\ \A r \in Requests : WF_vars(Upload(r) \/ TimeOut(r))
-----------------------------------------------------------------------------
\* check_hard_quota and the insert are five statements apart.  An upload that
\* nothing has overtaken never takes the bucket above a hard quota, unless it
\* replaces an object that was at least as large.
QuotaIfAlone ==
    [][\A r \in Requests :
         pc[r] = "insert" /\ size' # size /\ size'[key[r]] = new[r] /\ r \notin passed =>
             growth[r] <= 0 \/ \A q \in HardQuotas : Used' <= q]_vars

\* As many uploads as the pool has connections wait for each other, each with
\* a connection: the pool's timeout ends every one of them.
UploadsEnd == \A r \in Requests : (pc[r] # "idle") ~> (pc[r] = "idle")
=============================================================================
