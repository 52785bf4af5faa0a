----------------------------- MODULE Replication -----------------------------
(***************************************************************************)
(* MyS3 nodes replicating to each other: the replication_outbox and its    *)
(* worker (cluster/worker.rs), the gRPC handlers of the receiving node     *)
(* (cluster/grpc_server.rs), anti-entropy (cluster/anti_entropy.rs), and   *)
(* the local operations that feed them.  The inner steps of a local PUT or *)
(* purge are those of ObjectStore; here a PUT is its commit, and a purge   *)
(* its transaction followed by its unlink.                                 *)
(*                                                                         *)
(* All buckets replicate to all nodes (replicate_to_all = 1).  A file is a *)
(* uuid path; KeyOf gives the key it is uploaded for.  Contents matter     *)
(* only as far as the receiver's etag check can tell: a blob is "good" or  *)
(* "bad" (truncated); no content is empty, and etags are the default md5.  *)
(* The attempt counter and its backoff are a FAILED job becoming due at    *)
(* some later time.                                                        *)
(***************************************************************************)
EXTENDS Naturals, Sequences, FiniteSets, SequencesExt

CONSTANTS
    Nodes,
    Writers,     \* the nodes clients upload to and delete on
    Files,
    KeyOf,       \* [Files -> keys]
    Unreliable,  \* whether calls to a peer can fail on the way
    MaxJobs,     \* bound: jobs in one outbox when a client operation adds some
    MaxPurges,   \* bound: purged versions
    MaxFaults    \* bound: crashes and failed writes to an outbox

ASSUME ReplicationAssumption ==
    /\ IsFiniteSet(Nodes) /\ Writers \subseteq Nodes
    /\ Unreliable \in BOOLEAN
    /\ {MaxJobs, MaxPurges, MaxFaults} \subseteq Nat

VARIABLES
    row,       \* [Nodes -> [Files -> "absent", "active" or "recycled"]]
    pathKeyed, \* [Nodes -> files whose row is keyed by its own path: the PUT
               \* that created it had lost its metadata]
    disk,      \* [Nodes -> [Files -> "none", "bad" or "good"]]
    outbox,    \* [Nodes -> Seq(job)], in id order
    rpc,       \* [Nodes -> the step of the worker's current call]
    payload,   \* [Nodes -> what the current PUT call carries]
    unlinks,   \* [Nodes -> purged files whose unlink is still to come]
    ae,        \* [Nodes -> the anti-entropy pass: the local digest, the peers
               \* still to compare with, the <<peer, file>> still to look at,
               \* and the one about to be enqueued]
    uploaded,  \* files some client has uploaded
    purged,    \* <<node, file>>: versions purged on a node's own account
    faults

vars == <<row, pathKeyed, disk, outbox, rpc, payload, unlinks, ae, uploaded, purged, faults>>

\* status COMPLETED is never written: a completed job is deleted.
Job == [peer : Nodes, file : Files, op : {"PUT", "DELETE"},
        status : {"PENDING", "IN_FLIGHT", "FAILED"},
        linked : BOOLEAN,   \* object_id is not NULL
        batch : BOOLEAN,    \* claimed by the running worker
        meta : BOOLEAN]     \* the claim found the object row

TypeOK ==
    /\ row \in [Nodes -> [Files -> {"absent", "active", "recycled"}]]
    /\ pathKeyed \in [Nodes -> SUBSET Files]
    /\ disk \in [Nodes -> [Files -> {"none", "bad", "good"}]]
    /\ outbox \in [Nodes -> Seq(Job)]
    /\ rpc \in [Nodes -> {"idle", "write", "insert", "delrow", "done", "failed"}]
    /\ payload \in [Nodes -> {"none", "bad", "good"}]
    /\ unlinks \in [Nodes -> SUBSET Files]
    /\ ae \in [Nodes -> [local : SUBSET Files, peers : SUBSET Nodes,
                         missing : SUBSET (Nodes \X Files),
                         ready : SUBSET (Nodes \X Files)]]
    /\ uploaded \subseteq Files
    /\ purged \subseteq Nodes \X Files
    /\ faults \in 0..MaxFaults

Active(n)     == {f \in Files : row[n][f] = "active"}
RowKey(n, f)  == IF f \in pathKeyed[n] THEN f ELSE KeyOf[f]
SameKey(n, f, k) == {g \in Active(n) \ {f} : RowKey(n, g) = k}

AeIdle == [local |-> {}, peers |-> {}, missing |-> {}, ready |-> {}]

Init ==
    /\ row = [n \in Nodes |-> [f \in Files |-> "absent"]]
    /\ pathKeyed = [n \in Nodes |-> {}]
    /\ disk = [n \in Nodes |-> [f \in Files |-> "none"]]
    /\ outbox = [n \in Nodes |-> <<>>]
    /\ rpc = [n \in Nodes |-> "idle"]
    /\ payload = [n \in Nodes |-> "none"]
    /\ unlinks = [n \in Nodes |-> {}]
    /\ ae = [n \in Nodes |-> AeIdle]
    /\ uploaded = {}
    /\ purged = {}
    /\ faults = 0

NewJob(p, f, op) ==
    [peer |-> p, file |-> f, op |-> op, status |-> "PENDING",
     linked |-> TRUE, batch |-> FALSE, meta |-> FALSE]

\* enqueue_{put,delete}_for_active_peers: one job per peer, never to itself.
JobsToPeers(n, f, op) ==
    LET peers == SetToSeq(Nodes \ {n})
    IN [i \in DOMAIN peers |-> NewJob(peers[i], f, op)]

\* ON DELETE SET NULL on replication_outbox.object_id.
Unlinked(jobs, f) ==
    [i \in DOMAIN jobs |-> IF jobs[i].file = f THEN [jobs[i] EXCEPT !.linked = FALSE]
                                               ELSE jobs[i]]
-----------------------------------------------------------------------------
(***************************************************************************)
(* Local operations                                                        *)
(***************************************************************************)

\* A committed PUT: the replaced version goes to the recycle bin.
Put(n, f) ==
    /\ f \notin uploaded
    /\ Len(outbox[n]) < MaxJobs
    /\ uploaded' = uploaded \cup {f}
    /\ row' = [row EXCEPT ![n] =
                 [g \in Files |-> IF g = f THEN "active"
                                  ELSE IF g \in SameKey(n, f, KeyOf[f]) THEN "recycled"
                                  ELSE row[n][g]]]
    /\ disk' = [disk EXCEPT ![n][f] = "good"]
    /\ outbox' = [outbox EXCEPT ![n] = @ \o JobsToPeers(n, f, "PUT")]
    /\ UNCHANGED <<pathKeyed, rpc, payload, unlinks, ae, purged, faults>>

\* Soft deletes and restores are not replicated.
SoftDelete(n, f) ==
    /\ row[n][f] = "active"
    /\ row' = [row EXCEPT ![n][f] = "recycled"]
    /\ UNCHANGED <<pathKeyed, disk, outbox, rpc, payload, unlinks, ae, uploaded, purged, faults>>

Restore(n, f) ==
    /\ row[n][f] = "recycled"
    /\ SameKey(n, f, RowKey(n, f)) = {}
    /\ row' = [row EXCEPT ![n][f] = "active"]
    /\ UNCHANGED <<pathKeyed, disk, outbox, rpc, payload, unlinks, ae, uploaded, purged, faults>>

\* The transaction of purge_once or hard_purge_object.
Purge(n, f) ==
    /\ row[n][f] = "recycled"
    /\ Len(outbox[n]) < MaxJobs
    /\ Cardinality(purged) < MaxPurges
    /\ purged' = purged \cup {<<n, f>>}
    /\ row' = [row EXCEPT ![n][f] = "absent"]
    /\ pathKeyed' = [pathKeyed EXCEPT ![n] = @ \ {f}]
    /\ outbox' = [outbox EXCEPT ![n] = Unlinked(@ \o JobsToPeers(n, f, "DELETE"), f)]
    /\ unlinks' = [unlinks EXCEPT ![n] = @ \cup {f}]
    /\ UNCHANGED <<disk, rpc, payload, ae, uploaded, faults>>

\* The unlink that follows it.
Unlink(n, f) ==
    /\ f \in unlinks[n]
    /\ disk' = [disk EXCEPT ![n][f] = "none"]
    /\ unlinks' = [unlinks EXCEPT ![n] = @ \ {f}]
    /\ UNCHANGED <<row, pathKeyed, outbox, rpc, payload, ae, uploaded, purged, faults>>
-----------------------------------------------------------------------------
(***************************************************************************)
(* The outbox worker, run_replication_worker, and the gRPC handlers its    *)
(* calls run on the peer                                                   *)
(***************************************************************************)

Batch(n) == {i \in DOMAIN outbox[n] : outbox[n][i].batch}

\* The jobs of a batch are processed one after the other, in id order.
Current(n) == CHOOSE i \in Batch(n) : \A j \in Batch(n) : i <= j
CurJob(n)  == outbox[n][Current(n)]

\* Mutated: the object row is never joined.
Claimed_NoJoin(j) ==
    IF j.status = "PENDING"
    THEN [j EXCEPT !.status = "IN_FLIGHT", !.batch = TRUE, !.meta = FALSE]
    ELSE j

\* claim_outbox_jobs: every due job of an active peer becomes IN_FLIGHT, with
\* a snapshot of its object row.
Claimed(j) ==
    IF j.status = "PENDING"
    THEN [j EXCEPT !.status = "IN_FLIGHT", !.batch = TRUE, !.meta = j.linked]
    ELSE j

Claim(n) ==
    /\ Batch(n) = {}
    /\ \E i \in DOMAIN outbox[n] : outbox[n][i].status = "PENDING"
    /\ outbox' = [outbox EXCEPT ![n] = [i \in DOMAIN outbox[n] |-> Claimed(outbox[n][i])]]
    /\ UNCHANGED <<row, pathKeyed, disk, rpc, payload, unlinks, ae, uploaded, purged, faults>>

\* replicate_put streams whatever it can read; the peer collects it all and
\* then creates (truncates) the file at the forced path.
SendPut(n) ==
    /\ rpc[n] = "idle" /\ Batch(n) # {} /\ CurJob(n).op = "PUT"
    /\ LET j == CurJob(n) IN
         /\ payload' = [payload EXCEPT ![n] = IF disk[n][j.file] = "good" THEN "good" ELSE "bad"]
         /\ disk' = [disk EXCEPT ![j.peer][j.file] = "bad"]
    /\ rpc' = [rpc EXCEPT ![n] = "write"]
    /\ UNCHANGED <<row, pathKeyed, outbox, unlinks, ae, uploaded, purged, faults>>

\* Mutated: whatever was received is accepted.
EtagMatches_Unchecked(n) == TRUE

\* put_chunks hashes what it wrote: a mismatch removes the file.
EtagMatches(n) == payload[n] = "good"

\* Mutated: a mismatch removes the row, too.
RecvWrite_DropsRow(n) ==
    /\ rpc[n] = "write"
    /\ LET j == CurJob(n) IN
         /\ disk' = [disk EXCEPT ![j.peer][j.file] = IF EtagMatches(n) THEN payload[n] ELSE "none"]
         /\ row' = IF EtagMatches(n) THEN row ELSE [row EXCEPT ![j.peer][j.file] = "absent"]
    /\ rpc' = [rpc EXCEPT ![n] = IF EtagMatches(n) THEN "insert" ELSE "failed"]
    /\ payload' = [payload EXCEPT ![n] = "none"]
    /\ UNCHANGED <<pathKeyed, outbox, unlinks, ae, uploaded, purged, faults>>

RecvWrite(n) ==
    /\ rpc[n] = "write"
    /\ LET j == CurJob(n) IN
         disk' = [disk EXCEPT ![j.peer][j.file] = IF EtagMatches(n) THEN payload[n] ELSE "none"]
    /\ rpc' = [rpc EXCEPT ![n] = IF EtagMatches(n) THEN "insert" ELSE "failed"]
    /\ payload' = [payload EXCEPT ![n] = "none"]
    /\ UNCHANGED <<row, pathKeyed, outbox, unlinks, ae, uploaded, purged, faults>>

\* insert_object_idempotent: ON CONFLICT(filepath) DO NOTHING, but a second
\* active row under the key is an error.
RecvInsert(n) ==
    /\ rpc[n] = "insert"
    /\ LET j == CurJob(n)
           k == IF j.meta THEN KeyOf[j.file] ELSE j.file
       IN IF row[j.peer][j.file] # "absent" THEN
               /\ rpc' = [rpc EXCEPT ![n] = "done"]
               /\ UNCHANGED <<row, pathKeyed>>
          ELSE IF SameKey(j.peer, j.file, k) # {} THEN
               /\ rpc' = [rpc EXCEPT ![n] = "failed"]
               /\ UNCHANGED <<row, pathKeyed>>
          ELSE /\ rpc' = [rpc EXCEPT ![n] = "done"]
               /\ row' = [row EXCEPT ![j.peer][j.file] = "active"]
               /\ pathKeyed' = [pathKeyed EXCEPT ![j.peer] = IF j.meta THEN @ ELSE @ \cup {j.file}]
    /\ UNCHANGED <<disk, outbox, payload, unlinks, ae, uploaded, purged, faults>>

\* delete_object on the peer: unlink, then delete the row, if any.
SendDelete(n) ==
    /\ rpc[n] = "idle" /\ Batch(n) # {} /\ CurJob(n).op = "DELETE"
    /\ LET j == CurJob(n) IN disk' = [disk EXCEPT ![j.peer][j.file] = "none"]
    /\ rpc' = [rpc EXCEPT ![n] = "delrow"]
    /\ UNCHANGED <<row, pathKeyed, outbox, payload, unlinks, ae, uploaded, purged, faults>>

RecvDelete(n) ==
    /\ rpc[n] = "delrow"
    /\ LET j == CurJob(n) IN
         /\ row' = [row EXCEPT ![j.peer][j.file] = "absent"]
         /\ pathKeyed' = [pathKeyed EXCEPT ![j.peer] = @ \ {j.file}]
         /\ outbox' = [outbox EXCEPT ![j.peer] = Unlinked(@, j.file)]
    /\ rpc' = [rpc EXCEPT ![n] = "done"]
    /\ UNCHANGED <<disk, payload, unlinks, ae, uploaded, purged, faults>>

\* The peer cannot be reached, or the connection breaks and the call fails,
\* before, while or after the peer has handled it.
NetFail(n) ==
    /\ Unreliable
    /\ Batch(n) # {}
    /\ rpc[n] # "failed"
    /\ rpc' = [rpc EXCEPT ![n] = "failed"]
    /\ payload' = [payload EXCEPT ![n] = "none"]
    /\ UNCHANGED <<row, pathKeyed, disk, outbox, unlinks, ae, uploaded, purged, faults>>

\* complete_outbox_job deletes the job.
Complete(n) ==
    /\ rpc[n] = "done"
    /\ outbox' = [outbox EXCEPT ![n] = RemoveAt(@, Current(n))]
    /\ rpc' = [rpc EXCEPT ![n] = "idle"]
    /\ UNCHANGED <<row, pathKeyed, disk, payload, unlinks, ae, uploaded, purged, faults>>

\* Mutated: the status is not written.
Released_SameStatus(j, status) == [j EXCEPT !.batch = FALSE, !.meta = FALSE]

\* The job leaves the batch.
Released(j, status) == [j EXCEPT !.status = status, !.batch = FALSE, !.meta = FALSE]

\* Mutated: a failed job is dropped.
Fail_GivesUp(n) ==
    /\ rpc[n] = "failed"
    /\ outbox' = [outbox EXCEPT ![n] = RemoveAt(@, Current(n))]
    /\ rpc' = [rpc EXCEPT ![n] = "idle"]
    /\ UNCHANGED <<row, pathKeyed, disk, payload, unlinks, ae, uploaded, purged, faults>>

\* fail_outbox_job schedules a retry ...
Fail(n) ==
    /\ rpc[n] = "failed"
    /\ outbox' = [outbox EXCEPT ![n][Current(n)] = Released(CurJob(n), "FAILED")]
    /\ rpc' = [rpc EXCEPT ![n] = "idle"]
    /\ UNCHANGED <<row, pathKeyed, disk, payload, unlinks, ae, uploaded, purged, faults>>

\* An error of complete_outbox_job or fail_outbox_job is only logged.
WriteFails(n) ==
    /\ faults < MaxFaults
    /\ rpc[n] \in {"done", "failed"}
    /\ outbox' = [outbox EXCEPT ![n][Current(n)] = Released(CurJob(n), "IN_FLIGHT")]
    /\ rpc' = [rpc EXCEPT ![n] = "idle"]
    /\ faults' = faults + 1
    /\ UNCHANGED <<row, pathKeyed, disk, payload, unlinks, ae, uploaded, purged>>

\* ... and next_retry_utc comes.
RetryDue(n, i) ==
    /\ outbox[n][i].status = "FAILED"
    /\ outbox' = [outbox EXCEPT ![n][i].status = "PENDING"]
    /\ UNCHANGED <<row, pathKeyed, disk, rpc, payload, unlinks, ae, uploaded, purged, faults>>
-----------------------------------------------------------------------------
(***************************************************************************)
(* Anti-entropy, run_once                                                  *)
(***************************************************************************)

\* The local digest: the active rows.
AeStart(n) ==
    /\ ae[n] = AeIdle
    /\ ae' = [ae EXCEPT ![n].local = Active(n), ![n].peers = Nodes \ {n}]
    /\ UNCHANGED <<row, pathKeyed, disk, outbox, rpc, payload, unlinks, uploaded, purged, faults>>

\* One peer: SyncDigest answers with its active rows, or the call fails.
AePeer(n, p, missing) ==
    /\ p \in ae[n].peers
    /\ ae[n].missing = {} /\ ae[n].ready = {}
    /\ LET left == ae[n].peers \ {p} IN
         ae' = [ae EXCEPT ![n].local = IF left = {} THEN {} ELSE @,
                          ![n].peers = left,
                          ![n].missing = {p} \X missing]
    /\ UNCHANGED <<row, pathKeyed, disk, outbox, rpc, payload, unlinks, uploaded, purged, faults>>

AeDigest(n, p) == AePeer(n, p, ae[n].local \ Active(p))
AeSkip(n, p)   == Unreliable /\ AePeer(n, p, {})

\* Mutated: a job that is being sent does not count.
HasPut_NotInFlight(n, p, f) ==
    \E i \in DOMAIN outbox[n] :
        /\ outbox[n][i].peer = p /\ outbox[n][i].file = f /\ outbox[n][i].op = "PUT"
        /\ outbox[n][i].status # "IN_FLIGHT"

\* enqueue_put_for_peer: unless a PUT job for the path is there already.
HasPut(n, p, f) ==
    \E i \in DOMAIN outbox[n] :
        outbox[n][i].peer = p /\ outbox[n][i].file = f /\ outbox[n][i].op = "PUT"

AeCheck(n, p, f) ==
    /\ <<p, f>> \in ae[n].missing
    /\ ae[n].ready = {}
    /\ ae' = [ae EXCEPT ![n].missing = @ \ {<<p, f>>},
                        ![n].ready = IF row[n][f] = "active" /\ ~ HasPut(n, p, f)
                                     THEN {<<p, f>>} ELSE {}]
    /\ UNCHANGED <<row, pathKeyed, disk, outbox, rpc, payload, unlinks, uploaded, purged, faults>>

\* Its INSERT; the foreign key refuses a row that is gone by now.
AeInsert(n, p, f) ==
    /\ <<p, f>> \in ae[n].ready
    /\ outbox' = IF row[n][f] # "absent"
                 THEN [outbox EXCEPT ![n] = Append(@, NewJob(p, f, "PUT"))]
                 ELSE outbox
    /\ ae' = [ae EXCEPT ![n].ready = {}]
    /\ UNCHANGED <<row, pathKeyed, disk, rpc, payload, unlinks, uploaded, purged, faults>>
-----------------------------------------------------------------------------
(***************************************************************************)
(* A node dies and starts again.  Nothing at startup looks at IN_FLIGHT    *)
(* jobs.  Calls it was serving fail at their sender.                       *)
(***************************************************************************)
Crash(n) ==
    /\ faults < MaxFaults
    /\ faults' = faults + 1
    /\ outbox' = [outbox EXCEPT ![n] =
                    [i \in DOMAIN outbox[n] |-> Released(outbox[n][i], outbox[n][i].status)]]
    /\ LET served == {m \in Nodes \ {n} : rpc[m] # "idle" /\ CurJob(m).peer = n} IN
         /\ rpc' = [m \in Nodes |-> IF m = n THEN "idle"
                                    ELSE IF m \in served THEN "failed" ELSE rpc[m]]
         /\ payload' = [m \in Nodes |-> IF m \in served \cup {n} THEN "none" ELSE payload[m]]
    /\ unlinks' = [unlinks EXCEPT ![n] = {}]
    /\ ae' = [ae EXCEPT ![n] = AeIdle]
    /\ UNCHANGED <<row, pathKeyed, disk, uploaded, purged>>
-----------------------------------------------------------------------------
Worker(n) ==
    \/ Claim(n) \/ SendPut(n) \/ RecvWrite(n) \/ RecvInsert(n)
    \/ SendDelete(n) \/ RecvDelete(n) \/ Complete(n) \/ Fail(n)

AntiEntropy(n, p) ==
    \/ AeDigest(n, p) \/ AeSkip(n, p)
    \/ \E f \in Files : AeCheck(n, p, f) \/ AeInsert(n, p, f)

Client(n, f) == Put(n, f) \/ SoftDelete(n, f) \/ Restore(n, f) \/ Purge(n, f)

Next ==
    \/ \E n \in Writers, f \in Files : Client(n, f) \/ Unlink(n, f)
    \/ \E n \in Nodes : Worker(n) \/ NetFail(n) \/ WriteFails(n) \/ Crash(n) \/ AeStart(n)
    \/ \E n \in Nodes : \E i \in DOMAIN outbox[n] : RetryDue(n, i)
    \/ \E n \in Nodes : \E p \in Nodes \ {n} : AntiEntropy(n, p)

Spec == Init /\ [][Next]_vars

(***************************************************************************)
(* Fairness.  The worker and anti-entropy are interval loops that a node   *)
(* keeps running; a FAILED job's next_retry_utc passes.  Calls may fail    *)
(* again and again, but not always: strong fairness of each step of a call *)
(* is a network that works often enough, long enough.  Clients, purges,    *)
(* breaks and faults are under no obligation.                              *)
(***************************************************************************)
RetryFile(n, f) ==
    \E i \in DOMAIN outbox[n] : outbox[n][i].file = f /\ RetryDue(n, i)

FairSpec ==
    /\ Spec
    /\ \A n \in Nodes :
         /\ WF_vars(Claim(n) \/ Fail(n))
         /\ \A f \in Files : WF_vars(RetryFile(n, f))
         /\ SF_vars(SendPut(n) \/ SendDelete(n))
         /\ SF_vars(RecvWrite(n))
         /\ SF_vars(RecvInsert(n) \/ RecvDelete(n))
         /\ SF_vars(Complete(n))
         /\ WF_vars(AeStart(n) \/ \E p \in Nodes, f \in Files :
                                     AeCheck(n, p, f) \/ AeInsert(n, p, f))
         /\ \A p \in Nodes \ {n} : SF_vars(AeDigest(n, p))
-----------------------------------------------------------------------------
(***************************************************************************)
(* Properties                                                              *)
(***************************************************************************)

\* A PUT job for the version and the peer, in whatever status.
Queued(n, p, f) ==
    \E i \in DOMAIN outbox[n] :
        outbox[n][i].peer = p /\ outbox[n][i].file = f /\ outbox[n][i].op = "PUT"

\* No node has purged the version on its own account.
Unpurged(f) == \A m \in Nodes : <<m, f>> \notin purged

\* enqueue_put_for_peer's check and its insert are two statements, and the
\* worker changes job states in between, but an outbox never holds two PUT
\* jobs for one version and one peer.  (An ETag rehash, which is not part of
\* this module, enqueues without the check.)
NoDuplicatePuts ==
    \A n \in Nodes : \A i, j \in DOMAIN outbox[n] :
        /\ outbox[n][i].op = "PUT" /\ outbox[n][j].op = "PUT"
        /\ outbox[n][i].file = outbox[n][j].file /\ outbox[n][i].peer = outbox[n][j].peer
        => i = j

\* The transactional outbox: whatever fails between the commit of a PUT and
\* the end of its calls, and whatever is purged besides, a version that was
\* uploaded and that nobody purges is either on a node or still named by some
\* node's job for it (be it one that a crash left IN_FLIGHT).
NeverForgotten ==
    \A f \in uploaded, p \in Nodes :
        Unpurged(f) => row[p][f] # "absent" \/ \E m \in Nodes : Queued(m, p, f)

\* ReplicateObject truncates the file at the forced path before it has
\* verified anything.  As long as the version is not purged, a row whose blob
\* was damaged or removed that way still has the job that would bring it again.
DamagedHasRepair ==
    \A n \in Nodes : \A f \in Files :
        row[n][f] # "absent" /\ disk[n][f] # "good" /\ Unpurged(f) =>
            \E m \in Nodes : Queued(m, n, f)

\* The abstract view of a version on a node.
StandingOf(p, f) ==
    IF ~ Unpurged(f) THEN "withdrawn"
    ELSE IF row[p][f] # "absent" THEN "held"
    ELSE IF \E m \in Nodes : Queued(m, p, f) THEN "owed" ELSE "none"

Abstract == INSTANCE Delivery WITH
    stage <- [p \in Nodes |-> [f \in Files |-> StandingOf(p, f)]]

\* Every step of workers, handlers, passes and faults is a step of a delivery
\* or does not show: a job is given up only for a version that has arrived, a
\* replica never goes away again, and jobs appear for uploaded versions only.
RefinesDelivery == Abstract!Spec

\* A row keyed by its path (the object row was gone when the job was claimed)
\* only ever appears for a version that some node has purged.
GhostsWerePurged ==
    \A n \in Nodes : \A f \in pathKeyed[n] : \E m \in Nodes : <<m, f>> \in purged

\* "Objects are pushed via the replication outbox; anti-entropy reconciles
\* digests over time": a version that stays live on a node clients write to
\* reaches the others.
Convergence ==
    \A n \in Writers, p \in Nodes \ Writers : \A f \in Files :
        (row[n][f] = "active") ~> (row[n][f] # "active" \/ row[p][f] = "active")
=============================================================================
