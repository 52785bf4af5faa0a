---------------------------- MODULE BucketNodes ----------------------------
(***************************************************************************)
(* The nodes of a bucket: replicate_to_all, the allocations in             *)
(* bucket_replication_peer, and the routes that edit them (db/             *)
(* repository.rs, server/settings_routes.rs, cluster/peer_manager.rs).     *)
(* An edit is several statements, and two editors may be at it at once.    *)
(* Whoever writes replication_outbox asks which nodes the bucket has; who  *)
(* reads it (claim_outbox_jobs) does not, so that a node that was taken    *)
(* out is still sent what was queued for it.                               *)
(*                                                                         *)
(* There is one bucket, whose editors have been admitted.  Peers are only  *)
(* ever added (is_active is never cleared), so that checking a peer and    *)
(* using it is one step.  An endpoint's text is left out, and of the       *)
(* outbox all but the peers that have rows in it: module Replication has   *)
(* its rows.                                                               *)
(***************************************************************************)
EXTENDS Integers, FiniteSets

CONSTANTS
    Nodes,
    Local,       \* this node
    Rows,        \* allocations: [bytes, mode]
    DefaultRow,  \* DEFAULT_NODE_ALLOCATED_BYTES, soft
    NoRow,
    Requests

ASSUME NodesAssumption ==
    /\ Local \in Nodes
    /\ Rows \subseteq [bytes : Nat \ {0}, mode : {"soft", "hard"}]
    /\ DefaultRow \in Rows
    /\ NoRow \notin Rows

VARIABLES
    peers,   \* ids in cluster_peer
    all,     \* bucket.replicate_to_all
    alloc,   \* [Nodes -> the row of bucket_replication_peer, or NoRow]
    step,    \* [Requests -> the statement the edit is at]
    node,    \* [Requests -> the node it edits]
    value,   \* [Requests -> the row it is about to write]
    queued,  \* peers with rows of this bucket in replication_outbox
    asked,   \* the peer that anti-entropy is about to enqueue a PUT for, or Local
    \* history
    gone,    \* nodes taken out and not added again
    lapsed   \* the statement that assigns the local node has failed

nodeVars == <<peers, all, alloc, step, node, value, queued, asked, gone, lapsed>>

NodesTypeOK ==
    /\ peers \subseteq Nodes
    /\ all \in BOOLEAN
    /\ alloc \in [Nodes -> Rows \cup {NoRow}]
    /\ step \in [Requests -> {"idle", "ensure", "patch", "remove", "clear"}]
    /\ node \in [Requests -> Nodes]
    /\ value \in [Requests -> Rows]
    /\ queued \subseteq Nodes
    /\ asked \in Nodes
    /\ gone \subseteq Nodes
    /\ lapsed \in BOOLEAN

\* The condition in the INSERT ... SELECT of the jobs of an upload, a purge or a
\* rehash, and in peer_should_receive_bucket.
Receives(n) == n \in peers \ {Local} /\ (all \/ alloc[n] # NoRow)
Receivers == {n \in Nodes : Receives(n)}

\* create_bucket, and the assignment of the local node by a second statement,
\* which may fail.
NodesInit ==
    /\ peers = {Local}
    /\ all = TRUE
    /\ lapsed \in BOOLEAN
    /\ alloc = [n \in Nodes |-> IF n = Local /\ ~ lapsed THEN DefaultRow ELSE NoRow]
    /\ step = [r \in Requests |-> "idle"]
    /\ node = [r \in Requests |-> Local]
    /\ value = [r \in Requests |-> DefaultRow]
    /\ queued = {}
    /\ asked = Local
    /\ gone = {}

outbox == <<queued, asked>>

EditDone(r) ==
    /\ step' = [step EXCEPT ![r] = "idle"]
    /\ node' = [node EXCEPT ![r] = Local]
    /\ value' = [value EXCEPT ![r] = DefaultRow]
-----------------------------------------------------------------------------
\* upsert_peer: from the configuration, or the first half of add_bucket_node.
RegisterPeer(n) ==
    /\ n \notin peers
    /\ peers' = peers \cup {n}
    /\ UNCHANGED <<all, alloc, step, node, value, gone, lapsed, outbox>>

WithLocal == [alloc EXCEPT ![Local] = IF @ = NoRow THEN DefaultRow ELSE @]

\* ensure_bucket_node_assignment in list_bucket_nodes and, for every bucket,
\* in ensure_local_node at startup.
EnsureLocal ==
    /\ alloc[Local] = NoRow
    /\ alloc' = WithLocal
    /\ lapsed' = FALSE
    /\ UNCHANGED <<peers, all, step, node, value, gone, outbox>>

\* put_bucket_replication: set_bucket_replication replaces every row, the
\* local one too, in a transaction; inactive and unknown peers are skipped ...
PutReplication(r, everyone, P) ==
    /\ step[r] = "idle"
    /\ all' = everyone
    /\ LET chosen == IF everyone THEN {} ELSE P \cap peers IN
         /\ alloc' = [n \in Nodes |-> IF n \in chosen THEN DefaultRow ELSE NoRow]
         /\ gone' = IF everyone THEN {} ELSE (gone \cup Receivers) \ chosen
    /\ step' = [step EXCEPT ![r] = "ensure"]
    /\ UNCHANGED <<peers, node, value, lapsed, outbox>>

\* ... and the local row is put back by a statement of its own.
PutEnsure(r) ==
    /\ step[r] = "ensure"
    /\ alloc' = WithLocal
    /\ lapsed' = FALSE
    /\ EditDone(r)
    /\ UNCHANGED <<peers, all, gone, outbox>>

\* add_bucket_node with assign_bucket_node's transaction.
AssignNode(r, n, row) ==
    /\ step[r] = "idle"
    /\ n \in peers \ {Local}
    /\ all' = FALSE
    /\ alloc' = [alloc EXCEPT ![n] = row]
    /\ gone' = gone \ {n}
    /\ UNCHANGED <<peers, step, node, value, lapsed, outbox>>

\* update_bucket_node reads the row: what the body leaves out keeps the value
\* read now ...
PatchRead(r, n, row) ==
    /\ step[r] = "idle"
    /\ alloc[n] # NoRow
    /\ step' = [step EXCEPT ![r] = "patch"]
    /\ node' = [node EXCEPT ![r] = n]
    /\ value' = [value EXCEPT ![r] = row]
    /\ UNCHANGED <<peers, all, alloc, gone, lapsed, outbox>>

\* Mutated: an upsert.
Patched_Upsert(r) == [alloc EXCEPT ![node[r]] = value[r]]

\* UPDATE ... WHERE bucket_id AND peer_id: only a row that is still there.
Patched(r) == [alloc EXCEPT ![node[r]] = IF @ = NoRow THEN NoRow ELSE value[r]]

\* ... and writes it in a transaction that also clears replicate_to_all.
PatchWrite(r) ==
    /\ step[r] = "patch"
    /\ all' = FALSE
    /\ alloc' = Patched(r)
    /\ EditDone(r)
    /\ UNCHANGED <<peers, gone, lapsed, outbox>>

\* Mutated: the local node may go like any other.
MayRemove_Local(n) == Cardinality({m \in Nodes : alloc[m] # NoRow}) > 1

MayRemove(n) == n # Local /\ Cardinality({m \in Nodes : alloc[m] # NoRow}) > 1

\* remove_bucket_node, three statements: the count ...
RemoveCheck(r, n) ==
    /\ step[r] = "idle"
    /\ MayRemove(n)
    /\ step' = [step EXCEPT ![r] = "remove"]
    /\ node' = [node EXCEPT ![r] = n]
    /\ UNCHANGED <<peers, all, alloc, value, gone, lapsed, outbox>>

\* ... the DELETE, which must find the row ...
RemoveDelete(r) ==
    /\ step[r] = "remove"
    /\ IF alloc[node[r]] = NoRow
       THEN EditDone(r) /\ UNCHANGED <<alloc, gone>>
       ELSE /\ alloc' = [alloc EXCEPT ![node[r]] = NoRow]
            /\ gone' = gone \cup {node[r]}
            /\ step' = [step EXCEPT ![r] = "clear"]
            /\ UNCHANGED <<node, value>>
    /\ UNCHANGED <<peers, all, lapsed, outbox>>

\* ... and replicate_to_all = 0, which undoes a put_bucket_replication that came
\* in between.
RemoveClear(r) ==
    /\ step[r] = "clear"
    /\ all' = FALSE
    /\ EditDone(r)
    /\ UNCHANGED <<peers, alloc, gone, lapsed, outbox>>

-----------------------------------------------------------------------------
\* The DELETE jobs of a purge and the PUT jobs of a rehash: one statement.
EnqueueJobs ==
    /\ queued' = queued \cup Receivers
    /\ UNCHANGED <<peers, all, alloc, step, node, value, asked, gone, lapsed>>

\* complete_outbox_job deletes the peer's last row.  The worker has claimed and
\* sent it whether or not the bucket still has the node.
JobDone(n) ==
    /\ n \in queued
    /\ queued' = queued \ {n}
    /\ UNCHANGED <<peers, all, alloc, step, node, value, asked, gone, lapsed>>

\* Anti-entropy, of which one pass runs at a time, asks for a peer that lacks
\* an object (peer_should_receive_bucket) ...
SyncAsk(n) ==
    /\ asked = Local
    /\ Receives(n)
    /\ asked' = n
    /\ UNCHANGED <<peers, all, alloc, step, node, value, queued, gone, lapsed>>

\* ... and enqueues a PUT by a later statement; or finds one, fails or dies.
SyncEnqueue ==
    /\ asked # Local
    /\ queued' \in {queued, queued \cup {asked}}
    /\ asked' = Local
    /\ UNCHANGED <<peers, all, alloc, step, node, value, gone, lapsed>>

Outbox == EnqueueJobs \/ SyncEnqueue \/ \E n \in Nodes : JobDone(n) \/ SyncAsk(n)
-----------------------------------------------------------------------------
\* A statement fails (put_bucket_replication ignores it), or the handler is
\* cut off.
EditCutOff(r) ==
    /\ step[r] # "idle"
    /\ lapsed' = (lapsed \/ step[r] = "ensure")
    /\ EditDone(r)
    /\ UNCHANGED <<peers, all, alloc, gone, outbox>>

Edit(r) ==
    \/ \E b \in BOOLEAN, P \in SUBSET Nodes : PutReplication(r, b, P)
    \/ PutEnsure(r) \/ PatchWrite(r) \/ RemoveDelete(r) \/ RemoveClear(r)
    \/ \E n \in Nodes : RemoveCheck(r, n)
    \/ \E n \in Nodes, row \in Rows : AssignNode(r, n, row) \/ PatchRead(r, n, row)
-----------------------------------------------------------------------------
\* "Keep local node assigned after legacy replication edits": whatever two
\* editors do, the bucket has its local node, except while an edit is about to
\* put it back, or once that statement has failed.  With it the bucket has a
\* last node that no removal takes.
LocalKept ==
    alloc[Local] = NoRow => lapsed \/ \E r \in Requests : step[r] = "ensure"

\* A node that remove_bucket_node or put_bucket_replication has taken out, and
\* nobody has added again, is sent what was queued for it and nothing more but
\* for one PUT of an anti-entropy pass that had asked before: no job is added
\* for it otherwise, and anti-entropy does not get leave again.  It holds
\* however the statements of edits interleave, and although a removal clears
\* replicate_to_all only after the row is gone: as long as it is set, no remote
\* node has a row that could be removed.
RemovedOnlyDrains ==
    [][\A n \in gone \cap gone' :
         /\ n \in queued' => n \in queued \/ asked = n
         /\ asked' = n => asked = n]_nodeVars
=============================================================================
