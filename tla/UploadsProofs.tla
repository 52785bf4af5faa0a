---------------------------- MODULE UploadsProofs ----------------------------
(***************************************************************************)
(* The nodes of a bucket under any number of editors and uploads: the      *)
(* local node stays, and a node that was removed gets no new jobs but one  *)
(* that anti-entropy had asked for; and an upload that nothing overtakes   *)
(* keeps to the hard quotas.                                               *)
(***************************************************************************)
EXTENDS Uploads, FiniteSetTheorems, TLAPS

\* A removal, from its check on, is of a remote node.
RemovalsRemote ==
    \A r \in Requests : step[r] \in {"remove", "clear"} => node[r] # Local

\* replicate_to_all is only ever set by the statement that drops every row, and
\* every statement that writes a remote row clears it.
AllMeansNoRows == all => \A n \in Nodes \ {Local} : alloc[n] = NoRow

\* A node that was taken out has no row, and replicate_to_all was not set since.
GoneOK == \A n \in gone : n # Local /\ alloc[n] = NoRow /\ ~ all

NInv == NodesTypeOK /\ RemovalsRemote /\ AllMeansNoRows /\ GoneOK /\ LocalKept

\* The invariant holds at the start.
LEMMA InitNodes == NodesInit => NInv
<1> SUFFICES ASSUME NodesInit PROVE NInv
  OBVIOUS
<1> USE NodesAssumption
<1>1. all \in BOOLEAN /\ lapsed \in BOOLEAN
  BY DEF NodesInit
<1>2. NodesTypeOK
  BY <1>1 DEF NodesInit, NodesTypeOK
<1>3. RemovalsRemote /\ AllMeansNoRows /\ GoneOK /\ LocalKept
  BY <1>1 DEF NodesInit, RemovalsRemote, AllMeansNoRows, GoneOK, LocalKept
<1> QED BY <1>2, <1>3 DEF NInv

\* The statements that write the row of the local node only, or none.
LEMMA LocalEdits ==
    ASSUME NInv, NEW r \in Requests,
           \/ EnsureLocal \/ PutEnsure(r) \/ EditCutOff(r) \/ RemoveClear(r)
           \/ \E n \in Nodes : RegisterPeer(n) \/ RemoveCheck(r, n)
           \/ \E n \in Nodes, row \in Rows : PatchRead(r, n, row)
    PROVE  NInv'
<1> USE NodesAssumption DEF NInv, NodesTypeOK, RemovalsRemote, AllMeansNoRows, GoneOK, LocalKept, outbox
<1>1. CASE EnsureLocal
  BY <1>1 DEF EnsureLocal, WithLocal
<1>2. CASE PutEnsure(r)
  BY <1>2 DEF PutEnsure, WithLocal, EditDone
<1>3. CASE EditCutOff(r)
  BY <1>3 DEF EditCutOff, EditDone
<1>4. CASE RemoveClear(r)
  BY <1>4 DEF RemoveClear, EditDone
<1>5. ASSUME NEW n \in Nodes, RegisterPeer(n) PROVE NInv'
  BY <1>5 DEF RegisterPeer
<1>6. ASSUME NEW n \in Nodes, RemoveCheck(r, n) PROVE NInv'
  BY <1>6 DEF RemoveCheck, MayRemove
<1>7. ASSUME NEW n \in Nodes, NEW row \in Rows, PatchRead(r, n, row) PROVE NInv'
  BY <1>7 DEF PatchRead
<1> QED BY <1>1, <1>2, <1>3, <1>4, <1>5, <1>6, <1>7

\* The statements that write the rows of remote nodes.
LEMMA RemoteEdits ==
    ASSUME NInv, NEW r \in Requests,
           \/ PatchWrite(r) \/ RemoveDelete(r)
           \/ \E b \in BOOLEAN, P \in SUBSET Nodes : PutReplication(r, b, P)
           \/ \E n \in Nodes, row \in Rows : AssignNode(r, n, row)
    PROVE  NInv'
<1> USE NodesAssumption DEF NInv, NodesTypeOK, RemovalsRemote, AllMeansNoRows, GoneOK, LocalKept, outbox
<1>1. CASE PatchWrite(r)
  <2>1. all' = FALSE /\ gone' = gone /\ lapsed' = lapsed
    BY <1>1 DEF PatchWrite
  <2>2. \A n \in Nodes : alloc'[n] = NoRow <=> alloc[n] = NoRow
    BY <1>1 DEF PatchWrite, Patched
  <2>3. NodesTypeOK'
    BY <1>1 DEF PatchWrite, Patched, EditDone
  <2>4. (RemovalsRemote /\ LocalKept)'
    BY <1>1, <2>1, <2>2 DEF PatchWrite, EditDone
  <2>5. (AllMeansNoRows /\ GoneOK)'
    BY <2>1, <2>2
  <2> QED BY <2>3, <2>4, <2>5
<1>2. CASE RemoveDelete(r) /\ alloc[node[r]] = NoRow
  BY <1>2 DEF RemoveDelete, EditDone
<1>3. CASE RemoveDelete(r) /\ alloc[node[r]] # NoRow
  <2>1. node[r] # Local /\ ~ all
    BY <1>3 DEF RemoveDelete
  <2> QED BY <1>3, <2>1 DEF RemoveDelete
<1>4. ASSUME NEW P \in SUBSET Nodes, PutReplication(r, TRUE, P) PROVE NInv'
  BY <1>4 DEF PutReplication, Receivers, Receives
<1>5. ASSUME NEW P \in SUBSET Nodes, PutReplication(r, FALSE, P) PROVE NInv'
  BY <1>5 DEF PutReplication, Receivers, Receives
<1>6. ASSUME NEW n \in Nodes, NEW row \in Rows, AssignNode(r, n, row) PROVE NInv'
  BY <1>6 DEF AssignNode
<1> QED BY <1>1, <1>2, <1>3, <1>4, <1>5, <1>6

\* Writers and readers of the outbox leave the nodes alone.
LEMMA OutboxSteps == NInv /\ Outbox => NInv' /\ UNCHANGED <<alloc, gone>>
<1> SUFFICES ASSUME NInv, Outbox PROVE NInv' /\ UNCHANGED <<alloc, gone>>
  OBVIOUS
<1>1. UNCHANGED <<peers, all, alloc, step, node, value, gone, lapsed>>
  BY DEF Outbox, EnqueueJobs, JobDone, SyncAsk, SyncEnqueue
<1>2. queued' \subseteq Nodes /\ asked' \in Nodes
  BY NodesAssumption DEF Outbox, EnqueueJobs, JobDone, SyncAsk, SyncEnqueue, Receivers, NInv, NodesTypeOK
<1> QED BY <1>1, <1>2 DEF NInv, NodesTypeOK, RemovalsRemote, AllMeansNoRows, GoneOK, LocalKept

\* Of an upload's steps only the commit touches the outbox.
LEMMA UploadNodes ==
    ASSUME NEW r \in Requests, Upload(r) \/ TimeOut(r) \/ UploadCutOff(r)
    PROVE  UNCHANGED nodeVars \/ Outbox
  BY DEF Upload, TimeOut, UploadCutOff, BeginTx, ReadPrevious, ReadUsed,
         CheckQuota, Replace, Commit, Outbox

\* Nor does any other step that is not an edit touch the nodes.
LEMMA NodesStep == NInv /\ [Next]_vars => NInv'
<1> SUFFICES ASSUME NInv, [Next]_vars PROVE NInv'
  OBVIOUS
<1>1. ASSUME UNCHANGED nodeVars PROVE NInv'
  BY <1>1 DEF nodeVars, NInv, NodesTypeOK, RemovalsRemote, AllMeansNoRows, GoneOK, LocalKept
<1>2. ASSUME NEW r \in Requests, EditNodes(r) PROVE NInv'
  BY <1>2, LocalEdits, RemoteEdits DEF EditNodes, Edit
<1>3. ASSUME \/ OutboxWork
             \/ \E r \in Requests : Upload(r) \/ TimeOut(r) \/ UploadCutOff(r)
      PROVE  UNCHANGED nodeVars \/ Outbox
  BY <1>3, UploadNodes DEF OutboxWork
<1>4. ASSUME NEW r \in Requests, NEW k \in Keys, NEW s \in Sizes, Stored(r, k, s)
      PROVE  UNCHANGED nodeVars
  BY <1>4 DEF Stored
<1>5. ASSUME NEW k \in Keys, Delete(k) \/ \E s \in Sizes : Restore(k, s)
      PROVE  UNCHANGED nodeVars
  BY <1>5 DEF Delete, Restore
<1>6. CASE UNCHANGED vars
  BY <1>1, <1>6 DEF vars, nodeVars
<1> QED BY <1>1, <1>2, <1>3, <1>4, <1>5, <1>6, OutboxSteps DEF Next

\* NInv holds in every reachable state.
LEMMA NodesInvariant == Spec => []NInv
<1>1. Init => NInv
  BY InitNodes DEF Init
<1> QED BY <1>1, NodesStep, PTL DEF Spec

\* The local node of a bucket: whatever editors interleave, its row is missing
\* only while a put_bucket_replication is about to put it back, or after that
\* statement failed.
THEOREM LocalStays == Spec => []LocalKept
<1>1. NInv => LocalKept
  BY DEF NInv
<1> QED BY <1>1, NodesInvariant, PTL

\* An edit never touches the outbox.
LEMMA EditsOutbox ==
    ASSUME NEW r \in Requests, EditNodes(r)
    PROVE  UNCHANGED <<queued, asked>>
  BY DEF EditNodes, Edit, EditCutOff, EnsureLocal, RegisterPeer, PutReplication, PutEnsure, PatchWrite,
         RemoveDelete, RemoveClear, RemoveCheck, AssignNode, PatchRead, outbox

\* remove_bucket_node, put_bucket_replication: for a node that was taken out,
\* and not added again, no upload, purge or rehash adds a job, and anti-entropy
\* at most the one that it had asked for before.
THEOREM RemovedStaysOut == Spec => RemovedOnlyDrains
<1> DEFINE Step == \A n \in gone \cap gone' :
                     /\ n \in queued' => n \in queued \/ asked = n
                     /\ asked' = n => asked = n
<1>1. ASSUME NInv, [Next]_vars, NEW n \in gone
      PROVE  /\ n \in queued' => n \in queued \/ asked = n
             /\ asked' = n => asked = n
  <2> DEFINE Goal == /\ n \in queued' => n \in queued \/ asked = n
                     /\ asked' = n => asked = n
  <2>1. ~ Receives(n) /\ n # Local
    BY <1>1 DEF NInv, GoneOK, Receives
  <2>2. ASSUME Outbox PROVE Goal
    BY <2>1, <2>2 DEF Outbox, EnqueueJobs, JobDone, SyncAsk, SyncEnqueue, Receivers
  <2>3. ASSUME UNCHANGED <<queued, asked>> PROVE Goal
    BY <2>3
  <2>4. ASSUME NEW r \in Requests, Upload(r) \/ TimeOut(r) \/ UploadCutOff(r) \/ EditNodes(r) PROVE Goal
    BY <2>2, <2>3, <2>4, UploadNodes, EditsOutbox DEF nodeVars
  <2>5. ASSUME NEW r \in Requests, NEW k \in Keys, NEW s \in Sizes, Stored(r, k, s)
        PROVE  UNCHANGED <<queued, asked>>
    BY <2>5 DEF Stored, nodeVars
  <2>6. ASSUME UNCHANGED vars \/ \E k \in Keys : Delete(k) \/ \E s \in Sizes : Restore(k, s)
        PROVE  UNCHANGED <<queued, asked>>
    BY <2>6 DEF Delete, Restore, nodeVars, vars
  <2> QED BY <1>1, <2>2, <2>3, <2>4, <2>5, <2>6 DEF Next, OutboxWork
<1>2. NInv /\ [Next]_vars => [Step]_nodeVars
  BY <1>1
<1> QED BY <1>2, NodesInvariant, PTL DEF Spec, RemovedOnlyDrains
-----------------------------------------------------------------------------
(***************************************************************************)
(* Hard quotas.  Used is a fold over a set, whose value does not depend on *)
(* the order: it is the number of the bytes stored.                        *)
(***************************************************************************)

\* The bytes of the objects in S, one by one: a sum as the size of a set.
Bytes(f, S) == {b \in S \X Nat : 1 <= b[2] /\ b[2] <= f[b[1]]}

\* The object at k has f[k] bytes.
LEMMA BytesOfOne ==
    ASSUME NEW f, NEW k, f[k] \in Nat
    PROVE  IsFiniteSet(Bytes(f, {k})) /\ Cardinality(Bytes(f, {k})) = f[k]
<1> DEFINE g == [i \in 1..f[k] |-> <<k, i>>]
<1>1. IsFiniteSet(1..f[k]) /\ Cardinality(1..f[k]) = f[k]
  BY FS_Interval
<1>2. \A i \in 1..f[k] : <<k, i>> \in Bytes(f, {k})
  BY DEF Bytes
<1>3. \A b \in Bytes(f, {k}) : \E i \in 1..f[k] : b = <<k, i>>
  BY DEF Bytes
<1>4. g \in Bijection(1..f[k], Bytes(f, {k}))
  <2>1. g \in [1..f[k] -> Bytes(f, {k})]
    BY <1>2
  <2>2. \A i, j \in 1..f[k] : g[i] = g[j] => i = j
    OBVIOUS
  <2>3. \A b \in Bytes(f, {k}) : \E i \in 1..f[k] : g[i] = b
    BY <1>3
  <2> QED BY <2>1, <2>2, <2>3, Zenon DEF Bijection, Injection, Surjection, IsInjective
<1> QED BY <1>1, <1>4, FS_Bijection DEF ExistsBijection

\* Bytes of disjoint sets of objects add up.
LEMMA BytesAdd ==
    ASSUME NEW f, NEW S, NEW k \in S, f[k] \in Nat, IsFiniteSet(Bytes(f, S \ {k}))
    PROVE  /\ IsFiniteSet(Bytes(f, S))
           /\ Cardinality(Bytes(f, S)) = f[k] + Cardinality(Bytes(f, S \ {k}))
<1>1. Bytes(f, S) = Bytes(f, {k}) \cup Bytes(f, S \ {k})
  BY DEF Bytes
<1>2. Bytes(f, {k}) \cap Bytes(f, S \ {k}) = {}
  BY DEF Bytes
<1>3. IsFiniteSet(Bytes(f, {k})) /\ Cardinality(Bytes(f, {k})) = f[k]
  BY BytesOfOne
<1>4. Cardinality(Bytes(f, S \ {k})) \in Nat
  BY FS_CardinalityType
<1>5. /\ IsFiniteSet(Bytes(f, {k}) \cup Bytes(f, S \ {k}))
      /\ Cardinality(Bytes(f, {k}) \cup Bytes(f, S \ {k})) =
           Cardinality(Bytes(f, {k})) + Cardinality(Bytes(f, S \ {k}))
             - Cardinality(Bytes(f, {k}) \cap Bytes(f, S \ {k}))
  BY <1>3, FS_Union
<1>6. Cardinality(Bytes(f, {k}) \cap Bytes(f, S \ {k})) = 0
  BY <1>2, FS_EmptySet
<1> QED BY <1>1, <1>3, <1>4, <1>5, <1>6

\* A nonempty set of subsets of a finite set has a smallest element.
LEMMA SmallestSubset ==
    ASSUME NEW S, IsFiniteSet(S), NEW T \in SUBSET (SUBSET S), T # {}
    PROVE  \E s \in T : \A t \in T : t \subseteq s => t = s
<1>1. IsWellFoundedOn(StrictSubsetOrdering(S), SUBSET S)
  BY FS_StrictSubsetOrderingWellFounded, FS_FiniteSubsetsOfFinite
<1>2. PICK s \in T : \A t \in T : ~ (<<t, s>> \in StrictSubsetOrdering(S))
  BY <1>1, WFMin
<1>3. \A t \in T : t \subseteq s => t = s
  BY <1>2 DEF StrictSubsetOrdering
<1> QED BY <1>3

\* A finite set of objects has finitely many bytes.
LEMMA BytesFinite ==
    ASSUME NEW S, IsFiniteSet(S), NEW f \in [S -> Nat]
    PROVE  \A s \in SUBSET S : IsFiniteSet(Bytes(f, s))
<1> DEFINE Bad == {s \in SUBSET S : ~ IsFiniteSet(Bytes(f, s))}
<1>1. ASSUME Bad # {} PROVE FALSE
  <2>0. Bad \in SUBSET (SUBSET S)
    OBVIOUS
  <2>1. PICK s \in Bad : \A t \in Bad : t \subseteq s => t = s
    <3> HIDE DEF Bad
    <3> QED BY <1>1, <2>0, SmallestSubset
  <2>2. CASE s = {}
    <3>1. Bytes(f, s) = {}
      BY <2>2 DEF Bytes
    <3> QED BY <3>1, <2>1, FS_EmptySet
  <2>3. ASSUME NEW k \in s PROVE FALSE
    <3>1. s \ {k} \notin Bad
      BY <2>1
    <3>2. IsFiniteSet(Bytes(f, s \ {k})) /\ f[k] \in Nat
      BY <3>1, <2>1
    <3> QED BY <3>2, <2>1, <2>3, BytesAdd
  <2> QED BY <2>2, <2>3
<1> QED BY <1>1

Some(s) == CHOOSE x \in s : TRUE

\* The equation of the fold in MapThenSumSet, over the sizes f.
IsFold(g, f) ==
    g = [s \in SUBSET Keys |-> IF s = {} THEN 0 ELSE f[Some(s)] + g[s \ {Some(s)}]]

\* The fold that bucket_used_bytes stands for counts the bytes.
LEMMA FoldCounts ==
    ASSUME NEW f \in [Keys -> Nat]
    PROVE  (CHOOSE g : IsFold(g, f))[Keys] = Cardinality(Bytes(f, Keys))
<1> DEFINE h == [s \in SUBSET Keys |-> Cardinality(Bytes(f, s))]
<1>0. IsFiniteSet(Keys)
  BY UploadsAssumption
<1>1. ASSUME NEW s \in SUBSET Keys, s # {}
      PROVE  Some(s) \in s /\ s \ {Some(s)} \in SUBSET Keys
  BY <1>1 DEF Some
<1>2. ASSUME NEW s \in SUBSET Keys, s # {}
      PROVE  h[s] = f[Some(s)] + h[s \ {Some(s)}]
  <2>1. IsFiniteSet(Bytes(f, s \ {Some(s)})) /\ f[Some(s)] \in Nat
    BY <1>0, <1>1, <1>2, BytesFinite
  <2> QED BY <2>1, <1>1, <1>2, BytesAdd
<1>3. h[{}] = 0
  <2>1. Bytes(f, {}) = {}
    BY DEF Bytes
  <2> QED BY <2>1, FS_EmptySet
<1>4. IsFold(h, f)
  <2>1. \A s \in SUBSET Keys : h[s] = IF s = {} THEN 0 ELSE f[Some(s)] + h[s \ {Some(s)}]
    BY <1>2, <1>3
  <2> QED BY <2>1 DEF IsFold
<1> DEFINE g == CHOOSE g : IsFold(g, f)
<1>5. IsFold(g, f)
  BY <1>4
<1> HIDE DEF g, h
<1>6. \A s \in SUBSET Keys : g[s] = IF s = {} THEN 0 ELSE f[Some(s)] + g[s \ {Some(s)}]
  BY <1>5 DEF IsFold
<1> DEFINE Bad == {s \in SUBSET Keys : g[s] # h[s]}
<1>7. ASSUME Bad # {} PROVE FALSE
  <2>0. Bad \in SUBSET (SUBSET Keys)
    OBVIOUS
  <2>1. PICK s \in Bad : \A t \in Bad : t \subseteq s => t = s
    <3> HIDE DEF Bad
    <3> QED BY <1>0, <1>7, <2>0, SmallestSubset
  <2>2. s # {}
    <3>1. g[{}] = 0
      BY <1>6
    <3> QED BY <1>3, <2>1, <3>1
  <2>3. s \ {Some(s)} \notin Bad
    BY <1>1, <2>1, <2>2
  <2>4. g[s \ {Some(s)}] = h[s \ {Some(s)}]
    BY <1>1, <2>2, <2>3
  <2> QED BY <1>2, <1>6, <2>1, <2>2, <2>4
<1>8. g[Keys] = h[Keys]
  BY <1>7
<1> QED BY <1>8 DEF g, h

\* So does Used, before and after a step.
LEMMA UsedCounts ==
    /\ size \in [Keys -> Nat] => Used = Cardinality(Bytes(size, Keys))
    /\ size' \in [Keys -> Nat] => Used' = Cardinality(Bytes(size', Keys))
<1>1. Used = (CHOOSE g : IsFold(g, size))[Keys]
  BY DEF Used, MapThenSumSet, MapThenFoldSet, IsFold, Some
<1>2. Used' = (CHOOSE g : IsFold(g, size'))[Keys]
  BY DEF Used, MapThenSumSet, MapThenFoldSet, IsFold, Some
<1> QED BY <1>1, <1>2, FoldCounts

\* An object at k that has another size, and the bytes of all.
LEMMA BytesDelta ==
    ASSUME NEW f \in [Keys -> Nat], NEW k \in Keys, NEW v \in Nat
    PROVE  /\ Cardinality(Bytes(f, Keys)) \in Nat
           /\ Cardinality(Bytes([f EXCEPT ![k] = v], Keys)) = Cardinality(Bytes(f, Keys)) - f[k] + v
<1>0. PICK g : g = [f EXCEPT ![k] = v]
  OBVIOUS
<1>1. g \in [Keys -> Nat] /\ g[k] = v /\ \A j \in Keys \ {k} : g[j] = f[j]
  BY <1>0
<1>2. Bytes(f, Keys \ {k}) = Bytes(g, Keys \ {k})
  BY <1>1 DEF Bytes
<1>3. IsFiniteSet(Bytes(f, Keys \ {k})) /\ IsFiniteSet(Bytes(f, Keys))
  <2>1. Keys \ {k} \in SUBSET Keys /\ Keys \in SUBSET Keys
    OBVIOUS
  <2> QED BY <2>1, BytesFinite, UploadsAssumption
<1>4. Cardinality(Bytes(f, Keys)) = f[k] + Cardinality(Bytes(f, Keys \ {k}))
  BY <1>3, BytesAdd
<1>5. Cardinality(Bytes(g, Keys)) = v + Cardinality(Bytes(f, Keys \ {k}))
  BY <1>1, <1>2, <1>3, BytesAdd
<1>6. Cardinality(Bytes(f, Keys \ {k})) \in Nat /\ Cardinality(Bytes(f, Keys)) \in Nat
  BY <1>3, FS_CardinalityType
<1>7. f[k] \in Nat
  OBVIOUS
<1> QED BY <1>0, <1>4, <1>5, <1>6, <1>7

\* A statement that changes the object at k changes the bytes in use by what
\* that object grows.
LEMMA UsedDelta ==
    ASSUME size \in [Keys -> Nat], NEW k \in Keys, NEW v \in Nat,
           size' = [size EXCEPT ![k] = v]
    PROVE  Used \in Nat /\ Used' = Used - size[k] + v
<1>1. size' \in [Keys -> Nat]
  OBVIOUS
<1>2. Used = Cardinality(Bytes(size, Keys)) /\ Used' = Cardinality(Bytes(size', Keys))
  BY <1>1, UsedCounts
<1>3. /\ Cardinality(Bytes(size, Keys)) \in Nat
      /\ Cardinality(Bytes([size EXCEPT ![k] = v], Keys)) = Cardinality(Bytes(size, Keys)) - size[k] + v
  BY BytesDelta
<1> QED BY <1>2, <1>3

-----------------------------------------------------------------------------
\* What an upload that nothing has overtaken still knows: of the object it
\* replaces, of the bytes in use, and that check_hard_quota let it pass.
AloneOK(r) ==
    /\ pc[r] \in {"used", "quota", "replace"} => growth[r] = NetGrowth(r)
    /\ pc[r] = "quota" => used[r] = Used
    /\ pc[r] = "replace" /\ growth[r] > 0 => \A q \in HardQuotas : Used + growth[r] <= q
    /\ pc[r] = "insert" =>
         /\ size[key[r]] = 0
         /\ growth[r] > 0 => \A q \in HardQuotas : Used + new[r] <= q

AInv ==
    /\ NInv /\ TypeOK
    /\ \A r \in Requests : pc[r] # "idle" => new[r] \in Sizes
    /\ \A r \in Requests : r \notin passed => AloneOK(r)

\* Hard quotas are numbers.
LEMMA QuotaType == TypeOK => HardQuotas \subseteq Nat
<1>1. ASSUME TypeOK, NEW n \in Nodes, alloc[n] # NoRow PROVE alloc[n].bytes \in Nat
  <2>1. alloc[n] \in Rows
    BY <1>1 DEF TypeOK, NodesTypeOK
  <2> QED BY <2>1, NodesAssumption
<1> QED BY <1>1 DEF HardQuotas

\* So are sizes.
LEMMA SizeType == TypeOK => size \in [Keys -> Nat]
<1>1. Sizes \cup {0} \subseteq Nat
  BY UploadsAssumption
<1> QED BY <1>1 DEF TypeOK

\* And what a request holds of them.
LEMMA RequestTypes ==
    ASSUME TypeOK, NEW r \in Requests
    PROVE  /\ key[r] \in Keys /\ new[r] \in Nat /\ size[key[r]] \in Nat
           /\ growth[r] \in Int /\ used[r] \in Nat
<1>1. key[r] \in Keys /\ new[r] \in Sizes \cup {0} /\ growth[r] \in Int /\ used[r] \in Nat
  BY DEF TypeOK
<1>2. Sizes \cup {0} \subseteq Nat
  BY UploadsAssumption
<1>3. size \in [Keys -> Nat]
  BY SizeType
<1> QED BY <1>1, <1>2, <1>3

\* What is in use is a number.
LEMMA UsedType == TypeOK => Used \in Nat
<1> SUFFICES ASSUME TypeOK PROVE Used \in Nat
  OBVIOUS
<1>1. size \in [Keys -> Nat] /\ IsFiniteSet(Keys)
  BY UploadsAssumption, SizeType
<1>2. Keys \in SUBSET Keys
  OBVIOUS
<1>3. IsFiniteSet(Bytes(size, Keys))
  BY <1>1, <1>2, BytesFinite
<1> QED BY <1>1, <1>3, UsedCounts, FS_CardinalityType

\* The type invariant is kept.
LEMMA UploadTypes == NInv' /\ TypeOK /\ [Next]_vars => TypeOK'
<1> SUFFICES ASSUME NInv', TypeOK, [Next]_vars PROVE TypeOK'
  OBVIOUS
<1>0. NodesTypeOK'
  BY DEF NInv
<1> USE UploadsAssumption DEF TypeOK
<1>1. NoKey \in Keys
  BY DEF NoKey
<1>2. ASSUME NEW r \in Requests, Leave(r), UNCHANGED size, passed' \subseteq Requests PROVE TypeOK'
  BY <1>0, <1>1, <1>2 DEF Leave, Goto
<1>3. ASSUME NEW r \in Requests, TimeOut(r) \/ UploadCutOff(r) PROVE TypeOK'
  BY <1>2, <1>3 DEF TimeOut, UploadCutOff
<1>4. ASSUME NEW r \in Requests, BeginTx(r) PROVE TypeOK'
  BY <1>0, <1>4 DEF BeginTx, Goto, Waiting
<1>5. ASSUME NEW r \in Requests, ReadPrevious(r) PROVE TypeOK'
  <2>1. size[key[r]] \in Nat /\ new[r] \in Nat
    BY RequestTypes
  <2>2. NetGrowth(r) \in Int
    BY <2>1 DEF NetGrowth
  <2> QED BY <1>0, <1>5, <2>2 DEF ReadPrevious, Goto, Waiting
<1>6. ASSUME NEW r \in Requests, ReadUsed(r) PROVE TypeOK'
  BY <1>0, <1>6, UsedType DEF ReadUsed, Goto, Waiting
<1>7. ASSUME NEW r \in Requests, CheckQuota(r) PROVE TypeOK'
  <2>1. CASE \E q \in HardQuotas : Exceeds(r, q)
    BY <1>2, <1>7, <2>1 DEF CheckQuota
  <2>2. CASE ~ \E q \in HardQuotas : Exceeds(r, q)
    BY <1>0, <1>7, <2>2 DEF CheckQuota, Goto, Waiting
  <2> QED BY <2>1, <2>2
<1>8. ASSUME NEW r \in Requests, Replace(r) PROVE TypeOK'
  BY <1>0, <1>8 DEF Replace, Goto, Overtaken
<1>9. ASSUME NEW r \in Requests, Commit(r) PROVE TypeOK'
  <2>1. size' \in [Keys -> Sizes \cup {0}] /\ passed' \subseteq Requests
    BY <1>9 DEF Commit, Overtaken
  <2> QED BY <1>0, <1>1, <1>9, <2>1 DEF Commit, Leave, Goto
<1>10. ASSUME NEW r \in Requests, EditNodes(r) PROVE TypeOK'
  BY <1>0, <1>10 DEF EditNodes
<1>11. ASSUME NEW r \in Requests, NEW k \in Keys, NEW s \in Sizes, Stored(r, k, s) PROVE TypeOK'
  BY <1>0, <1>11 DEF Stored, Goto
<1>12. ASSUME NEW k \in Keys, Delete(k) PROVE TypeOK'
  BY <1>0, <1>12 DEF Delete
<1>13. ASSUME NEW k \in Keys, NEW s \in Sizes, Restore(k, s) PROVE TypeOK'
  BY <1>0, <1>13 DEF Restore
<1>14. CASE UNCHANGED vars
  BY <1>14 DEF vars, NodesTypeOK
<1>15. CASE OutboxWork
  BY <1>0, <1>15 DEF OutboxWork, uploadVars
<1> QED BY <1>3, <1>4, <1>5, <1>6, <1>7, <1>8, <1>9, <1>10, <1>11, <1>12, <1>13, <1>14, <1>15 DEF Next, Upload

\* Statements that change no size change nothing in use.
LEMMA UsedSame == TypeOK /\ UNCHANGED size => Used' = Used
<1> SUFFICES ASSUME TypeOK, UNCHANGED size PROVE Used' = Used
  OBVIOUS
<1>1. size \in [Keys -> Nat] /\ size' \in [Keys -> Nat]
  BY SizeType
<1>2. Used = Cardinality(Bytes(size, Keys)) /\ Used' = Cardinality(Bytes(size', Keys))
  BY <1>1, UsedCounts
<1> QED BY <1>2

\* An upload that does nothing, while no size and no quota changes.
LEMMA Bystander ==
    ASSUME TypeOK, NEW r \in Requests, AloneOK(r), UNCHANGED <<size, alloc>>,
           pc'[r] = pc[r], key'[r] = key[r], new'[r] = new[r],
           growth'[r] = growth[r], used'[r] = used[r]
    PROVE  AloneOK(r)'
<1>1. Used' = Used
  BY UsedSame
<1>2. HardQuotas' = HardQuotas
  BY DEF HardQuotas
<1>3. NetGrowth(r)' = NetGrowth(r)
  BY DEF NetGrowth
<1>4. size'[key'[r]] = size[key[r]]
  OBVIOUS
<1> QED BY <1>1, <1>2, <1>3, <1>4 DEF AloneOK

\* An upload that has read nothing yet.
LEMMA Fresh ==
    ASSUME NEW r \in Requests, pc'[r] \in {"idle", "begin", "previous"}
    PROVE  AloneOK(r)'
  BY DEF AloneOK

\* The statements of an upload, on what it knows itself.
LEMMA OwnStep ==
    ASSUME AInv, NEW r \in Requests, r \notin passed,
           ReadPrevious(r) \/ ReadUsed(r) \/ CheckQuota(r) \/ Replace(r)
    PROVE  AloneOK(r)'
<1>0. TypeOK /\ AloneOK(r)
  BY DEF AInv
<1>1. /\ size \in [Keys -> Nat] /\ key[r] \in Keys /\ new[r] \in Nat /\ size[key[r]] \in Nat
      /\ growth[r] \in Int /\ used[r] \in Nat
  BY <1>0, SizeType, RequestTypes
<1>2. pc \in [Requests -> {"idle", "begin", "insert"} \cup Waiting]
  BY <1>0 DEF TypeOK
<1>3. HardQuotas \subseteq Nat /\ Used \in Nat
  BY <1>0, QuotaType, UsedType
<1>4. CASE ReadPrevious(r)
  <2>1. growth'[r] = NetGrowth(r) /\ NetGrowth(r)' = NetGrowth(r)
    BY <1>0, <1>4 DEF ReadPrevious, TypeOK, NetGrowth
  <2>2. NetGrowth(r) \in Int /\ pc'[r] = IF NetGrowth(r) <= 0 THEN "replace" ELSE "used"
    BY <1>1, <1>2, <1>4 DEF ReadPrevious, Goto, NetGrowth
  <2> QED BY <2>1, <2>2 DEF AloneOK
<1>5. CASE ReadUsed(r)
  <2>1. pc'[r] = "quota" /\ used'[r] = Used /\ growth'[r] = growth[r]
    BY <1>0, <1>2, <1>5 DEF ReadUsed, Goto, TypeOK
  <2>2. Used' = Used
    BY <1>0, <1>5, UsedSame DEF ReadUsed
  <2>3. NetGrowth(r)' = NetGrowth(r)
    BY <1>5 DEF ReadUsed, NetGrowth
  <2>4. growth[r] = NetGrowth(r)
    BY <1>0, <1>5 DEF AloneOK, ReadUsed
  <2> QED BY <2>1, <2>2, <2>3, <2>4 DEF AloneOK
<1>6. CASE CheckQuota(r)
  <2>1. CASE \E q \in HardQuotas : Exceeds(r, q)
    <3>1. pc'[r] = "idle"
      BY <1>2, <1>6, <2>1 DEF CheckQuota, Leave, Goto
    <3> QED BY <3>1, Fresh
  <2>2. CASE ~ \E q \in HardQuotas : Exceeds(r, q)
    <3>1. pc[r] = "quota" /\ pc'[r] = "replace" /\ UNCHANGED <<nodeVars, size, key, new, growth>>
      BY <1>2, <1>6, <2>2 DEF CheckQuota, Goto
    <3>2. used[r] = Used /\ growth[r] = NetGrowth(r)
      BY <1>0, <3>1 DEF AloneOK
    <3>3. Used' = Used /\ NetGrowth(r)' = NetGrowth(r) /\ HardQuotas' = HardQuotas
      BY <1>0, <3>1, UsedSame DEF NetGrowth, HardQuotas, nodeVars
    <3>4. ASSUME NEW q \in HardQuotas PROVE Used + growth[r] <= q
      <4>1. ~ (used[r] + growth[r] > q)
        BY <2>2 DEF Exceeds
      <4>2. q \in Nat /\ used[r] = Used
        BY <1>3, <3>2
      <4> QED BY <1>1, <4>1, <4>2
    <3> QED BY <3>1, <3>2, <3>3, <3>4 DEF AloneOK
  <2> QED BY <2>1, <2>2
<1>7. CASE Replace(r)
  <2>1. pc[r] = "replace" /\ pc'[r] = "insert" /\ UNCHANGED <<nodeVars, key, new, growth>>
    BY <1>2, <1>7 DEF Replace, Goto
  <2>2. size' = [size EXCEPT ![key[r]] = 0] /\ size'[key[r]] = 0
    BY <1>1, <1>7 DEF Replace
  <2>3. Used' = Used - size[key[r]] + 0
    BY <1>1, <2>2, UsedDelta
  <2>4. growth[r] = new[r] - size[key[r]]
    BY <1>0, <2>1 DEF AloneOK, NetGrowth
  <2>5. growth[r] > 0 => \A q \in HardQuotas : Used + growth[r] <= q
    BY <1>0, <2>1 DEF AloneOK
  <2>6. growth[r] > 0 => \A q \in HardQuotas : Used' + new[r] <= q
    BY <1>1, <1>3, <2>3, <2>4, <2>5
  <2>7. HardQuotas' = HardQuotas
    BY <2>1 DEF HardQuotas, nodeVars
  <2>8. growth'[r] = growth[r] /\ new'[r] = new[r] /\ size'[key'[r]] = 0
    BY <2>1, <2>2
  <2> QED BY <2>1, <2>6, <2>7, <2>8 DEF AloneOK
<1> QED BY <1>4, <1>5, <1>6, <1>7

\* What others know: either they have been overtaken, or nothing has changed
\* for them.
LEMMA AloneStep ==
    ASSUME AInv, [Next]_vars, NEW r \in Requests, r \notin passed'
    PROVE  AloneOK(r)'
<1>0. /\ TypeOK /\ pc \in [Requests -> {"idle", "begin", "insert"} \cup Waiting]
      /\ key \in [Requests -> Keys] /\ new \in [Requests -> Sizes \cup {0}]
      /\ growth \in [Requests -> Int] /\ used \in [Requests -> Nat]
  BY DEF AInv, TypeOK
<1>1. ASSUME r \notin passed, UNCHANGED <<size, alloc>>,
             pc'[r] = pc[r], key'[r] = key[r], new'[r] = new[r],
             growth'[r] = growth[r], used'[r] = used[r]
      PROVE  AloneOK(r)'
  BY <1>0, <1>1, Bystander DEF AInv
<1>2. ASSUME NEW q \in Requests, Leave(q), UNCHANGED <<size, alloc>>, passed' = passed \ {q}
      PROVE  AloneOK(r)'
  <2>1. CASE q = r
    <3>1. pc'[r] = "idle"
      BY <1>0, <1>2, <2>1 DEF Leave, Goto
    <3> QED BY <3>1, Fresh
  <2>2. CASE q # r
    BY <1>0, <1>1, <1>2, <2>2 DEF Leave, Goto
  <2> QED BY <2>1, <2>2
<1>3. ASSUME NEW q \in Requests, TimeOut(q) \/ UploadCutOff(q) PROVE AloneOK(r)'
  BY <1>2, <1>3 DEF TimeOut, UploadCutOff, nodeVars
<1>4. ASSUME NEW q \in Requests, BeginTx(q) \/ \E k \in Keys, s \in Sizes : Stored(q, k, s)
      PROVE  AloneOK(r)'
  <2>1. CASE q = r
    <3>1. pc'[r] \in {"begin", "previous"}
      BY <1>0, <1>4, <2>1 DEF BeginTx, Stored, Goto
    <3> QED BY <3>1, Fresh
  <2>2. CASE q # r
    <3>1. r \notin passed /\ UNCHANGED <<size, alloc, growth, used>>
      BY <1>4 DEF BeginTx, Stored, nodeVars
    <3>2. pc'[r] = pc[r] /\ key'[r] = key[r] /\ new'[r] = new[r]
      BY <1>0, <1>4, <2>2 DEF BeginTx, Stored, Goto
    <3> QED BY <1>1, <3>1, <3>2
  <2> QED BY <2>1, <2>2
<1>5. ASSUME NEW q \in Requests, ReadPrevious(q) \/ ReadUsed(q) PROVE AloneOK(r)'
  <2>0. r \notin passed /\ UNCHANGED <<size, alloc, key, new>>
    BY <1>5 DEF ReadPrevious, ReadUsed, nodeVars
  <2>1. CASE q = r
    BY <1>5, <2>0, <2>1, OwnStep
  <2>2. CASE q # r
    <3>1. pc'[r] = pc[r] /\ growth'[r] = growth[r] /\ used'[r] = used[r]
      BY <1>0, <1>5, <2>2 DEF ReadPrevious, ReadUsed, Goto
    <3> QED BY <1>1, <2>0, <3>1
  <2> QED BY <2>1, <2>2
<1>6. ASSUME NEW q \in Requests, CheckQuota(q) PROVE AloneOK(r)'
  <2>1. CASE \E p \in HardQuotas : Exceeds(q, p)
    BY <1>2, <1>6, <2>1 DEF CheckQuota, nodeVars
  <2>2. CASE ~ \E p \in HardQuotas : Exceeds(q, p)
    <3>0. r \notin passed /\ UNCHANGED <<size, alloc, key, new, growth>>
      BY <1>6, <2>2 DEF CheckQuota, nodeVars
    <3>1. CASE q = r
      BY <1>6, <3>0, <3>1, OwnStep
    <3>2. CASE q # r
      <4>1. pc'[r] = pc[r] /\ used'[r] = used[r]
        BY <1>0, <1>6, <2>2, <3>2 DEF CheckQuota, Goto
      <4> QED BY <1>1, <3>0, <4>1
    <3> QED BY <3>1, <3>2
  <2> QED BY <2>1, <2>2
<1>7. ASSUME NEW q \in Requests, Replace(q) PROVE AloneOK(r)'
  <2>1. CASE q = r
    BY <1>7, <2>1, OwnStep DEF Replace
  <2>2. CASE q # r
    <3>1. pc'[r] = "idle"
      BY <1>0, <1>7, <2>2 DEF Replace, Goto, Overtaken
    <3> QED BY <3>1, Fresh
  <2> QED BY <2>1, <2>2
<1>8. ASSUME NEW q \in Requests, Commit(q) PROVE AloneOK(r)'
  <2>1. CASE size[key[q]] = 0
    <3>1. pc'[r] = "idle"
      BY <1>0, <1>8, <2>1 DEF Commit, Leave, Goto, Overtaken
    <3> QED BY <3>1, Fresh
  <2>2. CASE size[key[q]] # 0
    BY <1>2, <1>8, <2>2 DEF Commit, nodeVars
  <2> QED BY <2>1, <2>2
<1>9. ASSUME NEW k \in Keys, Delete(k) \/ \E s \in Sizes : Restore(k, s) PROVE AloneOK(r)'
  <2>1. pc'[r] = "idle"
    BY <1>9 DEF Delete, Restore
  <2> QED BY <2>1, Fresh
<1>10. ASSUME NEW q \in Requests, EditNodes(q) PROVE AloneOK(r)'
  <2>1. CASE alloc' = alloc
    BY <1>1, <1>10, <2>1 DEF EditNodes
  <2>2. CASE alloc' # alloc
    <3>1. pc'[r] = "idle"
      BY <1>10, <2>2 DEF EditNodes
    <3> QED BY <3>1, Fresh
  <2> QED BY <2>1, <2>2
<1>11. CASE UNCHANGED vars
  BY <1>1, <1>11 DEF vars
<1>12. CASE OutboxWork
  <2>1. UNCHANGED alloc
    BY <1>12, OutboxSteps DEF OutboxWork, AInv
  <2> QED BY <1>1, <1>12, <2>1 DEF OutboxWork, uploadVars
<1> QED BY <1>3, <1>4, <1>5, <1>6, <1>7, <1>8, <1>9, <1>10, <1>11, <1>12 DEF Next, Upload

\* What was stored stays what is to be inserted.
LEMMA NewStep ==
    ASSUME AInv, [Next]_vars, NEW r \in Requests, pc'[r] # "idle"
    PROVE  new'[r] \in Sizes
<1>0. /\ pc \in [Requests -> {"idle", "begin", "insert"} \cup Waiting]
      /\ new \in [Requests -> Sizes \cup {0}]
      /\ pc[r] # "idle" => new[r] \in Sizes
  BY DEF AInv, TypeOK
<1>1. ASSUME pc'[r] = pc[r], new'[r] = new[r] PROVE new'[r] \in Sizes
  BY <1>0, <1>1
<1>2. ASSUME NEW q \in Requests, Leave(q) PROVE new'[r] \in Sizes
  BY <1>0, <1>2 DEF Leave, Goto
<1>3. ASSUME NEW q \in Requests, NEW l \in Waiting \cup {"insert"}, pc[q] # "idle", Goto(q, l), UNCHANGED new
      PROVE  new'[r] \in Sizes
  BY <1>0, <1>3 DEF Goto
<1>4. ASSUME NEW q \in Requests, NEW k \in Keys, NEW s \in Sizes, Stored(q, k, s)
      PROVE  new'[r] \in Sizes
  BY <1>0, <1>4 DEF Stored, Goto
<1>5. ASSUME NEW q \in Requests, BeginTx(q) \/ ReadPrevious(q) \/ ReadUsed(q) \/ Replace(q)
      PROVE  new'[r] \in Sizes
  BY <1>3, <1>5 DEF BeginTx, ReadPrevious, ReadUsed, Replace, Waiting
<1>6. ASSUME NEW q \in Requests, CheckQuota(q) \/ Commit(q) \/ TimeOut(q) \/ UploadCutOff(q)
      PROVE  new'[r] \in Sizes
  BY <1>2, <1>3, <1>6 DEF CheckQuota, Commit, TimeOut, UploadCutOff, Waiting
<1>7. ASSUME NEW q \in Requests, EditNodes(q) PROVE new'[r] \in Sizes
  BY <1>1, <1>7 DEF EditNodes
<1>8. ASSUME NEW k \in Keys, Delete(k) \/ \E s \in Sizes : Restore(k, s) PROVE new'[r] \in Sizes
  BY <1>1, <1>8 DEF Delete, Restore
<1>9. CASE UNCHANGED vars \/ OutboxWork
  BY <1>1, <1>9 DEF vars, OutboxWork, uploadVars
<1> QED BY <1>4, <1>5, <1>6, <1>7, <1>8, <1>9 DEF Next, Upload

\* AInv holds in every reachable state.
LEMMA AloneInvariant == Spec => []AInv
<1>1. Init => AInv
  <2> SUFFICES ASSUME Init PROVE AInv
    OBVIOUS
  <2>1. NInv
    BY InitNodes DEF Init
  <2>2. NoKey \in Keys
    BY UploadsAssumption DEF NoKey
  <2>3. TypeOK
    BY <2>1, <2>2 DEF Init, TypeOK, NInv
  <2>4. \A r \in Requests : pc[r] = "idle"
    BY DEF Init
  <2> QED BY <2>1, <2>3, <2>4 DEF AInv, AloneOK
<1>2. AInv /\ [Next]_vars => AInv'
  <2> SUFFICES ASSUME AInv, [Next]_vars PROVE AInv'
    OBVIOUS
  <2>1. NInv'
    BY NodesStep DEF AInv
  <2>2. TypeOK'
    BY <2>1, UploadTypes DEF AInv
  <2>3. \A r \in Requests : pc'[r] # "idle" => new'[r] \in Sizes
    BY NewStep
  <2>4. \A r \in Requests : r \notin passed' => AloneOK(r)'
    BY AloneStep
  <2> QED BY <2>1, <2>2, <2>3, <2>4 DEF AInv
<1> QED BY <1>1, <1>2, PTL DEF Spec

\* Every step leaves all objects but one as they are.
LEMMA OneObject ==
    ASSUME AInv, [Next]_vars, size' # size
    PROVE  \E k \in Keys, v \in Nat : size' = [size EXCEPT ![k] = v]
<1>0. TypeOK /\ \A r \in Requests : key[r] \in Keys /\ new[r] \in Nat
  BY RequestTypes DEF AInv
<1>1. ASSUME NEW r \in Requests, Upload(r)
      PROVE  \E k \in Keys, v \in Nat : size' = [size EXCEPT ![k] = v]
  <2>1. Replace(r) \/ Commit(r)
    BY <1>1 DEF Upload, BeginTx, ReadPrevious, ReadUsed, CheckQuota
  <2>2. CASE Replace(r)
    BY <1>0, <2>2 DEF Replace
  <2>3. CASE Commit(r)
    BY <1>0, <2>3 DEF Commit
  <2> QED BY <2>1, <2>2, <2>3
<1>2. ASSUME NEW k \in Keys, Delete(k) \/ \E s \in Sizes : Restore(k, s)
      PROVE  \E v \in Nat : size' = [size EXCEPT ![k] = v]
  BY <1>2, UploadsAssumption DEF Delete, Restore
<1> QED BY <1>1, <1>2 DEF Next, vars, TimeOut, UploadCutOff, EditNodes, Stored, OutboxWork, uploadVars

\* put_object_keyed_in_bucket: an upload during which no other statement has
\* changed a size or a quota never takes the bucket above a hard quota, unless
\* what it replaces was at least as large, for any number of uploads, keys,
\* sizes, connections and editors.
THEOREM QuotaHolds == Spec => QuotaIfAlone
<1>1. ASSUME AInv, [Next]_vars, NEW r \in Requests,
             pc[r] = "insert", size' # size, size'[key[r]] = new[r], r \notin passed
      PROVE  growth[r] <= 0 \/ \A q \in HardQuotas : Used' <= q
  <2>1. PICK k \in Keys, v \in Nat : size' = [size EXCEPT ![k] = v]
    BY <1>1, OneObject
  <2>2. AloneOK(r) /\ TypeOK /\ new[r] \in Sizes
    BY <1>1 DEF AInv
  <2>3. size[key[r]] = 0 /\ (growth[r] > 0 => \A q \in HardQuotas : Used + new[r] <= q)
    BY <1>1, <2>2 DEF AloneOK
  <2>4. size \in [Keys -> Nat] /\ key[r] \in Keys /\ new[r] \in Nat /\ growth[r] \in Int
    BY <2>2, SizeType, RequestTypes
  <2>5. new[r] # 0
    BY <2>2, UploadsAssumption
  <2>6. k = key[r] /\ v = new[r]
    BY <1>1, <2>1, <2>3, <2>4, <2>5
  <2>7. Used \in Nat /\ Used' = Used - size[k] + v
    BY <2>1, <2>4, UsedDelta
  <2>8. Used' = Used + new[r]
    BY <2>3, <2>6, <2>7
  <2> QED BY <2>3, <2>4, <2>8
<1>2. AInv /\ [Next]_vars =>
        [\A r \in Requests :
           pc[r] = "insert" /\ size' # size /\ size'[key[r]] = new[r] /\ r \notin passed =>
               growth[r] <= 0 \/ \A q \in HardQuotas : Used' <= q]_vars
  BY <1>1
<1> QED BY <1>2, AloneInvariant, PTL DEF Spec, QuotaIfAlone
=============================================================================
