-------------------------- MODULE ReplicationProofs --------------------------
(***************************************************************************)
(* The outbox, for any number of nodes, files, jobs, purges and faults: no *)
(* job is queued twice, and none is lost before its version has arrived    *)
(* and is whole.                                                           *)
(***************************************************************************)
EXTENDS Replication, FiniteSetTheorems, SequenceTheorems, TLAPS

\* Sequences and functions on 1..n.
LEMMA FunSeq ==
    ASSUME NEW S, NEW n \in Nat, NEW g \in [1..n -> S]
    PROVE  g \in Seq(S) /\ Len(g) = n
<1>1. g \in Seq(S)
  BY SeqDef
<1>2. DOMAIN g = 1..n /\ DOMAIN g = 1..Len(g) /\ Len(g) \in Nat
  BY <1>1, LenProperties
<1>3. Len(g) = n
  BY <1>2
<1> QED BY <1>1, <1>3

\* A nonempty set of positions has a first.
LEMMA FirstExists ==
    ASSUME NEW T \in SUBSET Nat, T # {}
    PROVE  \E i \in T : \A j \in T : i <= j
<1> DEFINE R == OpToRel(<, Nat)
<1>1. IsWellFoundedOn(R, Nat)
  BY NatLessThanWellFounded
<1>2. \A i, j \in Nat : <<j, i>> \in R <=> j < i
  BY DEF OpToRel
<1> HIDE DEF R
<1>3. PICK i \in T : \A j \in T : ~ (<<j, i>> \in R)
  BY <1>1, WFMin
<1>4. ASSUME NEW j \in T PROVE i <= j
  <2>1. i \in Nat /\ j \in Nat /\ ~ (<<j, i>> \in R)
    BY <1>3
  <2>2. ~ (j < i)
    BY <1>2, <2>1
  <2> QED BY <2>1, <2>2
<1> QED BY <1>4

\* SetToSeq lists every element once.
LEMMA SetToSeqLists ==
    ASSUME NEW S, IsFiniteSet(S)
    PROVE  /\ Cardinality(S) \in Nat
           /\ SetToSeq(S) \in [1..Cardinality(S) -> S]
           /\ \A i, j \in 1..Cardinality(S) : SetToSeq(S)[i] = SetToSeq(S)[j] => i = j
           /\ \A x \in S : \E i \in 1..Cardinality(S) : SetToSeq(S)[i] = x
<1> DEFINE c == Cardinality(S)
<1>1. c \in Nat /\ ExistsBijection(1..c, S)
  BY FS_CardinalityType
<1>2. \E g \in [1..c -> S] : IsInjective(g)
  BY <1>1 DEF ExistsBijection, Bijection, Injection
<1>3. SetToSeq(S) \in [1..c -> S] /\ IsInjective(SetToSeq(S))
  BY <1>2 DEF SetToSeq
<1>4. SetToSeq(S) \in Injection(1..c, S)
  BY <1>3 DEF Injection
<1>5. IsFiniteSet(1..c) /\ Cardinality(1..c) = c
  BY <1>1, FS_Interval
<1>6. SetToSeq(S) \in Surjection(1..c, S)
  BY <1>4, <1>5, FS_Injection
<1>7. \A x \in S : \E i \in 1..c : SetToSeq(S)[i] = x
  BY <1>6 DEF Surjection
<1>8. \A i, j \in 1..c : SetToSeq(S)[i] = SetToSeq(S)[j] => i = j
  BY <1>3 DEF IsInjective
<1> QED BY <1>1, <1>3, <1>7, <1>8

\* RemoveAt closes the gap.
LEMMA Removed ==
    ASSUME NEW S, NEW s \in Seq(S), NEW i \in DOMAIN s
    PROVE  /\ RemoveAt(s, i) \in Seq(S)
           /\ Len(RemoveAt(s, i)) = Len(s) - 1
           /\ \A k \in DOMAIN RemoveAt(s, i) :
                 /\ k \in Nat
                 /\ (IF k < i THEN k ELSE k + 1) \in DOMAIN s \ {i}
                 /\ RemoveAt(s, i)[k] = s[IF k < i THEN k ELSE k + 1]
           /\ \A j \in DOMAIN s \ {i} : \E k \in DOMAIN RemoveAt(s, i) : RemoveAt(s, i)[k] = s[j]
<1> DEFINE a == SubSeq(s, 1, i - 1)
           b == SubSeq(s, i + 1, Len(s))
<1>1. Len(s) \in Nat /\ DOMAIN s = 1..Len(s) /\ i \in 1..Len(s) /\ \A j \in 1..Len(s) : s[j] \in S
  BY LenProperties
<1>2. a \in Seq(S) /\ Len(a) = i - 1 /\ \A k \in 1..(i - 1) : a[k] = s[k]
  BY <1>1, SubSeqProperties
<1>3. b \in Seq(S) /\ Len(b) = Len(s) - i /\ \A k \in 1..(Len(s) - i) : b[k] = s[i + k]
  <2>1. \A k \in (i + 1)..Len(s) : s[k] \in S
    BY <1>1
  <2>2. /\ b \in Seq(S) /\ Len(b) = IF i + 1 <= Len(s) THEN Len(s) - (i + 1) + 1 ELSE 0
        /\ \A k \in 1..(Len(s) - (i + 1) + 1) : b[k] = s[i + 1 + k - 1]
    BY <1>1, <2>1, SubSeqProperties
  <2> HIDE DEF b
  <2>3. Len(b) = Len(s) - i /\ Len(s) - (i + 1) + 1 = Len(s) - i
    BY <1>1, <2>2
  <2>4. \A k \in 1..(Len(s) - i) : i + 1 + k - 1 = i + k
    BY <1>1
  <2>5. \A k \in 1..(Len(s) - i) : b[k] = s[i + k]
    BY <2>2, <2>3, <2>4
  <2> QED BY <2>2, <2>3, <2>5
<1>4. /\ RemoveAt(s, i) \in Seq(S) /\ Len(RemoveAt(s, i)) = Len(s) - 1
      /\ \A k \in 1..(Len(s) - 1) : RemoveAt(s, i)[k] = IF k <= i - 1 THEN a[k] ELSE b[k - (i - 1)]
  <2>1. Len(a) + Len(b) = Len(s) - 1
    BY <1>1, <1>2, <1>3
  <2>2. RemoveAt(s, i) = a \o b
    BY DEF RemoveAt
  <2> HIDE DEF a, b
  <2>3. \A k \in 1..(Len(a) + Len(b)) : (a \o b)[k] = IF k <= Len(a) THEN a[k] ELSE b[k - Len(a)]
    BY <1>2, <1>3, ConcatProperties
  <2>4. a \o b \in Seq(S) /\ Len(a \o b) = Len(a) + Len(b)
    BY <1>2, <1>3, ConcatProperties
  <2> QED BY <1>2, <2>1, <2>2, <2>3, <2>4
<1> HIDE DEF a, b
<1>5. DOMAIN RemoveAt(s, i) = 1..(Len(s) - 1)
  BY <1>4, LenProperties
<1>6. \A k \in 1..(Len(s) - 1) :
         /\ (IF k < i THEN k ELSE k + 1) \in DOMAIN s \ {i}
         /\ RemoveAt(s, i)[k] = s[IF k < i THEN k ELSE k + 1]
  <2> SUFFICES ASSUME NEW k \in 1..(Len(s) - 1)
               PROVE  /\ (IF k < i THEN k ELSE k + 1) \in DOMAIN s \ {i}
                      /\ RemoveAt(s, i)[k] = s[IF k < i THEN k ELSE k + 1]
    OBVIOUS
  <2>1. CASE k < i
    BY <1>1, <1>2, <1>4, <2>1
  <2>2. CASE ~ (k < i)
    <3>1. k - (i - 1) \in 1..(Len(s) - i) /\ i + (k - (i - 1)) = k + 1
      BY <1>1, <2>2
    <3>2. RemoveAt(s, i)[k] = b[k - (i - 1)]
      <4>1. ~ (k <= i - 1)
        BY <1>1, <2>2
      <4> QED BY <1>4, <4>1
    <3>3. b[k - (i - 1)] = s[i + (k - (i - 1))]
      BY <1>3, <3>1
    <3>4. k + 1 \in DOMAIN s \ {i}
      BY <1>1, <2>2
    <3> QED BY <2>2, <3>1, <3>2, <3>3, <3>4
  <2> QED BY <2>1, <2>2
<1>7. ASSUME NEW j \in DOMAIN s \ {i}
      PROVE  \E k \in DOMAIN RemoveAt(s, i) : RemoveAt(s, i)[k] = s[j]
  <2>1. CASE j < i
    BY <1>1, <1>5, <1>6, <2>1
  <2>2. CASE j > i
    <3>1. j - 1 \in 1..(Len(s) - 1) /\ ~ (j - 1 < i) /\ (j - 1) + 1 = j
      BY <1>1, <2>2
    <3> QED BY <1>5, <1>6, <3>1
  <2> QED BY <1>1, <2>1, <2>2
<1> QED BY <1>4, <1>5, <1>6, <1>7
-----------------------------------------------------------------------------
(***************************************************************************)
(* Operations on an outbox                                                 *)
(***************************************************************************)

\* The jobs are the same but for status, link and claim.
Edited(s, t) ==
    /\ t \in Seq(Job) /\ DOMAIN t = DOMAIN s
    /\ \A i \in DOMAIN s : t[i].peer = s[i].peer /\ t[i].file = s[i].file /\ t[i].op = s[i].op

\* The fields of a new job.
LEMMA NewJobType ==
    ASSUME NEW p \in Nodes, NEW f \in Files, NEW op \in {"PUT", "DELETE"}
    PROVE  /\ NewJob(p, f, op) \in Job
           /\ NewJob(p, f, op).peer = p /\ NewJob(p, f, op).file = f /\ NewJob(p, f, op).op = op
           /\ NewJob(p, f, op).linked /\ ~ NewJob(p, f, op).batch
BY DEF NewJob, Job

\* enqueue_..._for_active_peers: one new job for every peer.
LEMMA OneJobPerPeer ==
    ASSUME NEW n \in Nodes, NEW f \in Files, NEW op \in {"PUT", "DELETE"},
           NEW js, js = JobsToPeers(n, f, op)
    PROVE  /\ js \in Seq(Job)
           /\ \A i \in DOMAIN js : js[i].peer \in Nodes /\ js[i] = NewJob(js[i].peer, f, op)
           /\ \A i, j \in DOMAIN js : js[i].peer = js[j].peer => i = j
           /\ \A p \in Nodes \ {n} : \E i \in DOMAIN js : js[i].peer = p
<1> DEFINE S == Nodes \ {n}
           c == Cardinality(S)
           q == SetToSeq(S)
<1>1. IsFiniteSet(S)
  BY ReplicationAssumption, FS_Difference
<1>2. /\ c \in Nat /\ q \in [1..c -> S]
      /\ \A i, j \in 1..c : q[i] = q[j] => i = j
      /\ \A x \in S : \E i \in 1..c : q[i] = x
  BY <1>1, SetToSeqLists
<1>3. js = [i \in DOMAIN q |-> NewJob(q[i], f, op)]
  BY DEF JobsToPeers
<1> HIDE DEF q, c
<1>4. js \in [1..c -> Job] /\ \A i \in 1..c : js[i].peer = q[i] /\ js[i] = NewJob(q[i], f, op)
  BY <1>2, <1>3, NewJobType
<1>5. js \in Seq(Job) /\ DOMAIN js = 1..c
  BY <1>2, <1>4, FunSeq
<1> QED BY <1>2, <1>4, <1>5

\* Where the jobs of two queues end up in one.
LEMMA Concatenated ==
    ASSUME NEW s \in Seq(Job), NEW t \in Seq(Job), NEW u, u = s \o t
    PROVE  /\ u \in Seq(Job)
           /\ DOMAIN s \subseteq DOMAIN u
           /\ \A i \in DOMAIN s : u[i] = s[i]
           /\ \A i \in DOMAIN u \ DOMAIN s : i - Len(s) \in DOMAIN t /\ u[i] = t[i - Len(s)]
           /\ \A k \in DOMAIN t : \E i \in DOMAIN u \ DOMAIN s : u[i] = t[k]
           /\ Len(s) \in Nat /\ DOMAIN u \subseteq Nat
<1>1. Len(s) \in Nat /\ Len(t) \in Nat /\ DOMAIN s = 1..Len(s) /\ DOMAIN t = 1..Len(t)
  BY LenProperties
<1>2. /\ u \in Seq(Job) /\ Len(u) = Len(s) + Len(t)
      /\ \A i \in 1..Len(s) + Len(t) : u[i] = IF i <= Len(s) THEN s[i] ELSE t[i - Len(s)]
  BY ConcatProperties
<1>3. DOMAIN u = 1..(Len(s) + Len(t))
  BY <1>2, LenProperties
<1>4. DOMAIN s \subseteq DOMAIN u /\ \A i \in DOMAIN s : u[i] = s[i]
  BY <1>1, <1>2, <1>3
<1>5. \A i \in DOMAIN u \ DOMAIN s : i - Len(s) \in DOMAIN t /\ u[i] = t[i - Len(s)]
  BY <1>1, <1>2, <1>3
<1>6. ASSUME NEW k \in DOMAIN t PROVE \E i \in DOMAIN u \ DOMAIN s : u[i] = t[k]
  <2>1. k + Len(s) \in DOMAIN u \ DOMAIN s /\ (k + Len(s)) - Len(s) = k
    BY <1>1, <1>3
  <2> QED BY <1>5, <2>1
<1>7. DOMAIN u \subseteq Nat
  BY <1>1, <1>3
<1> QED BY <1>1, <1>2, <1>4, <1>5, <1>6, <1>7

\* Append is concatenation with a single job.
LEMMA AppendedJob ==
    ASSUME NEW s \in Seq(Job), NEW e \in Job
    PROVE  /\ Append(s, e) \in Seq(Job)
           /\ DOMAIN s \subseteq DOMAIN Append(s, e)
           /\ \A i \in DOMAIN s : Append(s, e)[i] = s[i]
           /\ \A i \in DOMAIN Append(s, e) \ DOMAIN s : i = Len(s) + 1 /\ Append(s, e)[i] = e
<1>1. Len(s) \in Nat /\ DOMAIN s = 1..Len(s)
  BY LenProperties
<1>2. /\ Append(s, e) \in Seq(Job) /\ Len(Append(s, e)) = Len(s) + 1
      /\ \A i \in 1..Len(s) : Append(s, e)[i] = s[i]
      /\ Append(s, e)[Len(s) + 1] = e
  BY AppendProperties
<1>3. DOMAIN Append(s, e) = 1..(Len(s) + 1)
  BY <1>2, LenProperties
<1> QED BY <1>1, <1>2, <1>3

\* ON DELETE SET NULL changes links only.
LEMMA UnlinkedJobs ==
    ASSUME NEW s \in Seq(Job), NEW f \in Files
    PROVE  /\ Edited(s, Unlinked(s, f))
           /\ \A i \in DOMAIN s :
                 /\ Unlinked(s, f)[i].batch = s[i].batch /\ Unlinked(s, f)[i].meta = s[i].meta
                 /\ s[i].file # f => Unlinked(s, f)[i] = s[i]
<1> DEFINE u == Unlinked(s, f)
<1>1. Len(s) \in Nat /\ DOMAIN s = 1..Len(s) /\ \A i \in DOMAIN s : s[i] \in Job
  BY LenProperties
<1>2. ASSUME NEW i \in DOMAIN s
      PROVE  /\ u[i] \in Job /\ u[i].peer = s[i].peer /\ u[i].file = s[i].file /\ u[i].op = s[i].op
             /\ u[i].batch = s[i].batch /\ u[i].meta = s[i].meta
             /\ s[i].file # f => u[i] = s[i]
  BY <1>1 DEF Unlinked, Job
<1>3. u \in [1..Len(s) -> Job] /\ DOMAIN u = DOMAIN s
  <2>1. DOMAIN u = DOMAIN s /\ u = [i \in DOMAIN u |-> u[i]]
    BY DEF Unlinked
  <2> QED BY <1>1, <1>2, <2>1
<1>4. u \in Seq(Job)
  BY <1>1, <1>3, FunSeq
<1> QED BY <1>2, <1>3, <1>4 DEF Edited

\* One job is replaced.
LEMMA ReplacedJob ==
    ASSUME NEW s \in Seq(Job), NEW i \in DOMAIN s, NEW e \in Job,
           e.peer = s[i].peer, e.file = s[i].file, e.op = s[i].op
    PROVE  /\ Edited(s, [s EXCEPT ![i] = e])
           /\ \A k \in DOMAIN s : [s EXCEPT ![i] = e][k] = IF k = i THEN e ELSE s[k]
<1>1. Len(s) \in Nat /\ DOMAIN s = 1..Len(s)
  BY LenProperties
<1>2. [s EXCEPT ![i] = e] \in Seq(Job)
  BY <1>1, ExceptSeq
<1> QED BY <1>2 DEF Edited
-----------------------------------------------------------------------------
(***************************************************************************)
(* The invariant                                                           *)
(***************************************************************************)

Purgers(f, P) == {m \in Nodes : <<m, f>> \in P}

\* Whatever is on a node or in a queue was uploaded; what speaks of a deletion
\* (a DELETE job, a job without its row, one that was claimed like that, an
\* unlink) follows a purge.
JobOK(j, U, P) ==
    /\ j.file \in U
    /\ j.op = "DELETE" \/ ~ j.linked \/ (j.batch /\ ~ j.meta) => Purgers(j.file, P) # {}

JobsOK == \A n \in Nodes : \A i \in DOMAIN outbox[n] : JobOK(outbox[n][i], uploaded, purged)

RowsOK ==
    \A n \in Nodes :
        /\ \A f \in Files : row[n][f] # "absent" => f \in uploaded
        /\ \A f \in unlinks[n] : Purgers(f, purged) # {}

\* What enqueue_put_for_peer has found out still holds when it inserts.
ReadyOK ==
    \A n \in Nodes : \A p \in Nodes, f \in Files :
        <<p, f>> \in ae[n].ready => f \in uploaded /\ ~ HasPut(n, p, f)

\* A call belongs to a claimed job of its kind.
CallOK(n) ==
    /\ rpc[n] # "idle" => Batch(n) # {}
    /\ rpc[n] \in {"write", "insert"} => CurJob(n).op = "PUT"
    /\ rpc[n] = "delrow" => CurJob(n).op = "DELETE"

CallsOK == \A n \in Nodes : CallOK(n)

\* A PUT that is done has left a row.
ArrivedOK ==
    \A n \in Nodes :
        rpc[n] = "done" /\ CurJob(n).op = "PUT" /\ Unpurged(CurJob(n).file) =>
            row[CurJob(n).peer][CurJob(n).file] # "absent"

\* n's current call has written the whole blob.
Sent(n, p, f) ==
    /\ rpc[n] \in {"insert", "done"}
    /\ CurJob(n).op = "PUT" /\ CurJob(n).peer = p /\ CurJob(n).file = f

\* If the blob is damaged then the call that did it, which may be another than
\* the one that inserts the row, is not past its write, and its job is there.
RepairOK ==
    \A p \in Nodes, f \in Files :
        /\ Unpurged(f) /\ disk[p][f] # "good"
        /\ row[p][f] # "absent" \/ \E m \in Nodes : Sent(m, p, f)
        => \E m \in Nodes : Queued(m, p, f) /\ ~ Sent(m, p, f)

RInv ==
    /\ TypeOK /\ JobsOK /\ RowsOK /\ GhostsWerePurged /\ NoDuplicatePuts /\ ReadyOK
    /\ CallsOK /\ ArrivedOK /\ NeverForgotten /\ RepairOK

\* It holds at the start.
LEMMA InitInv == Init => RInv
<1> SUFFICES ASSUME Init PROVE RInv
  OBVIOUS
<1>1. \A n \in Nodes : DOMAIN outbox[n] = {} /\ outbox[n] \in Seq(Job)
  BY EmptySeq DEF Init
<1>2. TypeOK
  <2>1. outbox \in [Nodes -> Seq(Job)]
    BY <1>1 DEF Init
  <2>2. ae \in [Nodes -> [local : SUBSET Files, peers : SUBSET Nodes,
                          missing : SUBSET (Nodes \X Files), ready : SUBSET (Nodes \X Files)]]
    BY DEF Init, AeIdle
  <2>3. faults \in 0..MaxFaults
    BY ReplicationAssumption DEF Init
  <2> QED BY <2>1, <2>2, <2>3 DEF Init, TypeOK
<1>3. JobsOK /\ RowsOK /\ GhostsWerePurged /\ NoDuplicatePuts
  BY <1>1 DEF Init, JobsOK, RowsOK, GhostsWerePurged, NoDuplicatePuts
<1>4. ReadyOK /\ CallsOK /\ ArrivedOK /\ NeverForgotten /\ RepairOK
  BY DEF Init, AeIdle, ReadyOK, CallsOK, ArrivedOK, NeverForgotten, RepairOK, Sent, CallOK
<1> QED BY <1>2, <1>3, <1>4 DEF RInv

\* The job of the current call.
LEMMA CurrentJob ==
    ASSUME TypeOK, NEW n \in Nodes, Batch(n) # {}
    PROVE  /\ Current(n) \in DOMAIN outbox[n] /\ CurJob(n) = outbox[n][Current(n)]
           /\ CurJob(n) \in Job /\ CurJob(n).batch
           /\ CurJob(n).peer \in Nodes /\ CurJob(n).file \in Files
<1>1. outbox[n] \in Seq(Job)
  BY DEF TypeOK
<1>2. DOMAIN outbox[n] \subseteq Nat /\ \A i \in DOMAIN outbox[n] : outbox[n][i] \in Job
  BY <1>1, LenProperties
<1>3. \E i \in Batch(n) : \A j \in Batch(n) : i <= j
  BY <1>2, FirstExists DEF Batch
<1>4. Current(n) \in Batch(n)
  BY <1>3 DEF Current
<1> QED BY <1>2, <1>4 DEF Batch, CurJob, Job

\* The types of the outboxes.
LEMMA OutboxType ==
    ASSUME TypeOK, NEW n \in Nodes
    PROVE  /\ outbox[n] \in Seq(Job) /\ DOMAIN outbox[n] = 1..Len(outbox[n]) /\ Len(outbox[n]) \in Nat
           /\ \A i \in DOMAIN outbox[n] :
                 /\ outbox[n][i] \in Job /\ outbox[n][i].peer \in Nodes /\ outbox[n][i].file \in Files
                 /\ outbox[n][i].op \in {"PUT", "DELETE"}
<1>1. outbox[n] \in Seq(Job)
  BY DEF TypeOK
<1>2. \A i \in DOMAIN outbox[n] : outbox[n][i] \in Job
  BY <1>1, LenProperties
<1> QED BY <1>1, <1>2, LenProperties DEF Job

\* The claims, and what ends them, change no job otherwise.
LEMMA ClaimedJobs ==
    ASSUME TypeOK, NEW n \in Nodes,
           NEW t, t = [i \in DOMAIN outbox[n] |-> Claimed(outbox[n][i])]
    PROVE  /\ Edited(outbox[n], t)
           /\ \A i \in DOMAIN outbox[n] :
                 /\ t[i].linked = outbox[n][i].linked
                 /\ t[i].batch /\ ~ t[i].meta =>
                       ~ outbox[n][i].linked \/ (outbox[n][i].batch /\ ~ outbox[n][i].meta)
<1>1. \A i \in DOMAIN outbox[n] : outbox[n][i] \in Job
  BY OutboxType
<1>2. ASSUME NEW i \in DOMAIN outbox[n]
      PROVE  /\ t[i] \in Job /\ t[i].peer = outbox[n][i].peer /\ t[i].file = outbox[n][i].file
             /\ t[i].op = outbox[n][i].op /\ t[i].linked = outbox[n][i].linked
             /\ t[i].batch /\ ~ t[i].meta =>
                   ~ outbox[n][i].linked \/ (outbox[n][i].batch /\ ~ outbox[n][i].meta)
  <2>1. outbox[n][i] \in Job /\ t[i] = Claimed(outbox[n][i])
    BY <1>1
  <2>2. CASE outbox[n][i].status = "PENDING"
    <3>1. t[i] = [outbox[n][i] EXCEPT !.status = "IN_FLIGHT", !.batch = TRUE, !.meta = outbox[n][i].linked]
      BY <2>1, <2>2 DEF Claimed
    <3> QED BY <2>1, <3>1 DEF Job
  <2>3. CASE outbox[n][i].status # "PENDING"
    <3>1. t[i] = outbox[n][i]
      BY <2>1, <2>3 DEF Claimed
    <3> QED BY <2>1, <3>1
  <2> QED BY <2>2, <2>3
<1>3. t \in Seq(Job) /\ DOMAIN t = DOMAIN outbox[n]
  <2>1. t \in [1..Len(outbox[n]) -> Job]
    BY <1>2, OutboxType
  <2> QED BY <2>1, FunSeq, OutboxType
<1> QED BY <1>2, <1>3 DEF Edited

\* A released job keeps what it is about.
LEMMA ReleasedJob ==
    ASSUME NEW j \in Job, NEW st \in {"PENDING", "IN_FLIGHT", "FAILED"}
    PROVE  /\ Released(j, st) \in Job /\ Released(j, st).peer = j.peer /\ Released(j, st).file = j.file
           /\ Released(j, st).op = j.op /\ Released(j, st).linked = j.linked
           /\ ~ Released(j, st).batch
BY DEF Released, Job
-----------------------------------------------------------------------------
(***************************************************************************)
(* Types                                                                   *)
(***************************************************************************)
AeType == [local : SUBSET Files, peers : SUBSET Nodes,
           missing : SUBSET (Nodes \X Files), ready : SUBSET (Nodes \X Files)]

RowType == [Nodes -> [Files -> {"absent", "active", "recycled"}]]
DiskType == [Nodes -> [Files -> {"none", "bad", "good"}]]

\* One entry of a table of nodes and files.
LEMMA RowEntry ==
    ASSUME TypeOK, NEW n \in Nodes, NEW f \in Files, NEW v \in {"absent", "active", "recycled"},
           row' = [row EXCEPT ![n][f] = v]
    PROVE  /\ row' \in RowType
           /\ \A m \in Nodes, x \in Files : row'[m][x] = IF m = n /\ x = f THEN v ELSE row[m][x]
BY DEF TypeOK, RowType

\* The same for blobs.
LEMMA DiskEntry ==
    ASSUME TypeOK, NEW n \in Nodes, NEW f \in Files, NEW v \in {"none", "bad", "good"},
           disk' = [disk EXCEPT ![n][f] = v]
    PROVE  /\ disk' \in DiskType
           /\ \A m \in Nodes, x \in Files : disk'[m][x] = IF m = n /\ x = f THEN v ELSE disk[m][x]
BY DEF TypeOK, DiskType

\* Local operations.
LEMMA TypeClient ==
    ASSUME TypeOK, NEW n \in Nodes, NEW f \in Files, Client(n, f) \/ Unlink(n, f)
    PROVE  TypeOK'
<1> USE DEF TypeOK
<1>1. CASE Put(n, f)
  <2>1. outbox[n] \o JobsToPeers(n, f, "PUT") \in Seq(Job)
    <3>1. JobsToPeers(n, f, "PUT") \in Seq(Job)
      BY OneJobPerPeer
    <3> QED BY <3>1, ConcatProperties
  <2>2. row' \in [Nodes -> [Files -> {"absent", "active", "recycled"}]]
    BY <1>1 DEF Put
  <2> QED BY <1>1, <2>1, <2>2 DEF Put
<1>2. CASE SoftDelete(n, f) \/ Restore(n, f)
  <2>1. row' \in RowType
    <3>1. CASE SoftDelete(n, f)
      BY <3>1, RowEntry DEF SoftDelete
    <3>2. CASE Restore(n, f)
      BY <3>2, RowEntry DEF Restore
    <3> QED BY <1>2, <3>1, <3>2
  <2> QED BY <1>2, <2>1 DEF SoftDelete, Restore, RowType
<1>3. CASE Purge(n, f)
  <2>1. outbox[n] \o JobsToPeers(n, f, "DELETE") \in Seq(Job)
    <3>1. JobsToPeers(n, f, "DELETE") \in Seq(Job)
      BY OneJobPerPeer
    <3> QED BY <3>1, ConcatProperties
  <2>2. Unlinked(outbox[n] \o JobsToPeers(n, f, "DELETE"), f) \in Seq(Job)
    BY <2>1, UnlinkedJobs DEF Edited
  <2> QED BY <1>3, <2>2 DEF Purge
<1>4. CASE Unlink(n, f)
  BY <1>4 DEF Unlink
<1> QED BY <1>1, <1>2, <1>3, <1>4 DEF Client

\* fail_outbox_job and an error of either write.
LEMMA ReleaseCurrent ==
    ASSUME TypeOK, NEW n \in Nodes, Batch(n) # {}, NEW st \in {"IN_FLIGHT", "FAILED"},
           outbox' = [outbox EXCEPT ![n][Current(n)] = Released(CurJob(n), st)]
    PROVE  /\ outbox' = [outbox EXCEPT ![n] = outbox'[n]] /\ Edited(outbox[n], outbox'[n])
           /\ \A k \in DOMAIN outbox[n] : outbox'[n][k] =
                 IF k = Current(n) THEN Released(CurJob(n), st) ELSE outbox[n][k]
<1>1. /\ Current(n) \in DOMAIN outbox[n] /\ CurJob(n) = outbox[n][Current(n)] /\ CurJob(n) \in Job
      /\ outbox[n] \in Seq(Job) /\ outbox \in [Nodes -> Seq(Job)]
  BY CurrentJob DEF TypeOK
<1>2. outbox'[n] = [outbox[n] EXCEPT ![Current(n)] = Released(CurJob(n), st)]
  BY <1>1
<1>3. outbox' = [outbox EXCEPT ![n] = outbox'[n]]
  BY <1>1
<1> DEFINE e == Released(CurJob(n), st)
           c == Current(n)
           q == outbox[n]
<1>4. e \in Job /\ e.peer = CurJob(n).peer /\ e.file = CurJob(n).file /\ e.op = CurJob(n).op
  BY <1>1, ReleasedJob
<1> HIDE DEF e, c, q
<1>5. q \in Seq(Job) /\ c \in DOMAIN q /\ outbox'[n] = [q EXCEPT ![c] = e]
      /\ e.peer = q[c].peer /\ e.file = q[c].file /\ e.op = q[c].op
  BY <1>1, <1>2, <1>4 DEF e, c, q
<1>6. /\ Edited(q, outbox'[n])
      /\ \A k \in DOMAIN q : outbox'[n][k] = IF k = c THEN e ELSE q[k]
  BY <1>4, <1>5, ReplacedJob
<1> QED BY <1>3, <1>6 DEF e, c, q

\* The worker and the calls it makes.
LEMMA TypeWorker ==
    ASSUME TypeOK, CallsOK, NEW n \in Nodes, Worker(n) \/ NetFail(n) \/ WriteFails(n)
    PROVE  TypeOK'
<1> USE DEF TypeOK
<1>1. CASE Claim(n)
  <2>1. [i \in DOMAIN outbox[n] |-> Claimed(outbox[n][i])] \in Seq(Job)
    BY ClaimedJobs DEF Edited
  <2> QED BY <1>1, <2>1 DEF Claim
<1>2. CASE SendPut(n) \/ SendDelete(n)
  <2>1. CurJob(n).peer \in Nodes /\ CurJob(n).file \in Files
    BY <1>2, CurrentJob DEF SendPut, SendDelete
  <2>3. CASE SendPut(n)
    <3>1. disk' \in DiskType
      BY <2>1, <2>3, DiskEntry DEF SendPut
    <3> QED BY <2>3, <3>1 DEF SendPut, DiskType
  <2>4. CASE SendDelete(n)
    <3>1. disk' \in DiskType
      BY <2>1, <2>4, DiskEntry DEF SendDelete
    <3> QED BY <2>4, <3>1 DEF SendDelete, DiskType
  <2> QED BY <1>2, <2>3, <2>4
<1>3. CASE RecvWrite(n) \/ RecvInsert(n) \/ RecvDelete(n)
  <2>1. Batch(n) # {}
    BY <1>3 DEF RecvWrite, RecvInsert, RecvDelete, CallsOK, CallOK
  <2>2. CurJob(n).peer \in Nodes /\ CurJob(n).file \in Files
    BY <2>1, CurrentJob
  <2>3. CASE RecvWrite(n)
    BY <2>2, <2>3 DEF RecvWrite
  <2>4. CASE RecvInsert(n)
    <3>1. row' \in RowType
      <4>1. CASE row' = row
        BY <4>1 DEF RowType
      <4>2. CASE row' = [row EXCEPT ![CurJob(n).peer][CurJob(n).file] = "active"]
        BY <2>2, <4>2, RowEntry
      <4> QED BY <2>4, <4>1, <4>2 DEF RecvInsert
    <3>2. pathKeyed' \in [Nodes -> SUBSET Files]
      <4>1. CASE pathKeyed' = pathKeyed
        BY <4>1
      <4>2. CASE pathKeyed' = [pathKeyed EXCEPT ![CurJob(n).peer] = @ \cup {CurJob(n).file}]
        BY <2>2, <4>2
      <4>3. CASE pathKeyed' = [pathKeyed EXCEPT ![CurJob(n).peer] = @]
        BY <2>2, <4>3
      <4> QED BY <2>4, <4>1, <4>2, <4>3 DEF RecvInsert
    <3>3. rpc' \in [Nodes -> {"idle", "write", "insert", "delrow", "done", "failed"}]
      <4>1. CASE rpc' = [rpc EXCEPT ![n] = "done"]
        BY <4>1
      <4>2. CASE rpc' = [rpc EXCEPT ![n] = "failed"]
        BY <4>2
      <4> QED BY <2>4, <4>1, <4>2 DEF RecvInsert
    <3> QED BY <2>4, <3>1, <3>2, <3>3 DEF RecvInsert, RowType
  <2>5. CASE RecvDelete(n)
    <3>1. Unlinked(outbox[CurJob(n).peer], CurJob(n).file) \in Seq(Job)
      BY <2>2, UnlinkedJobs DEF Edited
    <3>2. row' \in RowType
      BY <2>2, <2>5, RowEntry DEF RecvDelete
    <3> QED BY <2>2, <2>5, <3>1, <3>2 DEF RecvDelete, RowType
  <2> QED BY <1>3, <2>3, <2>4, <2>5
<1>4. CASE Complete(n)
  <2>1. RemoveAt(outbox[n], Current(n)) \in Seq(Job)
    BY <1>4, CurrentJob, Removed DEF Complete, CallsOK, CallOK
  <2> QED BY <1>4, <2>1 DEF Complete
<1>5. CASE Fail(n) \/ WriteFails(n)
  <2>1. outbox' = [outbox EXCEPT ![n] = outbox'[n]] /\ outbox'[n] \in Seq(Job)
    BY <1>5, ReleaseCurrent DEF Fail, WriteFails, CallsOK, CallOK, Edited
  <2>2. outbox' \in [Nodes -> Seq(Job)]
    BY <2>1
  <2>3. faults' \in 0..MaxFaults
    BY <1>5, ReplicationAssumption DEF Fail, WriteFails
  <2> QED BY <1>5, <2>2, <2>3 DEF Fail, WriteFails
<1>6. CASE NetFail(n)
  BY <1>6 DEF NetFail
<1> QED BY <1>1, <1>2, <1>3, <1>4, <1>5, <1>6 DEF Worker

\* A crash releases every job of the node.
LEMMA CrashedJobs ==
    ASSUME TypeOK, NEW n \in Nodes, Crash(n)
    PROVE  /\ Edited(outbox[n], outbox'[n])
           /\ \A i \in DOMAIN outbox[n] :
                 ~ outbox'[n][i].batch /\ outbox'[n][i].linked = outbox[n][i].linked
           /\ \A m \in Nodes \ {n} : outbox'[m] = outbox[m]
           /\ outbox' \in [Nodes -> Seq(Job)]
<1> DEFINE t == [i \in DOMAIN outbox[n] |-> Released(outbox[n][i], outbox[n][i].status)]
<1>1. outbox' = [outbox EXCEPT ![n] = t] /\ outbox \in [Nodes -> Seq(Job)]
  BY DEF Crash, TypeOK
<1>2. ASSUME NEW i \in DOMAIN outbox[n]
      PROVE  /\ t[i] \in Job /\ t[i].peer = outbox[n][i].peer /\ t[i].file = outbox[n][i].file
             /\ t[i].op = outbox[n][i].op /\ t[i].linked = outbox[n][i].linked /\ ~ t[i].batch
  <2>1. outbox[n][i] \in Job /\ outbox[n][i].status \in {"PENDING", "IN_FLIGHT", "FAILED"}
    BY OutboxType DEF Job
  <2> QED BY <2>1, ReleasedJob
<1>3. t \in [1..Len(outbox[n]) -> Job]
  BY <1>2, OutboxType
<1>4. t \in Seq(Job) /\ DOMAIN t = DOMAIN outbox[n]
  BY <1>3, FunSeq, OutboxType
<1> HIDE DEF t
<1> QED BY <1>1, <1>2, <1>4 DEF Edited

\* Crashes, retry times and anti-entropy.
LEMMA TypeRest ==
    ASSUME TypeOK, NEW n \in Nodes,
           \/ Crash(n) \/ AeStart(n)
           \/ \E i \in DOMAIN outbox[n] : RetryDue(n, i)
           \/ \E p \in Nodes \ {n} : AntiEntropy(n, p)
    PROVE  TypeOK'
<1> USE DEF TypeOK
<1>0. ae \in [Nodes -> AeType] /\ AeIdle \in AeType
  BY DEF AeType, AeIdle
<1>1. CASE Crash(n)
  <2>1. faults' \in 0..MaxFaults
    BY <1>1, ReplicationAssumption DEF Crash
  <2>2. ae' \in [Nodes -> AeType]
    BY <1>0, <1>1 DEF Crash
  <2> QED BY <1>1, <2>1, <2>2, CrashedJobs DEF Crash, AeType
<1>2. CASE AeStart(n)
  <2>1. ae' = [ae EXCEPT ![n] = [ae[n] EXCEPT !.local = Active(n), !.peers = Nodes \ {n}]]
    BY <1>2 DEF AeStart
  <2>2. [ae[n] EXCEPT !.local = Active(n), !.peers = Nodes \ {n}] \in AeType
    BY <1>0 DEF AeType, Active
  <2>3. ae' \in [Nodes -> AeType]
    BY <1>0, <2>1, <2>2
  <2> QED BY <1>2, <2>3 DEF AeStart, AeType
<1>3. ASSUME NEW i \in DOMAIN outbox[n], RetryDue(n, i) PROVE TypeOK'
  <2> DEFINE e == [outbox[n][i] EXCEPT !.status = "PENDING"]
  <2>1. outbox[n][i] \in Job /\ outbox[n] \in Seq(Job)
    BY OutboxType
  <2>2. e \in Job /\ e.peer = outbox[n][i].peer /\ e.file = outbox[n][i].file /\ e.op = outbox[n][i].op
    BY <2>1 DEF Job
  <2>3. outbox' = [outbox EXCEPT ![n] = [outbox[n] EXCEPT ![i] = e]]
    BY <1>3 DEF RetryDue
  <2>4. [outbox[n] EXCEPT ![i] = e] \in Seq(Job)
    BY <2>1, <2>2, ReplacedJob DEF Edited
  <2>5. outbox' \in [Nodes -> Seq(Job)]
    BY <2>3, <2>4
  <2> QED BY <1>3, <2>5 DEF RetryDue
<1>4. ASSUME NEW p \in Nodes \ {n}, NEW M \in SUBSET Files, AePeer(n, p, M) PROVE TypeOK'
  <2> DEFINE left == ae[n].peers \ {p}
             a == [ae[n] EXCEPT !.local = IF left = {} THEN {} ELSE @, !.peers = left,
                                !.missing = {p} \X M]
  <2>1. ae' = [ae EXCEPT ![n] = a]
    BY <1>4 DEF AePeer
  <2>2. a \in AeType
    <3>1. left \in SUBSET Nodes /\ {p} \X M \in SUBSET (Nodes \X Files)
      BY <1>0 DEF AeType
    <3>2. PICK miss \in SUBSET (Nodes \X Files) : miss = {p} \X M
      BY <3>1
    <3>3. PICK loc \in SUBSET Files : loc = IF left = {} THEN {} ELSE ae[n].local
      BY <1>0 DEF AeType
    <3>4. a = [ae[n] EXCEPT !.local = loc, !.peers = left, !.missing = miss]
      BY <1>0, <3>2, <3>3 DEF AeType
    <3> HIDE DEF a, left
    <3> QED BY <1>0, <3>1, <3>4 DEF AeType
  <2>3. ae' \in [Nodes -> AeType]
    BY <1>0, <2>1, <2>2
  <2> QED BY <1>4, <2>3 DEF AePeer, AeType
<1>5. ASSUME NEW p \in Nodes, NEW f \in Files, AeCheck(n, p, f) PROVE TypeOK'
  <2> DEFINE R == IF row[n][f] = "active" /\ ~ HasPut(n, p, f) THEN {<<p, f>>} ELSE {}
             a == [ae[n] EXCEPT !.missing = @ \ {<<p, f>>}, !.ready = R]
  <2>1. ae' = [ae EXCEPT ![n] = a]
    BY <1>5 DEF AeCheck
  <2>2. a \in AeType
    <3>1. R \in SUBSET (Nodes \X Files)
      OBVIOUS
    <3> HIDE DEF R
    <3> QED BY <1>0, <3>1 DEF AeType
  <2>3. ae' \in [Nodes -> AeType]
    BY <1>0, <2>1, <2>2
  <2> QED BY <1>5, <2>3 DEF AeCheck, AeType
<1>6. ASSUME NEW p \in Nodes, NEW f \in Files, AeInsert(n, p, f) PROVE TypeOK'
  <2>1. Append(outbox[n], NewJob(p, f, "PUT")) \in Seq(Job)
    BY NewJobType, AppendedJob
  <2>2. outbox' \in [Nodes -> Seq(Job)]
    BY <1>6, <2>1 DEF AeInsert
  <2>3. ae' \in [Nodes -> AeType]
    <3>1. [ae[n] EXCEPT !.ready = {}] \in AeType
      BY <1>0 DEF AeType
    <3> QED BY <1>0, <1>6, <3>1 DEF AeInsert
  <2> QED BY <1>6, <2>2, <2>3 DEF AeInsert, AeType
<1>7. ASSUME NEW p \in Nodes \ {n}, AntiEntropy(n, p) PROVE TypeOK'
  <2>1. ae[n].local \ Active(p) \in SUBSET Files /\ {} \in SUBSET Files
    BY <1>0 DEF AeType
  <2> QED BY <1>4, <1>5, <1>6, <1>7, <2>1 DEF AntiEntropy, AeDigest, AeSkip
<1> QED BY <1>1, <1>2, <1>3, <1>7
-----------------------------------------------------------------------------
(***************************************************************************)
(* Where jobs and rows come from                                           *)
(***************************************************************************)
AInv == JobsOK /\ RowsOK /\ GhostsWerePurged

\* JobOK outlives later uploads and purges.
LEMMA JobOKGrows ==
    ASSUME NEW j, NEW U, NEW P, NEW U2, NEW P2, JobOK(j, U, P), U \subseteq U2, P \subseteq P2
    PROVE  JobOK(j, U2, P2)
BY DEF JobOK, Purgers

\* The queue of n with new jobs for all peers at its end.
Enqueued(n, f, op) == outbox[n] \o JobsToPeers(n, f, op)

\* The old jobs stay in place; every peer has exactly one new one, unclaimed.
LEMMA QueueWithNew ==
    ASSUME TypeOK, NEW n \in Nodes, NEW f \in Files, NEW op \in {"PUT", "DELETE"},
           NEW t, t = Enqueued(n, f, op)
    PROVE  /\ t \in Seq(Job) /\ DOMAIN outbox[n] \subseteq DOMAIN t
           /\ \A i \in DOMAIN outbox[n] : t[i] = outbox[n][i]
           /\ \A i \in DOMAIN t \ DOMAIN outbox[n] :
                 /\ t[i].peer \in Nodes /\ t[i].file = f /\ t[i].op = op /\ t[i].linked /\ ~ t[i].batch
                 /\ \A k \in DOMAIN t \ DOMAIN outbox[n] : t[i].peer = t[k].peer => i = k
           /\ \A p \in Nodes \ {n} : \E i \in DOMAIN t \ DOMAIN outbox[n] : t[i].peer = p
<1> DEFINE s == outbox[n]
<1>0. PICK js : js = JobsToPeers(n, f, op)
  OBVIOUS
<1>s. s \in Seq(Job)
  BY DEF TypeOK
<1>1. /\ js \in Seq(Job)
      /\ \A i \in DOMAIN js : js[i].peer \in Nodes /\ js[i] = NewJob(js[i].peer, f, op)
      /\ \A i, j \in DOMAIN js : js[i].peer = js[j].peer => i = j
      /\ \A p \in Nodes \ {n} : \E i \in DOMAIN js : js[i].peer = p
  <2>1. js \in Seq(Job)
    BY <1>0, OneJobPerPeer
  <2>2. \A i \in DOMAIN js : js[i].peer \in Nodes /\ js[i] = NewJob(js[i].peer, f, op)
    BY <1>0, OneJobPerPeer
  <2>3. \A i, j \in DOMAIN js : js[i].peer = js[j].peer => i = j
    BY <1>0, OneJobPerPeer
  <2>4. \A p \in Nodes \ {n} : \E i \in DOMAIN js : js[i].peer = p
    BY <1>0, OneJobPerPeer
  <2> QED BY <2>1, <2>2, <2>3, <2>4
<1> HIDE DEF s
<1>2. t = s \o js
  BY <1>0 DEF s, Enqueued
<1>3. /\ t \in Seq(Job) /\ DOMAIN s \subseteq DOMAIN t /\ \A i \in DOMAIN s : t[i] = s[i]
      /\ \A i \in DOMAIN t \ DOMAIN s : i - Len(s) \in DOMAIN js /\ t[i] = js[i - Len(s)]
      /\ \A k \in DOMAIN js : \E i \in DOMAIN t \ DOMAIN s : t[i] = js[k]
      /\ Len(s) \in Nat /\ DOMAIN t \subseteq Nat
  BY <1>s, <1>1, <1>2, Concatenated
<1>4. ASSUME NEW i \in DOMAIN t \ DOMAIN s
      PROVE  /\ t[i].peer \in Nodes /\ t[i].file = f /\ t[i].op = op /\ t[i].linked /\ ~ t[i].batch
             /\ \A k \in DOMAIN t \ DOMAIN s : t[i].peer = t[k].peer => i = k
  <2>1. i - Len(s) \in DOMAIN js /\ t[i] = js[i - Len(s)] /\ i \in Nat
    BY <1>3
  <2>2. t[i].peer \in Nodes /\ t[i] = NewJob(t[i].peer, f, op)
    BY <1>1, <2>1
  <2>3. t[i].file = f /\ t[i].op = op /\ t[i].linked /\ ~ t[i].batch
    BY <2>2, NewJobType
  <2>4. ASSUME NEW k \in DOMAIN t \ DOMAIN s, t[i].peer = t[k].peer PROVE i = k
    <3>1. k - Len(s) \in DOMAIN js /\ t[k] = js[k - Len(s)] /\ k \in Nat
      BY <1>3
    <3>2. i - Len(s) = k - Len(s)
      BY <1>1, <2>1, <2>4, <3>1
    <3> QED BY <1>3, <2>1, <3>1, <3>2
  <2> QED BY <2>2, <2>3, <2>4
<1>5. ASSUME NEW p \in Nodes \ {n} PROVE \E i \in DOMAIN t \ DOMAIN s : t[i].peer = p
  <2>1. PICK k \in DOMAIN js : js[k].peer = p
    BY <1>1
  <2>2. PICK i \in DOMAIN t \ DOMAIN s : t[i] = js[k]
    BY <1>3
  <2> QED BY <2>1, <2>2
<1> QED BY <1>3, <1>4, <1>5 DEF s

\* Local operations.
LEMMA OriginClient ==
    ASSUME TypeOK, AInv, NEW n \in Nodes, NEW f \in Files, Client(n, f) \/ Unlink(n, f)
    PROVE  AInv'
<1> USE DEF AInv
<1>1. CASE Put(n, f)
  <2>0. PICK t : t = Enqueued(n, f, "PUT")
    OBVIOUS
  <2>1. /\ outbox' = [outbox EXCEPT ![n] = t] /\ uploaded' = uploaded \cup {f}
        /\ UNCHANGED <<purged, pathKeyed, unlinks>>
    BY <1>1, <2>0 DEF Put, Enqueued
  <2>2. \A i \in DOMAIN t \ DOMAIN outbox[n] : t[i].file = f /\ t[i].op = "PUT" /\ t[i].linked /\ ~ t[i].batch
    BY <2>0, QueueWithNew
  <2>3. \A i \in DOMAIN outbox[n] : t[i] = outbox[n][i]
    BY <2>0, QueueWithNew
  <2>4. JobsOK'
    <3> SUFFICES ASSUME NEW m \in Nodes, NEW i \in DOMAIN outbox'[m]
                 PROVE  JobOK(outbox'[m][i], uploaded', purged')
      BY DEF JobsOK
    <3>1. CASE m # n \/ i \in DOMAIN outbox[n]
      <4>1. i \in DOMAIN outbox[m] /\ outbox'[m][i] = outbox[m][i]
        BY <2>1, <2>3, <3>1 DEF TypeOK
      <4> QED BY <2>1, <4>1, JobOKGrows DEF JobsOK
    <3>2. CASE m = n /\ i \notin DOMAIN outbox[n]
      BY <2>1, <2>2, <3>2 DEF TypeOK, JobOK
    <3> QED BY <3>1, <3>2
  <2>5. RowsOK'
    BY <1>1, <2>1 DEF Put, RowsOK, SameKey, Active, TypeOK
  <2>6. GhostsWerePurged'
    BY <2>1 DEF GhostsWerePurged
  <2> QED BY <2>4, <2>5, <2>6
<1>2. CASE SoftDelete(n, f) \/ Restore(n, f)
  <2>1. UNCHANGED <<outbox, uploaded, purged, pathKeyed, unlinks>>
    BY <1>2 DEF SoftDelete, Restore
  <2>2. \A m \in Nodes, g \in Files : row'[m][g] # "absent" => row[m][g] # "absent"
    BY <1>2, RowEntry DEF SoftDelete, Restore
  <2> QED BY <2>1, <2>2 DEF JobsOK, RowsOK, GhostsWerePurged
<1>3. CASE Unlink(n, f)
  <2>1. UNCHANGED <<outbox, uploaded, purged, pathKeyed, row>>
    BY <1>3 DEF Unlink
  <2>2. \A m \in Nodes : unlinks'[m] \subseteq unlinks[m]
    BY <1>3 DEF Unlink, TypeOK
  <2> QED BY <2>1, <2>2 DEF JobsOK, RowsOK, GhostsWerePurged
<1>4. CASE Purge(n, f)
  <2>0. PICK t : t = Enqueued(n, f, "DELETE")
    OBVIOUS
  <2> DEFINE u == Unlinked(t, f)
  <2>1. /\ outbox' = [outbox EXCEPT ![n] = u] /\ uploaded' = uploaded
        /\ purged' = purged \cup {<<n, f>>} /\ row[n][f] = "recycled"
    BY <1>4, <2>0 DEF Purge, Enqueued
  <2>2. \A i \in DOMAIN t \ DOMAIN outbox[n] : t[i].file = f
    BY <2>0, QueueWithNew
  <2>3. t \in Seq(Job) /\ \A i \in DOMAIN outbox[n] : t[i] = outbox[n][i]
    BY <2>0, QueueWithNew
  <2>4. /\ DOMAIN u = DOMAIN t
        /\ \A i \in DOMAIN t : u[i].file = t[i].file /\ (t[i].file # f => u[i] = t[i])
    BY <2>3, UnlinkedJobs DEF Edited
  <2> HIDE DEF u
  <2>5. f \in uploaded /\ Purgers(f, purged') # {}
    BY <2>1 DEF RowsOK, Purgers
  <2>6. JobsOK'
    <3> SUFFICES ASSUME NEW m \in Nodes, NEW i \in DOMAIN outbox'[m]
                 PROVE  JobOK(outbox'[m][i], uploaded', purged')
      BY DEF JobsOK
    <3>1. CASE m = n /\ u[i].file = f
      BY <2>1, <2>5, <3>1 DEF JobOK, TypeOK
    <3>2. CASE m # n \/ u[i].file # f
      <4>1. i \in DOMAIN outbox[m] /\ outbox'[m][i] = outbox[m][i]
        BY <2>1, <2>2, <2>3, <2>4, <3>2 DEF TypeOK
      <4> QED BY <2>1, <4>1, JobOKGrows DEF JobsOK
    <3> QED BY <3>1, <3>2
  <2>7. RowsOK'
    <3>1. \A m \in Nodes, g \in Files : row'[m][g] # "absent" => row[m][g] # "absent"
      BY <1>4, RowEntry DEF Purge
    <3>2. \A m \in Nodes : \A g \in unlinks'[m] : g \in unlinks[m] \/ g = f
      BY <1>4 DEF Purge, TypeOK
    <3>3. \A g : Purgers(g, purged) \subseteq Purgers(g, purged')
      BY <2>1 DEF Purgers
    <3> QED BY <2>1, <2>5, <3>1, <3>2, <3>3 DEF RowsOK
  <2>8. GhostsWerePurged'
    <3>1. \A m \in Nodes : pathKeyed'[m] \subseteq pathKeyed[m]
      BY <1>4 DEF Purge, TypeOK
    <3> QED BY <2>1, <3>1 DEF GhostsWerePurged
  <2> QED BY <2>6, <2>7, <2>8
<1> QED BY <1>1, <1>2, <1>3, <1>4 DEF Client

\* complete_outbox_job: the other jobs stay, each at a place of its own.
LEMMA CompletedJobs ==
    ASSUME TypeOK, CallsOK, NEW n \in Nodes, Complete(n)
    PROVE  /\ Batch(n) # {} /\ outbox' = [outbox EXCEPT ![n] = outbox'[n]]
           /\ \A k \in DOMAIN outbox'[n] :
                 /\ k \in Nat
                 /\ (IF k < Current(n) THEN k ELSE k + 1) \in DOMAIN outbox[n] \ {Current(n)}
                 /\ outbox'[n][k] = outbox[n][IF k < Current(n) THEN k ELSE k + 1]
           /\ \A j \in DOMAIN outbox[n] \ {Current(n)} :
                 \E k \in DOMAIN outbox'[n] : outbox'[n][k] = outbox[n][j]
<1>1. Batch(n) # {}
  BY DEF Complete, CallsOK, CallOK
<1>2. PICK s \in Seq(Job) : s = outbox[n]
  BY OutboxType
<1>3. PICK c \in DOMAIN s : c = Current(n)
  BY <1>1, <1>2, CurrentJob
<1>4. outbox'[n] = RemoveAt(s, c) /\ outbox' = [outbox EXCEPT ![n] = outbox'[n]]
  BY <1>2, <1>3 DEF Complete, TypeOK
<1>5. /\ \A k \in DOMAIN RemoveAt(s, c) :
            /\ k \in Nat /\ (IF k < c THEN k ELSE k + 1) \in DOMAIN s \ {c}
            /\ RemoveAt(s, c)[k] = s[IF k < c THEN k ELSE k + 1]
      /\ \A j \in DOMAIN s \ {c} : \E k \in DOMAIN RemoveAt(s, c) : RemoveAt(s, c)[k] = s[j]
  BY Removed
<1> QED BY <1>1, <1>2, <1>3, <1>4, <1>5

\* Steps that change the outbox of x only, and there no more than the facts
\* that JobOK speaks of allow.
LEMMA OriginEdit ==
    ASSUME TypeOK, AInv, NEW x \in Nodes,
           \A m \in Nodes \ {x} : outbox'[m] = outbox[m],
           \A i \in DOMAIN outbox'[x] : JobOK(outbox'[x][i], uploaded, purged),
           UNCHANGED <<uploaded, purged>>,
           \A m \in Nodes, g \in Files : row'[m][g] # "absent" => row[m][g] # "absent",
           \A m \in Nodes : pathKeyed'[m] \subseteq pathKeyed[m] /\ unlinks'[m] \subseteq unlinks[m]
    PROVE  AInv'
<1>1. JobsOK'
  BY DEF AInv, JobsOK
<1>2. RowsOK'
  BY DEF AInv, RowsOK
<1>3. GhostsWerePurged'
  BY DEF AInv, GhostsWerePurged
<1> QED BY <1>1, <1>2, <1>3 DEF AInv

\* The worker: the peer stores only what a job named, and a row keyed by its path
\* only for a job that had lost its row.
LEMMA OriginWorker ==
    ASSUME TypeOK, CallsOK, AInv, NEW n \in Nodes, Worker(n) \/ NetFail(n) \/ WriteFails(n)
    PROVE  AInv'
<1>0. \A m \in Nodes : \A i \in DOMAIN outbox[m] : JobOK(outbox[m][i], uploaded, purged)
  BY DEF AInv, JobsOK
<1>1. CASE Claim(n)
  <2>1. PICK t : t = [i \in DOMAIN outbox[n] |-> Claimed(outbox[n][i])]
    OBVIOUS
  <2>2. /\ Edited(outbox[n], t)
        /\ \A i \in DOMAIN outbox[n] :
              /\ t[i].linked = outbox[n][i].linked
              /\ t[i].batch /\ ~ t[i].meta =>
                    ~ outbox[n][i].linked \/ (outbox[n][i].batch /\ ~ outbox[n][i].meta)
    BY <2>1, ClaimedJobs
  <2>3. outbox' = [outbox EXCEPT ![n] = t] /\ UNCHANGED <<uploaded, purged, row, pathKeyed, unlinks>>
    BY <1>1, <2>1 DEF Claim
  <2>4. \A i \in DOMAIN t : JobOK(t[i], uploaded, purged)
    BY <1>0, <2>2 DEF JobOK, Edited
  <2> QED BY <2>3, <2>4, OriginEdit DEF TypeOK
<1>2. CASE SendPut(n) \/ RecvWrite(n) \/ SendDelete(n) \/ NetFail(n)
  <2>1. UNCHANGED <<outbox, uploaded, purged, row, pathKeyed, unlinks>>
    BY <1>2 DEF SendPut, RecvWrite, SendDelete, NetFail
  <2> QED BY <1>0, <2>1, OriginEdit
<1>3. CASE RecvInsert(n)
  <2>1. /\ Current(n) \in DOMAIN outbox[n] /\ CurJob(n) = outbox[n][Current(n)] /\ CurJob(n).batch
        /\ CurJob(n).peer \in Nodes /\ CurJob(n).file \in Files
    BY <1>3, CurrentJob DEF RecvInsert, CallsOK, CallOK
  <2>2. JobOK(CurJob(n), uploaded, purged)
    BY <1>0, <2>1
  <2>3. UNCHANGED <<outbox, uploaded, purged, unlinks>>
    BY <1>3 DEF RecvInsert
  <2>4. CASE UNCHANGED <<row, pathKeyed>>
    BY <1>0, <2>3, <2>4, OriginEdit
  <2>5. CASE /\ row' = [row EXCEPT ![CurJob(n).peer][CurJob(n).file] = "active"]
             /\ pathKeyed' = [pathKeyed EXCEPT ![CurJob(n).peer] =
                                 IF CurJob(n).meta THEN @ ELSE @ \cup {CurJob(n).file}]
    <3>1. JobsOK'
      BY <2>3 DEF AInv, JobsOK
    <3>2. RowsOK'
      <4>1. \A m \in Nodes, g \in Files : row'[m][g] # "absent" => row[m][g] # "absent" \/ g = CurJob(n).file
        <5>1. PICK x \in Nodes, y \in Files : x = CurJob(n).peer /\ y = CurJob(n).file
          BY <2>1
        <5>2. row' = [row EXCEPT ![x][y] = "active"]
          BY <2>5, <5>1
        <5> QED BY <5>1, <5>2 DEF TypeOK
      <4> QED BY <2>2, <2>3, <4>1 DEF AInv, RowsOK, JobOK
    <3>3. GhostsWerePurged'
      <4>1. \A m \in Nodes : \A g \in pathKeyed'[m] :
               g \in pathKeyed[m] \/ (g = CurJob(n).file /\ ~ CurJob(n).meta)
        BY <2>1, <2>5 DEF TypeOK
      <4>2. ~ CurJob(n).meta => \E m \in Nodes : <<m, CurJob(n).file>> \in purged
        BY <2>1, <2>2 DEF JobOK, Purgers
      <4> QED BY <2>3, <4>1, <4>2 DEF AInv, GhostsWerePurged
    <3> QED BY <3>1, <3>2, <3>3 DEF AInv
  <2> QED BY <1>3, <2>4, <2>5 DEF RecvInsert
<1>4. CASE RecvDelete(n)
  <2>1. Batch(n) # {} /\ CurJob(n).op = "DELETE"
    BY <1>4 DEF RecvDelete, CallsOK, CallOK
  <2>2. /\ Current(n) \in DOMAIN outbox[n] /\ CurJob(n) = outbox[n][Current(n)]
        /\ CurJob(n).peer \in Nodes /\ CurJob(n).file \in Files
    BY <2>1, CurrentJob
  <2>3. PICK x \in Nodes, f \in Files : x = CurJob(n).peer /\ f = CurJob(n).file
    BY <2>2
  <2>4. f \in uploaded /\ Purgers(f, purged) # {}
    BY <1>0, <2>1, <2>2, <2>3 DEF JobOK
  <2>5. PICK u : u = Unlinked(outbox[x], f)
    OBVIOUS
  <2>6. /\ DOMAIN u = DOMAIN outbox[x]
        /\ \A i \in DOMAIN u : u[i].file = outbox[x][i].file /\ (outbox[x][i].file # f => u[i] = outbox[x][i])
    BY <2>5, UnlinkedJobs, OutboxType DEF Edited
  <2>7. /\ outbox' = [outbox EXCEPT ![x] = u] /\ row' = [row EXCEPT ![x][f] = "absent"]
        /\ pathKeyed' = [pathKeyed EXCEPT ![x] = @ \ {f}] /\ UNCHANGED <<uploaded, purged, unlinks>>
    BY <1>4, <2>3, <2>5 DEF RecvDelete
  <2>8. \A i \in DOMAIN u : JobOK(u[i], uploaded, purged)
    BY <1>0, <2>4, <2>6 DEF JobOK
  <2>9. \A m \in Nodes, g \in Files : row'[m][g] # "absent" => row[m][g] # "absent"
    BY <2>7, RowEntry
  <2>10. \A m \in Nodes : pathKeyed'[m] \subseteq pathKeyed[m] /\ unlinks'[m] \subseteq unlinks[m]
    BY <2>7 DEF TypeOK
  <2> QED BY <2>7, <2>8, <2>9, <2>10, OriginEdit DEF TypeOK
<1>5. CASE Complete(n)
  <2>1. \A k \in DOMAIN outbox'[n] : \E i \in DOMAIN outbox[n] : outbox'[n][k] = outbox[n][i]
    BY <1>5, CompletedJobs
  <2>2. \A i \in DOMAIN outbox'[n] : JobOK(outbox'[n][i], uploaded, purged)
    BY <1>0, <2>1
  <2>3. outbox' = [outbox EXCEPT ![n] = outbox'[n]]
    BY <1>5, CompletedJobs
  <2>4. UNCHANGED <<uploaded, purged, row, pathKeyed, unlinks>>
    BY <1>5 DEF Complete
  <2> QED BY <2>2, <2>3, <2>4, OriginEdit DEF TypeOK
<1>6. CASE Fail(n) \/ WriteFails(n)
  <2>1. Batch(n) # {}
    BY <1>6 DEF Fail, WriteFails, CallsOK, CallOK
  <2>2. PICK st \in {"IN_FLIGHT", "FAILED"} :
            outbox' = [outbox EXCEPT ![n][Current(n)] = Released(CurJob(n), st)]
    BY <1>6 DEF Fail, WriteFails
  <2>3. /\ outbox' = [outbox EXCEPT ![n] = outbox'[n]] /\ DOMAIN outbox'[n] = DOMAIN outbox[n]
        /\ \A k \in DOMAIN outbox[n] : outbox'[n][k] =
              IF k = Current(n) THEN Released(CurJob(n), st) ELSE outbox[n][k]
    BY <2>1, <2>2, ReleaseCurrent DEF Edited
  <2>4. JobOK(Released(CurJob(n), st), uploaded, purged)
    <3>1. CurJob(n) \in Job /\ JobOK(CurJob(n), uploaded, purged)
      BY <1>0, <2>1, CurrentJob
    <3> QED BY <3>1, ReleasedJob DEF JobOK
  <2>5. \A i \in DOMAIN outbox'[n] : JobOK(outbox'[n][i], uploaded, purged)
    BY <1>0, <2>3, <2>4
  <2>6. UNCHANGED <<uploaded, purged, row, pathKeyed, unlinks>>
    BY <1>6 DEF Fail, WriteFails
  <2> QED BY <2>3, <2>5, <2>6, OriginEdit DEF TypeOK
<1> QED BY <1>1, <1>2, <1>3, <1>4, <1>5, <1>6 DEF Worker

\* next_retry_utc passes for a job.
LEMMA RetriedJob ==
    ASSUME TypeOK, NEW n \in Nodes, NEW i \in DOMAIN outbox[n], RetryDue(n, i)
    PROVE  /\ outbox' = [outbox EXCEPT ![n] = outbox'[n]] /\ Edited(outbox[n], outbox'[n])
           /\ \A k \in DOMAIN outbox[n] :
                 /\ outbox'[n][k].linked = outbox[n][k].linked
                 /\ outbox'[n][k].batch = outbox[n][k].batch /\ outbox'[n][k].meta = outbox[n][k].meta
<1>1. PICK s \in Seq(Job) : s = outbox[n]
  BY OutboxType
<1>2. PICK e : e = [s[i] EXCEPT !.status = "PENDING"]
  OBVIOUS
<1>3. s[i] \in Job /\ i \in DOMAIN s
  BY <1>1, OutboxType
<1>4. /\ e \in Job /\ e.peer = s[i].peer /\ e.file = s[i].file /\ e.op = s[i].op
      /\ e.linked = s[i].linked /\ e.batch = s[i].batch /\ e.meta = s[i].meta
  BY <1>2, <1>3 DEF Job
<1>5. outbox'[n] = [s EXCEPT ![i] = e] /\ outbox' = [outbox EXCEPT ![n] = outbox'[n]]
  BY <1>1, <1>2 DEF RetryDue, TypeOK
<1>6. /\ Edited(s, [s EXCEPT ![i] = e])
      /\ \A k \in DOMAIN s : [s EXCEPT ![i] = e][k] = IF k = i THEN e ELSE s[k]
  BY <1>3, <1>4, ReplacedJob
<1> QED BY <1>1, <1>4, <1>5, <1>6

\* Crashes, retry times and anti-entropy.
LEMMA OriginRest ==
    ASSUME TypeOK, AInv, NEW n \in Nodes,
           \/ Crash(n) \/ AeStart(n)
           \/ \E i \in DOMAIN outbox[n] : RetryDue(n, i)
           \/ \E p \in Nodes \ {n} : AntiEntropy(n, p)
    PROVE  AInv'
<1>0. \A m \in Nodes : \A i \in DOMAIN outbox[m] : JobOK(outbox[m][i], uploaded, purged)
  BY DEF AInv, JobsOK
<1>1. CASE Crash(n)
  <2>1. \A i \in DOMAIN outbox'[n] : JobOK(outbox'[n][i], uploaded, purged)
    BY <1>0, <1>1, CrashedJobs DEF JobOK, Edited
  <2>2. \A m \in Nodes \ {n} : outbox'[m] = outbox[m]
    BY <1>1, CrashedJobs
  <2>3. UNCHANGED <<uploaded, purged, row, pathKeyed>> /\ \A m \in Nodes : unlinks'[m] \subseteq unlinks[m]
    BY <1>1 DEF Crash, TypeOK
  <2> QED BY <2>1, <2>2, <2>3, OriginEdit
<1>2. ASSUME NEW i \in DOMAIN outbox[n], RetryDue(n, i) PROVE AInv'
  <2>1. \A k \in DOMAIN outbox'[n] : JobOK(outbox'[n][k], uploaded, purged)
    BY <1>0, <1>2, RetriedJob DEF JobOK, Edited
  <2>2. \A m \in Nodes \ {n} : outbox'[m] = outbox[m]
    BY <1>2, RetriedJob DEF TypeOK
  <2>3. UNCHANGED <<uploaded, purged, row, pathKeyed, unlinks>>
    BY <1>2 DEF RetryDue
  <2> QED BY <2>1, <2>2, <2>3, OriginEdit
<1>3. ASSUME NEW p \in Nodes, NEW f \in Files, AeInsert(n, p, f), row[n][f] # "absent" PROVE AInv'
  <2>1. PICK s \in Seq(Job) : s = outbox[n]
    BY OutboxType
  <2>2. PICK e \in Job : e = NewJob(p, f, "PUT") /\ e.file = f /\ e.op = "PUT" /\ e.linked /\ ~ e.batch
    BY NewJobType
  <2>3. JobOK(e, uploaded, purged)
    BY <1>3, <2>2 DEF JobOK, AInv, RowsOK
  <2>4. \A i \in DOMAIN Append(s, e) : (i \in DOMAIN s /\ Append(s, e)[i] = s[i]) \/ Append(s, e)[i] = e
    BY AppendedJob
  <2>5. outbox' = [outbox EXCEPT ![n] = Append(s, e)]
    BY <1>3, <2>1, <2>2 DEF AeInsert
  <2>6. \A i \in DOMAIN outbox'[n] : JobOK(outbox'[n][i], uploaded, purged)
    BY <1>0, <2>1, <2>3, <2>4, <2>5 DEF TypeOK
  <2>7. UNCHANGED <<uploaded, purged, row, pathKeyed, unlinks>>
    BY <1>3 DEF AeInsert
  <2> QED BY <2>5, <2>6, <2>7, OriginEdit DEF TypeOK
<1>4. CASE UNCHANGED <<outbox, uploaded, purged, row, pathKeyed, unlinks>>
  BY <1>0, <1>4, OriginEdit
<1>5. CASE AeStart(n)
  BY <1>4, <1>5 DEF AeStart
<1>6. ASSUME NEW p \in Nodes \ {n}, AntiEntropy(n, p) PROVE AInv'
  BY <1>3, <1>4, <1>6 DEF AntiEntropy, AeDigest, AeSkip, AePeer, AeCheck, AeInsert
<1> QED BY <1>1, <1>2, <1>5, <1>6
-----------------------------------------------------------------------------
(***************************************************************************)
(* No job twice                                                            *)
(***************************************************************************)
BInv == NoDuplicatePuts /\ ReadyOK

\* The same jobs, and nothing more about to be inserted.
LEMMA OnceEdited ==
    ASSUME TypeOK, BInv, \A m \in Nodes : Edited(outbox[m], outbox'[m]),
           uploaded \subseteq uploaded',
           \A m \in Nodes : ae'[m].ready \subseteq ae[m].ready
    PROVE  BInv'
<1>1. NoDuplicatePuts'
  BY DEF BInv, NoDuplicatePuts, Edited
<1>2. ReadyOK'
  <2> SUFFICES ASSUME NEW m \in Nodes, NEW p \in Nodes, NEW f \in Files, <<p, f>> \in ae'[m].ready
               PROVE  f \in uploaded' /\ ~ HasPut(m, p, f)'
    BY DEF ReadyOK
  <2>1. f \in uploaded /\ ~ HasPut(m, p, f)
    BY DEF BInv, ReadyOK
  <2> QED BY <2>1 DEF HasPut, Edited
<1> QED BY <1>1, <1>2 DEF BInv

\* A queue is as much as itself.
LEMMA EditedSame ==
    ASSUME TypeOK, NEW m \in Nodes, outbox'[m] = outbox[m]
    PROVE  Edited(outbox[m], outbox'[m])
BY OutboxType DEF Edited

\* Local operations: a PUT's version is new, so nothing names it yet.
LEMMA OnceClient ==
    ASSUME TypeOK, AInv, BInv, NEW n \in Nodes, NEW f \in Files, Client(n, f) \/ Unlink(n, f)
    PROVE  BInv'
<1>1. CASE Put(n, f)
  <2>0. PICK t : t = Enqueued(n, f, "PUT")
    OBVIOUS
  <2>1. /\ outbox' = [outbox EXCEPT ![n] = t] /\ uploaded' = uploaded \cup {f}
        /\ f \notin uploaded /\ ae' = ae
    BY <1>1, <2>0 DEF Put, Enqueued
  <2>2. \A i \in DOMAIN t \ DOMAIN outbox[n] : t[i].file = f
    BY <2>0, QueueWithNew
  <2>3. \A i, k \in DOMAIN t \ DOMAIN outbox[n] : t[i].peer = t[k].peer => i = k
    BY <2>0, QueueWithNew
  <2>4. \A i \in DOMAIN outbox[n] : t[i] = outbox[n][i]
    BY <2>0, QueueWithNew
  <2>5. \A i \in DOMAIN outbox[n] : outbox[n][i].file # f
    BY <2>1 DEF AInv, JobsOK, JobOK
  <2>6. NoDuplicatePuts'
    <3> SUFFICES ASSUME NEW m \in Nodes, NEW i \in DOMAIN outbox'[m], NEW k \in DOMAIN outbox'[m],
                        outbox'[m][i].op = "PUT", outbox'[m][k].op = "PUT",
                        outbox'[m][i].file = outbox'[m][k].file, outbox'[m][i].peer = outbox'[m][k].peer
                 PROVE  i = k
      BY DEF NoDuplicatePuts
    <3>1. CASE m # n
      BY <2>1, <3>1 DEF TypeOK, BInv, NoDuplicatePuts
    <3>2. CASE m = n
      <4>1. outbox'[m] = t
        BY <2>1, <3>2 DEF TypeOK
      <4>2. CASE i \in DOMAIN outbox[n] /\ k \in DOMAIN outbox[n]
        BY <2>4, <4>1, <4>2 DEF BInv, NoDuplicatePuts
      <4>3. CASE i \notin DOMAIN outbox[n] /\ k \notin DOMAIN outbox[n]
        BY <2>3, <4>1, <4>3
      <4> QED BY <2>2, <2>4, <2>5, <4>1, <4>2, <4>3
    <3> QED BY <3>1, <3>2
  <2>7. ReadyOK'
    <3> SUFFICES ASSUME NEW m \in Nodes, NEW p \in Nodes, NEW g \in Files, <<p, g>> \in ae[m].ready
                 PROVE  g \in uploaded' /\ ~ HasPut(m, p, g)'
      BY <2>1 DEF ReadyOK
    <3>1. g \in uploaded /\ g # f /\ ~ HasPut(m, p, g)
      BY <2>1 DEF BInv, ReadyOK
    <3>2. CASE m # n
      BY <2>1, <3>1, <3>2 DEF TypeOK, HasPut
    <3>3. CASE m = n
      <4>1. outbox'[m] = t
        BY <2>1, <3>3 DEF TypeOK
      <4> QED BY <2>1, <2>2, <2>4, <3>1, <3>3, <4>1 DEF HasPut
    <3> QED BY <3>2, <3>3
  <2> QED BY <2>6, <2>7 DEF BInv
<1>2. CASE SoftDelete(n, f) \/ Restore(n, f) \/ Unlink(n, f)
  BY <1>2, OnceEdited, EditedSame DEF SoftDelete, Restore, Unlink
<1>3. CASE Purge(n, f)
  <2>0. PICK t : t = Enqueued(n, f, "DELETE")
    OBVIOUS
  <2>1. PICK u : u = Unlinked(t, f)
    OBVIOUS
  <2>2. outbox' = [outbox EXCEPT ![n] = u] /\ UNCHANGED <<ae, uploaded>>
    BY <1>3, <2>0, <2>1 DEF Purge, Enqueued
  <2>3. t \in Seq(Job)
    BY <2>0, QueueWithNew
  <2>4. \A i \in DOMAIN t \ DOMAIN outbox[n] : t[i].op = "DELETE"
    BY <2>0, QueueWithNew
  <2>5. \A i \in DOMAIN outbox[n] : t[i] = outbox[n][i]
    BY <2>0, QueueWithNew
  <2>6. DOMAIN u = DOMAIN t /\ \A i \in DOMAIN t : u[i].peer = t[i].peer /\ u[i].file = t[i].file /\ u[i].op = t[i].op
    BY <2>1, <2>3, UnlinkedJobs DEF Edited
  <2>7. ASSUME NEW m \in Nodes, NEW i \in DOMAIN outbox'[m], outbox'[m][i].op = "PUT"
        PROVE  /\ i \in DOMAIN outbox[m] /\ outbox[m][i].op = "PUT"
               /\ outbox[m][i].peer = outbox'[m][i].peer /\ outbox[m][i].file = outbox'[m][i].file
    <3>1. CASE m # n
      BY <2>2, <2>7, <3>1 DEF TypeOK
    <3>2. CASE m = n
      <4>1. outbox'[m] = u
        BY <2>2, <3>2 DEF TypeOK
      <4> QED BY <2>4, <2>5, <2>6, <2>7, <3>2, <4>1
    <3> QED BY <3>1, <3>2
  <2>8. NoDuplicatePuts'
    BY <2>7 DEF BInv, NoDuplicatePuts
  <2>9. ReadyOK'
    BY <2>2, <2>7 DEF BInv, ReadyOK, HasPut
  <2> QED BY <2>8, <2>9 DEF BInv
<1> QED BY <1>1, <1>2, <1>3 DEF Client

\* The worker adds no job.
LEMMA OnceWorker ==
    ASSUME TypeOK, CallsOK, BInv, NEW n \in Nodes, Worker(n) \/ NetFail(n) \/ WriteFails(n)
    PROVE  BInv'
<1>1. CASE Claim(n)
  <2>1. PICK t : t = [i \in DOMAIN outbox[n] |-> Claimed(outbox[n][i])]
    OBVIOUS
  <2>2. Edited(outbox[n], t)
    BY <2>1, ClaimedJobs
  <2>3. outbox' = [outbox EXCEPT ![n] = t] /\ UNCHANGED <<ae, uploaded>>
    BY <1>1, <2>1 DEF Claim
  <2>4. ASSUME NEW m \in Nodes PROVE Edited(outbox[m], outbox'[m])
    <3>1. CASE m = n
      BY <2>2, <2>3, <3>1 DEF TypeOK
    <3>2. CASE m # n
      BY <2>3, <3>2, EditedSame DEF TypeOK
    <3> QED BY <3>1, <3>2
  <2> QED BY <2>3, <2>4, OnceEdited
<1>2. CASE SendPut(n) \/ RecvWrite(n) \/ RecvInsert(n) \/ SendDelete(n) \/ NetFail(n)
  <2>1. UNCHANGED <<outbox, ae, uploaded>>
    BY <1>2 DEF SendPut, RecvWrite, RecvInsert, SendDelete, NetFail
  <2> QED BY <2>1, OnceEdited, EditedSame
<1>3. CASE RecvDelete(n)
  <2>1. PICK x \in Nodes, f \in Files : x = CurJob(n).peer /\ f = CurJob(n).file
    BY <1>3, CurrentJob DEF RecvDelete, CallsOK, CallOK
  <2>2. outbox' = [outbox EXCEPT ![x] = Unlinked(@, f)] /\ UNCHANGED <<ae, uploaded>>
    BY <1>3, <2>1 DEF RecvDelete
  <2>3. Edited(outbox[x], Unlinked(outbox[x], f))
    BY UnlinkedJobs, OutboxType
  <2>4. ASSUME NEW m \in Nodes PROVE Edited(outbox[m], outbox'[m])
    <3>1. CASE m = x
      BY <2>2, <2>3, <3>1 DEF TypeOK
    <3>2. CASE m # x
      BY <2>2, <3>2, EditedSame DEF TypeOK
    <3> QED BY <3>1, <3>2
  <2> QED BY <2>2, <2>4, OnceEdited
<1>4. CASE Complete(n)
  <2>1. UNCHANGED <<ae, uploaded>> /\ outbox' = [outbox EXCEPT ![n] = outbox'[n]]
    BY <1>4, CompletedJobs DEF Complete
  <2>2. \A k \in DOMAIN outbox'[n] :
           /\ k \in Nat /\ (IF k < Current(n) THEN k ELSE k + 1) \in DOMAIN outbox[n] \ {Current(n)}
           /\ outbox'[n][k] = outbox[n][IF k < Current(n) THEN k ELSE k + 1]
    BY <1>4, CompletedJobs
  <2>3. Current(n) \in Nat
    BY <1>4, CompletedJobs, CurrentJob, OutboxType
  <2>4. \A m \in Nodes \ {n} : outbox'[m] = outbox[m]
    BY <2>1 DEF TypeOK
  <2>5. NoDuplicatePuts'
    <3> SUFFICES ASSUME NEW m \in Nodes, NEW i \in DOMAIN outbox'[m], NEW k \in DOMAIN outbox'[m],
                        outbox'[m][i].op = "PUT", outbox'[m][k].op = "PUT",
                        outbox'[m][i].file = outbox'[m][k].file, outbox'[m][i].peer = outbox'[m][k].peer
                 PROVE  i = k
      BY DEF NoDuplicatePuts
    <3>1. CASE m # n
      BY <2>4, <3>1 DEF BInv, NoDuplicatePuts
    <3>2. CASE m = n
      <4>1. (IF i < Current(n) THEN i ELSE i + 1) = (IF k < Current(n) THEN k ELSE k + 1)
        BY <2>2, <3>2 DEF BInv, NoDuplicatePuts
      <4> QED BY <2>2, <2>3, <3>2, <4>1
    <3> QED BY <3>1, <3>2
  <2>6. ReadyOK'
    <3> SUFFICES ASSUME NEW m \in Nodes, NEW p \in Nodes, NEW g \in Files, <<p, g>> \in ae[m].ready
                 PROVE  g \in uploaded' /\ ~ HasPut(m, p, g)'
      BY <2>1 DEF ReadyOK
    <3>1. g \in uploaded /\ ~ HasPut(m, p, g)
      BY DEF BInv, ReadyOK
    <3>2. \A k \in DOMAIN outbox'[m] : \E i \in DOMAIN outbox[m] : outbox'[m][k] = outbox[m][i]
      BY <2>2, <2>4
    <3> QED BY <2>1, <3>1, <3>2 DEF HasPut
  <2> QED BY <2>5, <2>6 DEF BInv
<1>5. CASE Fail(n) \/ WriteFails(n)
  <2>1. Batch(n) # {}
    BY <1>5 DEF Fail, WriteFails, CallsOK, CallOK
  <2>2. PICK st \in {"IN_FLIGHT", "FAILED"} :
            outbox' = [outbox EXCEPT ![n][Current(n)] = Released(CurJob(n), st)]
    BY <1>5 DEF Fail, WriteFails
  <2>3. outbox' = [outbox EXCEPT ![n] = outbox'[n]] /\ Edited(outbox[n], outbox'[n])
    BY <2>1, <2>2, ReleaseCurrent
  <2>4. ASSUME NEW m \in Nodes PROVE Edited(outbox[m], outbox'[m])
    <3>1. CASE m = n
      BY <2>3, <3>1
    <3>2. CASE m # n
      BY <2>3, <3>2, EditedSame DEF TypeOK
    <3> QED BY <3>1, <3>2
  <2>5. UNCHANGED <<ae, uploaded>>
    BY <1>5 DEF Fail, WriteFails
  <2> QED BY <2>4, <2>5, OnceEdited
<1> QED BY <1>1, <1>2, <1>3, <1>4, <1>5 DEF Worker

\* Anti-entropy inserts what it has found missing, and nobody has added it since.
LEMMA OnceRest ==
    ASSUME TypeOK, AInv, BInv, NEW n \in Nodes,
           \/ Crash(n) \/ AeStart(n)
           \/ \E i \in DOMAIN outbox[n] : RetryDue(n, i)
           \/ \E p \in Nodes \ {n} : AntiEntropy(n, p)
    PROVE  BInv'
<1>0. ae \in [Nodes -> AeType]
  BY DEF TypeOK, AeType
<1>1. CASE Crash(n)
  <2>1. UNCHANGED uploaded /\ \A m \in Nodes : ae'[m].ready \subseteq ae[m].ready
    BY <1>0, <1>1 DEF Crash, AeIdle
  <2> QED BY <1>1, <2>1, CrashedJobs, OnceEdited, EditedSame
<1>2. ASSUME NEW i \in DOMAIN outbox[n], RetryDue(n, i) PROVE BInv'
  <2>1. UNCHANGED <<ae, uploaded>>
    BY <1>2 DEF RetryDue
  <2>2. outbox' = [outbox EXCEPT ![n] = outbox'[n]] /\ Edited(outbox[n], outbox'[n])
    BY <1>2, RetriedJob
  <2>3. \A m \in Nodes \ {n} : outbox'[m] = outbox[m]
    BY <2>2 DEF TypeOK
  <2> QED BY <2>1, <2>2, <2>3, OnceEdited, EditedSame
<1>3. ASSUME UNCHANGED <<outbox, uploaded>>, \A m \in Nodes : ae'[m].ready \subseteq ae[m].ready PROVE BInv'
  BY <1>3, OnceEdited, EditedSame
<1>4. CASE AeStart(n)
  <2>1. ae'[n].ready = ae[n].ready /\ \A m \in Nodes \ {n} : ae'[m] = ae[m]
    BY <1>0, <1>4 DEF AeStart, AeType
  <2> QED BY <1>3, <1>4, <2>1 DEF AeStart
<1>5. ASSUME NEW p \in Nodes, NEW M, AePeer(n, p, M) PROVE BInv'
  <2> DEFINE left == ae[n].peers \ {p}
             a == [ae[n] EXCEPT !.local = IF left = {} THEN {} ELSE @, !.peers = left,
                                !.missing = {p} \X M]
  <2>1. ae' = [ae EXCEPT ![n] = a]
    BY <1>5 DEF AePeer
  <2>2. a.ready = ae[n].ready
    BY <1>0 DEF AeType
  <2> HIDE DEF a
  <2>3. \A m \in Nodes : ae'[m].ready = ae[m].ready
    BY <1>0, <2>1, <2>2
  <2> QED BY <1>3, <1>5, <2>3 DEF AePeer
<1>6. ASSUME NEW p \in Nodes, NEW f \in Files, AeCheck(n, p, f) PROVE BInv'
  <2>1. /\ ae'[n].ready = IF row[n][f] = "active" /\ ~ HasPut(n, p, f) THEN {<<p, f>>} ELSE {}
        /\ \A m \in Nodes \ {n} : ae'[m] = ae[m]
    BY <1>0, <1>6 DEF AeCheck, AeType
  <2>2. UNCHANGED <<outbox, uploaded>>
    BY <1>6 DEF AeCheck
  <2>3. NoDuplicatePuts'
    BY <2>2 DEF BInv, NoDuplicatePuts
  <2>4. row[n][f] = "active" => f \in uploaded
    BY DEF AInv, RowsOK
  <2>5. ReadyOK'
    <3> SUFFICES ASSUME NEW m \in Nodes, NEW q \in Nodes, NEW g \in Files, <<q, g>> \in ae'[m].ready
                 PROVE  g \in uploaded' /\ ~ HasPut(m, q, g)'
      BY DEF ReadyOK
    <3>1. g \in uploaded /\ ~ HasPut(m, q, g)
      BY <2>1, <2>4 DEF BInv, ReadyOK
    <3> QED BY <2>2, <3>1 DEF HasPut
  <2> QED BY <2>3, <2>5 DEF BInv
<1>7. ASSUME NEW p \in Nodes, NEW f \in Files, AeInsert(n, p, f) PROVE BInv'
  <2>1. ae'[n].ready = {} /\ \A m \in Nodes \ {n} : ae'[m] = ae[m]
    BY <1>0, <1>7 DEF AeInsert, AeType
  <2>2. CASE row[n][f] = "absent"
    BY <1>3, <1>7, <2>1, <2>2 DEF AeInsert
  <2>3. CASE row[n][f] # "absent"
    <3>1. PICK s \in Seq(Job) : s = outbox[n]
      BY OutboxType
    <3>2. PICK e \in Job : e = NewJob(p, f, "PUT") /\ e.file = f /\ e.peer = p
      BY NewJobType
    <3>3. \A i \in DOMAIN Append(s, e) :
             (i \in DOMAIN s /\ Append(s, e)[i] = s[i]) \/ (i = Len(s) + 1 /\ Append(s, e)[i] = e)
      BY AppendedJob
    <3>4. PICK t : t = Append(s, e)
      OBVIOUS
    <3>5. outbox' = [outbox EXCEPT ![n] = t] /\ uploaded' = uploaded /\ <<p, f>> \in ae[n].ready
      BY <1>7, <2>3, <3>1, <3>2, <3>4 DEF AeInsert
    <3>6. \A i \in DOMAIN t : (i \in DOMAIN s /\ t[i] = s[i]) \/ (i = Len(s) + 1 /\ t[i] = e)
      BY <3>3, <3>4
    <3>7. \A i \in DOMAIN s : ~ (s[i].op = "PUT" /\ s[i].peer = p /\ s[i].file = f)
      BY <3>1, <3>5 DEF BInv, ReadyOK, HasPut
    <3>8. outbox'[n] = t /\ \A m \in Nodes \ {n} : outbox'[m] = outbox[m]
      BY <3>5 DEF TypeOK
    <3>9. NoDuplicatePuts'
      <4> SUFFICES ASSUME NEW m \in Nodes, NEW i \in DOMAIN outbox'[m], NEW k \in DOMAIN outbox'[m],
                          outbox'[m][i].op = "PUT", outbox'[m][k].op = "PUT",
                          outbox'[m][i].file = outbox'[m][k].file, outbox'[m][i].peer = outbox'[m][k].peer
                   PROVE  i = k
        BY DEF NoDuplicatePuts
      <4>1. CASE m # n
        BY <3>8, <4>1 DEF BInv, NoDuplicatePuts
      <4>2. CASE m = n
        <5>1. CASE i \in DOMAIN s /\ t[i] = s[i] /\ k \in DOMAIN s /\ t[k] = s[k]
          BY <3>1, <3>8, <4>2, <5>1 DEF BInv, NoDuplicatePuts
        <5> QED BY <3>2, <3>6, <3>7, <3>8, <4>2, <5>1
      <4> QED BY <4>1, <4>2
    <3>10. ReadyOK'
      <4> SUFFICES ASSUME NEW m \in Nodes, NEW q \in Nodes, NEW g \in Files, <<q, g>> \in ae'[m].ready
                   PROVE  g \in uploaded' /\ ~ HasPut(m, q, g)'
        BY DEF ReadyOK
      <4>1. m # n /\ <<q, g>> \in ae[m].ready
        BY <2>1
      <4>2. g \in uploaded /\ ~ HasPut(m, q, g)
        BY <4>1 DEF BInv, ReadyOK
      <4> QED BY <3>5, <3>8, <4>1, <4>2 DEF HasPut
    <3> QED BY <3>9, <3>10 DEF BInv
  <2> QED BY <2>2, <2>3
<1>8. ASSUME NEW p \in Nodes \ {n}, AntiEntropy(n, p) PROVE BInv'
  BY <1>5, <1>6, <1>7, <1>8 DEF AntiEntropy, AeDigest, AeSkip
<1> QED BY <1>1, <1>2, <1>4, <1>8
-----------------------------------------------------------------------------
(***************************************************************************)
(* Calls, and what they leave                                              *)
(***************************************************************************)
CInv == CallsOK /\ ArrivedOK /\ NeverForgotten /\ RepairOK

\* The jobs of m stay where they are and claimed as they are; new ones are not
\* claimed.
KeptJobs(m) ==
    /\ DOMAIN outbox[m] \subseteq DOMAIN outbox'[m]
    /\ \A i \in DOMAIN outbox[m] :
          /\ outbox'[m][i].peer = outbox[m][i].peer /\ outbox'[m][i].file = outbox[m][i].file
          /\ outbox'[m][i].op = outbox[m][i].op /\ outbox'[m][i].batch = outbox[m][i].batch
    /\ \A i \in DOMAIN outbox'[m] \ DOMAIN outbox[m] : ~ outbox'[m][i].batch

\* The current job is then the same.
LEMMA KeptCall ==
    ASSUME TypeOK, NEW m \in Nodes, KeptJobs(m)
    PROVE  /\ Batch(m)' = Batch(m)
           /\ Batch(m) # {} =>
                 /\ CurJob(m)'.peer = CurJob(m).peer /\ CurJob(m)'.file = CurJob(m).file
                 /\ CurJob(m)'.op = CurJob(m).op
           /\ \A p \in Nodes, f \in Files : Queued(m, p, f) => Queued(m, p, f)'
<1>1. Batch(m)' = Batch(m)
  BY DEF KeptJobs, Batch
<1>2. ASSUME Batch(m) # {}
      PROVE  /\ CurJob(m)'.peer = CurJob(m).peer /\ CurJob(m)'.file = CurJob(m).file
             /\ CurJob(m)'.op = CurJob(m).op
  <2>1. Current(m)' = Current(m)
    BY <1>1 DEF Current
  <2>2. Current(m) \in DOMAIN outbox[m] /\ CurJob(m) = outbox[m][Current(m)]
    BY <1>2, CurrentJob
  <2>3. CurJob(m)' = outbox'[m][Current(m)]
    BY <2>1 DEF CurJob
  <2> QED BY <2>2, <2>3 DEF KeptJobs
<1>3. \A p \in Nodes, f \in Files : Queued(m, p, f) => Queued(m, p, f)'
  BY DEF KeptJobs, Queued
<1> QED BY <1>1, <1>2, <1>3

\* Its call goes on as it was, or is broken off.
KeptNode(m) ==
    /\ KeptJobs(m)
    /\ rpc'[m] = rpc[m] \/ (rpc'[m] = "failed" /\ rpc[m] # "idle")

\* Its call is then in order, and sends no more than before.
LEMMA KeptNodeCall ==
    ASSUME TypeOK, NEW m \in Nodes, CallOK(m), KeptNode(m)
    PROVE  /\ CallOK(m)'
           /\ rpc'[m] = "done" => /\ rpc[m] = "done" /\ CurJob(m)'.peer = CurJob(m).peer
                                  /\ CurJob(m)'.file = CurJob(m).file /\ CurJob(m)'.op = CurJob(m).op
           /\ \A p \in Nodes, f \in Files :
                 (Queued(m, p, f) => Queued(m, p, f)') /\ (Sent(m, p, f)' => Sent(m, p, f))
<1>1. /\ Batch(m)' = Batch(m)
      /\ Batch(m) # {} =>
            /\ CurJob(m)'.peer = CurJob(m).peer /\ CurJob(m)'.file = CurJob(m).file
            /\ CurJob(m)'.op = CurJob(m).op
      /\ \A p \in Nodes, f \in Files : Queued(m, p, f) => Queued(m, p, f)'
  BY KeptCall DEF KeptNode
<1>2. rpc[m] # "idle" => Batch(m) # {}
  BY DEF CallOK
<1>3. rpc'[m] = rpc[m] \/ (rpc'[m] = "failed" /\ rpc[m] # "idle")
  BY DEF KeptNode
<1>4. CallOK(m)'
  BY <1>1, <1>2, <1>3 DEF CallOK
<1>5. \A p \in Nodes, f \in Files : Sent(m, p, f)' => Sent(m, p, f)
  BY <1>1, <1>2, <1>3 DEF Sent
<1>6. rpc'[m] = "done" => /\ rpc[m] = "done" /\ CurJob(m)'.peer = CurJob(m).peer
                          /\ CurJob(m)'.file = CurJob(m).file /\ CurJob(m)'.op = CurJob(m).op
  BY <1>1, <1>2, <1>3
<1> QED BY <1>1, <1>4, <1>5, <1>6

\* What a step of n's queue or call may do to the version f of p: not take it
\* away, nor a job that is still needed; and if the blob is left damaged, then
\* either n has the job that brings it again or nothing has changed.
PairOK(n, p, f) ==
    /\ row[p][f] # "absent" => row'[p][f] # "absent"
    /\ Queued(n, p, f) => Queued(n, p, f)' \/ row'[p][f] # "absent"
    /\ f \in uploaded' => f \in uploaded \/ row'[p][f] # "absent" \/ Queued(n, p, f)'
    /\ \/ disk'[p][f] = "good"
       \/ Queued(n, p, f)' /\ ~ Sent(n, p, f)'
       \/ /\ disk'[p][f] = disk[p][f]
          /\ row'[p][f] # "absent" \/ Sent(n, p, f)' => row[p][f] # "absent" \/ Sent(n, p, f)
          /\ Queued(n, p, f) /\ ~ Sent(n, p, f) => Queued(n, p, f)' /\ ~ Sent(n, p, f)'

\* A step of n, or of nobody, that leaves the other nodes' calls alone.
LEMMA CallStep ==
    ASSUME TypeOK, CInv, NEW n \in Nodes, \A m \in Nodes \ {n} : KeptNode(m), CallOK(n)',
           purged \subseteq purged',
           rpc'[n] = "done" /\ CurJob(n)'.op = "PUT" /\ Unpurged(CurJob(n).file)' =>
              row'[CurJob(n)'.peer][CurJob(n)'.file] # "absent",
           \A p \in Nodes, f \in Files : Unpurged(f)' => PairOK(n, p, f),
           uploaded' \subseteq Files
    PROVE  CInv'
<1>1. \A m \in Nodes : CallOK(m)
  BY DEF CInv, CallsOK
<1>2. ASSUME NEW m \in Nodes \ {n}
      PROVE  /\ CallOK(m)'
             /\ rpc'[m] = "done" => /\ rpc[m] = "done" /\ CurJob(m)'.peer = CurJob(m).peer
                                    /\ CurJob(m)'.file = CurJob(m).file /\ CurJob(m)'.op = CurJob(m).op
             /\ \A p \in Nodes, f \in Files :
                   (Queued(m, p, f) => Queued(m, p, f)') /\ (Sent(m, p, f)' => Sent(m, p, f))
  BY <1>1, KeptNodeCall
<1>3. CallsOK'
  BY <1>2 DEF CallsOK
<1>4. \A f : Unpurged(f)' => Unpurged(f)
  BY DEF Unpurged
<1>5. \A p \in Nodes, f \in Files : Unpurged(f)' /\ row[p][f] # "absent" => row'[p][f] # "absent"
  BY DEF PairOK
<1>6. ArrivedOK'
  <2> SUFFICES ASSUME NEW m \in Nodes, rpc'[m] = "done", CurJob(m)'.op = "PUT",
                      Unpurged(CurJob(m).file)'
               PROVE  row'[CurJob(m)'.peer][CurJob(m)'.file] # "absent"
    BY DEF ArrivedOK
  <2>1. CASE m = n
    BY <2>1
  <2>2. CASE m # n
    <3>1. /\ rpc[m] = "done" /\ CurJob(m)'.peer = CurJob(m).peer
          /\ CurJob(m)'.file = CurJob(m).file /\ CurJob(m)'.op = CurJob(m).op
      BY <1>2, <2>2
    <3>2. CurJob(m).peer \in Nodes /\ CurJob(m).file \in Files
      BY <1>1, <3>1, CurrentJob DEF CallOK
    <3>3. row[CurJob(m).peer][CurJob(m).file] # "absent"
      BY <1>4, <3>1 DEF CInv, ArrivedOK
    <3> QED BY <1>5, <3>1, <3>2, <3>3
  <2> QED BY <2>1, <2>2
<1>7. NeverForgotten'
  <2> SUFFICES ASSUME NEW f \in uploaded', NEW p \in Nodes, Unpurged(f)', row'[p][f] = "absent"
               PROVE  \E m \in Nodes : Queued(m, p, f)'
    BY DEF NeverForgotten
  <2>1. f \in Files
    OBVIOUS
  <2>2. CASE f \notin uploaded
    BY <2>1, <2>2 DEF PairOK
  <2>3. CASE f \in uploaded
    <3>1. row[p][f] = "absent"
      BY <1>5, <2>1
    <3>2. PICK m \in Nodes : Queued(m, p, f)
      BY <1>4, <2>3, <3>1 DEF CInv, NeverForgotten
    <3>3. CASE m = n
      BY <2>1, <3>2, <3>3 DEF PairOK
    <3>4. CASE m # n
      BY <1>2, <2>1, <3>2, <3>4
    <3> QED BY <3>3, <3>4
  <2> QED BY <2>2, <2>3
<1>8. RepairOK'
  <2> SUFFICES ASSUME NEW p \in Nodes, NEW f \in Files, Unpurged(f)', disk'[p][f] # "good",
                      row'[p][f] # "absent" \/ \E m \in Nodes : Sent(m, p, f)'
               PROVE  \E m \in Nodes : Queued(m, p, f)' /\ ~ Sent(m, p, f)'
    BY DEF RepairOK
  <2>1. CASE Queued(n, p, f)' /\ ~ Sent(n, p, f)'
    BY <2>1
  <2>2. CASE /\ disk'[p][f] = disk[p][f]
             /\ row'[p][f] # "absent" \/ Sent(n, p, f)' => row[p][f] # "absent" \/ Sent(n, p, f)
             /\ Queued(n, p, f) /\ ~ Sent(n, p, f) => Queued(n, p, f)' /\ ~ Sent(n, p, f)'
    <3>1. row[p][f] # "absent" \/ \E m \in Nodes : Sent(m, p, f)
      BY <1>2, <2>2
    <3>2. PICK m \in Nodes : Queued(m, p, f) /\ ~ Sent(m, p, f)
      BY <1>4, <2>2, <3>1 DEF CInv, RepairOK
    <3>3. CASE m = n
      BY <2>2, <3>2, <3>3
    <3>4. CASE m # n
      BY <1>2, <3>2, <3>4
    <3> QED BY <3>3, <3>4
  <2> QED BY <2>1, <2>2 DEF PairOK
<1> QED BY <1>3, <1>6, <1>7, <1>8 DEF CInv

\* A queue that does not change keeps its jobs.
LEMMA KeptSame ==
    ASSUME NEW m, outbox'[m] = outbox[m]
    PROVE  KeptJobs(m)
BY DEF KeptJobs

\* No call is touched, nor blob or row of a version that is not purged.
LEMMA QuietStep ==
    ASSUME TypeOK, CInv, NEW n \in Nodes, \A m \in Nodes : KeptJobs(m), rpc' = rpc,
           purged \subseteq purged', uploaded' = uploaded,
           \A p \in Nodes, f \in Files : Unpurged(f)' =>
              disk'[p][f] = disk[p][f] /\ (row'[p][f] # "absent" <=> row[p][f] # "absent")
    PROVE  CInv'
<1>1. \A m \in Nodes : KeptNode(m)
  BY DEF KeptNode
<1>2. CallOK(n)
  BY DEF CInv, CallsOK
<1>3. /\ CallOK(n)'
      /\ rpc'[n] = "done" => /\ rpc[n] = "done" /\ CurJob(n)'.peer = CurJob(n).peer
                             /\ CurJob(n)'.file = CurJob(n).file /\ CurJob(n)'.op = CurJob(n).op
      /\ \A p \in Nodes, f \in Files :
            (Queued(n, p, f) => Queued(n, p, f)') /\ (Sent(n, p, f)' => Sent(n, p, f))
  BY <1>1, <1>2, KeptNodeCall
<1>4. ASSUME rpc'[n] = "done", CurJob(n)'.op = "PUT", Unpurged(CurJob(n).file)'
      PROVE  row'[CurJob(n)'.peer][CurJob(n)'.file] # "absent"
  <2>1. CurJob(n).peer \in Nodes /\ CurJob(n).file \in Files
    BY <1>2, <1>3, <1>4, CurrentJob DEF CallOK
  <2>2. row[CurJob(n).peer][CurJob(n).file] # "absent"
    BY <1>3, <1>4 DEF CInv, ArrivedOK, Unpurged
  <2> QED BY <1>3, <1>4, <2>1, <2>2
<1>5. \A p \in Nodes, f \in Files : Unpurged(f)' => PairOK(n, p, f)
  BY <1>3 DEF PairOK
<1>6. uploaded' \subseteq Files
  BY DEF TypeOK
<1> QED BY <1>1, <1>3, <1>4, <1>5, <1>6, CallStep

\* Local operations: a PUT queues its version for every peer.
LEMMA CallsClient ==
    ASSUME TypeOK, TypeOK', AInv, CInv, NEW n \in Nodes, NEW f \in Files, Client(n, f) \/ Unlink(n, f)
    PROVE  CInv'
<1>0. uploaded' \subseteq Files
  BY DEF TypeOK
<1>1. CASE Put(n, f)
  <2>0. PICK t : t = Enqueued(n, f, "PUT")
    OBVIOUS
  <2>1. /\ outbox' = [outbox EXCEPT ![n] = t] /\ uploaded' = uploaded \cup {f}
        /\ UNCHANGED <<rpc, purged>> /\ disk' = [disk EXCEPT ![n][f] = "good"]
    BY <1>1, <2>0 DEF Put, Enqueued
  <2>2. DOMAIN outbox[n] \subseteq DOMAIN t /\ \A i \in DOMAIN outbox[n] : t[i] = outbox[n][i]
    BY <2>0, QueueWithNew
  <2>3. \A i \in DOMAIN t \ DOMAIN outbox[n] : t[i].file = f /\ t[i].op = "PUT" /\ ~ t[i].batch
    BY <2>0, QueueWithNew
  <2>4. \A p \in Nodes \ {n} : \E i \in DOMAIN t \ DOMAIN outbox[n] : t[i].peer = p
    BY <2>0, QueueWithNew
  <2>5. outbox'[n] = t /\ \A m \in Nodes \ {n} : outbox'[m] = outbox[m]
    BY <2>1 DEF TypeOK
  <2>6. KeptJobs(n)
    BY <2>2, <2>3, <2>5 DEF KeptJobs
  <2>7. \A m \in Nodes : KeptNode(m)
    BY <2>1, <2>5, <2>6, KeptSame DEF KeptNode
  <2>8. CallOK(n)
    BY DEF CInv, CallsOK
  <2>9. /\ CallOK(n)'
        /\ rpc'[n] = "done" => /\ rpc[n] = "done" /\ CurJob(n)'.peer = CurJob(n).peer
                               /\ CurJob(n)'.file = CurJob(n).file /\ CurJob(n)'.op = CurJob(n).op
        /\ \A p \in Nodes, g \in Files :
              (Queued(n, p, g) => Queued(n, p, g)') /\ (Sent(n, p, g)' => Sent(n, p, g))
    BY <2>7, <2>8, KeptNodeCall
  <2>10. \A p \in Nodes, g \in Files :
            /\ row[p][g] # "absent" => row'[p][g] # "absent"
            /\ p # n \/ g # f => (row'[p][g] # "absent" => row[p][g] # "absent")
            /\ row'[n][f] # "absent"
    <3>1. \A p \in Nodes, g \in Files :
             row'[p][g] = IF p # n THEN row[p][g] ELSE IF g = f THEN "active"
                          ELSE IF g \in SameKey(n, f, KeyOf[f]) THEN "recycled" ELSE row[n][g]
      BY <1>1 DEF Put, TypeOK
    <3>2. \A g \in SameKey(n, f, KeyOf[f]) : row[n][g] = "active"
      BY DEF SameKey, Active
    <3> QED BY <3>1, <3>2
  <2>11. \A p \in Nodes, g \in Files : disk'[p][g] = IF p = n /\ g = f THEN "good" ELSE disk[p][g]
    BY <2>1 DEF TypeOK
  <2>12. \A p \in Nodes \ {n} : Queued(n, p, f)'
    BY <2>3, <2>4, <2>5 DEF Queued
  <2>13. ASSUME rpc'[n] = "done", CurJob(n)'.op = "PUT", Unpurged(CurJob(n).file)'
         PROVE  row'[CurJob(n)'.peer][CurJob(n)'.file] # "absent"
    <3>1. CurJob(n).peer \in Nodes /\ CurJob(n).file \in Files
      BY <2>8, <2>9, <2>13, CurrentJob DEF CallOK
    <3>2. row[CurJob(n).peer][CurJob(n).file] # "absent"
      BY <2>1, <2>9, <2>13 DEF CInv, ArrivedOK, Unpurged
    <3> QED BY <2>9, <2>10, <2>13, <3>1, <3>2
  <2>14. \A p \in Nodes, g \in Files : PairOK(n, p, g)
    BY <2>1, <2>9, <2>10, <2>11, <2>12 DEF PairOK
  <2> QED BY <1>0, <2>1, <2>7, <2>9, <2>13, <2>14, CallStep
<1>2. CASE SoftDelete(n, f) \/ Restore(n, f)
  <2>1. UNCHANGED <<outbox, rpc, purged, uploaded, disk>>
    BY <1>2 DEF SoftDelete, Restore
  <2>2. \A p \in Nodes, g \in Files : row'[p][g] # "absent" <=> row[p][g] # "absent"
    BY <1>2, RowEntry DEF SoftDelete, Restore
  <2> QED BY <2>1, <2>2, KeptSame, QuietStep
<1>3. CASE Unlink(n, f)
  <2>1. UNCHANGED <<outbox, rpc, purged, uploaded, row>>
    BY <1>3 DEF Unlink
  <2>2. ~ Unpurged(f)'
    BY <1>3, <2>1 DEF Unlink, AInv, RowsOK, Purgers, Unpurged
  <2>3. \A p \in Nodes, g \in Files : g # f => disk'[p][g] = disk[p][g]
    BY <1>3, DiskEntry DEF Unlink
  <2> QED BY <2>1, <2>2, <2>3, KeptSame, QuietStep
<1>4. CASE Purge(n, f)
  <2>0. PICK t : t = Enqueued(n, f, "DELETE")
    OBVIOUS
  <2>1. PICK u : u = Unlinked(t, f)
    OBVIOUS
  <2>2. /\ outbox' = [outbox EXCEPT ![n] = u] /\ UNCHANGED <<rpc, uploaded, disk>>
        /\ purged' = purged \cup {<<n, f>>}
    BY <1>4, <2>0, <2>1 DEF Purge, Enqueued
  <2>3. t \in Seq(Job)
    BY <2>0, QueueWithNew
  <2>4. \A i \in DOMAIN t \ DOMAIN outbox[n] : ~ t[i].batch
    BY <2>0, QueueWithNew
  <2>5. DOMAIN outbox[n] \subseteq DOMAIN t /\ \A i \in DOMAIN outbox[n] : t[i] = outbox[n][i]
    BY <2>0, QueueWithNew
  <2>6. /\ DOMAIN u = DOMAIN t
        /\ \A i \in DOMAIN t : /\ u[i].peer = t[i].peer /\ u[i].file = t[i].file /\ u[i].op = t[i].op
                               /\ u[i].batch = t[i].batch
    BY <2>1, <2>3, UnlinkedJobs DEF Edited
  <2>7. outbox'[n] = u /\ \A m \in Nodes \ {n} : outbox'[m] = outbox[m]
    BY <2>2 DEF TypeOK
  <2>8. KeptJobs(n)
    BY <2>4, <2>5, <2>6, <2>7 DEF KeptJobs
  <2>9. ~ Unpurged(f)'
    BY <2>2 DEF Unpurged
  <2>10. \A p \in Nodes, g \in Files : g # f => row'[p][g] = row[p][g]
    BY <1>4, RowEntry DEF Purge
  <2> QED BY <2>2, <2>7, <2>8, <2>9, <2>10, KeptSame, QuietStep
<1> QED BY <1>1, <1>2, <1>3, <1>4 DEF Client

\* While the queues stay, so do the jobs of the calls.
LEMMA SameQueues ==
    ASSUME TypeOK, NEW n \in Nodes, outbox' = outbox
    PROVE  /\ Batch(n)' = Batch(n) /\ CurJob(n)' = CurJob(n)
           /\ \A p \in Nodes, f \in Files : Queued(n, p, f)' <=> Queued(n, p, f)
           /\ Batch(n) # {} /\ CurJob(n).op = "PUT" => Queued(n, CurJob(n).peer, CurJob(n).file)
<1>1. Batch(n)' = Batch(n)
  BY DEF Batch
<1>2. CurJob(n)' = CurJob(n)
  BY <1>1 DEF CurJob, Current
<1>3. \A p \in Nodes, f \in Files : Queued(n, p, f)' <=> Queued(n, p, f)
  BY DEF Queued
<1>4. Batch(n) # {} /\ CurJob(n).op = "PUT" => Queued(n, CurJob(n).peer, CurJob(n).file)
  BY CurrentJob DEF Queued
<1> QED BY <1>1, <1>2, <1>3, <1>4

\* The calls of a PUT.
LEMMA CallsPut ==
    ASSUME TypeOK, TypeOK', CInv, NEW n \in Nodes, SendPut(n) \/ RecvWrite(n) \/ RecvInsert(n) \/ NetFail(n)
    PROVE  CInv'
<1>1. UNCHANGED <<outbox, uploaded, purged>> /\ uploaded' \subseteq Files
  BY DEF SendPut, RecvWrite, RecvInsert, NetFail, TypeOK
<1>2. /\ Batch(n) # {} /\ CallOK(n)
      /\ rpc[n] \in {"write", "insert"} => CurJob(n).op = "PUT"
  BY DEF SendPut, RecvWrite, RecvInsert, NetFail, CInv, CallsOK, CallOK
<1>3. PICK x \in Nodes, g \in Files : x = CurJob(n).peer /\ g = CurJob(n).file
  BY <1>2, CurrentJob
<1>4. /\ Batch(n)' = Batch(n) /\ CurJob(n)' = CurJob(n)
      /\ \A p \in Nodes, f \in Files : Queued(n, p, f)' <=> Queued(n, p, f)
      /\ CurJob(n).op = "PUT" => Queued(n, x, g)
  BY <1>1, <1>2, <1>3, SameQueues
<1>5. \A m \in Nodes \ {n} : KeptNode(m)
  BY <1>1, KeptSame DEF SendPut, RecvWrite, RecvInsert, NetFail, KeptNode, TypeOK
<1>6. CASE SendPut(n)
  <2>1. rpc'[n] = "write" /\ rpc[n] = "idle" /\ CurJob(n).op = "PUT" /\ row' = row
    BY <1>6 DEF SendPut, TypeOK
  <2>2. \A p \in Nodes, f \in Files : p # x \/ f # g => disk'[p][f] = disk[p][f]
    BY <1>3, <1>6, DiskEntry DEF SendPut
  <2>3. CallOK(n)'
    BY <1>2, <1>4, <2>1 DEF CallOK
  <2>4. \A p \in Nodes, f \in Files : ~ Sent(n, p, f)' /\ ~ Sent(n, p, f)
    BY <2>1 DEF Sent
  <2>5. \A p \in Nodes, f \in Files : PairOK(n, p, f)
    BY <1>1, <1>4, <2>1, <2>2, <2>4 DEF PairOK
  <2> QED BY <1>1, <1>5, <2>1, <2>3, <2>5, CallStep
<1>7. CASE RecvWrite(n)
  <2>1. rpc[n] = "write" /\ CurJob(n).op = "PUT" /\ row' = row
    BY <1>2, <1>7 DEF RecvWrite
  <2>2. ~ Sent(n, x, g) /\ \A p \in Nodes, f \in Files : ~ Sent(n, p, f)
    BY <2>1 DEF Sent
  <2>3. CASE EtagMatches(n)
    <3>1. rpc'[n] = "insert" /\ disk' = [disk EXCEPT ![x][g] = "good"]
      BY <1>3, <1>7, <2>3 DEF RecvWrite, EtagMatches, TypeOK
    <3>2. \A p \in Nodes, f \in Files : disk'[p][f] = IF p = x /\ f = g THEN "good" ELSE disk[p][f]
      BY <3>1 DEF TypeOK
    <3>3. CallOK(n)'
      BY <1>2, <1>4, <2>1, <3>1 DEF CallOK
    <3>4. \A p \in Nodes, f \in Files : Sent(n, p, f)' => p = x /\ f = g
      BY <1>3, <1>4 DEF Sent
    <3>5. \A p \in Nodes, f \in Files : PairOK(n, p, f)
      BY <1>1, <1>4, <2>1, <2>2, <3>2, <3>4 DEF PairOK
    <3> QED BY <1>1, <1>5, <3>1, <3>3, <3>5, CallStep
  <2>4. CASE ~ EtagMatches(n)
    <3>1. rpc'[n] = "failed" /\ disk' = [disk EXCEPT ![x][g] = "none"]
      BY <1>3, <1>7, <2>4 DEF RecvWrite, TypeOK
    <3>2. \A p \in Nodes, f \in Files : p # x \/ f # g => disk'[p][f] = disk[p][f]
      BY <3>1, DiskEntry
    <3>3. CallOK(n)'
      BY <1>2, <1>4, <3>1 DEF CallOK
    <3>4. \A p \in Nodes, f \in Files : ~ Sent(n, p, f)'
      BY <3>1 DEF Sent
    <3>5. \A p \in Nodes, f \in Files : PairOK(n, p, f)
      BY <1>1, <1>4, <2>1, <2>2, <3>2, <3>4 DEF PairOK
    <3> QED BY <1>1, <1>5, <3>1, <3>3, <3>5, CallStep
  <2> QED BY <2>3, <2>4
<1>8. CASE RecvInsert(n)
  <2>1. rpc[n] = "insert" /\ CurJob(n).op = "PUT" /\ disk' = disk
    BY <1>2, <1>8 DEF RecvInsert
  <2>2. Sent(n, x, g) /\ \A p \in Nodes, f \in Files : Sent(n, p, f) => p = x /\ f = g
    BY <1>3, <2>1 DEF Sent
  <2>3. CASE rpc' = [rpc EXCEPT ![n] = "done"] /\ row' = row /\ row[x][g] # "absent"
    <3>1. rpc'[n] = "done"
      BY <2>3 DEF TypeOK
    <3>2. CallOK(n)'
      BY <1>2, <1>4, <3>1 DEF CallOK
    <3>3. \A p \in Nodes, f \in Files : Sent(n, p, f)' <=> Sent(n, p, f)
      BY <1>4, <2>1, <3>1 DEF Sent
    <3>4. \A p \in Nodes, f \in Files : PairOK(n, p, f)
      BY <1>1, <1>4, <2>1, <2>3, <3>3 DEF PairOK
    <3> QED BY <1>1, <1>3, <1>4, <1>5, <2>3, <3>2, <3>4, CallStep
  <2>4. CASE rpc' = [rpc EXCEPT ![n] = "failed"] /\ row' = row
    <3>1. rpc'[n] = "failed"
      BY <2>4 DEF TypeOK
    <3>2. CallOK(n)'
      BY <1>2, <1>4, <3>1 DEF CallOK
    <3>3. \A p \in Nodes, f \in Files : ~ Sent(n, p, f)'
      BY <3>1 DEF Sent
    <3>4. \A p \in Nodes, f \in Files : PairOK(n, p, f)
      BY <1>1, <1>4, <2>1, <2>4, <3>3 DEF PairOK
    <3> QED BY <1>1, <1>5, <3>1, <3>2, <3>4, CallStep
  <2>5. CASE rpc' = [rpc EXCEPT ![n] = "done"] /\ row' = [row EXCEPT ![x][g] = "active"]
    <3>1. rpc'[n] = "done"
      BY <2>5 DEF TypeOK
    <3>2. CallOK(n)'
      BY <1>2, <1>4, <3>1 DEF CallOK
    <3>3. \A p \in Nodes, f \in Files : Sent(n, p, f)' <=> Sent(n, p, f)
      BY <1>4, <2>1, <3>1 DEF Sent
    <3>4. \A p \in Nodes, f \in Files : row'[p][f] = IF p = x /\ f = g THEN "active" ELSE row[p][f]
      BY <2>5 DEF TypeOK
    <3>5. \A p \in Nodes, f \in Files : PairOK(n, p, f)
      BY <1>1, <1>4, <2>1, <2>2, <3>3, <3>4 DEF PairOK
    <3>6. row'[CurJob(n)'.peer][CurJob(n)'.file] # "absent"
      BY <1>3, <1>4, <3>4
    <3> QED BY <1>1, <1>5, <3>2, <3>5, <3>6, CallStep
  <2> QED BY <1>3, <1>8, <2>3, <2>4, <2>5 DEF RecvInsert
<1>9. CASE NetFail(n)
  <2>1. rpc'[n] = "failed" /\ row' = row /\ disk' = disk
    BY <1>9 DEF NetFail, TypeOK
  <2>2. CallOK(n)'
    BY <1>2, <1>4, <2>1 DEF CallOK
  <2>3. \A p \in Nodes, f \in Files : ~ Sent(n, p, f)'
    BY <2>1 DEF Sent
  <2>4. \A p \in Nodes, f \in Files : PairOK(n, p, f)
    BY <1>1, <1>4, <2>1, <2>3 DEF PairOK
  <2> QED BY <1>1, <1>5, <2>1, <2>2, <2>4, CallStep
<1> QED BY <1>6, <1>7, <1>8, <1>9

\* An idle worker that still has all its jobs is no worse off.
LEMMA IdleStep ==
    ASSUME TypeOK, CInv, NEW n \in Nodes, \A m \in Nodes \ {n} : KeptNode(m), rpc'[n] = "idle",
           Edited(outbox[n], outbox'[n]),
           UNCHANGED <<row, disk, uploaded, purged>>
    PROVE  CInv'
<1>1. CallOK(n)'
  BY DEF CallOK
<1>2. \A p \in Nodes, f \in Files : ~ Sent(n, p, f)' /\ (Queued(n, p, f) => Queued(n, p, f)')
  BY DEF Sent, Queued, Edited
<1>3. \A p \in Nodes, f \in Files : PairOK(n, p, f)
  BY <1>2 DEF PairOK
<1>4. uploaded' \subseteq Files
  BY DEF TypeOK
<1> QED BY <1>1, <1>3, <1>4, CallStep

\* The worker: a job goes away only when its version has arrived.
LEMMA CallsWorker ==
    ASSUME TypeOK, TypeOK', AInv, CInv, NEW n \in Nodes, Worker(n) \/ NetFail(n) \/ WriteFails(n)
    PROVE  CInv'
<1>0. CallsOK /\ CallOK(n) /\ uploaded' \subseteq Files
  BY DEF CInv, CallsOK, TypeOK
<1>1. CASE SendPut(n) \/ RecvWrite(n) \/ RecvInsert(n) \/ NetFail(n)
  BY <1>1, CallsPut
<1>2. CASE Claim(n)
  <2>1. PICK t : t = [i \in DOMAIN outbox[n] |-> Claimed(outbox[n][i])]
    OBVIOUS
  <2>2. Edited(outbox[n], t)
    BY <2>1, ClaimedJobs
  <2>3. outbox' = [outbox EXCEPT ![n] = t] /\ UNCHANGED <<rpc, row, disk, uploaded, purged>> /\ rpc[n] = "idle"
    BY <1>0, <1>2, <2>1 DEF Claim, CallOK
  <2>4. outbox'[n] = t /\ \A m \in Nodes \ {n} : outbox'[m] = outbox[m]
    BY <2>3 DEF TypeOK
  <2>5. \A m \in Nodes \ {n} : KeptNode(m)
    BY <2>3, <2>4, KeptSame DEF KeptNode
  <2> QED BY <2>2, <2>3, <2>4, <2>5, IdleStep
<1>3. CASE SendDelete(n)
  <2>1. /\ UNCHANGED <<outbox, purged, uploaded, row>> /\ rpc' = [rpc EXCEPT ![n] = "delrow"]
        /\ rpc[n] = "idle" /\ Batch(n) # {} /\ CurJob(n).op = "DELETE"
    BY <1>3 DEF SendDelete
  <2>2. PICK x \in Nodes, g \in Files : x = CurJob(n).peer /\ g = CurJob(n).file
    BY <2>1, CurrentJob
  <2>3. CallOK(n)'
    BY <2>1, SameQueues DEF CallOK, TypeOK
  <2>4. \A m \in Nodes \ {n} : KeptNode(m)
    BY <2>1, KeptSame DEF KeptNode, TypeOK
  <2>5. ~ Unpurged(g)'
    BY <2>1, <2>2, CurrentJob DEF AInv, JobsOK, JobOK, Purgers, Unpurged
  <2>6. \A p \in Nodes, f \in Files : f # g => disk'[p][f] = disk[p][f]
    BY <1>3, <2>2, DiskEntry DEF SendDelete
  <2>7. rpc'[n] = "delrow" /\ \A p \in Nodes, f \in Files : ~ Sent(n, p, f)' /\ ~ Sent(n, p, f)
    BY <2>1 DEF Sent, TypeOK
  <2>8. \A p \in Nodes, f \in Files : Queued(n, p, f)' <=> Queued(n, p, f)
    BY <2>1, SameQueues
  <2>9. \A p \in Nodes, f \in Files : Unpurged(f)' => PairOK(n, p, f)
    BY <2>1, <2>5, <2>6, <2>7, <2>8 DEF PairOK
  <2> QED BY <1>0, <2>1, <2>3, <2>4, <2>7, <2>9, CallStep
<1>4. CASE RecvDelete(n)
  <2>1. Batch(n) # {} /\ CurJob(n).op = "DELETE"
    BY <1>0, <1>4 DEF RecvDelete, CallOK
  <2>2. PICK x \in Nodes, f \in Files : x = CurJob(n).peer /\ f = CurJob(n).file
    BY <2>1, CurrentJob
  <2>3. ~ Unpurged(f)
    BY <2>1, <2>2, CurrentJob DEF AInv, JobsOK, JobOK, Purgers, Unpurged
  <2>4. PICK u : u = Unlinked(outbox[x], f)
    OBVIOUS
  <2>5. /\ outbox' = [outbox EXCEPT ![x] = u] /\ rpc' = [rpc EXCEPT ![n] = "done"]
        /\ rpc[n] = "delrow" /\ UNCHANGED <<purged, uploaded, disk>>
    BY <1>4, <2>2, <2>4 DEF RecvDelete
  <2>6. /\ DOMAIN u = DOMAIN outbox[x]
        /\ \A i \in DOMAIN outbox[x] :
              /\ u[i].peer = outbox[x][i].peer /\ u[i].file = outbox[x][i].file
              /\ u[i].op = outbox[x][i].op /\ u[i].batch = outbox[x][i].batch
    BY <2>4, UnlinkedJobs, OutboxType DEF Edited
  <2>7. outbox'[x] = u /\ \A m \in Nodes \ {x} : outbox'[m] = outbox[m]
    BY <2>5 DEF TypeOK
  <2>8. \A m \in Nodes : KeptJobs(m)
    <3>1. KeptJobs(x)
      BY <2>6, <2>7 DEF KeptJobs
    <3> QED BY <2>7, <3>1, KeptSame
  <2>9. CallOK(n)'
    <3>1. Batch(n)' # {} /\ rpc'[n] = "done"
      BY <2>1, <2>5, <2>8, KeptCall DEF TypeOK
    <3> QED BY <3>1 DEF CallOK
  <2>10. \A m \in Nodes \ {n} : KeptNode(m)
    BY <2>5, <2>8 DEF KeptNode, TypeOK
  <2>11. \A p \in Nodes, g \in Files : g # f => row'[p][g] = row[p][g]
    BY <1>4, <2>2, RowEntry DEF RecvDelete
  <2>12. CurJob(n)'.op = "DELETE" /\ \A p \in Nodes, g \in Files : Queued(n, p, g) => Queued(n, p, g)'
    BY <2>1, <2>8, KeptCall
  <2>13. \A p \in Nodes, g \in Files : ~ Sent(n, p, g)' /\ ~ Sent(n, p, g)
    BY <2>5, <2>12 DEF Sent
  <2>14. ~ Unpurged(f)'
    BY <2>3, <2>5 DEF Unpurged
  <2>15. \A p \in Nodes, g \in Files : Unpurged(g)' => PairOK(n, p, g)
    BY <2>5, <2>11, <2>12, <2>13, <2>14 DEF PairOK
  <2> QED BY <1>0, <2>5, <2>9, <2>10, <2>12, <2>15, CallStep
<1>5. CASE Complete(n)
  <2>1. Batch(n) # {} /\ outbox' = [outbox EXCEPT ![n] = outbox'[n]]
    BY <1>0, <1>5, CompletedJobs
  <2>2. \A j \in DOMAIN outbox[n] \ {Current(n)} : \E k \in DOMAIN outbox'[n] : outbox'[n][k] = outbox[n][j]
    BY <1>0, <1>5, CompletedJobs
  <2>3. rpc' = [rpc EXCEPT ![n] = "idle"] /\ rpc[n] = "done" /\ UNCHANGED <<row, disk, uploaded, purged>>
    BY <1>5 DEF Complete
  <2>4. CallOK(n)' /\ \A p \in Nodes, f \in Files : ~ Sent(n, p, f)'
    BY <2>3 DEF CallOK, Sent, TypeOK
  <2>5. \A m \in Nodes \ {n} : KeptNode(m)
    BY <2>1, <2>3, KeptSame DEF KeptNode, TypeOK
  <2>6. ASSUME NEW p \in Nodes, NEW f \in Files, Queued(n, p, f), ~ Queued(n, p, f)'
        PROVE  Sent(n, p, f)
    <3>1. PICK i \in DOMAIN outbox[n] :
              outbox[n][i].peer = p /\ outbox[n][i].file = f /\ outbox[n][i].op = "PUT"
      BY <2>6 DEF Queued
    <3>2. i = Current(n)
      BY <2>2, <2>6, <3>1 DEF Queued
    <3> QED BY <2>3, <3>1, <3>2 DEF Sent, CurJob
  <2>7. \A p \in Nodes, f \in Files : Unpurged(f)' => PairOK(n, p, f)
    <3>1. \A p \in Nodes, f \in Files : Unpurged(f)' /\ Sent(n, p, f) => row[p][f] # "absent"
      BY <2>3 DEF Sent, CInv, ArrivedOK, Unpurged
    <3> QED BY <2>3, <2>4, <2>6, <3>1 DEF PairOK
  <2>8. rpc'[n] = "idle"
    BY <2>3 DEF TypeOK
  <2> QED BY <1>0, <2>3, <2>4, <2>5, <2>7, <2>8, CallStep
<1>6. CASE Fail(n) \/ WriteFails(n)
  <2>1. Batch(n) # {}
    BY <1>0, <1>6 DEF Fail, WriteFails, CallOK
  <2>2. PICK st \in {"IN_FLIGHT", "FAILED"} :
            outbox' = [outbox EXCEPT ![n][Current(n)] = Released(CurJob(n), st)]
    BY <1>6 DEF Fail, WriteFails
  <2>3. outbox' = [outbox EXCEPT ![n] = outbox'[n]] /\ Edited(outbox[n], outbox'[n])
    BY <2>1, <2>2, ReleaseCurrent
  <2>4. rpc' = [rpc EXCEPT ![n] = "idle"] /\ UNCHANGED <<row, disk, uploaded, purged>>
    BY <1>6 DEF Fail, WriteFails
  <2>5. \A m \in Nodes \ {n} : KeptNode(m)
    BY <2>3, <2>4, KeptSame DEF KeptNode, TypeOK
  <2>6. rpc'[n] = "idle"
    BY <2>4 DEF TypeOK
  <2> QED BY <2>3, <2>4, <2>5, <2>6, IdleStep
<1> QED BY <1>1, <1>2, <1>3, <1>4, <1>5, <1>6 DEF Worker

\* A crash ends calls and keeps jobs; anti-entropy only adds some.
LEMMA CallsRest ==
    ASSUME TypeOK, TypeOK', CInv, NEW n \in Nodes,
           \/ Crash(n) \/ AeStart(n)
           \/ \E i \in DOMAIN outbox[n] : RetryDue(n, i)
           \/ \E p \in Nodes \ {n} : AntiEntropy(n, p)
    PROVE  CInv'
<1>0. uploaded' \subseteq Files
  BY DEF TypeOK
<1>1. CASE Crash(n)
  <2>1. Edited(outbox[n], outbox'[n]) /\ \A m \in Nodes \ {n} : outbox'[m] = outbox[m]
    BY <1>1, CrashedJobs
  <2>2. rpc'[n] = "idle" /\ UNCHANGED <<row, disk, uploaded, purged>>
    BY <1>1 DEF Crash
  <2>3. \A m \in Nodes \ {n} : rpc'[m] = rpc[m] \/ (rpc'[m] = "failed" /\ rpc[m] # "idle")
    BY <1>1 DEF Crash
  <2>4. \A m \in Nodes \ {n} : KeptNode(m)
    BY <2>1, <2>3, KeptSame DEF KeptNode
  <2> QED BY <2>1, <2>2, <2>4, IdleStep
<1>2. ASSUME NEW i \in DOMAIN outbox[n], RetryDue(n, i) PROVE CInv'
  <2>1. UNCHANGED <<rpc, row, disk, uploaded, purged>>
    BY <1>2 DEF RetryDue
  <2>2. /\ outbox' = [outbox EXCEPT ![n] = outbox'[n]] /\ Edited(outbox[n], outbox'[n])
        /\ \A k \in DOMAIN outbox[n] : outbox'[n][k].batch = outbox[n][k].batch
    BY <1>2, RetriedJob
  <2>3. KeptJobs(n)
    BY <2>2 DEF KeptJobs, Edited
  <2>4. \A m \in Nodes \ {n} : outbox'[m] = outbox[m]
    BY <2>2 DEF TypeOK
  <2> QED BY <2>1, <2>3, <2>4, KeptSame, QuietStep
<1>3. CASE UNCHANGED <<outbox, rpc, row, disk, uploaded, purged>>
  BY <1>3, KeptSame, QuietStep
<1>4. ASSUME NEW p \in Nodes, NEW f \in Files, AeInsert(n, p, f), row[n][f] # "absent" PROVE CInv'
  <2>1. PICK s \in Seq(Job) : s = outbox[n]
    BY OutboxType
  <2>2. PICK e \in Job : e = NewJob(p, f, "PUT") /\ ~ e.batch
    BY NewJobType
  <2>3. PICK t : t = Append(s, e)
    OBVIOUS
  <2>4. /\ DOMAIN s \subseteq DOMAIN t /\ \A i \in DOMAIN s : t[i] = s[i]
        /\ \A i \in DOMAIN t \ DOMAIN s : t[i] = e
    BY <2>3, AppendedJob
  <2>5. outbox' = [outbox EXCEPT ![n] = t] /\ UNCHANGED <<rpc, row, disk, uploaded, purged>>
    BY <1>4, <2>1, <2>2, <2>3 DEF AeInsert
  <2>6. outbox'[n] = t /\ \A m \in Nodes \ {n} : outbox'[m] = outbox[m]
    BY <2>5 DEF TypeOK
  <2>7. KeptJobs(n)
    BY <2>1, <2>2, <2>4, <2>6 DEF KeptJobs
  <2> QED BY <2>5, <2>6, <2>7, KeptSame, QuietStep
<1>5. CASE AeStart(n)
  BY <1>3, <1>5 DEF AeStart
<1>6. ASSUME NEW p \in Nodes \ {n}, AntiEntropy(n, p) PROVE CInv'
  BY <1>3, <1>4, <1>6 DEF AntiEntropy, AeDigest, AeSkip, AePeer, AeCheck, AeInsert
<1> QED BY <1>1, <1>2, <1>5, <1>6
-----------------------------------------------------------------------------
(***************************************************************************)
(* Theorems                                                                *)
(***************************************************************************)

\* Every step of Next keeps the invariant.
LEMMA NextInv == RInv /\ [Next]_vars => RInv'
<1> SUFFICES ASSUME RInv, [Next]_vars PROVE RInv'
  OBVIOUS
<1>0. TypeOK /\ AInv /\ BInv /\ CInv /\ CallsOK
  BY DEF RInv, AInv, BInv, CInv
<1>1. SUFFICES TypeOK' /\ AInv' /\ BInv' /\ CInv'
  BY DEF RInv, AInv, BInv, CInv
<1>2. ASSUME NEW n \in Writers, NEW f \in Files, Client(n, f) \/ Unlink(n, f)
      PROVE  TypeOK' /\ AInv' /\ BInv' /\ CInv'
  <2>1. n \in Nodes
    BY ReplicationAssumption
  <2>2. TypeOK'
    BY <1>0, <1>2, <2>1, TypeClient
  <2> QED BY <1>0, <1>2, <2>1, <2>2, OriginClient, OnceClient, CallsClient
<1>3. ASSUME NEW n \in Nodes, Worker(n) \/ NetFail(n) \/ WriteFails(n)
      PROVE  TypeOK' /\ AInv' /\ BInv' /\ CInv'
  <2>1. TypeOK'
    BY <1>0, <1>3, TypeWorker
  <2> QED BY <1>0, <1>3, <2>1, OriginWorker, OnceWorker, CallsWorker
<1>4. ASSUME NEW n \in Nodes,
             \/ Crash(n) \/ AeStart(n)
             \/ \E i \in DOMAIN outbox[n] : RetryDue(n, i)
             \/ \E p \in Nodes \ {n} : AntiEntropy(n, p)
      PROVE  TypeOK' /\ AInv' /\ BInv' /\ CInv'
  <2>1. TypeOK'
    BY <1>0, <1>4, TypeRest
  <2> QED BY <1>0, <1>4, <2>1, OriginRest, OnceRest, CallsRest
<1>5. CASE UNCHANGED vars
  <2>1. TypeOK'
    BY <1>0, <1>5 DEF vars, TypeOK
  <2>2. AInv'
    BY <1>0, <1>5 DEF vars, AInv, JobsOK, RowsOK, GhostsWerePurged
  <2>3. BInv'
    BY <1>0, <1>5, OnceEdited, EditedSame DEF vars
  <2>4. CInv'
    <3>1. ASSUME NEW n \in Nodes PROVE CInv'
      BY <1>0, <1>5, KeptSame, QuietStep DEF vars
    <3>2. CASE Nodes = {}
      BY <3>2 DEF CInv, CallsOK, ArrivedOK, NeverForgotten, RepairOK
    <3> QED BY <3>1, <3>2
  <2> QED BY <2>1, <2>2, <2>3, <2>4
<1> QED BY <1>2, <1>3, <1>4, <1>5 DEF Next

\* RInv holds in every reachable state.
THEOREM Invariant == Spec => []RInv
<1>1. Init => RInv
  BY InitInv
<1>2. RInv /\ [Next]_vars => RInv'
  BY NextInv
<1> QED BY <1>1, <1>2, PTL DEF Spec

\* The outbox, the calls and the anti-entropy passes keep their types.
THEOREM TypeCorrect == Spec => []TypeOK
<1>1. RInv => TypeOK
  BY DEF RInv
<1> QED BY <1>1, Invariant, PTL

\* An outbox never holds two PUT jobs for one version and one peer, although
\* enqueue_put_for_peer's check and its insert are two statements.
THEOREM QueuedOnce == Spec => []NoDuplicatePuts
<1>1. RInv => NoDuplicatePuts
  BY DEF RInv
<1> QED BY <1>1, Invariant, PTL

\* Crashes, failed calls and failed writes of the outbox included, and whatever
\* becomes of other versions: until it is purged, an uploaded version is on a
\* node or queued for it.
THEOREM NothingForgotten == Spec => []NeverForgotten
<1>1. RInv => NeverForgotten
  BY DEF RInv
<1> QED BY <1>1, Invariant, PTL

\* ReplicateObject truncates before it verifies, and two senders may do so at
\* once: a row whose blob is damaged still has a job that brings it again.
THEOREM RepairsQueued == Spec => []DamagedHasRepair
<1>1. RInv => DamagedHasRepair
  BY DEF RInv, RepairOK, DamagedHasRepair, TypeOK
<1> QED BY <1>1, Invariant, PTL

\* A row keyed by its path speaks of a version that was purged somewhere.
THEOREM GhostsExplained == Spec => []GhostsWerePurged
<1>1. RInv => GhostsWerePurged
  BY DEF RInv
<1> QED BY <1>1, Invariant, PTL
-----------------------------------------------------------------------------
(***************************************************************************)
(* Refinement: every step is a step of Delivery or a stutter.  By the      *)
(* invariant the queues need not be looked at: what was uploaded, is not   *)
(* purged and has no row is owed.                                          *)
(***************************************************************************)
View(p, f) ==
    IF ~ Unpurged(f) THEN "withdrawn"
    ELSE IF f \notin uploaded THEN "none"
    ELSE IF row[p][f] # "absent" THEN "held" ELSE "owed"

\* StandingOf, seen like that.
LEMMA Standing == RInv => \A p \in Nodes, f \in Files : StandingOf(p, f) = View(p, f)
<1> SUFFICES ASSUME RInv, NEW p \in Nodes, NEW f \in Files
             PROVE  StandingOf(p, f) = View(p, f)
  OBVIOUS
<1>1. CASE f \notin uploaded
  <2>1. row[p][f] = "absent"
    BY <1>1 DEF RInv, RowsOK
  <2>2. \A m \in Nodes : ~ Queued(m, p, f)
    BY <1>1 DEF RInv, JobsOK, JobOK, Queued
  <2> QED BY <1>1, <2>1, <2>2 DEF StandingOf, View
<1>2. CASE f \in uploaded
  <2>1. Unpurged(f) => row[p][f] # "absent" \/ \E m \in Nodes : Queued(m, p, f)
    BY <1>2 DEF RInv, NeverForgotten
  <2> QED BY <1>2, <2>1 DEF StandingOf, View
<1> QED BY <1>1, <1>2

Stage == [p \in Nodes |-> [f \in Files |-> StandingOf(p, f)]]

\* The mapped state before and after a step.
LEMMA Stages ==
    ASSUME RInv, RInv'
    PROVE  /\ Stage = [p \in Nodes |-> [f \in Files |-> View(p, f)]]
           /\ Stage' = [p \in Nodes |-> [f \in Files |-> View(p, f)']]
<1>1. \A p \in Nodes, f \in Files : StandingOf(p, f) = View(p, f)
  BY Standing
<1>2. RInv' => (\A p \in Nodes, f \in Files : StandingOf(p, f) = View(p, f))'
  BY Standing, PTL
<1> QED BY <1>1, <1>2 DEF Stage

\* A step after which every version stands where it stood.
LEMMA DeliveryStutters ==
    ASSUME RInv, RInv', \A p \in Nodes, f \in Files : View(p, f)' = View(p, f)
    PROVE  UNCHANGED Stage
BY Stages

\* Rows come and go only for versions that are purged.
LEMMA SameView ==
    ASSUME UNCHANGED <<uploaded, purged>>,
           \A p \in Nodes, f \in Files :
              Unpurged(f) => (row'[p][f] # "absent" <=> row[p][f] # "absent")
    PROVE  \A p \in Nodes, f \in Files : View(p, f)' = View(p, f)
BY DEF View, Unpurged

\* Local operations.
LEMMA DeliveryClient ==
    ASSUME RInv, RInv', NEW n \in Nodes, NEW f \in Files, Client(n, f) \/ Unlink(n, f)
    PROVE  [Abstract!Next]_Stage
<1>0. TypeOK /\ uploaded \subseteq Files
  BY DEF RInv, TypeOK
<1>1. CASE Put(n, f)
  <2>1. f \notin uploaded /\ uploaded' = uploaded \cup {f} /\ purged' = purged
    BY <1>1 DEF Put
  <2>2. \A p \in Nodes, g \in Files :
           row'[p][g] = IF p # n THEN row[p][g] ELSE IF g = f THEN "active"
                        ELSE IF g \in SameKey(n, f, KeyOf[f]) THEN "recycled" ELSE row[n][g]
    BY <1>0, <1>1 DEF Put, TypeOK
  <2>3. \A g \in SameKey(n, f, KeyOf[f]) : row[n][g] = "active"
    BY DEF SameKey, Active
  <2>4. \A p \in Nodes, g \in Files : g # f => View(p, g)' = View(p, g)
    BY <2>1, <2>2, <2>3 DEF View, Unpurged
  <2>5. CASE Unpurged(f)
    <3>1. \A p \in Nodes : row[p][f] = "absent"
      BY <2>1 DEF RInv, RowsOK
    <3>2. \A p \in Nodes : View(p, f) = "none" /\ View(p, f)' = IF p = n THEN "held" ELSE "owed"
      BY <2>1, <2>2, <2>5, <3>1 DEF View, Unpurged
    <3>3. \A p \in Nodes : Stage[p][f] = "none"
      BY <3>2, Stages
    <3>4. Stage' = [p \in Nodes |-> [Stage[p] EXCEPT ![f] = IF p = n THEN "held" ELSE "owed"]]
      BY <2>4, <3>2, Stages
    <3>5. Abstract!Upload(n, f)
      BY <3>3, <3>4 DEF Abstract!Upload, Stage
    <3> QED BY <3>5 DEF Abstract!Next
  <2>6. CASE ~ Unpurged(f)
    <3>1. \A p \in Nodes : View(p, f)' = View(p, f)
      BY <2>1, <2>6 DEF View, Unpurged
    <3> QED BY <2>4, <3>1, DeliveryStutters
  <2> QED BY <2>5, <2>6
<1>2. CASE SoftDelete(n, f) \/ Restore(n, f) \/ Unlink(n, f)
  <2>1. UNCHANGED <<uploaded, purged>>
    BY <1>2 DEF SoftDelete, Restore, Unlink
  <2>2. \A p \in Nodes, g \in Files : row'[p][g] # "absent" <=> row[p][g] # "absent"
    BY <1>0, <1>2, RowEntry DEF SoftDelete, Restore, Unlink
  <2> QED BY <2>1, <2>2, SameView, DeliveryStutters
<1>3. CASE Purge(n, f)
  <2>1. row[n][f] = "recycled" /\ purged' = purged \cup {<<n, f>>} /\ uploaded' = uploaded
    BY <1>3 DEF Purge
  <2>2. \A p \in Nodes, g \in Files : g # f => row'[p][g] = row[p][g]
    BY <1>0, <1>3, RowEntry DEF Purge
  <2>3. \A p \in Nodes, g \in Files : g # f => View(p, g)' = View(p, g)
    BY <2>1, <2>2 DEF View, Unpurged
  <2>4. \A p \in Nodes : View(p, f)' = "withdrawn"
    BY <2>1 DEF View, Unpurged
  <2>5. CASE Unpurged(f)
    <3>1. f \in uploaded
      BY <2>1 DEF RInv, RowsOK
    <3>2. View(n, f) = "held"
      BY <2>1, <2>5, <3>1 DEF View
    <3>3. Stage[n][f] = "held"
      BY <3>2, Stages
    <3>4. Stage' = [p \in Nodes |-> [Stage[p] EXCEPT ![f] = "withdrawn"]]
      BY <2>3, <2>4, Stages
    <3>5. Abstract!Withdraw(n, f)
      BY <3>3, <3>4 DEF Abstract!Withdraw, Stage
    <3> QED BY <3>5 DEF Abstract!Next
  <2>6. CASE ~ Unpurged(f)
    <3>1. \A p \in Nodes : View(p, f) = "withdrawn"
      BY <2>6 DEF View
    <3> QED BY <2>3, <2>4, <3>1, DeliveryStutters
  <2> QED BY <2>5, <2>6
<1> QED BY <1>1, <1>2, <1>3 DEF Client

\* The one step of a call that delivers, and the one that takes away what is
\* purged.
LEMMA DeliveryCall ==
    ASSUME RInv, RInv', NEW n \in Nodes, RecvInsert(n) \/ RecvDelete(n)
    PROVE  [Abstract!Next]_Stage
<1>0. TypeOK /\ CallOK(n) /\ UNCHANGED <<uploaded, purged>>
  BY DEF RInv, CallsOK, RecvInsert, RecvDelete
<1>1. Batch(n) # {}
  BY <1>0 DEF CallOK, RecvInsert, RecvDelete
<1>2. PICK x \in Nodes, g \in Files : x = CurJob(n).peer /\ g = CurJob(n).file
  BY <1>0, <1>1, CurrentJob
<1>3. g \in uploaded /\ (CurJob(n).op = "DELETE" => Purgers(g, purged) # {})
  BY <1>0, <1>1, <1>2, CurrentJob DEF RInv, JobsOK, JobOK
<1>4. CASE UNCHANGED row
  BY <1>0, <1>4, SameView, DeliveryStutters
<1>5. CASE RecvDelete(n)
  <2>1. ~ Unpurged(g)
    BY <1>0, <1>3, <1>5 DEF RecvDelete, CallOK, Purgers, Unpurged
  <2>2. row' = [row EXCEPT ![x][g] = "absent"]
    BY <1>2, <1>5 DEF RecvDelete
  <2>3. \A p \in Nodes, f \in Files : f # g => row'[p][f] = row[p][f]
    BY <1>0, <2>2, RowEntry
  <2> QED BY <1>0, <2>1, <2>3, SameView, DeliveryStutters
<1>6. CASE row[x][g] = "absent" /\ row' = [row EXCEPT ![x][g] = "active"]
  <2>1. \A p \in Nodes, f \in Files : row'[p][f] = IF p = x /\ f = g THEN "active" ELSE row[p][f]
    BY <1>0, <1>6, RowEntry
  <2>2. \A p \in Nodes, f \in Files : p # x \/ f # g => View(p, f)' = View(p, f)
    BY <1>0, <2>1 DEF View, Unpurged
  <2>3. CASE Unpurged(g)
    <3>1. View(x, g) = "owed" /\ View(x, g)' = "held"
      BY <1>0, <1>3, <1>6, <2>1, <2>3 DEF View, Unpurged
    <3>2. Stage[x][g] = "owed"
      BY <3>1, Stages
    <3>3. Stage' = [Stage EXCEPT ![x][g] = "held"]
      BY <2>2, <3>1, Stages
    <3>4. Abstract!Arrive(x, g)
      BY <3>2, <3>3 DEF Abstract!Arrive, Stage
    <3> QED BY <3>4 DEF Abstract!Next
  <2>4. CASE ~ Unpurged(g)
    <3>1. View(x, g)' = View(x, g)
      BY <1>0, <2>4 DEF View, Unpurged
    <3> QED BY <2>2, <3>1, DeliveryStutters
  <2> QED BY <2>3, <2>4
<1> QED BY <1>2, <1>4, <1>5, <1>6 DEF RecvInsert

\* Every step is a step of a delivery, or does not show.
LEMMA DeliveryStep ==
    ASSUME RInv, RInv', [Next]_vars
    PROVE  [Abstract!Next]_Stage
<1>1. CASE \E n \in Writers, f \in Files : Client(n, f) \/ Unlink(n, f)
  BY <1>1, DeliveryClient, ReplicationAssumption
<1>2. CASE \E n \in Nodes : RecvInsert(n) \/ RecvDelete(n)
  BY <1>2, DeliveryCall
<1>3. CASE UNCHANGED <<row, uploaded, purged>>
  BY <1>3, SameView, DeliveryStutters
<1>4. \A n \in Nodes : Worker(n) \/ NetFail(n) \/ WriteFails(n) \/ Crash(n) \/ AeStart(n) =>
         RecvInsert(n) \/ RecvDelete(n) \/ UNCHANGED <<row, uploaded, purged>>
  BY DEF Worker, Claim, SendPut, RecvWrite, SendDelete, Complete, Fail, NetFail, WriteFails, Crash, AeStart
<1>5. \A n \in Nodes : \A i \in DOMAIN outbox[n] : RetryDue(n, i) => UNCHANGED <<row, uploaded, purged>>
  BY DEF RetryDue
<1>6. \A n \in Nodes : \A p \in Nodes \ {n} : AntiEntropy(n, p) => UNCHANGED <<row, uploaded, purged>>
  <2> SUFFICES ASSUME NEW n \in Nodes, NEW p \in Nodes, AntiEntropy(n, p)
               PROVE  UNCHANGED <<row, uploaded, purged>>
    OBVIOUS
  <2>1. CASE AeDigest(n, p) \/ AeSkip(n, p)
    BY <2>1 DEF AeDigest, AeSkip, AePeer
  <2>2. CASE \E f \in Files : AeCheck(n, p, f) \/ AeInsert(n, p, f)
    BY <2>2 DEF AeCheck, AeInsert
  <2> QED BY <2>1, <2>2 DEF AntiEntropy
<1> QED BY <1>1, <1>2, <1>3, <1>4, <1>5, <1>6 DEF Next, vars

\* Replication implements Delivery: queues, calls, retries, passes, faults and
\* crashes together do no more to a version than to upload it, deliver it or,
\* after a purge, withdraw it.
THEOREM Refinement == Spec => RefinesDelivery
<1>1. Init => Abstract!Init
  <2>1. Init => \A n \in Nodes : DOMAIN outbox[n] = {}
    BY EmptySeq DEF Init
  <2> QED BY <2>1 DEF Init, Abstract!Init, StandingOf, Unpurged, Queued
<1>2. RInv /\ RInv' /\ [Next]_vars => [Abstract!Next]_Stage
  BY DeliveryStep
<1> QED BY <1>1, <1>2, Invariant, PTL DEF Spec, RefinesDelivery, Abstract!Spec, Stage
=============================================================================
