---------------------------- MODULE RehashProofs -----------------------------
(***************************************************************************)
(* Recalculations of a bucket's ETags: when the status is to be believed,  *)
(* how two tasks can meet, and what a task that met none has done, for any *)
(* number of objects, requests and tasks.                                  *)
(***************************************************************************)
EXTENDS Rehash, FiniteSetTheorems, TLAPS

\* Of two tasks that run at once each has met another.
Company == \A x, y \in Alive : x # y => x \in crowded

\* Beside a status that is not "running" only such tasks run.
QuietStatus == status # "running" => Alive \subseteq crowded

\* A request that was let through knows of every other task.
ReadersOK ==
    \A r \in Requests :
        /\ pc[r] = "begin" => recalc[r]
        /\ pc[r] # "idle" /\ recalc[r] => Alive \subseteq begun[r] \cup crowded

\* The control part of the invariant.
CInv == TypeOK /\ Company /\ QuietStatus /\ ReadersOK /\ RunningExplained

\* The status is "never" and nothing runs at the start.
LEMMA InitControl == Init => CInv
<1> SUFFICES ASSUME Init PROVE CInv
  OBVIOUS
<1>1. TypeOK
  <2>1. row \in [Objects -> {"none", "live", "deleted"}] /\ processed \in Nat
    BY DEF Init
  <2>2. recalc \in [Requests -> BOOLEAN] /\ stranded \in BOOLEAN
    BY DEF Init
  <2> QED BY <2>1, <2>2, RehashAssumption DEF Init, TypeOK
<1>2. Company /\ QuietStatus /\ ReadersOK /\ RunningExplained
  BY DEF Init, Company, QuietStatus, ReadersOK, RunningExplained, Alive
<1> QED BY <1>1, <1>2 DEF CInv

\* Types.
LEMMA TypeStep == TypeOK /\ [Next]_vars => TypeOK'
<1> SUFFICES ASSUME TypeOK, [Next]_vars PROVE TypeOK'
  OBVIOUS
<1> USE RehashAssumption DEF TypeOK, bucket, control, task, history
<1>1. ASSUME NEW r \in Requests, NEW t \in Types, NEW b \in BOOLEAN, ReadStatus(r, t, b) PROVE TypeOK'
  BY <1>1 DEF ReadStatus
<1>2. ASSUME NEW r \in Requests, SetType(r) \/ CutOff(r) \/ CutOffBegun(r) PROVE TypeOK'
  <2>1. CASE SetType(r) /\ recalc[r]
    BY <2>1 DEF SetType
  <2>2. CASE SetType(r) /\ ~ recalc[r]
    BY <2>2 DEF SetType, Answer
  <2>3. CASE CutOff(r)
    BY <2>3 DEF CutOff, Answer
  <2>4. CASE CutOffBegun(r)
    BY <2>4 DEF CutOffBegun, Answer
  <2> QED BY <1>2, <2>1, <2>2, <2>3, <2>4
<1>3. ASSUME NEW r \in Requests, NEW x \in Tasks, BeginRehash(r, x) PROVE TypeOK'
  BY <1>3 DEF BeginRehash, Answer, Alive
<1>4. ASSUME NEW x \in Tasks, List(x) \/ Enqueue(x) \/ EnqueueFails(x) PROVE TypeOK'
  BY <1>4 DEF List, Enqueue, EnqueueFails, Skip, Move, Live
<1>5. ASSUME NEW x \in Tasks, NEW o \in Objects, Hash(x, o) \/ HashFails(x, o) PROVE TypeOK'
  BY <1>5 DEF Hash, HashFails, Skip, Move
<1>6. ASSUME NEW x \in Tasks, Bump(x) \/ BumpFails(x) PROVE TypeOK'
  BY <1>6 DEF Bump, BumpFails, Move
<1>7. ASSUME NEW x \in Tasks, Finish(x) \/ Strand(x) PROVE TypeOK'
  <2>1. CASE Finish(x)
    BY <2>1 DEF Finish, End, Move, Verdict
  <2>2. CASE Strand(x)
    BY <2>2 DEF Strand, End, Move
  <2> QED BY <1>7, <2>1, <2>2
<1>8. ASSUME Crash PROVE TypeOK'
  BY <1>8 DEF Crash
<1>9. ASSUME NEW o \in Objects, Delete(o) \/ Restore(o) \/ \E t \in Types : Upload(o, t) PROVE TypeOK'
  BY <1>9 DEF Upload, Delete, Restore
<1>10. ASSUME UNCHANGED vars PROVE TypeOK'
  BY <1>10 DEF vars
<1> QED BY <1>1, <1>2, <1>3, <1>4, <1>5, <1>6, <1>7, <1>8, <1>9, <1>10 DEF Next, Task, TaskFails

\* A step of a task that neither starts nor ends leaves alone who is alive.
LEMMA AliveKept ==
  ASSUME TypeOK, NEW x \in Tasks,
         \/ List(x) \/ Enqueue(x) \/ EnqueueFails(x) \/ Bump(x) \/ BumpFails(x)
         \/ \E o \in Objects : Hash(x, o) \/ HashFails(x, o)
  PROVE  Alive' = Alive /\ UNCHANGED <<status, control, history>>
<1>1. /\ UNCHANGED <<status, control, history>>
      /\ at[x] # "off"
      /\ \E l \in {"next", "enqueue", "bump", "skip", "fatal"} : at' = [at EXCEPT ![x] = l]
  BY DEF List, Enqueue, EnqueueFails, Bump, BumpFails, Hash, HashFails, Skip, Move, bucket
<1> QED BY <1>1 DEF Alive, TypeOK

\* The control part is inductive.
LEMMA ControlStep == CInv /\ [Next]_vars => CInv'
<1> SUFFICES ASSUME CInv, [Next]_vars PROVE CInv'
  OBVIOUS
<1> DEFINE Rest == Company /\ QuietStatus /\ ReadersOK /\ RunningExplained
<1>0. TypeOK'
  BY TypeStep DEF CInv
<1> USE DEF CInv
<1>1. ASSUME Alive' = Alive, UNCHANGED <<status, control, history>> PROVE Rest'
  BY <1>1 DEF Company, QuietStatus, ReadersOK, RunningExplained, control, history
<1>2. ASSUME NEW r \in Requests, NEW t \in Types, NEW b \in BOOLEAN, ReadStatus(r, t, b) PROVE Rest'
  BY <1>2 DEF ReadStatus, MayRecalculate, bucket, task, history, TypeOK,
     Company, QuietStatus, ReadersOK, RunningExplained, Alive
<1>3. ASSUME NEW r \in Requests, SetType(r) \/ CutOff(r) \/ CutOffBegun(r) PROVE Rest'
  BY <1>3 DEF SetType, CutOff, CutOffBegun, Answer, bucket, task, TypeOK,
     Company, QuietStatus, ReadersOK, RunningExplained, Alive
<1>4. ASSUME NEW r \in Requests, NEW x \in Tasks, BeginRehash(r, x) PROVE Rest'
  <2>1. Alive' = Alive \cup {x}
    BY <1>4 DEF BeginRehash, Alive, TypeOK
  <2>2. Company' /\ QuietStatus' /\ RunningExplained'
    BY <1>4, <2>1 DEF BeginRehash, Company, QuietStatus, RunningExplained
  <2>3. ReadersOK'
    BY <1>4, <2>1 DEF BeginRehash, Answer, ReadersOK, TypeOK
  <2> QED BY <2>2, <2>3
<1>5. ASSUME NEW x \in Tasks, Finish(x) \/ Strand(x) PROVE Rest'
  <2>1. /\ x \in Alive /\ Alive' = Alive \ {x} /\ crowded' = crowded \ {x}
        /\ begun' = [r \in Requests |-> begun[r] \ {x}]
        /\ UNCHANGED control
        /\ (status' # "running" /\ stranded' = stranded) \/ (status' = status /\ stranded')
    BY <1>5 DEF Finish, Strand, Finished, End, Move, Verdict, Alive, TypeOK, bucket
  <2>2. Company' /\ QuietStatus' /\ RunningExplained'
    BY <2>1 DEF Company, QuietStatus, RunningExplained
  <2>3. ReadersOK'
    BY <2>1 DEF ReadersOK, control, TypeOK
  <2> QED BY <2>2, <2>3
<1>6. ASSUME Crash PROVE Rest'
  BY <1>6 DEF Crash, Company, QuietStatus, ReadersOK, RunningExplained, Alive
<1>7. ASSUME \E o \in Objects : Delete(o) \/ Restore(o) \/ \E t \in Types : Upload(o, t)
      PROVE  Alive' = Alive /\ UNCHANGED <<status, control, history>>
  BY <1>7 DEF Delete, Restore, Upload, Alive, task
<1>8. ASSUME UNCHANGED vars PROVE Alive' = Alive /\ UNCHANGED <<status, control, history>>
  BY <1>8 DEF vars, Alive, control, history
<1>9. Rest'
  BY <1>1, <1>2, <1>3, <1>4, <1>5, <1>6, <1>7, <1>8, AliveKept DEF Next, Task, TaskFails
<1> QED BY <1>0, <1>9

\* What a task has listed, works on and has done are different objects, and
\* all of them were uploaded.
SetsOK ==
    \A x \in Tasks :
        /\ at[x] \in {"off", "list"} => hashed[x] = {} /\ skipped[x] = {} /\ todo[x] = {}
        /\ at[x] # "enqueue" => current[x] = {}
        /\ at[x] = "enqueue" => \E o \in Objects : current[x] = {o}
        /\ (todo[x] \cup current[x]) \cap (hashed[x] \cup skipped[x]) = {}
        /\ todo[x] \cap current[x] = {}
        /\ \A o \in todo[x] \cup current[x] \cup hashed[x] : row[o] # "none"

\* An object that is done and still to be counted.
Uncounted(x) == IF at[x] \in {"bump", "skip"} THEN 1 ELSE 0

\* A task that has met no other counts its own objects, and they have its type.
AloneOK ==
    \A x \in Alive \ crowded :
        /\ \A o \in current[x] \cup hashed[x] : type[o] = to[x]
        /\ processed + Uncounted(x) <= Cardinality(hashed[x] \cup skipped[x])

\* The inductive invariant.
RInv == CInv /\ SetsOK /\ AloneOK

\* One more object is one more.
LEMMA OneMore ==
  ASSUME NEW S \in SUBSET Objects, NEW o \in Objects, o \notin S
  PROVE  Cardinality(S) \in Nat /\ Cardinality(S \cup {o}) = Cardinality(S) + 1
<1>1. IsFiniteSet(S)
  BY RehashAssumption, FS_Subset
<1> QED BY <1>1, FS_AddElement, FS_CardinalityType

\* The sets of a task stay apart.
LEMMA SetsStep == CInv /\ SetsOK /\ [Next]_vars => SetsOK'
<1> SUFFICES ASSUME CInv, SetsOK, [Next]_vars PROVE SetsOK'
  OBVIOUS
<1> USE DEF CInv, TypeOK, SetsOK, bucket, control, task, history
<1>1. ASSUME \E r \in Requests : \/ SetType(r) \/ CutOff(r) \/ CutOffBegun(r)
                                 \/ \E t \in Types, b \in BOOLEAN : ReadStatus(r, t, b)
      PROVE  SetsOK'
  BY <1>1 DEF ReadStatus, SetType, CutOff, CutOffBegun
<1>2. ASSUME NEW r \in Requests, NEW x \in Tasks, BeginRehash(r, x) PROVE SetsOK'
  BY <1>2 DEF BeginRehash
<1>3. ASSUME NEW x \in Tasks, List(x) PROVE SetsOK'
  BY <1>3 DEF List, Move, Live
<1>4. ASSUME NEW x \in Tasks, Enqueue(x) PROVE SetsOK'
  BY <1>4 DEF Enqueue, Move
<1>5. ASSUME NEW x \in Tasks, EnqueueFails(x) PROVE SetsOK'
  BY <1>5 DEF EnqueueFails, Skip, Move
<1>6. ASSUME NEW x \in Tasks, NEW o \in Objects, Hash(x, o) PROVE SetsOK'
  BY <1>6 DEF Hash, Skip, Move
<1>7. ASSUME NEW x \in Tasks, NEW o \in Objects, HashFails(x, o) PROVE SetsOK'
  BY <1>7 DEF HashFails, Skip, Move
<1>8. ASSUME NEW x \in Tasks, Bump(x) \/ BumpFails(x) PROVE SetsOK'
  BY <1>8 DEF Bump, BumpFails, Move
<1>9. ASSUME NEW x \in Tasks, Finish(x) \/ Strand(x) PROVE SetsOK'
  <2>1. End(x) /\ UNCHANGED <<row, current>> /\ at[x] # "enqueue"
    BY <1>9 DEF Finish, Strand, Finished
  <2>2. /\ at'[x] = "off" /\ todo'[x] = {} /\ hashed'[x] = {} /\ skipped'[x] = {} /\ current'[x] = {}
        /\ \A y \in Tasks \ {x} : /\ at'[y] = at[y] /\ todo'[y] = todo[y] /\ hashed'[y] = hashed[y]
                                   /\ skipped'[y] = skipped[y] /\ current'[y] = current[y]
    BY <2>1 DEF End, Move
  <2> QED BY <2>1, <2>2
<1>10. ASSUME Crash PROVE SetsOK'
  BY <1>10 DEF Crash
<1>11. ASSUME NEW o \in Objects, Delete(o) \/ Restore(o) \/ \E t \in Types : Upload(o, t) PROVE SetsOK'
  BY <1>11 DEF Upload, Delete, Restore
<1>12. ASSUME UNCHANGED vars PROVE SetsOK'
  BY <1>12 DEF vars
<1> QED BY <1>1, <1>2, <1>3, <1>4, <1>5, <1>6, <1>7, <1>8, <1>9, <1>10, <1>11, <1>12
       DEF Next, Task, TaskFails

\* A task that is alone is not disturbed: whoever could would be company.
LEMMA AloneStep == RInv /\ [Next]_vars => AloneOK'
<1> SUFFICES ASSUME RInv, [Next]_vars, NEW x \in Tasks, x \in Alive', x \notin crowded'
             PROVE  /\ \A o \in current'[x] \cup hashed'[x] : type'[o] = to'[x]
                    /\ processed' + Uncounted(x)' <= Cardinality(hashed'[x] \cup skipped'[x])
  BY DEF AloneOK, Alive
<1> DEFINE Goal == /\ \A o \in current'[x] \cup hashed'[x] : type'[o] = to'[x]
                   /\ processed' + Uncounted(x)' <= Cardinality(hashed'[x] \cup skipped'[x])
<1> USE DEF RInv, CInv, bucket, control, task, history
<1>0. hashed[x] \cup skipped[x] \in SUBSET Objects /\ processed \in Nat
  BY DEF TypeOK
<1>1. ASSUME UNCHANGED <<type, processed, task, crowded>> PROVE Goal
  BY <1>1 DEF AloneOK, Alive, Uncounted
<1>2. ASSUME NEW r \in Requests, NEW y \in Tasks, BeginRehash(r, y) PROVE Goal
  <2>1. y = x /\ Alive = {}
    BY <1>2 DEF BeginRehash, Alive, TypeOK
  <2>2. /\ current'[x] = {} /\ hashed'[x] = {} /\ skipped'[x] = {}
        /\ at'[x] = "list" /\ processed' = 0
    BY <1>2, <2>1 DEF BeginRehash, SetsOK, TypeOK
  <2>3. Cardinality({}) = 0
    BY FS_EmptySet
  <2> QED BY <2>2, <2>3 DEF Uncounted
<1>3. ASSUME NEW y \in Tasks, Task(y) \/ TaskFails(y) PROVE y = x /\ x \in Alive \ crowded
  <2>1. y \in Alive /\ Alive' \subseteq Alive
    BY <1>3 DEF Task, TaskFails, List, Enqueue, EnqueueFails, Bump, BumpFails, Hash, HashFails, Skip,
       Finish, Strand, Finished, End, Move, Alive, TypeOK
  <2>2. crowded' = crowded \/ (crowded' = crowded \ {y} /\ at'[y] = "off")
    BY <1>3 DEF Task, TaskFails, List, Enqueue, EnqueueFails, Bump, BumpFails, Hash, HashFails, Skip,
       Finish, Strand, End, Move, TypeOK
  <2>3. x \notin crowded
    BY <2>2 DEF Alive
  <2> QED BY <2>1, <2>3 DEF Company
<1>4. ASSUME x \in Alive \ crowded, List(x) PROVE Goal
  BY <1>4 DEF List, Move, AloneOK, Uncounted, SetsOK, TypeOK
<1>5. ASSUME x \in Alive \ crowded, Enqueue(x) PROVE Goal
  <2>1. PICK o \in Objects : current[x] = {o}
    BY <1>5 DEF Enqueue, SetsOK
  <2>2. o \notin hashed[x] \cup skipped[x]
    BY <2>1 DEF SetsOK
  <2>3. hashed'[x] \cup skipped'[x] = (hashed[x] \cup skipped[x]) \cup {o}
    BY <1>5, <2>1 DEF Enqueue, TypeOK
  <2>4. processed' = processed /\ Uncounted(x) = 0 /\ Uncounted(x)' = 1
    BY <1>5 DEF Enqueue, Move, Uncounted, TypeOK
  <2>5. processed' + Uncounted(x)' <= Cardinality(hashed'[x] \cup skipped'[x])
    <3>1. /\ Cardinality(hashed[x] \cup skipped[x]) \in Nat
          /\ Cardinality((hashed[x] \cup skipped[x]) \cup {o}) = Cardinality(hashed[x] \cup skipped[x]) + 1
      BY <1>0, <2>2, OneMore
    <3>2. processed + Uncounted(x) <= Cardinality(hashed[x] \cup skipped[x])
      BY <1>5 DEF AloneOK
    <3>3. processed + 1 <= Cardinality((hashed[x] \cup skipped[x]) \cup {o})
      BY <1>0, <2>4, <3>1, <3>2
    <3> QED BY <2>3, <2>4, <3>3
  <2>6. \A p \in current'[x] \cup hashed'[x] : type'[p] = to'[x]
    BY <1>5 DEF Enqueue, AloneOK, TypeOK
  <2> QED BY <2>5, <2>6
<1>6. ASSUME x \in Alive \ crowded, NEW o \in Objects,
             at[x] \in {"next", "enqueue"}, Skip(x, o), o \in todo[x] \cup current[x],
             current'[x] = {}, UNCHANGED <<type, processed, to, hashed>>
      PROVE  Goal
  <2>1. o \notin hashed[x] \cup skipped[x]
    BY <1>6 DEF SetsOK
  <2>2. hashed'[x] \cup skipped'[x] = (hashed[x] \cup skipped[x]) \cup {o}
    BY <1>6 DEF Skip, TypeOK
  <2>3. processed' = processed /\ Uncounted(x) = 0 /\ Uncounted(x)' = 1
    BY <1>6 DEF Skip, Move, Uncounted, TypeOK
  <2>4. processed' + Uncounted(x)' <= Cardinality(hashed'[x] \cup skipped'[x])
    <3>1. /\ Cardinality(hashed[x] \cup skipped[x]) \in Nat
          /\ Cardinality((hashed[x] \cup skipped[x]) \cup {o}) = Cardinality(hashed[x] \cup skipped[x]) + 1
      BY <1>0, <2>1, OneMore
    <3>2. processed + Uncounted(x) <= Cardinality(hashed[x] \cup skipped[x])
      BY <1>6 DEF AloneOK
    <3>3. processed + 1 <= Cardinality((hashed[x] \cup skipped[x]) \cup {o})
      BY <1>0, <2>3, <3>1, <3>2
    <3> QED BY <2>2, <2>3, <3>3
  <2>5. \A p \in current'[x] \cup hashed'[x] : type'[p] = to'[x]
    BY <1>6 DEF AloneOK
  <2> QED BY <2>4, <2>5
<1>7. ASSUME x \in Alive \ crowded, EnqueueFails(x) PROVE Goal
  BY <1>6, <1>7 DEF EnqueueFails, TypeOK
<1>8. ASSUME x \in Alive \ crowded, NEW o \in Objects, HashFails(x, o) PROVE Goal
  BY <1>6, <1>8 DEF HashFails, SetsOK
<1>9. ASSUME x \in Alive \ crowded, NEW o \in Objects, Hash(x, o) PROVE Goal
  <2>1. CASE Updatable(o)
    <3>1. current'[x] = {o} /\ type' = [type EXCEPT ![o] = to[x]] /\ UNCHANGED <<processed, to, hashed, skipped>>
      BY <1>9, <2>1 DEF Hash, TypeOK
    <3>2. Uncounted(x) = 0 /\ Uncounted(x)' = 0
      BY <1>9, <2>1 DEF Hash, Move, Uncounted, TypeOK
    <3>3. \A p \in current'[x] \cup hashed'[x] : type'[p] = to'[x]
      <4>1. type'[o] = to[x] /\ \A p \in Objects \ {o} : type'[p] = type[p]
        BY <3>1 DEF TypeOK
      <4>2. \A p \in hashed[x] : p \in Objects /\ type[p] = to[x]
        BY <1>9 DEF AloneOK, TypeOK
      <4> QED BY <3>1, <4>1, <4>2
    <3>4. processed' + Uncounted(x)' <= Cardinality(hashed'[x] \cup skipped'[x])
      BY <1>9, <3>1, <3>2 DEF AloneOK
    <3> QED BY <3>3, <3>4
  <2>2. CASE ~ Updatable(o)
    BY <1>6, <1>9, <2>2 DEF Hash, SetsOK
  <2> QED BY <2>1, <2>2
<1>10. ASSUME x \in Alive \ crowded, Bump(x) \/ BumpFails(x) PROVE Goal
  <2>1. UNCHANGED <<type, to, current, hashed, skipped>>
    BY <1>10 DEF Bump, BumpFails
  <2>2. Uncounted(x) = 1 /\ Uncounted(x)' = 0 /\ (processed' = processed \/ processed' = processed + 1)
    BY <1>10 DEF Bump, BumpFails, Move, Uncounted, TypeOK
  <2>3. Cardinality(hashed[x] \cup skipped[x]) \in Nat
    BY <1>0, RehashAssumption, FS_Subset, FS_CardinalityType
  <2> QED BY <1>0, <1>10, <2>1, <2>2, <2>3 DEF AloneOK
<1>11. ASSUME Finish(x) \/ Strand(x) PROVE Goal
  BY <1>11 DEF Finish, Strand, End, Move, Alive, TypeOK
<1>12. ASSUME Crash PROVE Goal
  BY <1>12 DEF Crash, Alive
<1>13. ASSUME NEW o \in Objects, Delete(o) \/ Restore(o) PROVE Goal
  BY <1>1, <1>13 DEF Delete, Restore
<1>14. ASSUME NEW o \in Objects, NEW t \in Types, Upload(o, t) PROVE Goal
  <2>1. x \in Alive \ crowded /\ o \notin current[x] \cup hashed[x]
    BY <1>14 DEF Upload, Alive, SetsOK
  <2> QED BY <1>14, <2>1 DEF Upload, AloneOK, Uncounted, TypeOK
<1>15. ASSUME \/ UNCHANGED vars
              \/ \E r \in Requests : SetType(r) \/ CutOff(r) \/ \E t \in Types, b \in BOOLEAN : ReadStatus(r, t, b)
       PROVE  Goal
  BY <1>1, <1>15 DEF vars, ReadStatus, SetType, CutOff
<1>16. ASSUME NEW r \in Requests, CutOffBegun(r) PROVE Goal
  <2>1. x \in Alive \ crowded /\ processed' = 0 /\ UNCHANGED <<type, task>>
    BY <1>16 DEF CutOffBegun, Alive
  <2>2. Uncounted(x)' = Uncounted(x) /\ Uncounted(x) \in Nat
    BY <2>1 DEF Uncounted
  <2>3. Cardinality(hashed[x] \cup skipped[x]) \in Nat
    BY <1>0, RehashAssumption, FS_Subset, FS_CardinalityType
  <2>4. processed + Uncounted(x) <= Cardinality(hashed[x] \cup skipped[x])
    BY <2>1 DEF AloneOK
  <2>5. processed' + Uncounted(x)' <= Cardinality(hashed'[x] \cup skipped'[x])
    BY <1>0, <2>1, <2>2, <2>3, <2>4
  <2> QED BY <2>1, <2>5 DEF AloneOK
<1>17. ASSUME NEW y \in Tasks, Task(y) \/ TaskFails(y) PROVE Goal
  BY <1>3, <1>4, <1>5, <1>7, <1>8, <1>9, <1>10, <1>11, <1>17 DEF Task, TaskFails
<1>18. Goal
  BY <1>2, <1>12, <1>13, <1>14, <1>15, <1>16, <1>17 DEF Next
<1> QED BY <1>18

\* The invariant holds in every behaviour.
LEMMA Invariance == Spec => []RInv
<1>1. Init => SetsOK /\ AloneOK
  BY DEF Init, SetsOK, AloneOK, Alive
<1>2. RInv /\ [Next]_vars => RInv'
  BY ControlStep, SetsStep, AloneStep DEF RInv
<1> QED BY <1>1, <1>2, InitControl, PTL DEF Spec, RInv

\* Types.
THEOREM TypeCorrect == Spec => []TypeOK
  BY Invariance, PTL DEF RInv, CInv

\* A bucket that refuses a recalculation because one is running has a task, or
\* has lost it to a crash or to a statement whose error was only logged, or its
\* last request was cut off between the status and the spawn.
THEOREM StatusExplained == Spec => []RunningExplained
  BY Invariance, PTL DEF RInv, CInv

\* put_bucket_etag starts a task only beside tasks that began after it had
\* read the status, or that were not alone to begin with.
THEOREM RacesOnly == Spec => OverlapIsARace
<1> DEFINE Step == \A r \in Requests, x \in Tasks :
                     pc[r] = "begin" /\ pc'[r] = "idle" /\ at[x] = "off" /\ at'[x] = "list" =>
                         Alive \subseteq begun[r] \cup crowded
<1>1. RInv /\ [Next]_vars => [Step]_vars
  BY DEF RInv, CInv, ReadersOK
<1> QED BY <1>1, Invariance, PTL DEF Spec, OverlapIsARace

\* When a task that met no other reports "done", every listed object has been
\* hashed to its type and enqueued, or skipped, and none was counted twice.
THEOREM DoneMeansDone == Spec => DoneIsComplete
<1> DEFINE Step == \A x \in Tasks \ crowded :
                     at[x] = "next" /\ at'[x] = "off" /\ status' = "done" /\ status = "running" =>
                         /\ todo[x] = {}
                         /\ \A o \in hashed[x] : type[o] = to[x]
                         /\ processed <= Cardinality(hashed[x] \cup skipped[x])
<1>1. ASSUME RInv, Next, NEW x \in Tasks \ crowded,
             at[x] = "next", at'[x] = "off", status' = "done", status = "running"
      PROVE  /\ todo[x] = {}
             /\ \A o \in hashed[x] : type[o] = to[x]
             /\ processed <= Cardinality(hashed[x] \cup skipped[x])
  <2> USE DEF RInv, CInv
  <2>1. PICK y \in Tasks : Finish(y)
    BY <1>1 DEF Next, Task, TaskFails, ReadStatus, SetType, BeginRehash, CutOff, CutOffBegun, List, Hash, HashFails,
       Enqueue, EnqueueFails, Bump, BumpFails, Strand, Crash, Upload, Delete, Restore, bucket
  <2>2. y = x
    BY <1>1, <2>1 DEF Finish, End, Move, TypeOK
  <2>3. todo[x] = {}
    BY <1>1, <2>1, <2>2 DEF Finish, Finished
  <2>4. x \in Alive \ crowded /\ Uncounted(x) = 0 /\ processed \in Nat
    BY <1>1 DEF Alive, Uncounted, TypeOK
  <2>5. processed + Uncounted(x) <= Cardinality(hashed[x] \cup skipped[x])
    BY <1>1, <2>4 DEF AloneOK
  <2>6. \A o \in hashed[x] : type[o] = to[x]
    BY <1>1, <2>4 DEF AloneOK
  <2> QED BY <2>3, <2>4, <2>5, <2>6
<1>2. RInv /\ [Next]_vars => [Step]_vars
  BY <1>1
<1> QED BY <1>2, Invariance, PTL DEF Spec, DoneIsComplete
=============================================================================
