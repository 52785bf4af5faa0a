------------------------------- MODULE Rehash -------------------------------
(***************************************************************************)
(* Changing a bucket's ETag type (put_bucket_etag in                       *)
(* server/settings_routes.rs) and the background task that hashes its      *)
(* objects again (server/etag_rehash.rs, with its statements in            *)
(* db/repository.rs), while objects are uploaded, deleted and restored.    *)
(*                                                                         *)
(* There is one bucket.  `.keep` markers have no ETag and are not objects  *)
(* here.  An upload brings the type that it read from the bucket before,   *)
(* or that its headers ask for.  The total, which is only displayed, is    *)
(* left out.                                                               *)
(***************************************************************************)
EXTENDS Naturals, FiniteSets

CONSTANTS
    Objects,   \* ids of object rows
    Uploaded,  \* those that exist at the start
    Types,     \* EtagType
    Default,   \* the type of the objects that exist at the start
    Requests,
    Tasks

ASSUME RehashAssumption ==
    /\ Uploaded \subseteq Objects /\ IsFiniteSet(Objects)
    /\ Default \in Types

VARIABLES
    row,        \* [Objects -> "none", "live" or "deleted"]
    type,       \* [Objects -> its etag_type (and the etag of that type)]
    bucketType, \* bucket.etag_type
    status,     \* bucket.etag_rehash_status
    processed,  \* bucket.etag_rehash_processed
    \* put_bucket_etag
    pc,         \* [Requests -> "idle", "set" or "begin"]
    want,       \* [Requests -> the type asked for]
    recalc,     \* [Requests -> apply = "recalculate_all"]
    \* run_bucket_rehash
    at,         \* [Tasks -> its step]
    to,         \* [Tasks -> the type it hashes to]
    todo,       \* [Tasks -> objects listed and not visited yet]
    current,    \* [Tasks -> the object whose jobs are to be enqueued]
    \* history
    hashed,     \* [Tasks -> objects updated and enqueued]
    skipped,    \* [Tasks -> objects whose hashing, update or enqueueing failed]
    begun,      \* [Requests -> tasks begun since the status was read]
    crowded,    \* tasks that have run beside another one
    stranded    \* a status of "running" was left without the task that would end it

bucket  == <<row, type, bucketType, status, processed>>
control == <<pc, want, recalc>>
task    == <<at, to, todo, current, hashed, skipped>>
history == <<begun, crowded, stranded>>
vars == <<row, type, bucketType, status, processed, pc, want, recalc,
          at, to, todo, current, hashed, skipped, begun, crowded, stranded>>

TypeOK ==
    /\ row \in [Objects -> {"none", "live", "deleted"}]
    /\ type \in [Objects -> Types]
    /\ bucketType \in Types
    /\ status \in {"never", "running", "done", "error"}
    /\ processed \in Nat
    /\ pc \in [Requests -> {"idle", "set", "begin"}]
    /\ want \in [Requests -> Types]
    /\ recalc \in [Requests -> BOOLEAN]
    /\ at \in [Tasks -> {"off", "list", "next", "enqueue", "bump", "skip", "fatal"}]
    /\ to \in [Tasks -> Types]
    /\ todo \in [Tasks -> SUBSET Objects]
    /\ current \in [Tasks -> SUBSET Objects]
    /\ hashed \in [Tasks -> SUBSET Objects]
    /\ skipped \in [Tasks -> SUBSET Objects]
    /\ begun \in [Requests -> SUBSET Tasks]
    /\ crowded \subseteq Tasks
    /\ stranded \in BOOLEAN

Live  == {o \in Objects : row[o] = "live"}
Alive == {x \in Tasks : at[x] # "off"}

Init ==
    /\ row = [o \in Objects |-> IF o \in Uploaded THEN "live" ELSE "none"]
    /\ type = [o \in Objects |-> Default]
    /\ bucketType = Default
    /\ status = "never" /\ processed = 0
    /\ pc = [r \in Requests |-> "idle"]
    /\ want = [r \in Requests |-> Default]
    /\ recalc = [r \in Requests |-> FALSE]
    /\ at = [x \in Tasks |-> "off"]
    /\ to = [x \in Tasks |-> Default]
    /\ todo = [x \in Tasks |-> {}]
    /\ current = [x \in Tasks |-> {}]
    /\ hashed = [x \in Tasks |-> {}]
    /\ skipped = [x \in Tasks |-> {}]
    /\ begun = [r \in Requests |-> {}]
    /\ crowded = {}
    /\ stranded = FALSE
-----------------------------------------------------------------------------
(***************************************************************************)
(* put_bucket_etag                                                         *)
(***************************************************************************)

\* Mutated: "etag recalculation already running" is not asked.
MayRecalculate_Always(everything) == everything \in BOOLEAN

MayRecalculate(everything) == everything => status # "running"

\* The bucket is read, and its status checked ...
ReadStatus(r, t, everything) ==
    /\ pc[r] = "idle"
    /\ MayRecalculate(everything)
    /\ pc' = [pc EXCEPT ![r] = "set"]
    /\ want' = [want EXCEPT ![r] = t]
    /\ recalc' = [recalc EXCEPT ![r] = everything]
    /\ UNCHANGED <<bucket, task, history>>

Answer(r) ==
    /\ pc' = [pc EXCEPT ![r] = "idle"]
    /\ want' = [want EXCEPT ![r] = Default]
    /\ recalc' = [recalc EXCEPT ![r] = FALSE]

\* ... set_bucket_etag_type ...
SetType(r) ==
    /\ pc[r] = "set"
    /\ bucketType' = want[r]
    /\ IF recalc[r]
       THEN pc' = [pc EXCEPT ![r] = "begin"] /\ UNCHANGED <<want, recalc, begun>>
       ELSE Answer(r) /\ begun' = [begun EXCEPT ![r] = {}]
    /\ UNCHANGED <<row, type, status, processed, task, crowded, stranded>>

\* ... and, once the objects are counted, begin_bucket_etag_rehash, after which
\* the handler runs on to the spawn ...
BeginRehash(r, x) ==
    /\ pc[r] = "begin"
    /\ at[x] = "off"
    /\ status' = "running" /\ processed' = 0
    /\ at' = [at EXCEPT ![x] = "list"]
    /\ to' = [to EXCEPT ![x] = want[r]]
    /\ Answer(r)
    /\ begun' = [q \in Requests |-> IF q # r /\ pc[q] # "idle" THEN begun[q] \cup {x}
                                    ELSE IF q = r THEN {} ELSE begun[q]]
    /\ crowded' = IF Alive = {} THEN {} ELSE crowded \cup Alive \cup {x}
    /\ stranded' = FALSE
    /\ UNCHANGED <<row, type, bucketType, todo, current, hashed, skipped>>

\* ... unless its client is gone while it awaits that statement, which SQLite
\* executes all the same: the status is written and no task starts.
CutOffBegun(r) ==
    /\ pc[r] = "begin"
    /\ status' = "running" /\ processed' = 0
    /\ stranded' = TRUE
    /\ Answer(r)
    /\ begun' = [begun EXCEPT ![r] = {}]
    /\ UNCHANGED <<row, type, bucketType, task, crowded>>

\* A statement fails, or the client is gone before it is executed.
CutOff(r) ==
    /\ pc[r] # "idle"
    /\ Answer(r)
    /\ begun' = [begun EXCEPT ![r] = {}]
    /\ UNCHANGED <<bucket, task, crowded, stranded>>
-----------------------------------------------------------------------------
(***************************************************************************)
(* run_bucket_rehash                                                       *)
(***************************************************************************)

Move(x, label) == at' = [at EXCEPT ![x] = label]

List(x) ==
    /\ at[x] = "list"
    /\ todo' = [todo EXCEPT ![x] = Live]
    /\ Move(x, "next")
    /\ UNCHANGED <<bucket, control, to, current, hashed, skipped, history>>

Skip(x, o) ==
    /\ skipped' = [skipped EXCEPT ![x] = @ \cup {o}]
    /\ Move(x, "skip")

\* update_object_etag: AND deleted_at IS NULL, or "object not found".
Updatable(o) == row[o] = "live"

\* rehash_one up to the update of the row.
Hash(x, o) ==
    /\ at[x] = "next" /\ o \in todo[x]
    /\ todo' = [todo EXCEPT ![x] = @ \ {o}]
    /\ IF Updatable(o)
       THEN /\ type' = [type EXCEPT ![o] = to[x]]
            /\ current' = [current EXCEPT ![x] = {o}]
            /\ Move(x, "enqueue") /\ UNCHANGED skipped
       ELSE Skip(x, o) /\ UNCHANGED <<type, current>>
    /\ UNCHANGED <<row, bucketType, status, processed, control, to, hashed, history>>

\* hash_filepath cannot read the blob.
HashFails(x, o) ==
    /\ at[x] = "next" /\ o \in todo[x]
    /\ todo' = [todo EXCEPT ![x] = @ \ {o}]
    /\ Skip(x, o)
    /\ UNCHANGED <<bucket, control, to, current, hashed, history>>

\* The PUT jobs for the new etag, in a transaction of their own ...
Enqueue(x) ==
    /\ at[x] = "enqueue"
    /\ hashed' = [hashed EXCEPT ![x] = @ \cup current[x]]
    /\ current' = [current EXCEPT ![x] = {}]
    /\ Move(x, "bump")
    /\ UNCHANGED <<bucket, control, to, todo, skipped, history>>

\* ... which may fail: the row keeps its new etag and no peer hears of it.
EnqueueFails(x) ==
    /\ at[x] = "enqueue"
    /\ \E o \in current[x] : Skip(x, o)
    /\ current' = [current EXCEPT ![x] = {}]
    /\ UNCHANGED <<bucket, control, to, todo, hashed, history>>

\* bump_bucket_etag_rehash_processed, for skipped objects too.
Bump(x) ==
    /\ at[x] \in {"bump", "skip"}
    /\ processed' = processed + 1
    /\ Move(x, "next")
    /\ UNCHANGED <<row, type, bucketType, status, control, to, todo, current,
                   hashed, skipped, history>>

\* After a success its failure is fatal; after a skip it is ignored.
BumpFails(x) ==
    /\ at[x] \in {"bump", "skip"}
    /\ Move(x, IF at[x] = "bump" THEN "fatal" ELSE "next")
    /\ UNCHANGED <<bucket, control, to, todo, current, hashed, skipped, history>>

\* Mutated: a fatal error ends the task without a word.
Verdict_OnlyDone(x) == IF at[x] = "fatal" THEN status ELSE "done"

\* finish_bucket_etag_rehash.
Verdict(x) == IF at[x] = "fatal" THEN "error" ELSE "done"

\* Mutated: the task stops before the last object.
Finished_Early(x) == at[x] = "fatal" \/ (at[x] = "next" /\ Cardinality(todo[x]) <= 1)

\* Mutated: the task waits until every listed object has been hashed.
Finished_AllHashed(x) ==
    at[x] = "fatal" \/ (at[x] = "next" /\ todo[x] = {} /\ skipped[x] = {})

Finished(x) == at[x] = "fatal" \/ (at[x] = "next" /\ todo[x] = {})

\* The task is over, and what it knew is gone.
End(x) ==
    /\ Move(x, "off")
    /\ to' = [to EXCEPT ![x] = Default]
    /\ todo' = [todo EXCEPT ![x] = {}]
    /\ hashed' = [hashed EXCEPT ![x] = {}]
    /\ skipped' = [skipped EXCEPT ![x] = {}]
    /\ begun' = [r \in Requests |-> begun[r] \ {x}]
    /\ crowded' = crowded \ {x}

Finish(x) ==
    /\ Finished(x)
    /\ status' = Verdict(x)
    /\ End(x)
    /\ UNCHANGED <<row, type, bucketType, processed, control, current, stranded>>

\* The listing or the last statement fails: the error is only logged.
Strand(x) ==
    /\ at[x] = "list" \/ Finished(x)
    /\ stranded' = TRUE
    /\ End(x)
    /\ UNCHANGED <<bucket, control, current>>

\* The process dies and starts again; nothing at startup looks at the status.
Crash ==
    /\ Alive # {}
    /\ at' = [x \in Tasks |-> "off"]
    /\ to' = [x \in Tasks |-> Default]
    /\ todo' = [x \in Tasks |-> {}]
    /\ current' = [x \in Tasks |-> {}]
    /\ hashed' = [x \in Tasks |-> {}]
    /\ skipped' = [x \in Tasks |-> {}]
    /\ pc' = [r \in Requests |-> "idle"]
    /\ want' = [r \in Requests |-> Default]
    /\ recalc' = [r \in Requests |-> FALSE]
    /\ begun' = [r \in Requests |-> {}]
    /\ crowded' = {}
    /\ stranded' = TRUE
    /\ UNCHANGED bucket
-----------------------------------------------------------------------------
\* Uploads, deletes and restores.
Upload(o, t) ==
    /\ row[o] = "none"
    /\ row' = [row EXCEPT ![o] = "live"]
    /\ type' = [type EXCEPT ![o] = t]
    /\ UNCHANGED <<bucketType, status, processed, control, task, history>>

Delete(o) ==
    /\ row[o] = "live"
    /\ row' = [row EXCEPT ![o] = "deleted"]
    /\ UNCHANGED <<type, bucketType, status, processed, control, task, history>>

Restore(o) ==
    /\ row[o] = "deleted"
    /\ row' = [row EXCEPT ![o] = "live"]
    /\ UNCHANGED <<type, bucketType, status, processed, control, task, history>>
-----------------------------------------------------------------------------
Task(x) ==
    \/ List(x) \/ Enqueue(x) \/ Bump(x) \/ Finish(x)
    \/ \E o \in Objects : Hash(x, o)

TaskFails(x) ==
    \/ EnqueueFails(x) \/ BumpFails(x) \/ Strand(x)
    \/ \E o \in Objects : HashFails(x, o)

Next ==
    \/ \E r \in Requests : \/ \E t \in Types, b \in BOOLEAN : ReadStatus(r, t, b)
                           \/ \E x \in Tasks : BeginRehash(r, x)
                           \/ SetType(r) \/ CutOffBegun(r) \/ CutOff(r)
    \/ \E x \in Tasks : Task(x) \/ TaskFails(x)
    \/ \E o \in Objects : Delete(o) \/ Restore(o) \/ \E t \in Types : Upload(o, t)
    \/ Crash

Spec == Init /\ [][Next]_vars

\* A spawned task keeps running.
FairSpec == Spec /\ \A x \in Tasks : WF_vars(Task(x) \/ TaskFails(x))
-----------------------------------------------------------------------------
\* A status of "running", which refuses every further recalculation, has a
\* task behind it, unless that was lost to a crash or to a failed statement, or
\* never started because its request was cut off once the status was written.
RunningExplained == status = "running" => Alive # {} \/ stranded

\* "etag recalculation already running": the status is read two statements
\* before it is written, so that two tasks may run at once; but a task is only
\* started beside one that has begun since, or that had company already.
OverlapIsARace ==
    [][\A r \in Requests, x \in Tasks :
         pc[r] = "begin" /\ pc'[r] = "idle" /\ at[x] = "off" /\ at'[x] = "list" =>
             Alive \subseteq begun[r] \cup crowded]_vars

\* When a task that was alone all the time reports "done", every object that
\* was listed has the new type and its jobs, or was skipped; and none was
\* counted twice.
DoneIsComplete ==
    [][\A x \in Tasks \ crowded :
         at[x] = "next" /\ at'[x] = "off" /\ status' = "done" /\ status = "running" =>
             /\ todo[x] = {}
             /\ \A o \in hashed[x] : type[o] = to[x]
             /\ processed <= Cardinality(hashed[x] \cup skipped[x])]_vars

\* A recalculation ends: its status becomes "done" or "error", unless the task
\* was lost, or its request was cut off before the spawn.
RehashEnds == (status = "running") ~> (status # "running" \/ stranded)
=============================================================================
