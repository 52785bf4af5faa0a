------------------------------ MODULE Retention ------------------------------
(***************************************************************************)
(* The clock side of the recycle bin: when does the purge worker consider  *)
(* a soft-deleted row past the configured retention?  The interleaving of  *)
(* a tick with requests is ObjectStore's; here a tick is one step.         *)
(*                                                                         *)
(* SQLite stores deleted_at = CURRENT_TIMESTAMP as text,                   *)
(* "YYYY-MM-DD hh:mm:ss", while sqlx binds the cutoff as RFC 3339 text,    *)
(* "YYYY-MM-DDThh:mm:ss...+00:00", and `<=` compares the texts: the dates  *)
(* first, and for one date the character after it, where ' ' is less than  *)
(* 'T'.  Instants are integers, DayLen of them to a date.  The names are   *)
(* none of ObjectStore's, so that one module can extend both.              *)
(***************************************************************************)
EXTENDS Integers

CONSTANTS
    Objects,
    DayLen,       \* seconds of a day
    UnitSecs,     \* [RetentionUnit -> seconds]
    Values,       \* the retention values an account may ask for
    Saturation,   \* i64::MAX
    Longest,      \* the longest retention chrono can subtract from the clock
    NotDeleted,
    MaxTime       \* bound: the clock stops here

ASSUME RetentionAssumption ==
    /\ DayLen \in Nat \ {0}
    /\ \A u \in DOMAIN UnitSecs : UnitSecs[u] \in Nat \ {0}
    /\ Values \subseteq Int
    /\ Saturation \in Nat /\ Longest \in Nat /\ Longest < Saturation
    /\ MaxTime \in Nat
    /\ NotDeleted \notin Int

VARIABLES
    now,
    value, unit,  \* app_settings.recycle_retention_value and _unit
    deletedAt,    \* [Objects -> instant or NotDeleted]
    purged,       \* objects whose row the worker has deleted
    worker        \* "running", or "dead" after a panic

retentionVars == <<now, value, unit, deletedAt, purged, worker>>

RetentionTypeOK ==
    /\ now \in 0..MaxTime
    /\ value \in Nat
    /\ unit \in DOMAIN UnitSecs
    /\ deletedAt \in [Objects -> 0..MaxTime \cup {NotDeleted}]
    /\ purged \subseteq Objects
    /\ worker \in {"running", "dead"}

RetentionInit ==
    /\ now = 0
    /\ value \in Values \cap Nat
    /\ unit \in DOMAIN UnitSecs
    /\ deletedAt = [o \in Objects |-> NotDeleted]
    /\ purged = {}
    /\ worker = "running"

\* RetentionUnit::to_seconds: saturating_mul.
ToSeconds(v, u) == IF v * UnitSecs[u] > Saturation THEN Saturation ELSE v * UnitSecs[u]

Keep == ToSeconds(value, unit)

Day(t) == t \div DayLen

\* Mutated: the comparison is made on dates alone, the cutoff's excluded.
Expired_DateOnly(t, cutoff) == Day(t) < Day(cutoff)
\* Mutated: the arguments are swapped.
Expired_Swapped(t, cutoff) == Day(cutoff) <= Day(t)

\* list_expired_deleted_objects: deleted_at <= cutoff, on the texts.
Expired(t, cutoff) == Day(t) <= Day(cutoff)
-----------------------------------------------------------------------------
SoftDeleteRow(o) ==
    /\ o \notin purged
    /\ deletedAt[o] = NotDeleted
    /\ deletedAt' = [deletedAt EXCEPT ![o] = now]
    /\ UNCHANGED <<now, value, unit, purged, worker>>

RestoreRow(o) ==
    /\ o \notin purged
    /\ deletedAt[o] # NotDeleted
    /\ deletedAt' = [deletedAt EXCEPT ![o] = NotDeleted]
    /\ UNCHANGED <<now, value, unit, purged, worker>>

\* set_recycle_retention refuses negative values, and only those.
SetRetention(v, u) ==
    /\ v >= 0
    /\ value' = v
    /\ unit' = u
    /\ UNCHANGED <<now, deletedAt, purged, worker>>

\* purge_once.  Utc::now() - Duration panics when the result is out of range,
\* and the panic ends the worker's task.
PurgeOnce ==
    /\ worker = "running"
    /\ IF Keep > Longest
       THEN worker' = "dead" /\ UNCHANGED purged
       ELSE /\ purged' = purged \cup {o \in Objects : /\ deletedAt[o] # NotDeleted
                                                     /\ Expired(deletedAt[o], now - Keep)}
            /\ UNCHANGED worker
    /\ UNCHANGED <<now, value, unit, deletedAt>>

Advance ==
    /\ now < MaxTime
    /\ now' = now + 1
    /\ UNCHANGED <<value, unit, deletedAt, purged, worker>>

RetentionNext ==
    \/ \E o \in Objects : SoftDeleteRow(o) \/ RestoreRow(o)
    \/ \E v \in Values, u \in DOMAIN UnitSecs : SetRetention(v, u)
    \/ PurgeOnce
    \/ Advance

RetentionSpec == RetentionInit /\ [][RetentionNext]_retentionVars

\* The interval of the worker keeps ticking.
FairRetentionSpec == RetentionSpec /\ WF_retentionVars(PurgeOnce)
-----------------------------------------------------------------------------
Purged(o) == o \in purged' \ purged
Age(o)    == now - deletedAt[o]

\* A tick purges at most what the retention allows plus the rest of one date:
\* no row is purged a whole day too early.
LessThanADayEarly == [][\A o \in Objects : Purged(o) => Age(o) > Keep - DayLen]_retentionVars

\* "Periodically hard-delete recycle-bin objects past the configured
\* retention": a row that is past it, and stays so, is purged, unless a
\* retention too long for the date arithmetic has ended the worker.
Due(o) == o \notin purged /\ deletedAt[o] # NotDeleted /\ Age(o) >= Keep

DueIsPurged == \A o \in Objects : Due(o) ~> ~ Due(o) \/ worker = "dead"
=============================================================================
