------------------------------ MODULE Versions ------------------------------
(***************************************************************************)
(* What the object store promises its users: every upload is a version of  *)
(* a key that is at first unknown, becomes the live version of its key,    *)
(* moves to the recycle bin and back, and is gone for good once purged.    *)
(* At most one version of a key is live.  ObjectStore is shown to          *)
(* implement this, step for step, for all its interleavings and crashes.   *)
(***************************************************************************)
CONSTANTS
    Versions,   \* uploads
    Keys,
    NoKey

VARIABLES
    stage,      \* "free", "live", "bin" or "gone"
    key         \* the key of a version that is not free

vars == <<stage, key>>

Init ==
    /\ stage = [v \in Versions |-> "free"]
    /\ key = [v \in Versions |-> NoKey]

\* No other version is live under k.
Vacant(v, k) == \A u \in Versions \ {v} : ~ (stage[u] = "live" /\ key[u] = k)

Create(v, k) ==
    /\ stage[v] = "free"
    /\ Vacant(v, k)
    /\ stage' = [stage EXCEPT ![v] = "live"]
    /\ key' = [key EXCEPT ![v] = k]

Bin(v) ==
    /\ stage[v] = "live"
    /\ stage' = [stage EXCEPT ![v] = "bin"]
    /\ UNCHANGED key

Restore(v) ==
    /\ stage[v] = "bin"
    /\ Vacant(v, key[v])
    /\ stage' = [stage EXCEPT ![v] = "live"]
    /\ UNCHANGED key

Purge(v) ==
    /\ stage[v] \in {"live", "bin"}
    /\ stage' = [stage EXCEPT ![v] = "gone"]
    /\ UNCHANGED key

Next ==
    \E v \in Versions : Bin(v) \/ Restore(v) \/ Purge(v) \/ \E k \in Keys : Create(v, k)

Spec == Init /\ [][Next]_vars
=============================================================================
