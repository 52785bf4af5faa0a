------------------------------ MODULE Delivery ------------------------------
(***************************************************************************)
(* What replication promises: an upload is at once held by the node that   *)
(* took it and owed to every other one; what is owed stays owed until it   *)
(* arrives, and what is held stays held, until somebody purges the         *)
(* version.  Queues, calls, retries, passes of anti-entropy, faults and    *)
(* crashes do not show.  Replication is shown to implement this.           *)
(***************************************************************************)
CONSTANTS
    Nodes,
    Files    \* uploaded versions

VARIABLE
    stage    \* [Nodes -> [Files -> "none", "owed", "held" or "withdrawn"]]

Init == stage = [p \in Nodes |-> [f \in Files |-> "none"]]

Upload(n, f) ==
    /\ \A p \in Nodes : stage[p][f] = "none"
    /\ stage' = [p \in Nodes |-> [stage[p] EXCEPT ![f] = IF p = n THEN "held" ELSE "owed"]]

Arrive(p, f) ==
    /\ stage[p][f] = "owed"
    /\ stage' = [stage EXCEPT ![p][f] = "held"]

\* A node that holds the version purges it; it is then no longer anyone's due.
Withdraw(n, f) ==
    /\ stage[n][f] = "held"
    /\ stage' = [p \in Nodes |-> [stage[p] EXCEPT ![f] = "withdrawn"]]

Next == \E n \in Nodes, f \in Files : Upload(n, f) \/ Arrive(n, f) \/ Withdraw(n, f)

Spec == Init /\ [][Next]_stage
=============================================================================
