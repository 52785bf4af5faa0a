---------------------------- MODULE MCReplication ----------------------------
EXTENDS Replication, TLC

CONSTANTS A, B, f1, f2, k1

\* Both uploads are for the same key: the second overwrites the first.
MCKeyOf == [f \in Files |-> k1]

\* Bound: a history has a fault or a purge.  With a purge there are at most
\* two jobs at a time (the PUT of the overwrite and the DELETE of what it
\* replaced, say), and B pushes nothing back once there was an overwrite too.
FaultOrPurge ==
    \/ purged = {}
    \/ /\ faults = 0 /\ Len(outbox[A]) + Len(outbox[B]) <= 2
       /\ uploaded = {f1} \/ outbox[B] = <<>>
=============================================================================
