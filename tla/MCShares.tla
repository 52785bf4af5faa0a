------------------------------ MODULE MCShares ------------------------------
EXTENDS Shares, TLC

CONSTANTS u1, u2, b1, b2, n1, n2, d, s1, s2, r1, r2, none

\* n1 is a file and the only one in folder d; n2 lies outside.
MCScope == [t \in Targets |-> IF t = d THEN {n1} ELSE {t}]

\* One link of each kind, from both accounts, to the file and to the folder,
\* for ever and for a while.
MCAsks ==
    {[bucket |-> b1, target |-> d, mode |-> "public", exp |-> Forever, by |-> u1, wanted |-> {}],
     [bucket |-> b1, target |-> d, mode |-> "bucket_readers", exp |-> 1, by |-> u2, wanted |-> {}],
     [bucket |-> b1, target |-> n1, mode |-> "specific_users", exp |-> Forever, by |-> u1,
      wanted |-> {u1, u2}]}

\* Bound: at most one of the objects, permissions, accounts and buckets that
\* there were at the start is missing at a time.
OneMissing ==
    Cardinality(Accounts \ accounts) + Cardinality(Buckets \ buckets)
      + Cardinality((buckets \X Names) \ objects)
      + Cardinality((accounts \X buckets) \ readers) <= 1

Symmetry == Permutations(Requests) \cup Permutations(Shares)
=============================================================================
