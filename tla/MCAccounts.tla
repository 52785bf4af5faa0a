----------------------------- MODULE MCAccounts -----------------------------
EXTENDS Accounts, TLC

CONSTANTS a1, a2, a3, own, x1, b0, b1, t1, t2, r1, r2, nobody

\* All but the seeded role and bucket are interchangeable.
Symmetry == Permutations(Accounts) \cup Permutations(Tokens) \cup Permutations(Requests)
=============================================================================
