----------------------------- MODULE MCUploads -----------------------------
EXTENDS Uploads

CONSTANTS l, p, k1, k2, k3, r1, r2, noRow

\* The default allocation is soft; the other one is hard and small.
MCDefaultRow == [bytes |-> 9, mode |-> "soft"]
MCRows == {MCDefaultRow, [bytes |-> 1, mode |-> "hard"]}
=============================================================================
