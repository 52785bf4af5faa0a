------------------------------ MODULE MCRehash ------------------------------
EXTENDS Rehash

CONSTANTS o1, md5, sha256, r1, r2, x1, x2
=============================================================================
