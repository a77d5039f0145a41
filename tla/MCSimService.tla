----------------------------- MODULE MCSimService -----------------------------
(* Three requests of equal standing, two servers of equal standing.            *)
EXTENDS SimService, TLC

CONSTANTS r1, r2, r3, e1, e2

Symmetric == Permutations({r1, r2, r3}) \cup Permutations({e1, e2})
=============================================================================
