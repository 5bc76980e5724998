---------------------------- MODULE MCRingMaster ----------------------------
(* Three reads and three writes, four of them in flight at most. *)
EXTENDS RingMaster

CONSTANTS r1, r2, r3, w1, w2, w3

ThreeReads == <<r1, r2, r3>>
ThreeWrites == <<w1, w2, w3>>
=============================================================================
