----------------------------- MODULE MCRingPmu ------------------------------
(* Two requests are enough to fill both banks of the shared meter, and for *)
(* one of them to be deflected by the other on either ring.                *)
EXTENDS RingPmu, TLC

CONSTANTS req1, req2

TwoPackets == {req1, req2}

PacketSymmetry == Permutations(TwoPackets)
=============================================================================
