---------------------------- MODULE MCRingAddress ----------------------------
(* All small configurations, those the fabric must refuse among them. *)
EXTENDS RingAddress, Bitwise

SmallConfigs == [masters : 0 .. 10, perRing : 0 .. 5, targets : 0 .. 4,
                 interleave : Interleaving]

(* Bit by bit or at once, it is the same operation. *)
ASSUME \A x, y \in 0 .. Pow2[Width] - 1 : BitXor(x, y) = x ^^ y
=============================================================================
