---------------------------- MODULE MCRingBridge ----------------------------
(* Two packets prefer clockwise, one of them over two cycles, one prefers  *)
(* counter-clockwise, and one is a carrier of which both directions reach  *)
(* the last recipient equally far.                                         *)
EXTENDS RingBridge

CONSTANTS p1, p2, q1, t1

FourPackets == {p1, p2, q1, t1}

PreferenceOf ==
  [x \in Packets |->
     IF x \in {p1, p2} THEN "CW" ELSE IF x = t1 THEN "TIE" ELSE "CCW"]
CyclesOf == [x \in Packets |-> IF x \in {p2, q1} THEN 2 ELSE 1]
=============================================================================
