----------------------------- MODULE MCRingConn -----------------------------
(* A link of latency 2 (three slots deep) and slots of one, two and three    *)
(* cycles: a slot may be paid or not, and resets come at any time.         *)
EXTENDS RingConn

CONSTANTS short, middle, long

SlotsOfThree == {short, middle, long}
CyclesOfThree ==
  [x \in SlotsOfThree |-> IF x = short THEN 1 ELSE IF x = middle THEN 2 ELSE 3]
=============================================================================
