----------------------------- MODULE MCRingLane -----------------------------
(* Small rings for TLC.  With two stations every route is clockwise        *)
(* (route_direction breaks the tie that way), so one direction carries     *)
(* everything.                                                             *)
EXTENDS RingLane, TLC

CONSTANTS a1, a2, a3, b1, b2

(* Two stations, two packets one way and two the other: the lane has four  *)
(* places and takes three slots, so injectors meet a full lane.            *)
Four == {a1, a2, b1, b2}
FourSrc == [p \in Four |-> IF p \in {a1, a2} THEN 0 ELSE 1]
FourDst == [p \in Four |-> {1 - FourSrc[p]}]

(* Three packets for the same station, sent again and again. *)
Hot == {a1, a2, a3}
HotSrc == [p \in Hot |-> 0]
HotDst == [p \in Hot |-> {1}]

(* Three stations, the first one a bridge, with carriers for both other    *)
(* stations, in either direction: one finds the eject entries taken by the *)
(* copies of the other, at one station or at both.                         *)
Fan == {a1, a2}
FanSrc == [p \in Fan |-> 0]
FanDst == [p \in Fan |-> {1, 2}]
FanSymmetry == Permutations(Fan)
=============================================================================
