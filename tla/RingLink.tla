------------------------------ MODULE RingLink ------------------------------
(***************************************************************************)
(* What a Cross Station relies on when it hands a slot to an output link:  *)
(* a FIFO of at most Depth slots that takes one slot at a time and, after  *)
(* each, refuses others until it is released.  This is how module RingLane *)
(* sees a link.                                                            *)
(***************************************************************************)
EXTENDS Naturals, Sequences

CONSTANTS Slots, Depth

VARIABLES fifo, busy, exit

linkVars == <<fifo, busy, exit>>

LinkInit == fifo = <<>> /\ busy = FALSE /\ exit = <<>>

Take(x) ==
  /\ ~busy
  /\ Len(fifo) < Depth
  /\ fifo' = Append(fifo, x)
  /\ busy' = TRUE
  /\ UNCHANGED exit

Release ==
  /\ busy
  /\ busy' = FALSE
  /\ UNCHANGED <<fifo, exit>>

(* The oldest slot enters the transit register of the next station. *)
Deliver ==
  /\ fifo # <<>>
  /\ exit = <<>>
  /\ exit' = <<Head(fifo)>>
  /\ fifo' = Tail(fifo)
  /\ UNCHANGED busy

Collect ==
  /\ exit # <<>>
  /\ exit' = <<>>
  /\ UNCHANGED <<fifo, busy>>

(* A reset drops the slots but does not end the wait for the release. *)
Drop == fifo' = <<>> /\ exit' = <<>> /\ UNCHANGED busy

LinkNext ==
  \/ \E x \in Slots : Take(x)
  \/ Release
  \/ Deliver
  \/ Collect
  \/ Drop

LinkSpec == LinkInit /\ [][LinkNext]_linkVars
=============================================================================
