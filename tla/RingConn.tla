------------------------------ MODULE RingConn ------------------------------
(***************************************************************************)
(* One lane of TmRingConn (tm_ring_conn.cc): a directed link between two   *)
(* Cross Stations with a serializer in front of a pipeline of fixed        *)
(* latency.  A slot occupies the serializer for as many cycles as its      *)
(* bytes need on the link; a slot that paid for that earlier on the same   *)
(* ring segment goes straight into the pipeline but still keeps the link   *)
(* busy.  Both waits are events of the kernel, which a reset cannot cancel *)
(* (it `retires' them), so an event of an earlier run may fire later.      *)
(*                                                                         *)
(* Time passes in cycles (Tick).  Events due in a cycle fire before the    *)
(* next one begins, in any order; events are kept as the sets of cycles    *)
(* still to go until each notification of it.                              *)
(***************************************************************************)
EXTENDS Naturals, Sequences

CONSTANTS
  Slots,       \* the slots a Cross Station may hand to the link
  Cycles,      \* serialization cycles of each slot
  Latency,     \* latency of the pipeline in cycles
  NoSlot       \* an empty serializer

Depth == Latency + 1

ASSUME ConnAssumption ==
  /\ Latency \in Nat
  /\ Cycles \in [Slots -> Nat \ {0}]
  /\ NoSlot \notin Slots

VARIABLES
  inflight,        \* inflight_count_
  serializer,      \* serializer_slots_
  available,       \* serializer_available_
  releasePending,  \* serializer_release_event_pending_
  movePending,     \* serializer_to_pipeline_event_pending_
  retiredRelease,  \* retired_serializer_release_event_pending_
  retiredMove,     \* retired_serializer_to_pipeline_event_pending_
  releaseDue,      \* cycles until each outstanding release event
  moveDue,         \* cycles until each outstanding move event
  pipeline,        \* slot_pipelines_, with the cycles until each slot is valid
  register,        \* transit register of the next station (at most one slot)
  hold             \* history: cycles the last slot still needs on the wires

serializerVars == <<serializer, available, releasePending, movePending>>
retiredVars == <<retiredRelease, retiredMove>>
eventVars == <<releaseDue, moveDue>>
vars == <<inflight, serializerVars, retiredVars, eventVars, pipeline, register,
          hold>>

Init ==
  /\ inflight = 0
  /\ serializer = NoSlot
  /\ available = TRUE
  /\ releasePending = FALSE /\ movePending = FALSE
  /\ retiredRelease = FALSE /\ retiredMove = FALSE
  /\ releaseDue = {} /\ moveDue = {}
  /\ pipeline = <<>>
  /\ register = <<>>
  /\ hold = 0

-----------------------------------------------------------------------------

(* Mutants: a reset link accepts before the retired release has fired; an  *)
(* accepting link ignores its serializer.                                  *)
CanAcceptEarly ==
  ~retiredMove /\ available /\ inflight < Depth /\ Len(pipeline) < Depth

CanAcceptAlways ==
  ~retiredRelease /\ ~retiredMove /\ inflight < Depth /\ Len(pipeline) < Depth

CanAccept ==
  /\ ~retiredRelease /\ ~retiredMove
  /\ available
  /\ inflight < Depth /\ Len(pipeline) < Depth

Entering(x) == [slot |-> x, wait |-> Latency]

(* accept_slot: whether the slot has paid is for the Cross Station before  *)
(* it to say, so both cases are possible.                                  *)
Reserve(x) ==
  /\ CanAccept
  /\ available' = FALSE
  /\ releasePending' = TRUE
  /\ releaseDue' = releaseDue \cup {Cycles[x]}
  /\ inflight' = inflight + 1
  /\ hold' = Cycles[x]
  /\ UNCHANGED <<retiredVars, register>>

AcceptPaid(x) ==
  /\ Reserve(x)
  /\ pipeline' = Append(pipeline, Entering(x))
  /\ UNCHANGED <<serializer, movePending, moveDue>>

(* Mutant: the slot leaves the serializer when the link is released. *)
AcceptUnpaidLate(x) ==
  /\ Reserve(x)
  /\ serializer' = x
  /\ movePending' = TRUE
  /\ moveDue' = moveDue \cup {Cycles[x]}
  /\ UNCHANGED pipeline

AcceptUnpaid(x) ==
  /\ Reserve(x)
  /\ serializer' = x
  /\ movePending' = TRUE
  /\ moveDue' = moveDue \cup {Cycles[x] - 1}
  /\ UNCHANGED pipeline

(* release_serializer, when a release event is due: a retired one is only  *)
(* forgotten, a live one makes the serializer available.                   *)
ReleaseEvent ==
  /\ 0 \in releaseDue
  /\ releaseDue' = releaseDue \ {0}
  /\ retiredRelease' = FALSE
  /\ releasePending' = (releasePending /\ retiredRelease)
  /\ available' = (available \/ (releasePending /\ ~retiredRelease))
  /\ UNCHANGED <<inflight, serializer, movePending, retiredMove, moveDue,
                 pipeline, register, hold>>

(* move_serializer_to_pipeline, when a move event is due. *)
MoveEvent ==
  LET live == movePending /\ ~retiredMove
  IN  /\ 0 \in moveDue
      /\ moveDue' = moveDue \ {0}
      /\ retiredMove' = FALSE
      /\ movePending' = (movePending /\ retiredMove)
      /\ pipeline' = IF live THEN Append(pipeline, Entering(serializer))
                             ELSE pipeline
      /\ serializer' = IF live THEN NoSlot ELSE serializer
      /\ UNCHANGED <<inflight, available, releasePending, retiredRelease,
                     releaseDue, register, hold>>

(* Mutant: the slot is still counted when it has left. *)
DrainUncounted ==
  /\ pipeline # <<>> /\ Head(pipeline).wait = 0
  /\ register = <<>>
  /\ register' = <<Head(pipeline).slot>>
  /\ pipeline' = Tail(pipeline)
  /\ UNCHANGED <<inflight, serializerVars, retiredVars, eventVars, hold>>

(* drain_ready_slots, while the head of the pipeline is valid. *)
Drain ==
  /\ pipeline # <<>> /\ Head(pipeline).wait = 0
  /\ register = <<>>
  /\ register' = <<Head(pipeline).slot>>
  /\ inflight' = inflight - 1
  /\ pipeline' = Tail(pipeline)
  /\ UNCHANGED <<serializerVars, retiredVars, eventVars, hold>>

(* The next Cross Station takes the slot out of its transit register. *)
TakeFromRegister ==
  /\ register # <<>>
  /\ register' = <<>>
  /\ UNCHANGED <<inflight, serializerVars, retiredVars, eventVars, pipeline,
                 hold>>

(* Mutants: a reset does not retire the events that are pending; it waits  *)
(* for a release event even when none is.                                  *)
ClearLink ==
  /\ inflight' = 0 /\ available' = TRUE
  /\ serializer' = NoSlot
  /\ releasePending' = FALSE /\ movePending' = FALSE
  /\ pipeline' = <<>> /\ register' = <<>>
  /\ UNCHANGED <<eventVars, hold>>

ResetForgetsEvents == ClearLink /\ UNCHANGED retiredVars

ResetAwaitsRelease ==
  ClearLink /\ retiredRelease' = TRUE /\ retiredMove' = (retiredMove \/ movePending)

(* The fabric resets stations and links together. *)
Reset ==
  /\ inflight' = 0
  /\ available' = TRUE
  /\ retiredRelease' = (retiredRelease \/ releasePending)
  /\ retiredMove' = (retiredMove \/ movePending)
  /\ serializer' = NoSlot
  /\ releasePending' = FALSE
  /\ movePending' = FALSE
  /\ pipeline' = <<>>
  /\ register' = <<>>
  /\ UNCHANGED <<eventVars, hold>>

Earlier(n) == IF n = 0 THEN 0 ELSE n - 1

Tick ==
  /\ 0 \notin releaseDue \cup moveDue
  /\ releaseDue' = {n - 1 : n \in releaseDue}
  /\ moveDue' = {n - 1 : n \in moveDue}
  /\ pipeline' = [i \in DOMAIN pipeline |->
                    [pipeline[i] EXCEPT !.wait = Earlier(@)]]
  /\ hold' = Earlier(hold)
  /\ UNCHANGED <<inflight, serializerVars, retiredVars, register>>

Next ==
  \/ \E x \in Slots : AcceptPaid(x)
  \/ \E x \in Slots : AcceptUnpaid(x)
  \/ ReleaseEvent
  \/ MoveEvent
  \/ Drain
  \/ TakeFromRegister
  \/ Reset
  \/ Tick

(* Time passes, due events fire, a valid slot is drained every cycle and   *)
(* the next station keeps serving its register.                            *)
Fairness ==
  /\ WF_vars(Tick)
  /\ WF_vars(ReleaseEvent)
  /\ WF_vars(MoveEvent)
  /\ WF_vars(Drain)
  /\ WF_vars(TakeFromRegister)

Spec == Init /\ [][Next]_vars

FairSpec == Spec /\ Fairness

-----------------------------------------------------------------------------
(* Properties *)

FlagTypes ==
  /\ available \in BOOLEAN
  /\ releasePending \in BOOLEAN /\ movePending \in BOOLEAN
  /\ retiredRelease \in BOOLEAN /\ retiredMove \in BOOLEAN

PipelineEntry == [slot : Slots, wait : Nat]

DataTypes ==
  /\ inflight \in Nat
  /\ serializer \in Slots \cup {NoSlot}
  /\ releaseDue \in SUBSET Nat /\ moveDue \in SUBSET Nat
  /\ pipeline \in Seq(PipelineEntry)
  /\ register \in Seq(Slots)
  /\ hold \in Nat

(* The type invariant. *)
TypeOK == FlagTypes /\ DataTypes

Outstanding(due, live, retired) ==
  /\ ~(live /\ retired)
  /\ live \/ retired => \E n \in due : due = {n}
  /\ ~live /\ ~retired => due = {}

HoldCovered == hold # 0 => \E n \in releaseDue : hold <= n

(* Each event is outstanding at most once, and exactly one of the pending  *)
(* flags says for which run: with a second notification the one-bit        *)
(* retired flags could not tell a stale event from a live one.             *)
EventsMatchFlags ==
  /\ Outstanding(releaseDue, releasePending, retiredRelease)
  /\ Outstanding(moveDue, movePending, retiredMove)

(* A slot in the serializer is moved before the link is released, so the   *)
(* serializer is never overwritten.                                        *)
MoveBeforeRelease ==
  /\ movePending <=> serializer # NoSlot
  /\ available <=> ~releasePending
  /\ movePending => releasePending
  /\ retiredMove => retiredRelease
  /\ \A m \in moveDue, n \in releaseDue : m < n

(* inflight_count_ counts the slots the link holds, and the pipeline has   *)
(* room for the slot in the serializer when it is moved.                   *)
InflightCounts ==
  /\ inflight = Len(pipeline) + (IF serializer = NoSlot THEN 0 ELSE 1)
  /\ inflight <= Depth

(* The link never takes two slots closer than the serialization time of    *)
(* the first, also when the fabric is reset in between: a stale event must *)
(* not reopen it early.                                                    *)
SerializationIsPaid ==
  [][\A x \in Slots : AcceptPaid(x) \/ AcceptUnpaid(x) => hold = 0]_vars

(* The link is the bounded FIFO that Cross Stations see: no slot is lost   *)
(* or overtaken on it, paid or unpaid, and it is busy until released.      *)
SlotsOf(entries) == [i \in DOMAIN entries |-> entries[i].slot]

LinkFifo ==
  SlotsOf(pipeline) \o (IF serializer = NoSlot THEN <<>> ELSE <<serializer>>)

LinkBusy == ~available \/ retiredRelease \/ retiredMove

Link == INSTANCE RingLink WITH
  fifo <- LinkFifo, exit <- register, busy <- LinkBusy

ImplementsLink == Link!LinkSpec

(* However often it is reset, a link that refuses slots because of its     *)
(* serializer opens again.                                                 *)
LinkReopens == LinkBusy ~> ~LinkBusy
=============================================================================
