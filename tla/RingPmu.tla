------------------------------ MODULE RingPmu -------------------------------
(***************************************************************************)
(* The meters of TmRingPmu (tm_ring_pmu.cc) along the path of a request:   *)
(* inject bank of a master, V-Ring, eject banks of the bridge, serializers *)
(* of the bridge, its inject banks on the H-Ring, H-Ring, eject queue of   *)
(* the Home Agent.  Every queue of TmRingNodeInterface                     *)
(* (tm_ring_node_interface.h) reports to a meter, which integrates lazily: *)
(* it is settled when something happens to it and when a snapshot is       *)
(* taken.  The two eject banks of the bridge share one meter, which is not *)
(* told how full they are and counts by itself.                            *)
(*                                                                         *)
(* A ring is the set of packets it carries: RingLane has the rest of it.   *)
(***************************************************************************)
EXTENDS Integers, Sequences, FiniteSets

CONSTANTS
  Packets,
  InjectDepth, EjectDepth,  \* queue depths of the configuration
  SplitDepth,               \* rbrg_queue_depth
  MaxCycle, MaxRounds,      \* bounds: the time, the deflections of a packet
  NoPkt

ASSUME PmuAssumption ==
  /\ {InjectDepth, EjectDepth, SplitDepth} \subseteq Nat \ {0}
  /\ MaxCycle \in Nat /\ MaxRounds \in Nat
  /\ NoPkt \notin Packets

Dirs == {"CW", "CCW"}
Rings == {"V", "H"}

(* A queue is named by the interface it belongs to and its direction; one  *)
(* eject queue serves both directions of the Home Agent's station.         *)
Banks == ({"niu", "vside", "hside"} \X Dirs) \cup {<<"home", "CW">>}

Depth(b) ==
  CASE b[1] = "niu" -> InjectDepth
    [] b[1] = "hside" -> SplitDepth
    [] OTHER -> EjectDepth

MeterOf(b) == IF b[1] = "vside" THEN <<"vside", "LOCAL">> ELSE b

Meters == {MeterOf(b) : b \in Banks}

BanksOf(m) == {b \in Banks : MeterOf(b) = m}

(* Mutant: the meter of two banks is as deep as one of them. *)
MeterDepthOfOne(m) ==
  CASE m[1] = "niu" -> InjectDepth
    [] m[1] = "hside" -> SplitDepth
    [] OTHER -> EjectDepth

MeterDepth(m) ==
  CASE m[1] = "niu" -> InjectDepth
    [] m[1] = "hside" -> SplitDepth
    [] m[1] = "vside" -> 2 * EjectDepth
    [] OTHER -> EjectDepth

VARIABLES
  cycle,       \* clk_->time()
  queue,       \* packets in each bank
  occupancy,   \* QueueState.occupancy of each bank
  meter,       \* QueueEntry of each meter
  ring,        \* <<packet, direction>> pairs each ring carries
  slot,        \* serializer_slot, by output direction
  mark,        \* deflection state every packet carries
  cross,       \* TmRingDeflectionStats of each ring
  rbrg,        \* occupancy of the path in RbrgEntry
  fault,       \* a logic_error has been thrown
  sent,        \* bound: packets already issued
  truth        \* history: per meter, the packet-cycles and the full cycles
               \* since the reset

vars == <<cycle, queue, occupancy, meter, ring, slot, mark, cross, rbrg, fault,
          sent, truth>>

ClearMark == [started |-> FALSE, first |-> 0, count |-> 0]

NewMeter(c) ==
  [occupancy |-> 0, peak |-> 0, pushes |-> 0, pops |-> 0,
   area |-> 0, full |-> 0, last |-> c]

NoDeflections ==
  [events |-> 0, unique |-> 0, eligible |-> 0, completed |-> 0, rounds |-> 0,
   delay |-> 0]

Init ==
  /\ cycle = 0
  /\ queue = [b \in Banks |-> <<>>]
  /\ occupancy = [b \in Banks |-> 0]
  /\ meter = [m \in Meters |-> NewMeter(0)]
  /\ ring = [r \in Rings |-> {}]
  /\ slot = [d \in Dirs |-> NoPkt]
  /\ mark = [x \in Packets |-> ClearMark]
  /\ cross = [r \in Rings |-> NoDeflections]
  /\ rbrg = 0
  /\ fault = FALSE
  /\ sent = {}
  /\ truth = [m \in Meters |-> [area |-> 0, full |-> 0]]

-----------------------------------------------------------------------------
(* The queue meters *)

One(b) == IF b THEN 1 ELSE 0

Larger(m, n) == IF m > n THEN m ELSE n

(* settle_queue *)
Settled(e, depth) ==
  [e EXCEPT !.area = @ + e.occupancy * (cycle - e.last),
            !.full = @ + One(e.occupancy = depth) * (cycle - e.last),
            !.last = cycle]

(* Mutant: the occupancy changes before the time up to it is settled. *)
ObservedThenSettled(e, depth, after) ==
  Settled([e EXCEPT !.occupancy = after, !.peak = Larger(@, after)], depth)

(* What push accepted, push rejected and popped have in common. *)
Observed(e, depth, after) ==
  [Settled(e, depth) EXCEPT !.occupancy = after, !.peak = Larger(@, after)]

(* record_push and the aggregated meter's push_accepted *)
Push(b, x) ==
  LET m == MeterOf(b)
      blind == b[1] = "vside"
      after == IF blind THEN meter[m].occupancy + 1 ELSE occupancy[b] + 1
      e == Observed(meter[m], MeterDepth(m), after)
  IN  /\ queue' = [queue EXCEPT ![b] = Append(@, x)]
      /\ occupancy' = [occupancy EXCEPT ![b] = @ + 1]
      /\ IF blind /\ meter[m].occupancy >= MeterDepth(m)
         THEN fault' = TRUE /\ UNCHANGED meter
         ELSE /\ meter' = [meter EXCEPT ![m] = [e EXCEPT !.pushes = @ + 1]]
              /\ UNCHANGED fault

(* record_pop and the aggregated meter's popped *)
Pop(b) ==
  LET m == MeterOf(b)
      blind == b[1] = "vside"
      after == IF blind THEN meter[m].occupancy - 1 ELSE occupancy[b] - 1
      e == Observed(meter[m], MeterDepth(m), after)
  IN  /\ queue' = [queue EXCEPT ![b] = Tail(@)]
      /\ occupancy' = [occupancy EXCEPT ![b] = @ - 1]
      /\ IF blind /\ meter[m].occupancy = 0
         THEN fault' = TRUE /\ UNCHANGED meter
         ELSE /\ meter' = [meter EXCEPT ![m] = [e EXCEPT !.pops = @ + 1]]
              /\ UNCHANGED fault

HasRoom(b) == occupancy[b] < Depth(b)

(* What a snapshot reports of a meter. *)
Snapshot(m) == Settled(meter[m], MeterDepth(m))

-----------------------------------------------------------------------------
(* The stages of the path *)

(* forward_biu_request: the request is issued, or the bank refuses it, which *)
(* its meter is told.                                                      *)
Request(x, d) ==
  LET b == <<"niu", d>>
  IN  /\ x \notin sent
      /\ IF Len(queue[b]) < Depth(b)
         THEN Push(b, x) /\ sent' = sent \cup {x}
         ELSE /\ meter' = [meter EXCEPT ![b] =
                             Observed(@, MeterDepth(b), occupancy[b])]
              /\ UNCHANGED <<queue, occupancy, fault, sent>>
      /\ UNCHANGED <<cycle, ring, slot, mark, cross, rbrg, truth>>

Source(r) == IF r = "V" THEN "niu" ELSE "hside"

(* try_local_injection *)
Inject(r, d) ==
  LET b == <<Source(r), d>>
  IN  /\ queue[b] # <<>>
      /\ ring' = [ring EXCEPT ![r] = @ \cup {<<Head(queue[b]), d>>}]
      /\ Pop(b)
      /\ UNCHANGED <<cycle, slot, mark, cross, rbrg, sent, truth>>

EjectBank(r, d) == IF r = "V" THEN <<"vside", d>> ELSE <<"home", "CW">>

(* commit_eject and cross_packet_ejected *)
Eject(r, x, d) ==
  LET b == EjectBank(r, d)
  IN  /\ <<x, d>> \in ring[r] /\ HasRoom(b)
      /\ ring' = [ring EXCEPT ![r] = @ \ {<<x, d>>}]
      /\ Push(b, x)
      /\ cross' = [cross EXCEPT
           ![r].eligible = @ + 1,
           ![r].completed = @ + One(mark[x].started),
           ![r].rounds = @ + IF mark[x].started THEN mark[x].count ELSE 0,
           ![r].delay = @ + IF mark[x].started THEN cycle - mark[x].first ELSE 0]
      /\ UNCHANGED <<cycle, slot, mark, rbrg, sent, truth>>

(* process_transit at the destination without room, or with room reserved  *)
(* for another deflected packet: cross_packet_deflected.                   *)
Deflect(r, x, d) ==
  LET b == EjectBank(r, d)
      k == mark[x]
      reserved == One(\E y \in ring[r] : y[1] # x /\ mark[y[1]].started)
  IN  /\ <<x, d>> \in ring[r]
      /\ occupancy[b] + reserved >= Depth(b)
      /\ k.count < MaxRounds
      /\ mark' = [mark EXCEPT ![x] =
           IF k.started THEN [k EXCEPT !.count = @ + 1]
           ELSE [started |-> TRUE, first |-> cycle, count |-> k.count + 1]]
      /\ cross' = [cross EXCEPT ![r].events = @ + 1,
                                ![r].unique = @ + One(~k.started)]
      /\ UNCHANGED <<cycle, queue, occupancy, meter, ring, slot, rbrg, fault,
                     sent, truth>>

(* Mutant: the packet keeps its deflection state on the next ring. *)
Kept(x) == mark[x]

(* reset_ring_deflection_state, called by clear_ring_local_state *)
Cleared(x) == ClearMark

(* start_serializer: the head of an eject bank enters an output with room  *)
(* in its inject bank.                                                     *)
Cross(i, d) ==
  LET b == <<"vside", i>>
      x == Head(queue[b])
  IN  /\ queue[b] # <<>> /\ slot[d] = NoPkt /\ HasRoom(<<"hside", d>>)
      /\ Pop(b)
      /\ slot' = [slot EXCEPT ![d] = x]
      /\ mark' = [mark EXCEPT ![x] = Cleared(x)]
      /\ rbrg' = rbrg + 1
      /\ UNCHANGED <<cycle, ring, cross, sent, truth>>

(* handoff_serializer *)
HandOff(d) ==
  /\ slot[d] # NoPkt /\ HasRoom(<<"hside", d>>)
  /\ Push(<<"hside", d>>, slot[d])
  /\ slot' = [slot EXCEPT ![d] = NoPkt]
  /\ rbrg' = IF rbrg = 0 THEN 0 ELSE rbrg - 1
  /\ UNCHANGED <<cycle, ring, mark, cross, sent, truth>>

(* The Home Agent takes the request. *)
Take ==
  LET b == <<"home", "CW">>
  IN  /\ queue[b] # <<>>
      /\ Pop(b)
      /\ UNCHANGED <<cycle, ring, slot, mark, cross, rbrg, sent, truth>>

(* TmRingFabric::reset: queues and rings are emptied, then the PMU. *)
Reset ==
  /\ queue' = [b \in Banks |-> <<>>]
  /\ occupancy' = [b \in Banks |-> 0]
  /\ ring' = [r \in Rings |-> {}]
  /\ slot' = [d \in Dirs |-> NoPkt]
  /\ meter' = [m \in Meters |-> NewMeter(cycle)]
  /\ cross' = [r \in Rings |-> NoDeflections]
  /\ rbrg' = 0
  /\ truth' = [m \in Meters |-> [area |-> 0, full |-> 0]]
  /\ UNCHANGED <<cycle, mark, fault, sent>>

(* Packets in the banks of a meter. *)
Held(m) ==
  IF m[1] = "vside"
  THEN Len(queue[<<"vside", "CW">>]) + Len(queue[<<"vside", "CCW">>])
  ELSE Len(queue[m])

Tick ==
  /\ cycle < MaxCycle
  /\ cycle' = cycle + 1
  /\ truth' = [m \in Meters |->
       [area |-> truth[m].area + Held(m),
        full |-> truth[m].full +
                   One(\A b \in BanksOf(m) : Len(queue[b]) = Depth(b))]]
  /\ UNCHANGED <<queue, occupancy, meter, ring, slot, mark, cross, rbrg, fault,
                 sent>>

Next ==
  \/ \E x \in Packets, d \in Dirs : Request(x, d)
  \/ \E r \in Rings, d \in Dirs : Inject(r, d)
  \/ \E r \in Rings, x \in Packets, d \in Dirs : Eject(r, x, d)
  \/ \E r \in Rings, x \in Packets, d \in Dirs : Deflect(r, x, d)
  \/ \E i, d \in Dirs : Cross(i, d)
  \/ \E d \in Dirs : HandOff(d)
  \/ Take
  \/ Reset
  \/ Tick

Spec == Init /\ [][Next]_vars

-----------------------------------------------------------------------------
(* Properties *)

(* Three accounts of one thing agree: what the banks hold, what the node    *)
(* interface counts, what the meter counts; also for the meter of two banks *)
(* that no one tells, and no meter refuses a push or a pop.                *)
MeterAgreesWithQueues ==
  /\ ~fault
  /\ \A b \in Banks : occupancy[b] = Len(queue[b])
  /\ \A m \in Meters :
       /\ meter[m].occupancy = Held(m)
       /\ meter[m].pushes - meter[m].pops = Held(m)
       /\ meter[m].peak \in Held(m)..MeterDepth(m)
  /\ rbrg = Cardinality({d \in Dirs : slot[d] # NoPkt})

(* A snapshot at any moment reports the packet-cycles and the full cycles   *)
(* that have really passed since the reset, though a meter is settled only  *)
(* when something happens to it.                                           *)
SnapshotIsExact ==
  \A m \in Meters :
    /\ Snapshot(m).area = truth[m].area
    /\ Snapshot(m).full = truth[m].full

(* Packets on ring r that it has deflected, and their deflections.         *)
Late(r) ==
  {x \in Packets : mark[x].started /\ \E d \in Dirs : <<x, d>> \in ring[r]}

Rounds(r) == {y \in Late(r) \X (1 .. MaxRounds) : y[2] <= mark[y[1]].count}

(* Every deflection a ring reports is of a packet that has left that ring  *)
(* since or is still on it: nothing is counted on two rings of its path.   *)
DeflectionsAreAttributed ==
  \A r \in Rings :
    /\ cross[r].unique = cross[r].completed + Cardinality(Late(r))
    /\ cross[r].events = cross[r].rounds + Cardinality(Rounds(r))
    /\ cross[r].completed <= cross[r].eligible
=============================================================================
