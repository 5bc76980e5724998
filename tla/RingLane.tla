------------------------------ MODULE RingLane ------------------------------
(***************************************************************************)
(* One subnet of one ring domain: the Cross Stations, the directed links   *)
(* between them, the slot pool of each direction and the ring-side queues  *)
(* of the endpoints (tm_ring_cross_station.cc, tm_ring_slot_pool.h,        *)
(* tm_ring_node_interface.h; of tm_ring_conn.cc what a Cross Station can   *)
(* see, module RingConn has the rest).  The three subnets share nothing in *)
(* a ring domain, so one of them stands for all.                           *)
(*                                                                         *)
(* Time is abstracted: processes run in any order, each one atomically, as *)
(* the event kernel runs them.  A Cross Station serves its CW output, then *)
(* its CCW output, in ONE step, so the state a station reads and writes is *)
(* one record, `ring', and the two halves of the step are composed.        *)
(* A bridge may inject a carrier for several stations of its ring (read    *)
(* fan-out): each of them takes a copy and the carrier goes on.            *)
(***************************************************************************)
EXTENDS Naturals, Sequences, FiniteSets

CONSTANTS
  N,            \* number of stations of the ring
  LinkDepth,    \* pipeline_depth_ of a link: link latency + 1
  InjectDepth,  \* entries of an inject bank
  EjectDepth,   \* entries of an eject queue
  Packets,      \* the packets endpoints may send
  Src, Dst,     \* station that sends a packet, stations it is for
  Directional,  \* stations with one eject queue per direction (the RBRGs)
  Resettable,   \* whether the fabric may be reset while it runs
  NoPkt,        \* the packet of a slot that carries only a tag
  NoStation,    \* no tag owner (tm_ring_invalid_tag_owner)
  NoSlot        \* an empty transit register

Station == 0 .. N - 1
Dirs == {"CW", "CCW"}

ASSUME LaneAssumption ==
  /\ N \in Nat \ {0, 1}
  /\ LinkDepth \in Nat \ {0}
  /\ InjectDepth \in Nat \ {0}
  /\ EjectDepth \in Nat \ {0}
  /\ Src \in [Packets -> Station]
  /\ Dst \in [Packets -> SUBSET Station]
  /\ Directional \subseteq Station
  /\ \A p \in Packets :
       /\ Dst[p] # {} /\ Src[p] \notin Dst[p]
       /\ Cardinality(Dst[p]) > 1 => Src[p] \in Directional
  /\ Resettable \in BOOLEAN
  /\ NoPkt \notin Packets
  /\ NoStation \notin Station

(* rest: the stations the packet has still to reach (pending_stations). *)
Slot == [pkt : Packets \cup {NoPkt},
         rest : SUBSET Station,
         itag : Station \cup {NoStation},
         etag : Station \cup {NoStation}]

ASSUME NoSlotAssumption == NoSlot \notin Slot

VARIABLE ring

-----------------------------------------------------------------------------
(* Topology of the ring *)

Neighbor(s, d) == IF d = "CW" THEN (s + 1) % N ELSE (s + N - 1) % N

Route(s, t) ==
  IF (t + N - s) % N <= (s + N - t) % N THEN "CW" ELSE "CCW"

(* The directions an endpoint may send p in: the shorter way, but a bridge *)
(* takes the output that is free.                                          *)
Ways(p) ==
  IF Src[p] \in Directional THEN Dirs ELSE {Route(Src[p], t) : t \in Dst[p]}

(* A link holds LinkDepth slots and feeds a transit register of one slot;  *)
(* try_acquire keeps one slot of the whole closed lane empty.              *)
Capacity == N * (LinkDepth + 1)

(* The eject queue that traffic arriving in direction d goes to. *)
Bank(s, d) == IF s \in Directional THEN d ELSE "CW"

(* The endpoint queues, tags and slots before any traffic.  A serializer   *)
(* that is busy stays so over a reset: its release event cannot be         *)
(* cancelled and the link refuses slots until that event has been seen.    *)
ResetRing(busy) ==
  [inject  |-> [d \in Dirs |-> [s \in Station |-> <<>>]],
   eject   |-> [s \in Station |-> [b \in Dirs |-> <<>>]],
   transit |-> [d \in Dirs |-> [s \in Station |-> NoSlot]],
   link    |-> [d \in Dirs |-> [s \in Station |-> <<>>]],
   busy    |-> busy,
   used    |-> [d \in Dirs |-> 0],
   iTag    |-> [d \in Dirs |-> [s \in Station |-> FALSE]],
   next    |-> [d \in Dirs |-> [s \in Station |-> "LOCAL"]],
   eTag    |-> [s \in Station |-> [b \in Dirs |-> NoPkt]]]

-----------------------------------------------------------------------------
(* Every operator below reads a ring state r; those of the second group    *)
(* return the state after one effect, so that a step of a station can      *)
(* chain them in the order of the code.                                    *)

Waiting(r, s, d) == r.inject[d][s] # <<>>

TransitReady(r, s, d) == r.transit[d][s] # NoSlot

(* active_on_ring: a bridge puts a carrier on the ring only for several     *)
(* stations and turns one for a single recipient into a plain packet       *)
(* (prepare_v_segment); a carrier with one station left is still one.      *)
IsFanout(slot) == Cardinality(Dst[slot.pkt]) > 1

(* A carrier is for the stations that have not had their copy. *)
IsDestination(s, slot) == s \in slot.rest

(* Mutant: the pool hands out its last slot too. *)
CanAcquireAll(r, d) == r.used[d] < Capacity

CanAcquire(r, d) == r.used[d] + 1 < Capacity

Accepts(r, s, d) == ~r.busy[d][s] /\ Len(r.link[d][s]) < LinkDepth

InjectionReady(r, s, d) ==
  /\ ~r.iTag[d][s]
  /\ Waiting(r, s, d)
  /\ CanAcquire(r, d)

OwnsETag(r, s, d, slot) ==
  /\ r.eTag[s][Bank(s, d)] # NoPkt
  /\ slot.etag = s
  /\ r.eTag[s][Bank(s, d)] = slot.pkt

(* Mutants: the comparison is off by one; no entry is kept for the owner of *)
(* the reservation; one is kept even when the owner itself arrives.        *)
CanEjectOneMore(r, s, d, slot) == Len(r.eject[s][Bank(s, d)]) <= EjectDepth

CanEjectAny(r, s, d, slot) == Len(r.eject[s][Bank(s, d)]) < EjectDepth

CanEjectStrictly(r, s, d, slot) ==
  Len(r.eject[s][Bank(s, d)])
    + (IF r.eTag[s][Bank(s, d)] = NoPkt THEN 0 ELSE 1) < EjectDepth

(* While another packet holds the reservation one entry is kept for it. *)
CanEject(r, s, d, slot) ==
  LET b == Bank(s, d)
      kept == IF r.eTag[s][b] = NoPkt \/ OwnsETag(r, s, d, slot) THEN 0 ELSE 1
  IN  Len(r.eject[s][b]) + kept < EjectDepth

(* mark_e_tag_for_forward: a packet deflected at its destination takes the *)
(* reservation when it is free.                                            *)
MarksETag(r, s, d, slot) ==
  /\ IsDestination(s, slot)
  /\ r.eTag[s][Bank(s, d)] = NoPkt
  /\ slot.etag = NoStation

(* try_preserve_or_replace_i_tag: the tag of another station, or one that  *)
(* this station still needs, may not get lost with the slot.               *)
MustPreserve(r, s, d, slot) ==
  \/ slot.itag \notin {s, NoStation}
  \/ slot.itag = s /\ Waiting(r, s, d)

Forward(r, s, d, slot) ==
  [r EXCEPT !.link[d][s] = Append(@, slot), !.busy[d][s] = TRUE]

Leave(r, s, d) == [r EXCEPT !.transit[d][s] = NoSlot]

Free(r, d) == [r EXCEPT !.used[d] = @ - 1]

Acquire(r, d) == [r EXCEPT !.used[d] = @ + 1]

Prefer(r, s, d, source) == [r EXCEPT !.next[d][s] = source]

SetITag(r, s, d, pending) == [r EXCEPT !.iTag[d][s] = pending]

Carrier(p) ==
  [pkt |-> p, rest |-> Dst[p], itag |-> NoStation, etag |-> NoStation]

InjectHead(r, s, d) ==
  [Forward(r, s, d, Carrier(Head(r.inject[d][s])))
     EXCEPT !.inject[d][s] = Tail(@)]

(* commit_eject: the owner of the reservation gives it up on arrival. *)
Eject(r, s, d, slot) ==
  LET b == Bank(s, d)
  IN  [r EXCEPT !.eject[s][b] = Append(@, slot.pkt),
                !.eTag[s][b] = IF OwnsETag(r, s, d, slot) THEN NoPkt ELSE @]

-----------------------------------------------------------------------------
(* What serving output d of station s does, in the order of the code.      *)

(* Mutant: injects past the station's own I-tag. *)
InjectPastTag(r, s, d) ==
  IF Waiting(r, s, d) /\ CanAcquire(r, d) /\ Accepts(r, s, d)
  THEN Prefer(InjectHead(Acquire(r, d), s, d), s, d, "TRANSIT") ELSE r

(* try_normal_injection, called when no I-tag of s is out on the lane. *)
InjectNormally(r, s, d) ==
  IF ~r.iTag[d][s] /\ Waiting(r, s, d) /\ CanAcquire(r, d) /\ Accepts(r, s, d)
  THEN Prefer(InjectHead(Acquire(r, d), s, d), s, d, "TRANSIT")
  ELSE r

(* An empty slot that comes round with an I-tag: its owner uses it, or     *)
(* gives it back when nothing waits any more; others pass it on.           *)
ServeTaggedEmpty(r, s, d, slot) ==
  CASE slot.itag = s /\ ~Waiting(r, s, d) ->
         Leave(Free(SetITag(r, s, d, FALSE), d), s, d)
    [] slot.itag = s /\ Waiting(r, s, d) /\ Accepts(r, s, d) ->
         Prefer(Leave(InjectHead(SetITag(r, s, d, FALSE), s, d), s, d),
                s, d, "TRANSIT")
    [] slot.itag # s /\ Accepts(r, s, d) ->
         Prefer(Leave(Forward(r, s, d, slot), s, d), s, d, "LOCAL")
    [] OTHER -> r

(* try_preserve_or_replace_i_tag, then commit_eject: the slot a packet     *)
(* arrives in goes on as a tagged empty slot, is taken over by the packet  *)
(* waiting here, or is given back to the pool.                             *)
ServeArrival(r, s, d, slot) ==
  LET arrived == Leave(Eject(r, s, d, slot), s, d)
      othersTag == slot.itag \notin {s, NoStation}
      ownTag == slot.itag = s
      mayReplace == Waiting(r, s, d) /\ (ownTag \/ ~r.iTag[d][s])
  IN  CASE othersTag /\ Accepts(r, s, d) ->
             Prefer(Forward(arrived, s, d,
                            [pkt |-> NoPkt, rest |-> {},
                             itag |-> slot.itag, etag |-> NoStation]),
                    s, d, "TRANSIT")
        [] ~othersTag /\ mayReplace /\ Accepts(r, s, d) ->
             Prefer(InjectHead(SetITag(arrived, s, d, FALSE), s, d),
                    s, d, "TRANSIT")
        [] ~MustPreserve(r, s, d, slot) /\ ~(mayReplace /\ Accepts(r, s, d)) ->
             Free(IF ownTag THEN SetITag(arrived, s, d, FALSE) ELSE arrived, d)
        [] OTHER -> r

(* Mutants: the copy that goes on keeps the mark of a reservation that is  *)
(* given up here; the copy is delivered even when the link refuses the     *)
(* rest, and comes again.                                                  *)
DeliverCopyKeepingMark(r, s, d, slot) ==
  IF Accepts(r, s, d)
  THEN Prefer(Leave(Eject(Forward(r, s, d, [slot EXCEPT !.rest = @ \ {s}]),
                          s, d, slot), s, d),
              s, d, "LOCAL")
  ELSE r

DeliverCopyAnyway(r, s, d, slot) ==
  LET onward == [slot EXCEPT
                   !.rest = @ \ {s},
                   !.etag = IF OwnsETag(r, s, d, slot) THEN NoStation ELSE @]
  IN  IF Accepts(r, s, d)
      THEN Prefer(Leave(Eject(Forward(r, s, d, onward), s, d, slot), s, d),
                  s, d, "LOCAL")
      ELSE Eject(r, s, d, slot)

(* process_fanout_transit with other stations still to reach: a copy that  *)
(* no longer counts this station goes on and a copy is taken off, both or  *)
(* neither.  The slot stays in use, with any I-tag it carries.             *)
DeliverCopy(r, s, d, slot) ==
  LET onward == [slot EXCEPT
                   !.rest = @ \ {s},
                   !.etag = IF OwnsETag(r, s, d, slot) THEN NoStation ELSE @]
  IN  IF Accepts(r, s, d)
      THEN Prefer(Leave(Eject(Forward(r, s, d, onward), s, d, slot), s, d),
                  s, d, "LOCAL")
      ELSE r

(* A packet that goes on: it is not for s, or s has no room for it and     *)
(* deflects it, with a reservation (E-tag) when none is out.  A station    *)
(* that waits while the lane is full leaves its I-tag on the slot of a     *)
(* packet, though not on that of a carrier for several stations.           *)
ServeThrough(r, s, d, slot) ==
  LET b == Bank(s, d)
      setI == /\ ~IsFanout(slot)
              /\ ~r.iTag[d][s] /\ Waiting(r, s, d)
              /\ ~CanAcquire(r, d) /\ slot.itag = NoStation
      setE == MarksETag(r, s, d, slot)
      marked == [slot EXCEPT !.itag = IF setI THEN s ELSE @,
                             !.etag = IF setE THEN s ELSE @]
      moved == Leave(Forward(r, s, d, marked), s, d)
      tagged == IF setI THEN SetITag(moved, s, d, TRUE) ELSE moved
      reserved == IF setE THEN [tagged EXCEPT !.eTag[s][b] = slot.pkt]
                          ELSE tagged
  IN  IF Accepts(r, s, d) THEN Prefer(reserved, s, d, "LOCAL") ELSE r

ProcessTransit(r, s, d) ==
  LET slot == r.transit[d][s]
  IN  CASE slot.pkt = NoPkt -> ServeTaggedEmpty(r, s, d, slot)
        [] IsDestination(s, slot) /\ CanEject(r, s, d, slot) ->
             IF slot.rest = {s} THEN ServeArrival(r, s, d, slot)
                                ELSE DeliverCopy(r, s, d, slot)
        [] OTHER -> ServeThrough(r, s, d, slot)

(* schedule_output: when both can go, the source served last waits.  The   *)
(* injection the code tries once more after a transit slot that went       *)
(* nowhere never succeeds: that slot was either blocked (the output counts *)
(* as used), or left without a replacement, which happens only when        *)
(* nothing waits, an I-tag is out or the link refuses.                     *)
ServeOutput(r, s, d) ==
  LET localWins == \/ ~TransitReady(r, s, d)
                   \/ InjectionReady(r, s, d) /\ r.next[d][s] = "LOCAL"
  IN  IF localWins THEN InjectNormally(r, s, d) ELSE ProcessTransit(r, s, d)

-----------------------------------------------------------------------------
(* Places of packets *)

SlotsOn(r, d) ==
  {r.transit[d][s] : s \in {x \in Station : r.transit[d][x] # NoSlot}} \cup
  UNION {{r.link[d][s][i] : i \in DOMAIN r.link[d][s]} : s \in Station}

Carried(r) == {slot.pkt : slot \in UNION {SlotsOn(r, d) : d \in Dirs}} \ {NoPkt}

Queued(r) ==
  UNION {{r.inject[d][s][i] : i \in DOMAIN r.inject[d][s]} :
           d \in Dirs, s \in Station}

Arrived(r) ==
  UNION {{r.eject[s][b][i] : i \in DOMAIN r.eject[s][b]} :
           b \in Dirs, s \in Station}

-----------------------------------------------------------------------------
(* The processes *)

Init == ring = ResetRing([d \in Dirs |-> [s \in Station |-> FALSE]])

(* An endpoint hands a packet to the ring. *)
Offer(p) ==
  /\ p \notin Carried(ring) \cup Queued(ring) \cup Arrived(ring)
  /\ \E d \in Ways(p) :
       /\ Len(ring.inject[d][Src[p]]) < InjectDepth
       /\ ring' = [ring EXCEPT !.inject[d][Src[p]] = Append(@, p)]

(* schedule_subnet runs while a transit register or inject bank of s has   *)
(* something to serve.                                                     *)
Schedule(s) ==
  /\ \E d \in Dirs : Waiting(ring, s, d) \/ TransitReady(ring, s, d)
  /\ ring' = ServeOutput(ServeOutput(ring, s, "CW"), s, "CCW")

(* drain_ready_slots: the oldest slot of a link enters the next station. *)
Drain(s, d) ==
  LET t == Neighbor(s, d)
  IN  /\ ring.link[d][s] # <<>>
      /\ ring.transit[d][t] = NoSlot
      /\ ring' = [ring EXCEPT !.transit[d][t] = Head(ring.link[d][s]),
                              !.link[d][s] = Tail(@)]

(* release_serializer: the link may take its next slot. *)
ReleaseSerializer(s, d) ==
  /\ ring.busy[d][s]
  /\ ring' = [ring EXCEPT !.busy[d][s] = FALSE]

(* The endpoint of s takes the oldest packet of an eject queue. *)
Consume(s, b) ==
  /\ ring.eject[s][b] # <<>>
  /\ ring' = [ring EXCEPT !.eject[s][b] = Tail(@)]

(* Mutant: the stations keep their reservations over a reset. *)
ResetKeepingTags ==
  Resettable /\ ring' = [ResetRing(ring.busy) EXCEPT !.eTag = ring.eTag]

Reset ==
  /\ Resettable
  /\ ring' = ResetRing(ring.busy)

Next ==
  \/ \E p \in Packets : Offer(p)
  \/ \E s \in Station : Schedule(s)
  \/ \E s \in Station, d \in Dirs : Drain(s, d)
  \/ \E s \in Station, d \in Dirs : ReleaseSerializer(s, d)
  \/ \E s \in Station, b \in Dirs : Consume(s, b)
  \/ Reset

(* A process whose queue holds something is run again every cycle, a       *)
(* release event that is pending fires, and the endpoints keep taking what *)
(* arrives (the ejection side of a NIU, RBRG or memory port retries while  *)
(* its queue is not empty).  Nothing forces an endpoint to send.           *)
Fairness ==
  /\ \A s \in Station : WF_ring(Schedule(s))
  /\ \A s \in Station, d \in Dirs : WF_ring(Drain(s, d))
  /\ \A s \in Station, d \in Dirs : WF_ring(ReleaseSerializer(s, d))
  /\ \A s \in Station, b \in Dirs : WF_ring(Consume(s, b))

Spec == Init /\ [][Next]_ring

FairSpec == Spec /\ Fairness

-----------------------------------------------------------------------------
(* Properties *)

(* The type invariant, with queues and links within their depth.  That an  *)
(* eject queue never takes more than its depth is what can_eject has to    *)
(* ensure: commit_eject ignores whether the push succeeded.                *)
TypeOK ==
  /\ DOMAIN ring = {"inject", "eject", "transit", "link", "busy", "used",
                    "iTag", "next", "eTag"}
  /\ ring.inject \in [Dirs -> [Station -> Seq(Packets)]]
  /\ ring.eject \in [Station -> [Dirs -> Seq(Packets)]]
  /\ ring.transit \in [Dirs -> [Station -> Slot \cup {NoSlot}]]
  /\ ring.link \in [Dirs -> [Station -> Seq(Slot)]]
  /\ ring.busy \in [Dirs -> [Station -> BOOLEAN]]
  /\ ring.used \in [Dirs -> Nat]
  /\ ring.iTag \in [Dirs -> [Station -> BOOLEAN]]
  /\ ring.next \in [Dirs -> [Station -> {"LOCAL", "TRANSIT"}]]
  /\ ring.eTag \in [Station -> [Dirs -> Packets \cup {NoPkt}]]
  /\ \A s \in Station, d \in Dirs :
       /\ Len(ring.inject[d][s]) <= InjectDepth
       /\ Len(ring.eject[s][d]) <= EjectDepth
       /\ Len(ring.link[d][s]) <= LinkDepth

(* The slots of direction d, each with the place it is in. *)
Slots(d) ==
  {<<"register", s, 0, ring.transit[d][s]>> :
     s \in {x \in Station : ring.transit[d][x] # NoSlot}} \cup
  UNION {{<<"link", s, i, ring.link[d][s][i]>> : i \in DOMAIN ring.link[d][s]} :
           s \in Station}

(* The occupancy the slot pool counts is the number of slots on the lane,  *)
(* tagged empty ones included, and one place of the lane is always free:   *)
(* every path that takes a slot off or puts one on must keep the count.    *)
PoolCountsSlots ==
  \A d \in Dirs : /\ ring.used[d] = Cardinality(Slots(d))
                  /\ ring.used[d] < Capacity

(* A station has its I-tag out exactly when one slot of the lane carries   *)
(* it, and only while a packet waits in its bank: a lost tag stops the     *)
(* station's injection for ever, a second one returns as an empty slot     *)
(* that nobody takes off the ring.  So the branches of the code that find  *)
(* the station's own tag with nothing to inject are defensive.             *)
ITagsAreOwed ==
  \A d \in Dirs, s \in Station :
    /\ Cardinality({x \in Slots(d) : x[4].itag = s}) =
         IF ring.iTag[d][s] THEN 1 ELSE 0
    /\ ring.iTag[d][s] => Waiting(ring, s, d)

(* An eject reservation is held by exactly one packet that is still on the *)
(* ring, in a slot marked with it, and that has still to reach the station *)
(* (a carrier may deliver copies elsewhere in between): an orphaned        *)
(* reservation keeps an entry of the eject queue for nobody.               *)
ReservationsHaveOwners ==
  \A s \in Station, b \in Dirs :
    LET marked == {x \in UNION {Slots(d) : d \in {e \in Dirs : Bank(s, e) = b}} :
                     x[4].etag = s}
    IN  /\ {x[4].pkt : x \in marked} =
             IF ring.eTag[s][b] = NoPkt THEN {} ELSE {ring.eTag[s][b]}
        /\ \A x \in marked : s \in x[4].rest

(* While a reservation lasts, an eject queue that has room keeps room for  *)
(* its owner, whatever else arrives in between.                            *)
ReservedRoomKept ==
  [][\A s \in Station, b \in Dirs :
       /\ ring.eTag[s][b] # NoPkt
       /\ ring'.eTag[s][b] = ring.eTag[s][b]
       /\ Len(ring.eject[s][b]) < EjectDepth
       => Len(ring'.eject[s][b]) < EjectDepth]_ring

(* What is under way: each packet once for every station it has to reach. *)
Legs ==
  UNION {UNION {{<<slot.pkt, t, d>> : t \in slot.rest} :
                  slot \in SlotsOn(ring, d)} : d \in Dirs}

(* The lane carries out RingTransport: no packet is lost, duplicated or    *)
(* delivered anywhere but at its destinations, at each of them once, and   *)
(* banks are FIFO.                                                         *)
Transport == INSTANCE RingTransport WITH
  waiting <- ring.inject, underway <- Legs, arrived <- ring.eject,
  Source <- LAMBDA p : Src[p], Destinations <- LAMBDA p : Dst[p],
  WaysOf <- Ways, BankOf <- Bank

ImplementsTransport == Transport!TransportSpec

(* The owner of an eject reservation gets in: the station's queue is drained *)
(* and the room it leaves is kept.                                         *)
ReservationIsHonoured ==
  \A s \in Station, b \in Dirs, p \in Packets :
    ring.eTag[s][b] = p ~> ring.eTag[s][b] # p

(* When the endpoints stop sending the ring becomes idle: no slot, tag or  *)
(* reservation is left behind and nothing waits for ever.                  *)
Drained ==
  /\ Carried(ring) \cup Queued(ring) \cup Arrived(ring) = {}
  /\ \A d \in Dirs : ring.used[d] = 0
  /\ \A s \in Station, b \in Dirs : ring.eTag[s][b] = NoPkt

DrainsWhenQuiet ==
  <>[][\A p \in Packets : ~Offer(p)]_ring => <>[]Drained

(* Some packet on the ring is always delivered in the end, whatever the    *)
(* endpoints send, unless a reset takes them all.                          *)
RingKeepsDelivering ==
  \A p \in Packets :
    p \in Carried(ring) ~>
      Carried(ring) = {} \/ \E q \in Packets : q \in Arrived(ring)

(* Each packet on the ring reaches the eject queue of its destination also *)
(* while others keep coming.                                               *)
CarriedIsDelivered ==
  \A p \in Packets : p \in Carried(ring) ~> p \in Arrived(ring)
=============================================================================
