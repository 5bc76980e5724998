---------------------------- MODULE RingLaneProofs ----------------------------
(***************************************************************************)
(* RingLane for all rings, depths and packets.                             *)
(***************************************************************************)
EXTENDS RingLane, FiniteSetTheorems, TLAPS

-----------------------------------------------------------------------------
(* What the operators of a step do to the fields of the ring state         *)

(* An entry of a table, or of a table of tables, is written. *)
Recount(table, x, value) == [table EXCEPT ![x] = value]

Change(table, x, y, value) == [table EXCEPT ![x][y] = value]

Set(table, x, y) == [table EXCEPT ![x][y] = TRUE]

Cleared(table, x, y) == [table EXCEPT ![x][y] = FALSE]

Fields ==
  {"inject", "eject", "transit", "link", "busy", "used", "iTag", "next", "eTag"}

(* A slot is appended to the link of output d. *)
LEMMA ForwardEffect ==
  ASSUME NEW r, DOMAIN r = Fields, NEW s, NEW d, NEW slot
  PROVE  LET q == Forward(r, s, d, slot)
         IN  /\ DOMAIN q = Fields /\ q.inject = r.inject /\ q.eject = r.eject
             /\ q.transit = r.transit
             /\ q.link = Change(r.link, d, s, Append(r.link[d][s], slot))
             /\ q.busy = Set(r.busy, d, s)
             /\ q.used = r.used /\ q.iTag = r.iTag /\ q.next = r.next
             /\ q.eTag = r.eTag
BY DEF Forward, Change, Set, Fields

(* The transit register is emptied. *)
LEMMA LeaveEffect ==
  ASSUME NEW r, DOMAIN r = Fields, NEW s, NEW d
  PROVE  LET q == Leave(r, s, d)
         IN  /\ DOMAIN q = Fields /\ q.inject = r.inject /\ q.eject = r.eject
             /\ q.transit = Change(r.transit, d, s, NoSlot)
             /\ q.link = r.link /\ q.busy = r.busy /\ q.used = r.used
             /\ q.iTag = r.iTag /\ q.next = r.next /\ q.eTag = r.eTag
BY DEF Leave, Change, Fields

(* The pool counts one slot less, or one more. *)
LEMMA FreeEffect ==
  ASSUME NEW r, DOMAIN r = Fields, NEW d
  PROVE  LET q == Free(r, d)
         IN  /\ DOMAIN q = Fields /\ q.inject = r.inject /\ q.eject = r.eject
             /\ q.transit = r.transit /\ q.link = r.link /\ q.busy = r.busy
             /\ q.used = Recount(r.used, d, r.used[d] - 1)
             /\ q.iTag = r.iTag /\ q.next = r.next /\ q.eTag = r.eTag
BY DEF Free, Recount, Fields

(* The pool counts one slot more. *)
LEMMA AcquireEffect ==
  ASSUME NEW r, DOMAIN r = Fields, NEW d
  PROVE  LET q == Acquire(r, d)
         IN  /\ DOMAIN q = Fields /\ q.inject = r.inject /\ q.eject = r.eject
             /\ q.transit = r.transit /\ q.link = r.link /\ q.busy = r.busy
             /\ q.used = Recount(r.used, d, r.used[d] + 1)
             /\ q.iTag = r.iTag /\ q.next = r.next /\ q.eTag = r.eTag
BY DEF Acquire, Recount, Fields

(* The source to be preferred is noted. *)
Preference == [Dirs -> [Station -> {"LOCAL", "TRANSIT"}]]

(* The preference of an output is written, and nothing else. *)
LEMMA PreferEffect ==
  ASSUME NEW r, DOMAIN r = Fields, NEW s \in Station, NEW d \in Dirs,
         NEW source \in {"LOCAL", "TRANSIT"}, r.next \in Preference
  PROVE  LET q == Prefer(r, s, d, source)
         IN  /\ DOMAIN q = Fields /\ q.inject = r.inject /\ q.eject = r.eject
             /\ q.transit = r.transit /\ q.link = r.link /\ q.busy = r.busy
             /\ q.used = r.used /\ q.iTag = r.iTag
             /\ q.next \in Preference /\ q.eTag = r.eTag
BY DEF Prefer, Preference, Fields

(* The flag of the I-tag is set, or cleared. *)
Tag(r, s, d) == SetITag(r, s, d, TRUE)

Untag(r, s, d) == SetITag(r, s, d, FALSE)

(* The flag of the I-tag is set. *)
LEMMA TagEffect ==
  ASSUME NEW r, DOMAIN r = Fields, NEW s, NEW d
  PROVE  LET q == Tag(r, s, d)
         IN  /\ DOMAIN q = Fields /\ q.inject = r.inject /\ q.eject = r.eject
             /\ q.transit = r.transit /\ q.link = r.link /\ q.busy = r.busy
             /\ q.used = r.used /\ q.iTag = Set(r.iTag, d, s)
             /\ q.next = r.next /\ q.eTag = r.eTag
BY DEF Tag, SetITag, Set, Fields

(* The flag of the I-tag is cleared. *)
LEMMA UntagEffect ==
  ASSUME NEW r, DOMAIN r = Fields, NEW s, NEW d
  PROVE  LET q == Untag(r, s, d)
         IN  /\ DOMAIN q = Fields /\ q.inject = r.inject /\ q.eject = r.eject
             /\ q.transit = r.transit /\ q.link = r.link /\ q.busy = r.busy
             /\ q.used = r.used /\ q.iTag = Cleared(r.iTag, d, s)
             /\ q.next = r.next /\ q.eTag = r.eTag
BY DEF Untag, SetITag, Cleared, Fields

(* The head of the inject bank takes a slot of the link. *)
LEMMA InjectHeadEffect ==
  ASSUME NEW r, DOMAIN r = Fields, NEW s, NEW d
  PROVE  LET q == InjectHead(r, s, d)
         IN  /\ DOMAIN q = Fields
             /\ q.inject = Change(r.inject, d, s, Tail(r.inject[d][s]))
             /\ q.eject = r.eject /\ q.transit = r.transit
             /\ q.link = Change(r.link, d, s,
                            Append(r.link[d][s],
                                   Carrier(Head(r.inject[d][s]))))
             /\ q.busy = Set(r.busy, d, s)
             /\ q.used = r.used /\ q.iTag = r.iTag /\ q.next = r.next
             /\ q.eTag = r.eTag
BY DEF InjectHead, Forward, Change, Set, Fields

(* The reservation of station s for direction d after slot has arrived. *)
Released(r, s, d, slot) ==
  IF OwnsETag(r, s, d, slot) THEN NoPkt ELSE r.eTag[s][Bank(s, d)]

(* The packet of the slot enters the eject queue. *)
LEMMA EjectEffect ==
  ASSUME NEW r, DOMAIN r = Fields, NEW s, NEW d, NEW slot
  PROVE  LET q == Eject(r, s, d, slot)
         IN  /\ DOMAIN q = Fields /\ q.inject = r.inject
             /\ q.eject = Change(r.eject, s, Bank(s, d),
                              Append(r.eject[s][Bank(s, d)], slot.pkt))
             /\ q.transit = r.transit /\ q.link = r.link /\ q.busy = r.busy
             /\ q.used = r.used /\ q.iTag = r.iTag /\ q.next = r.next
             /\ q.eTag = Change(r.eTag, s, Bank(s, d), Released(r, s, d, slot))
<1> DEFINE owns == OwnsETag(r, s, d, slot)
<1> HIDE DEF owns
<1>1. Eject(r, s, d, slot) =
        [r EXCEPT !.eject[s][Bank(s, d)] = Append(@, slot.pkt),
                  !.eTag[s][Bank(s, d)] = IF owns THEN NoPkt ELSE @]
  BY DEF Eject, owns
<1>2. Released(r, s, d, slot) = IF owns THEN NoPkt ELSE r.eTag[s][Bank(s, d)]
  BY DEF Released, owns
<1> QED BY <1>1, <1>2 DEF Change, Fields

-----------------------------------------------------------------------------
(* What serving one output amounts to                                      *)

(* The types of a ring state, with its bounded queues. *)
Typed(r) ==
  /\ DOMAIN r = Fields
  /\ r.inject \in [Dirs -> [Station -> Seq(Packets)]]
  /\ r.eject \in [Station -> [Dirs -> Seq(Packets)]]
  /\ r.transit \in [Dirs -> [Station -> Slot \cup {NoSlot}]]
  /\ r.link \in [Dirs -> [Station -> Seq(Slot)]]
  /\ r.busy \in [Dirs -> [Station -> BOOLEAN]]
  /\ r.used \in [Dirs -> Nat]
  /\ r.iTag \in [Dirs -> [Station -> BOOLEAN]]
  /\ r.next \in Preference
  /\ r.eTag \in [Station -> [Dirs -> Packets \cup {NoPkt}]]
  /\ \A s \in Station, d \in Dirs :
       /\ Len(r.inject[d][s]) <= InjectDepth
       /\ Len(r.eject[s][d]) <= EjectDepth
       /\ Len(r.link[d][s]) <= LinkDepth

(* Output d of station s is served with this result: a slot is taken from  *)
(* the register (gone) and a slot put on the link (put); NoSlot is none.    *)
(* A packet of the inject bank starts, a packet ends; NoPkt is none.  The  *)
(* I-tag flag is kept, set or cleared, and the reservation is for owner.   *)
Effect(r, q, s, d, gone, put, started, ended, tag, owner) ==
  /\ DOMAIN q = Fields
  /\ q.transit = IF gone = NoSlot THEN r.transit
                 ELSE Change(r.transit, d, s, NoSlot)
  /\ q.link = IF put = NoSlot THEN r.link
              ELSE Change(r.link, d, s, Append(r.link[d][s], put))
  /\ q.busy = IF put = NoSlot THEN r.busy ELSE Set(r.busy, d, s)
  /\ gone # NoSlot /\ put = NoSlot => q.used = Recount(r.used, d, r.used[d] - 1)
  /\ gone = NoSlot /\ put # NoSlot => q.used = Recount(r.used, d, r.used[d] + 1)
  /\ (gone = NoSlot <=> put = NoSlot) => q.used = r.used
  /\ q.inject = IF started = NoPkt THEN r.inject
                ELSE Change(r.inject, d, s, Tail(r.inject[d][s]))
  /\ q.eject = IF ended = NoPkt THEN r.eject
               ELSE Change(r.eject, s, Bank(s, d),
                           Append(r.eject[s][Bank(s, d)], ended))
  /\ tag = "KEPT" => q.iTag = r.iTag
  /\ tag = "SET" => q.iTag = Set(r.iTag, d, s)
  /\ tag = "CLEARED" => q.iTag = Cleared(r.iTag, d, s)
  /\ q.eTag = Change(r.eTag, s, Bank(s, d), owner)
  /\ q.next \in Preference

Reservation(r, s, d) == r.eTag[s][Bank(s, d)]

(* The head of the inject bank starts in a new slot. *)
Started(r, q, s, d) ==
  LET p == Head(r.inject[d][s])
  IN  /\ Waiting(r, s, d) /\ ~r.iTag[d][s]
      /\ CanAcquire(r, d) /\ Accepts(r, s, d)
      /\ Effect(r, q, s, d, NoSlot, Carrier(p), p, NoPkt, "KEPT",
                Reservation(r, s, d))

(* A tagged empty slot of this station is given back. *)
TagReturned(r, q, s, d) ==
  LET slot == r.transit[d][s]
  IN  /\ slot # NoSlot /\ slot.pkt = NoPkt /\ slot.itag = s
      /\ ~Waiting(r, s, d)
      /\ Effect(r, q, s, d, slot, NoSlot, NoPkt, NoPkt, "CLEARED",
                Reservation(r, s, d))

(* The head of the inject bank takes the empty slot that was kept for it. *)
TagUsed(r, q, s, d) ==
  LET slot == r.transit[d][s]
      p == Head(r.inject[d][s])
  IN  /\ slot # NoSlot /\ slot.pkt = NoPkt /\ slot.itag = s
      /\ Waiting(r, s, d) /\ Accepts(r, s, d)
      /\ Effect(r, q, s, d, slot, Carrier(p), p, NoPkt, "CLEARED",
                Reservation(r, s, d))

(* A slot that goes on keeps its I-tag or gets that of this station; its   *)
(* packet keeps its mark or gets a reservation here.                       *)
KeepsITag(r, s, d, slot, put, tag) ==
  \/ put.itag = slot.itag /\ tag = "KEPT"
  \/ /\ slot.itag = NoStation /\ ~r.iTag[d][s] /\ Waiting(r, s, d)
     /\ put.itag = s /\ tag = "SET"

KeepsETag(r, s, d, slot, put, owner) ==
  \/ put.etag = slot.etag /\ owner = Reservation(r, s, d)
  \/ /\ slot.pkt # NoPkt /\ s \in slot.rest
     /\ slot.etag = NoStation /\ Reservation(r, s, d) = NoPkt
     /\ put.etag = s /\ owner = slot.pkt

Passed(r, q, s, d, put, tag, owner) ==
  LET slot == r.transit[d][s]
  IN  /\ slot # NoSlot /\ Accepts(r, s, d)
      /\ put \in Slot /\ put.pkt = slot.pkt /\ put.rest = slot.rest
      /\ KeepsITag(r, s, d, slot, put, tag)
      /\ KeepsETag(r, s, d, slot, put, owner)
      /\ Effect(r, q, s, d, slot, put, NoPkt, NoPkt, tag, owner)

(* The packet in the register ends here. *)
Arrives(r, s, d) ==
  LET slot == r.transit[d][s]
  IN  /\ slot # NoSlot /\ slot.pkt # NoPkt
      /\ s \in slot.rest /\ CanEject(r, s, d, slot)

(* ... and its slot goes on with the I-tag of another station, *)
Emptied(r, q, s, d) ==
  LET slot == r.transit[d][s]
      put == [pkt |-> NoPkt, rest |-> {}, itag |-> slot.itag,
              etag |-> NoStation]
  IN  /\ Arrives(r, s, d) /\ slot.rest = {s} /\ Accepts(r, s, d)
      /\ slot.itag \notin {s, NoStation}
      /\ Effect(r, q, s, d, slot, put, NoPkt, slot.pkt, "KEPT",
                Released(r, s, d, slot))

(* or with the packet that waits here, *)
Replaced(r, q, s, d) ==
  LET slot == r.transit[d][s]
      p == Head(r.inject[d][s])
  IN  /\ Arrives(r, s, d) /\ slot.rest = {s} /\ Accepts(r, s, d)
      /\ Waiting(r, s, d)
      /\ slot.itag # s => slot.itag = NoStation /\ ~r.iTag[d][s]
      /\ Effect(r, q, s, d, slot, Carrier(p), p, slot.pkt, "CLEARED",
                Released(r, s, d, slot))

(* or goes back to the pool, *)
Freed(r, q, s, d) ==
  LET slot == r.transit[d][s]
      tag == IF slot.itag = s THEN "CLEARED" ELSE "KEPT"
  IN  /\ Arrives(r, s, d) /\ slot.rest = {s}
      /\ slot.itag # NoStation => slot.itag = s /\ ~Waiting(r, s, d)
      /\ Effect(r, q, s, d, slot, NoSlot, NoPkt, slot.pkt, tag,
                Released(r, s, d, slot))

(* or with the carrier for the stations left. *)
Onward(r, s, d) ==
  LET slot == r.transit[d][s]
  IN  [slot EXCEPT !.rest = @ \ {s},
                   !.etag = IF OwnsETag(r, s, d, slot) THEN NoStation ELSE @]

Copied(r, q, s, d) ==
  LET slot == r.transit[d][s]
  IN  /\ Arrives(r, s, d) /\ slot.rest # {s} /\ Accepts(r, s, d)
      /\ Effect(r, q, s, d, slot, Onward(r, s, d), NoPkt, slot.pkt, "KEPT",
                Released(r, s, d, slot))

(* The result q of serving output d of station s in state r. *)
Served(r, q, s, d) ==
  \/ q = r
  \/ Started(r, q, s, d)
  \/ TagReturned(r, q, s, d)
  \/ TagUsed(r, q, s, d)
  \/ \E put \in Slot, tag \in {"KEPT", "SET"}, owner \in Packets \cup {NoPkt} :
       Passed(r, q, s, d, put, tag, owner)
  \/ Emptied(r, q, s, d)
  \/ Replaced(r, q, s, d)
  \/ Freed(r, q, s, d)
  \/ Copied(r, q, s, d)

(* One row of a table of tables changes, and one entry of that row. *)
LEMMA ChangeRow ==
  ASSUME NEW t, NEW a \in DOMAIN t, NEW b, NEW v, NEW x \in DOMAIN t
  PROVE  Change(t, a, b, v)[x] = IF x = a THEN Recount(t[a], b, v) ELSE t[x]
BY DEF Change, Recount

(* One entry of a table of tables after a write. *)
LEMMA ChangeEntry ==
  ASSUME NEW t, NEW a \in DOMAIN t, NEW b \in DOMAIN t[a], NEW v,
         NEW x \in DOMAIN t, NEW y \in DOMAIN t[x]
  PROVE  Change(t, a, b, v)[x][y] = IF x = a /\ y = b THEN v ELSE t[x][y]
BY DEF Change

(* Writing the value that is there changes nothing. *)
LEMMA Unwritten ==
  ASSUME NEW r, Typed(r), NEW s \in Station, NEW d \in Dirs
  PROVE  /\ Bank(s, d) \in Dirs
         /\ Reservation(r, s, d) \in Packets \cup {NoPkt}
         /\ Change(r.eTag, s, Bank(s, d), Reservation(r, s, d)) = r.eTag
<1>1. Bank(s, d) \in Dirs
  BY DEF Bank, Dirs
<1>2. r.eTag \in [Station -> [Dirs -> Packets \cup {NoPkt}]]
  BY DEF Typed
<1>3. Change(r.eTag, s, Bank(s, d), r.eTag[s][Bank(s, d)]) = r.eTag
  BY <1>1, <1>2 DEF Change
<1>4. r.eTag[s][Bank(s, d)] \in Packets \cup {NoPkt}
  BY <1>1, <1>2
<1> QED BY <1>1, <1>3, <1>4 DEF Reservation

(* A waiting packet and its carrier. *)
LEMMA WaitingHead ==
  ASSUME NEW r, Typed(r), NEW s \in Station, NEW d \in Dirs, Waiting(r, s, d)
  PROVE  LET p == Head(r.inject[d][s])
         IN  /\ p \in Packets /\ p # NoPkt
             /\ Carrier(p) \in Slot /\ Carrier(p) # NoSlot
<1> DEFINE p == Head(r.inject[d][s])
<1>1. p \in Packets
  <2>1. r.inject[d][s] \in Seq(Packets) /\ r.inject[d][s] # <<>>
    BY DEF Typed, Waiting
  <2> QED BY <2>1
<1> HIDE DEF p
<1>2. Dst[p] \in SUBSET Station
  BY <1>1, LaneAssumption
<1>3. Carrier(p) \in Slot
  BY <1>1, <1>2 DEF Carrier, Slot
<1> QED BY <1>1, <1>3, LaneAssumption, NoSlotAssumption DEF p

(* try_normal_injection. *)
LEMMA InjectNormallyServes ==
  ASSUME NEW r, Typed(r), NEW s \in Station, NEW d \in Dirs
  PROVE  Served(r, InjectNormally(r, s, d), s, d)
<1> DEFINE p == Head(r.inject[d][s])
           q == Prefer(InjectHead(Acquire(r, d), s, d), s, d, "TRANSIT")
<1>1. CASE ~(~r.iTag[d][s] /\ Waiting(r, s, d) /\ CanAcquire(r, d)
             /\ Accepts(r, s, d))
  BY <1>1 DEF InjectNormally, Served
<1>2. CASE /\ ~r.iTag[d][s] /\ Waiting(r, s, d) /\ CanAcquire(r, d)
           /\ Accepts(r, s, d)
  <2>1. InjectNormally(r, s, d) = q
    BY <1>2 DEF InjectNormally
  <2>2. p # NoPkt /\ Carrier(p) # NoSlot
    BY <1>2, WaitingHead
  <2>3. DOMAIN r = Fields /\ r.next \in Preference
    BY DEF Typed
  <2>4. Effect(r, q, s, d, NoSlot, Carrier(p), p, NoPkt, "KEPT",
               Reservation(r, s, d))
    <3> DEFINE a == Acquire(r, d)
               b == InjectHead(a, s, d)
    <3>1. /\ DOMAIN a = Fields /\ a.inject = r.inject /\ a.eject = r.eject
          /\ a.transit = r.transit /\ a.link = r.link /\ a.busy = r.busy
          /\ a.used = Recount(r.used, d, r.used[d] + 1)
          /\ a.iTag = r.iTag /\ a.next = r.next /\ a.eTag = r.eTag
      BY <2>3, AcquireEffect
    <3> HIDE DEF a
    <3>2. /\ DOMAIN b = Fields
          /\ b.inject = Change(a.inject, d, s, Tail(a.inject[d][s]))
          /\ b.eject = a.eject /\ b.transit = a.transit
          /\ b.link = Change(a.link, d, s,
                             Append(a.link[d][s], Carrier(Head(a.inject[d][s]))))
          /\ b.busy = Set(a.busy, d, s)
          /\ b.used = a.used /\ b.iTag = a.iTag /\ b.next = a.next
          /\ b.eTag = a.eTag
      BY <3>1, InjectHeadEffect
    <3> HIDE DEF b
    <3>3. q = Prefer(b, s, d, "TRANSIT")
      BY DEF a, b
    <3> HIDE DEF q
    <3> QED BY <2>2, <2>3, <3>1, <3>2, <3>3, PreferEffect, Unwritten DEF Effect
  <2> QED BY <1>2, <2>1, <2>4 DEF Started, Served
<1> QED BY <1>1, <1>2

(* An empty slot with an I-tag. *)
LEMMA ServeTaggedEmptyServes ==
  ASSUME NEW r, Typed(r), NEW s \in Station, NEW d \in Dirs,
         r.transit[d][s] # NoSlot, r.transit[d][s].pkt = NoPkt
  PROVE  Served(r, ServeTaggedEmpty(r, s, d, r.transit[d][s]), s, d)
<1> DEFINE slot == r.transit[d][s]
           p == Head(r.inject[d][s])
           back == Leave(Free(Untag(r, s, d), d), s, d)
           used == Prefer(Leave(InjectHead(Untag(r, s, d), s, d), s, d),
                          s, d, "TRANSIT")
           on == Prefer(Leave(Forward(r, s, d, slot), s, d), s, d, "LOCAL")
           q == ServeTaggedEmpty(r, s, d, slot)
<1>1. DOMAIN r = Fields /\ r.next \in Preference /\ slot \in Slot
  BY DEF Typed
<1>2. CASE slot.itag = s /\ ~Waiting(r, s, d)
  <2>1. q = back
    BY <1>2 DEF ServeTaggedEmpty, Untag
  <2>2. Effect(r, back, s, d, slot, NoSlot, NoPkt, NoPkt, "CLEARED",
               Reservation(r, s, d))
    BY <1>1, LeaveEffect, FreeEffect, UntagEffect, Unwritten DEF Effect
  <2> QED BY <1>2, <2>1, <2>2 DEF TagReturned, Served
<1>3. CASE slot.itag = s /\ Waiting(r, s, d) /\ Accepts(r, s, d)
  <2>1. q = used
    BY <1>3 DEF ServeTaggedEmpty, Untag
  <2>2. p # NoPkt /\ Carrier(p) # NoSlot
    BY <1>3, WaitingHead
  <2>3. Effect(r, used, s, d, slot, Carrier(p), p, NoPkt, "CLEARED",
               Reservation(r, s, d))
    BY <1>1, <2>2, LeaveEffect, InjectHeadEffect, UntagEffect, PreferEffect,
       Unwritten, SMTT(30) DEF Effect
  <2> QED BY <1>3, <2>1, <2>3 DEF TagUsed, Served
<1>4. CASE slot.itag # s /\ Accepts(r, s, d)
  <2>1. q = on
    BY <1>4 DEF ServeTaggedEmpty
  <2>2. Effect(r, on, s, d, slot, slot, NoPkt, NoPkt, "KEPT",
               Reservation(r, s, d))
    BY <1>1, LeaveEffect, ForwardEffect, PreferEffect, Unwritten DEF Effect
  <2>3. Passed(r, q, s, d, slot, "KEPT", Reservation(r, s, d))
    BY <1>1, <1>4, <2>1, <2>2 DEF Passed, KeepsITag, KeepsETag
  <2>4. Reservation(r, s, d) \in Packets \cup {NoPkt}
    BY Unwritten
  <2> QED BY <1>1, <2>3, <2>4 DEF Served
<1>5. CASE q = r
  BY <1>5 DEF Served
<1> QED BY <1>2, <1>3, <1>4, <1>5 DEF ServeTaggedEmpty

(* A packet that ends here. *)
LEMMA ServeArrivalServes ==
  ASSUME NEW r, Typed(r), NEW s \in Station, NEW d \in Dirs,
         Arrives(r, s, d), r.transit[d][s].rest = {s}
  PROVE  Served(r, ServeArrival(r, s, d, r.transit[d][s]), s, d)
<1> DEFINE slot == r.transit[d][s]
           p == Head(r.inject[d][s])
           arrived == Leave(Eject(r, s, d, slot), s, d)
           othersTag == slot.itag \notin {s, NoStation}
           ownTag == slot.itag = s
           mayReplace == Waiting(r, s, d) /\ (ownTag \/ ~r.iTag[d][s])
           empty == [pkt |-> NoPkt, rest |-> {}, itag |-> slot.itag,
                     etag |-> NoStation]
           emptied == Prefer(Forward(arrived, s, d, empty), s, d, "TRANSIT")
           replaced == Prefer(InjectHead(Untag(arrived, s, d), s, d),
                              s, d, "TRANSIT")
           q == ServeArrival(r, s, d, slot)
<1>1. /\ DOMAIN r = Fields /\ r.next \in Preference /\ slot \in Slot
      /\ slot # NoSlot /\ slot.pkt # NoPkt
  BY DEF Typed, Arrives
<1>2. /\ DOMAIN arrived = Fields /\ arrived.inject = r.inject
      /\ arrived.eject = Change(r.eject, s, Bank(s, d),
                                Append(r.eject[s][Bank(s, d)], slot.pkt))
      /\ arrived.transit = Change(r.transit, d, s, NoSlot)
      /\ arrived.link = r.link /\ arrived.busy = r.busy
      /\ arrived.used = r.used /\ arrived.iTag = r.iTag
      /\ arrived.next = r.next
      /\ arrived.eTag = Change(r.eTag, s, Bank(s, d), Released(r, s, d, slot))
  BY <1>1, LeaveEffect, EjectEffect
<1>3. CASE othersTag /\ Accepts(r, s, d)
  <2>1. q = emptied
    <3>1. MustPreserve(r, s, d, slot)
      BY <1>3 DEF MustPreserve
    <3> QED BY <1>3, <3>1, Zenon DEF ServeArrival
  <2>2. empty # NoSlot
    <3>1. empty \in Slot
      BY <1>1 DEF Slot
    <3> QED BY <3>1, NoSlotAssumption
  <2>3. Effect(r, emptied, s, d, slot, empty, NoPkt, slot.pkt, "KEPT",
               Released(r, s, d, slot))
    <3> HIDE DEF empty, arrived
    <3> QED BY <1>1, <1>2, <2>2, ForwardEffect, PreferEffect DEF Effect
  <2> QED BY <1>3, <2>1, <2>3 DEF Emptied, Served
<1>4. CASE ~othersTag /\ mayReplace /\ Accepts(r, s, d)
  <2>1. q = replaced
    BY <1>4 DEF ServeArrival, Untag
  <2>2. p # NoPkt /\ Carrier(p) # NoSlot
    BY <1>4, WaitingHead
  <2>3. Effect(r, replaced, s, d, slot, Carrier(p), p, slot.pkt, "CLEARED",
               Released(r, s, d, slot))
    <3> HIDE DEF arrived
    <3> QED BY <1>1, <1>2, <2>2, InjectHeadEffect, UntagEffect, PreferEffect,
               SMTT(30) DEF Effect
  <2> QED BY <1>4, <2>1, <2>3 DEF Replaced, Served
<1>5. CASE /\ ~MustPreserve(r, s, d, slot) /\ ~(mayReplace /\ Accepts(r, s, d))
           /\ ~othersTag
  <2> DEFINE freed == Free(arrived, d)
             untagged == Free(Untag(arrived, s, d), d)
  <2>1. slot.itag # NoStation => slot.itag = s /\ ~Waiting(r, s, d)
    BY <1>5 DEF MustPreserve
  <2>2. CASE ownTag
    <3>1. q = untagged
      BY <1>5, <2>2 DEF ServeArrival, Untag
    <3>2. Effect(r, untagged, s, d, slot, NoSlot, NoPkt, slot.pkt, "CLEARED",
                 Released(r, s, d, slot))
      <4> HIDE DEF arrived
      <4> QED BY <1>1, <1>2, UntagEffect, FreeEffect DEF Effect
    <3> QED BY <2>1, <2>2, <3>1, <3>2 DEF Freed, Served
  <2>3. CASE ~ownTag
    <3>1. q = freed
      BY <1>5, <2>3 DEF ServeArrival
    <3>2. Effect(r, freed, s, d, slot, NoSlot, NoPkt, slot.pkt, "KEPT",
                 Released(r, s, d, slot))
      <4> HIDE DEF arrived
      <4> QED BY <1>1, <1>2, FreeEffect DEF Effect
    <3> QED BY <2>1, <2>3, <3>1, <3>2 DEF Freed, Served
  <2> QED BY <2>2, <2>3
<1>6. CASE q = r
  BY <1>6 DEF Served
<1> QED BY <1>3, <1>4, <1>5, <1>6 DEF ServeArrival, MustPreserve

(* A carrier that leaves a copy here and goes on. *)
LEMMA DeliverCopyServes ==
  ASSUME NEW r, Typed(r), NEW s \in Station, NEW d \in Dirs,
         Arrives(r, s, d), r.transit[d][s].rest # {s}
  PROVE  Served(r, DeliverCopy(r, s, d, r.transit[d][s]), s, d)
<1> DEFINE slot == r.transit[d][s]
           on == Onward(r, s, d)
           sent == Forward(r, s, d, on)
           copied == Prefer(Leave(Eject(sent, s, d, slot), s, d), s, d, "LOCAL")
           q == DeliverCopy(r, s, d, slot)
<1>1. /\ DOMAIN r = Fields /\ r.next \in Preference /\ slot \in Slot
      /\ slot # NoSlot /\ slot.pkt # NoPkt
  BY DEF Typed, Arrives
<1>2. CASE Accepts(r, s, d)
  <2>1. q = copied
    BY <1>2 DEF DeliverCopy, Onward
  <2>2. on # NoSlot
    BY <1>1, NoSlotAssumption DEF Onward, Slot
  <2>3. /\ DOMAIN sent = Fields /\ sent.inject = r.inject
        /\ sent.eject = r.eject /\ sent.transit = r.transit
        /\ sent.link = Change(r.link, d, s, Append(r.link[d][s], on))
        /\ sent.busy = Set(r.busy, d, s) /\ sent.used = r.used
        /\ sent.iTag = r.iTag /\ sent.next = r.next /\ sent.eTag = r.eTag
    BY <1>1, ForwardEffect
  <2>4. Released(sent, s, d, slot) = Released(r, s, d, slot)
    BY <2>3 DEF Released, OwnsETag
  <2>5. Effect(r, copied, s, d, slot, on, NoPkt, slot.pkt, "KEPT",
               Released(r, s, d, slot))
    <3> HIDE DEF on, sent
    <3> QED BY <1>1, <2>2, <2>3, <2>4, LeaveEffect, EjectEffect, PreferEffect,
               SMTT(30) DEF Effect
  <2> QED BY <1>2, <2>1, <2>5 DEF Copied, Served
<1>3. CASE ~Accepts(r, s, d)
  BY <1>3 DEF DeliverCopy, Served
<1> QED BY <1>2, <1>3

(* A reservation is made. *)
LEMMA ReserveEffect ==
  ASSUME NEW r, DOMAIN r = Fields, NEW s, NEW d, NEW p
  PROVE  LET q == [r EXCEPT !.eTag[s][d] = p]
         IN  /\ DOMAIN q = Fields /\ q.inject = r.inject /\ q.eject = r.eject
             /\ q.transit = r.transit /\ q.link = r.link /\ q.busy = r.busy
             /\ q.used = r.used /\ q.iTag = r.iTag /\ q.next = r.next
             /\ q.eTag = Change(r.eTag, s, d, p)
BY DEF Change, Fields

(* A packet that goes on. *)
LEMMA ServeThroughServes ==
  ASSUME NEW r, Typed(r), NEW s \in Station, NEW d \in Dirs,
         r.transit[d][s] # NoSlot, r.transit[d][s].pkt # NoPkt
  PROVE  Served(r, ServeThrough(r, s, d, r.transit[d][s]), s, d)
<1> DEFINE slot == r.transit[d][s]
           setI == /\ ~IsFanout(slot)
                   /\ ~r.iTag[d][s] /\ Waiting(r, s, d)
                   /\ ~CanAcquire(r, d) /\ slot.itag = NoStation
           setE == MarksETag(r, s, d, slot)
           marked == [slot EXCEPT !.itag = IF setI THEN s ELSE @,
                                  !.etag = IF setE THEN s ELSE @]
           moved == Leave(Forward(r, s, d, marked), s, d)
           tagged == IF setI THEN Tag(moved, s, d) ELSE moved
           reserved == IF setE
                       THEN [tagged EXCEPT !.eTag[s][Bank(s, d)] = slot.pkt]
                       ELSE tagged
           through == Prefer(reserved, s, d, "LOCAL")
           tag == IF setI THEN "SET" ELSE "KEPT"
           owner == IF setE THEN slot.pkt ELSE Reservation(r, s, d)
           q == ServeThrough(r, s, d, slot)
<1>1. /\ DOMAIN r = Fields /\ r.next \in Preference /\ slot \in Slot
      /\ slot # NoSlot /\ slot.pkt # NoPkt
  BY DEF Typed
<1>2. CASE Accepts(r, s, d)
  <2>1. q = through
    BY <1>2, Zenon DEF ServeThrough, Tag
  <2>2. marked \in Slot /\ marked.pkt = slot.pkt /\ marked.rest = slot.rest
    BY <1>1 DEF Slot
  <2>3. KeepsITag(r, s, d, slot, marked, tag)
    BY <1>1 DEF KeepsITag, Slot
  <2>4. KeepsETag(r, s, d, slot, marked, owner)
    BY <1>1 DEF KeepsETag, MarksETag, IsDestination, Reservation, Slot
  <2>5. marked # NoSlot
    BY <2>2, NoSlotAssumption
  <2> HIDE DEF setI, setE, marked
  <2>6. /\ DOMAIN moved = Fields /\ moved.inject = r.inject
        /\ moved.eject = r.eject
        /\ moved.transit = Change(r.transit, d, s, NoSlot)
        /\ moved.link = Change(r.link, d, s, Append(r.link[d][s], marked))
        /\ moved.busy = Set(r.busy, d, s) /\ moved.used = r.used
        /\ moved.iTag = r.iTag /\ moved.next = r.next /\ moved.eTag = r.eTag
    BY <1>1, ForwardEffect, LeaveEffect
  <2> HIDE DEF moved
  <2>7. /\ DOMAIN tagged = Fields /\ tagged.inject = moved.inject
        /\ tagged.eject = moved.eject /\ tagged.transit = moved.transit
        /\ tagged.link = moved.link /\ tagged.busy = moved.busy
        /\ tagged.used = moved.used
        /\ tag = "KEPT" => tagged.iTag = r.iTag
        /\ tag = "SET" => tagged.iTag = Set(r.iTag, d, s)
        /\ tagged.next = moved.next /\ tagged.eTag = moved.eTag
    BY <2>6, TagEffect
  <2> HIDE DEF tagged
  <2>8. /\ DOMAIN reserved = Fields /\ reserved.inject = tagged.inject
        /\ reserved.eject = tagged.eject /\ reserved.transit = tagged.transit
        /\ reserved.link = tagged.link /\ reserved.busy = tagged.busy
        /\ reserved.used = tagged.used /\ reserved.iTag = tagged.iTag
        /\ reserved.next = tagged.next
        /\ reserved.eTag = Change(r.eTag, s, Bank(s, d), owner)
    <3>1. CASE setE
      BY <3>1, <2>6, <2>7, ReserveEffect
    <3>2. CASE ~setE
      BY <3>2, <2>6, <2>7, Unwritten
    <3> QED BY <3>1, <3>2
  <2> HIDE DEF reserved, owner
  <2>9. tag \in {"KEPT", "SET"}
    OBVIOUS
  <2> HIDE DEF tag
  <2>10. Effect(r, through, s, d, slot, marked, NoPkt, NoPkt, tag, owner)
    BY <1>1, <2>5, <2>6, <2>7, <2>8, <2>9, PreferEffect DEF Effect
  <2>11. owner \in Packets \cup {NoPkt}
    BY <1>1, Unwritten DEF owner, Slot
  <2>12. Passed(r, q, s, d, marked, tag, owner)
    BY <1>1, <1>2, <2>1, <2>2, <2>3, <2>4, <2>10 DEF Passed
  <2> QED BY <2>2, <2>9, <2>11, <2>12 DEF Served
<1>3. CASE ~Accepts(r, s, d)
  BY <1>3 DEF ServeThrough, Served
<1> QED BY <1>2, <1>3

(* Serving an output has one of these results. *)
LEMMA ServeOutputServes ==
  ASSUME NEW r, Typed(r), NEW s \in Station, NEW d \in Dirs,
         /\ r.transit[d][s] # NoSlot
         /\ r.transit[d][s].pkt = NoPkt
         => r.transit[d][s].rest = {}
  PROVE  Served(r, ServeOutput(r, s, d), s, d)
<1> DEFINE slot == r.transit[d][s]
<1>1. CASE TransitReady(r, s, d)
  <2>1. slot # NoSlot
    BY <1>1 DEF TransitReady
  <2>2. CASE slot.pkt = NoPkt
    <3>1. Served(r, ServeTaggedEmpty(r, s, d, slot), s, d)
      BY <2>1, <2>2, ServeTaggedEmptyServes
    <3>2. ProcessTransit(r, s, d) = ServeTaggedEmpty(r, s, d, slot)
      <4>1. ~IsDestination(s, slot)
        BY <2>1, <2>2 DEF IsDestination
      <4> QED BY <2>2, <4>1, Zenon DEF ProcessTransit
    <3> QED BY <3>1, <3>2, InjectNormallyServes DEF ServeOutput
  <2>3. CASE slot.pkt # NoPkt /\ ~Arrives(r, s, d)
    <3>1. Served(r, ServeThrough(r, s, d, slot), s, d)
      BY <2>1, <2>3, ServeThroughServes
    <3>2. ProcessTransit(r, s, d) = ServeThrough(r, s, d, slot)
      <4>1. ~(IsDestination(s, slot) /\ CanEject(r, s, d, slot))
        BY <2>1, <2>3 DEF Arrives, IsDestination
      <4> QED BY <2>3, <4>1, Zenon DEF ProcessTransit
    <3> QED BY <3>1, <3>2, InjectNormallyServes DEF ServeOutput
  <2>4. CASE Arrives(r, s, d) /\ slot.rest = {s}
    <3>1. Served(r, ServeArrival(r, s, d, slot), s, d)
      BY <2>4, ServeArrivalServes
    <3>2. ProcessTransit(r, s, d) = ServeArrival(r, s, d, slot)
      BY <2>4 DEF ProcessTransit, Arrives, IsDestination
    <3> QED BY <3>1, <3>2, InjectNormallyServes DEF ServeOutput
  <2>5. CASE Arrives(r, s, d) /\ slot.rest # {s}
    <3>1. Served(r, DeliverCopy(r, s, d, slot), s, d)
      BY <2>5, DeliverCopyServes
    <3>2. ProcessTransit(r, s, d) = DeliverCopy(r, s, d, slot)
      BY <2>5 DEF ProcessTransit, Arrives, IsDestination
    <3> QED BY <3>1, <3>2, InjectNormallyServes DEF ServeOutput
  <2> QED BY <2>2, <2>3, <2>4, <2>5
<1>2. CASE ~TransitReady(r, s, d)
  BY <1>2, InjectNormallyServes DEF ServeOutput
<1> QED BY <1>1, <1>2

-----------------------------------------------------------------------------
(* Where the slots of a lane are                                           *)

SlotsOf(r, d) ==
  {<<"register", s, 0, r.transit[d][s]>> :
     s \in {x \in Station : r.transit[d][x] # NoSlot}} \cup
  UNION {{<<"link", s, i, r.link[d][s][i]>> : i \in DOMAIN r.link[d][s]} :
           s \in Station}

InRegister(r, d, s) == <<"register", s, 0, r.transit[d][s]>>

OnLink(r, d, s, i) == <<"link", s, i, r.link[d][s][i]>>

(* A place is a register or an entry of a link. *)
LEMMA Places ==
  ASSUME NEW r, NEW d
  PROVE  \A x : x \in SlotsOf(r, d) <=>
           \/ \E s \in Station : /\ r.transit[d][s] # NoSlot
                                 /\ x = InRegister(r, d, s)
           \/ \E s \in Station : \E i \in DOMAIN r.link[d][s] :
                x = OnLink(r, d, s, i)
<1> SUFFICES ASSUME NEW x
             PROVE  x \in SlotsOf(r, d) <=>
                      \/ \E s \in Station : /\ r.transit[d][s] # NoSlot
                                            /\ x = InRegister(r, d, s)
                      \/ \E s \in Station : \E i \in DOMAIN r.link[d][s] :
                           x = OnLink(r, d, s, i)
  OBVIOUS
<1> DEFINE taken == {y \in Station : r.transit[d][y] # NoSlot}
           A == {InRegister(r, d, s) : s \in taken}
           L(s) == {OnLink(r, d, s, i) : i \in DOMAIN r.link[d][s]}
           B == UNION {L(s) : s \in Station}
<1>1. SlotsOf(r, d) = A \cup B
  BY DEF SlotsOf, InRegister, OnLink
<1>2. x \in A <=> \E s \in taken : x = InRegister(r, d, s)
  BY Zenon
<1>3. x \in B <=> \E s \in Station : x \in L(s)
  BY Zenon
<1>4. \A s : x \in L(s) <=> \E i \in DOMAIN r.link[d][s] : x = OnLink(r, d, s, i)
  BY Zenon
<1> HIDE DEF A, B, L
<1> QED BY <1>1, <1>2, <1>3, <1>4

(* Serving an output of direction d moves the slot of one place.           *)
Moved(P, Q, gone, put, s, n) ==
  /\ Q = (P \ (IF gone = NoSlot THEN {} ELSE {<<"register", s, 0, gone>>}))
         \cup (IF put = NoSlot THEN {} ELSE {<<"link", s, n, put>>})
  /\ gone # NoSlot => <<"register", s, 0, gone>> \in P
  /\ put # NoSlot => <<"link", s, n, put>> \notin P

(* A lane whose registers and links are the same has the same places, and  *)
(* serving an output leaves the other direction alone.                     *)
LEMMA SameLane ==
  ASSUME NEW r, NEW q, NEW e,
         q.transit[e] = r.transit[e], q.link[e] = r.link[e]
  PROVE  SlotsOf(q, e) = SlotsOf(r, e)
BY DEF SlotsOf

(* A step on one lane moves no slot of the other. *)
LEMMA OtherLane ==
  ASSUME NEW r, Typed(r), NEW q, NEW s \in Station, NEW d \in Dirs,
         NEW gone, NEW put, NEW started, NEW ended, NEW tag, NEW owner,
         Effect(r, q, s, d, gone, put, started, ended, tag, owner),
         NEW e \in Dirs, e # d
  PROVE  SlotsOf(q, e) = SlotsOf(r, e)
<1>1. q.transit[e] = r.transit[e]
  <2>1. q.transit = r.transit \/ q.transit = Change(r.transit, d, s, NoSlot)
    BY DEF Effect
  <2>2. d \in DOMAIN r.transit /\ e \in DOMAIN r.transit
    BY DEF Typed
  <2> QED BY <2>1, <2>2, ChangeRow
<1>2. q.link[e] = r.link[e]
  <2> DEFINE new == Append(r.link[d][s], put)
  <2>1. q.link = r.link \/ q.link = Change(r.link, d, s, new)
    BY DEF Effect
  <2>2. d \in DOMAIN r.link /\ e \in DOMAIN r.link
    BY DEF Typed
  <2> HIDE DEF new
  <2> QED BY <2>1, <2>2, ChangeRow
<1> QED BY <1>1, <1>2, SameLane

(* The slots of a lane after a step: one may leave, one may enter. *)
LEMMA MovedPlaces ==
  ASSUME NEW r, Typed(r), NEW q, NEW s \in Station, NEW d \in Dirs,
         NEW gone \in {NoSlot, r.transit[d][s]}, NEW put \in Slot \cup {NoSlot},
         NEW started, NEW ended, NEW tag, NEW owner,
         Effect(r, q, s, d, gone, put, started, ended, tag, owner)
  PROVE  Moved(SlotsOf(r, d), SlotsOf(q, d), gone, put, s,
               Len(r.link[d][s]) + 1)
<1> DEFINE n == Len(r.link[d][s]) + 1
           from == <<"register", s, 0, gone>>
           to == <<"link", s, n, put>>
           P == SlotsOf(r, d)
           Q == SlotsOf(q, d)
<1>1. /\ r.transit[d] \in [Station -> Slot \cup {NoSlot}]
      /\ r.link[d] \in [Station -> Seq(Slot)]
      /\ Len(r.link[d][s]) \in Nat
  BY DEF Typed
<1>2. /\ q.transit[d] = IF gone = NoSlot THEN r.transit[d]
                        ELSE [r.transit[d] EXCEPT ![s] = NoSlot]
      /\ q.link[d] = IF put = NoSlot THEN r.link[d]
                     ELSE [r.link[d] EXCEPT ![s] = Append(r.link[d][s], put)]
  <2> DEFINE new == Append(r.link[d][s], put)
  <2>1. /\ q.transit = IF gone = NoSlot THEN r.transit
                       ELSE Change(r.transit, d, s, NoSlot)
        /\ q.link = IF put = NoSlot THEN r.link ELSE Change(r.link, d, s, new)
    BY DEF Effect
  <2>2. d \in DOMAIN r.transit /\ d \in DOMAIN r.link
    BY DEF Typed
  <2>3. /\ Change(r.transit, d, s, NoSlot)[d] =
             Recount(r.transit[d], s, NoSlot)
        /\ Change(r.link, d, s, new)[d] = Recount(r.link[d], s, new)
    BY <2>2, ChangeRow
  <2> QED BY <2>1, <2>3 DEF Recount
<1>3. \A x : /\ gone # NoSlot => x # from
             => (/\ \E t \in Station : /\ r.transit[d][t] # NoSlot
                                       /\ x = InRegister(r, d, t))
                 <=> (/\ \E t \in Station : /\ q.transit[d][t] # NoSlot
                                       /\ x = InRegister(q, d, t))
  BY <1>1, <1>2 DEF InRegister
<1>4. gone # NoSlot => ~\E t \in Station : /\ q.transit[d][t] # NoSlot
                                           /\ from = InRegister(q, d, t)
  BY <1>1, <1>2 DEF InRegister
<1>5. \A t \in Station : \A i : t # s \/ put = NoSlot =>
        /\ DOMAIN q.link[d][t] = DOMAIN r.link[d][t]
        /\ OnLink(q, d, t, i) = OnLink(r, d, t, i)
  BY <1>1, <1>2 DEF OnLink
<1>6. put # NoSlot =>
        /\ DOMAIN q.link[d][s] = DOMAIN r.link[d][s] \cup {n}
        /\ n \notin DOMAIN r.link[d][s]
        /\ \A i \in DOMAIN r.link[d][s] : OnLink(q, d, s, i) = OnLink(r, d, s, i)
        /\ OnLink(q, d, s, n) = to
  <2> SUFFICES ASSUME put # NoSlot
               PROVE  /\ DOMAIN q.link[d][s] = DOMAIN r.link[d][s] \cup {n}
                      /\ n \notin DOMAIN r.link[d][s]
                      /\ \A i \in DOMAIN r.link[d][s] :
                           OnLink(q, d, s, i) = OnLink(r, d, s, i)
                      /\ OnLink(q, d, s, n) = to
    OBVIOUS
  <2> DEFINE old == r.link[d][s]
             new == q.link[d][s]
  <2>1. old \in Seq(Slot) /\ put \in Slot /\ new = Append(old, put)
    BY <1>1, <1>2
  <2> HIDE DEF old, new
  <2>2. /\ DOMAIN new = DOMAIN old \cup {Len(old) + 1}
        /\ Len(old) + 1 \notin DOMAIN old
        /\ \A i \in DOMAIN old : new[i] = old[i]
        /\ new[Len(old) + 1] = put
    BY <2>1
  <2> QED BY <2>2 DEF OnLink, old, new
<1>7. \A x : (\E t \in Station : \E i \in DOMAIN q.link[d][t] : x = OnLink(q, d, t, i))
         <=> \/ \E t \in Station : \E i \in DOMAIN r.link[d][t] : x = OnLink(r, d, t, i)
             \/ put # NoSlot /\ x = to
  BY <1>5, <1>6
<1>8. gone # NoSlot => ~\E t \in Station : \E i \in DOMAIN r.link[d][t] :
                           from = OnLink(r, d, t, i)
  BY DEF OnLink
<1>9. put # NoSlot =>
        /\ ~\E t \in Station : \E i \in DOMAIN r.link[d][t] : to = OnLink(r, d, t, i)
        /\ ~\E t \in Station : to = InRegister(r, d, t)
  BY <1>6 DEF OnLink, InRegister
<1>10. gone # NoSlot => from \in P
  BY Places DEF InRegister
<1>11. put # NoSlot => to \notin P
  BY <1>9, Places
<1>12. from # to
  OBVIOUS
<1> DEFINE RegP(x) == \E t \in Station : /\ r.transit[d][t] # NoSlot
                                          /\ x = InRegister(r, d, t)
           RegQ(x) == \E t \in Station : /\ q.transit[d][t] # NoSlot
                                          /\ x = InRegister(q, d, t)
           LinkP(x) == \E t \in Station : \E i \in DOMAIN r.link[d][t] :
                         x = OnLink(r, d, t, i)
           LinkQ(x) == \E t \in Station : \E i \in DOMAIN q.link[d][t] :
                         x = OnLink(q, d, t, i)
<1>13. /\ \A x : x \in P <=> RegP(x) \/ LinkP(x)
       /\ \A x : x \in Q <=> RegQ(x) \/ LinkQ(x)
  BY Places, Zenon
<1>14. /\ \A x : (gone # NoSlot => x # from) => (RegP(x) <=> RegQ(x))
       /\ gone # NoSlot => ~RegQ(from)
       /\ \A x : LinkQ(x) <=> LinkP(x) \/ (put # NoSlot /\ x = to)
       /\ gone # NoSlot => ~LinkP(from)
  BY <1>3, <1>4, <1>7, <1>8, Zenon
<1> HIDE DEF n, from, to, RegP, RegQ, LinkP, LinkQ, P, Q
<1>15. \A x : x \in Q <=> \/ x \in P /\ (gone # NoSlot => x # from)
                          \/ put # NoSlot /\ x = to
  BY <1>12, <1>13, <1>14
<1>16. Q = (P \ (IF gone = NoSlot THEN {} ELSE {from}))
           \cup (IF put = NoSlot THEN {} ELSE {to})
  BY <1>15
<1> QED BY <1>10, <1>11, <1>16 DEF Moved, n, from, to, P, Q

(* The pool's count follows. *)
LEMMA MovedCount ==
  ASSUME NEW P, IsFiniteSet(P), NEW Q, NEW gone, NEW put, NEW s, NEW n,
         Moved(P, Q, gone, put, s, n)
  PROVE  /\ IsFiniteSet(Q)
         /\ Cardinality(Q) =
              Cardinality(P) - (IF gone = NoSlot THEN 0 ELSE 1)
                             + (IF put = NoSlot THEN 0 ELSE 1)
<1> DEFINE from == <<"register", s, 0, gone>>
           to == <<"link", s, n, put>>
           R == P \ (IF gone = NoSlot THEN {} ELSE {from})
<1>1. /\ IsFiniteSet(R)
      /\ Cardinality(R) = Cardinality(P) - (IF gone = NoSlot THEN 0 ELSE 1)
  <2>1. CASE gone = NoSlot
    <3>1. R = P
      BY <2>1
    <3> QED BY <2>1, <3>1, FS_CardinalityType
  <2>2. CASE gone # NoSlot
    <3>1. R = P \ {from} /\ from \in P
      BY <2>2 DEF Moved
    <3> QED BY <2>2, <3>1, FS_RemoveElement
  <2> QED BY <2>1, <2>2
<1>2. Cardinality(R) \in Nat
  BY <1>1, FS_CardinalityType
<1>3. CASE put = NoSlot
  <2>1. Q = R
    BY <1>3 DEF Moved
  <2> QED BY <1>1, <1>2, <1>3, <2>1
<1>4. CASE put # NoSlot
  <2>1. Q = R \cup {to} /\ to \notin R
    BY <1>4 DEF Moved
  <2> QED BY <1>1, <1>2, <1>4, <2>1, FS_AddElement
<1> QED BY <1>3, <1>4

(* The slots of P are those of Q, one by one, in other places. *)
Shifted(P, Q) ==
  \E f \in Bijection(P, Q) : \A x \in P : f[x][4] = x[4]

(* drain_ready_slots: the places behind the one drained move up. *)
LEMMA DrainedPlaces ==
  ASSUME NEW r, Typed(r), NEW q, NEW d \in Dirs, NEW s \in Station,
         NEW t \in Station,
         r.link[d][s] # <<>>, r.transit[d][t] = NoSlot,
         q.transit = Change(r.transit, d, t, Head(r.link[d][s])),
         q.link = Change(r.link, d, s, Tail(r.link[d][s]))
  PROVE  /\ Shifted(SlotsOf(r, d), SlotsOf(q, d))
         /\ \A e \in Dirs : e # d => SlotsOf(q, e) = SlotsOf(r, e)
<1> DEFINE P == SlotsOf(r, d)
           Q == SlotsOf(q, d)
           old == r.link[d][s]
           I == 2 .. Len(old)
           first == <<"link", s, 1, old[1]>>
           in == <<"register", t, 0, old[1]>>
           behind(i) == <<"link", s, i, old[i]>>
           up(i) == <<"link", s, i - 1, old[i]>>
           Other(x) ==
             \/ \E y \in Station : /\ y # t /\ r.transit[d][y] # NoSlot
                                   /\ x = InRegister(r, d, y)
             \/ \E y \in Station \ {s} : \E i \in DOMAIN r.link[d][y] :
                  x = OnLink(r, d, y, i)
<1>1. /\ r.transit[d] \in [Station -> Slot \cup {NoSlot}]
      /\ r.link[d] \in [Station -> Seq(Slot)]
      /\ old \in Seq(Slot) /\ old # <<>> /\ old[1] # NoSlot
      /\ Len(old) \in Nat \ {0}
  BY NoSlotAssumption DEF Typed
<1>2. /\ q.transit[d] = [r.transit[d] EXCEPT ![t] = old[1]]
      /\ q.link[d] = [r.link[d] EXCEPT ![s] = Tail(old)]
  BY <1>1 DEF Typed, Change
<1>3. \A e \in Dirs : e # d => SlotsOf(q, e) = SlotsOf(r, e)
  <2> SUFFICES ASSUME NEW e \in Dirs, e # d
               PROVE  SlotsOf(q, e) = SlotsOf(r, e)
    OBVIOUS
  <2>1. /\ d \in DOMAIN r.transit /\ d \in DOMAIN r.link
        /\ e \in DOMAIN r.transit /\ e \in DOMAIN r.link
    BY DEF Typed
  <2>2. q.transit[e] = r.transit[e] /\ q.link[e] = r.link[e]
    BY <2>1, ChangeRow
  <2> QED BY <2>2, SameLane
<1>4. \A x : x \in P <=> Other(x) \/ x = first \/ \E i \in I : x = behind(i)
  <2>1. \A x : (\E i \in DOMAIN r.link[d][s] : x = OnLink(r, d, s, i))
                <=> x = first \/ \E i \in I : x = behind(i)
    <3>1. DOMAIN r.link[d][s] = {1} \cup I
      BY <1>1
    <3>2. OnLink(r, d, s, 1) = first /\ \A i : OnLink(r, d, s, i) = behind(i)
      BY DEF OnLink
    <3> HIDE DEF first, behind, I
    <3> QED BY <3>1, <3>2
  <2> DEFINE Reg(x) == \E y \in Station : /\ r.transit[d][y] # NoSlot
                                          /\ x = InRegister(r, d, y)
             RegR(x) == \E y \in Station : /\ y # t /\ r.transit[d][y] # NoSlot
                                           /\ x = InRegister(r, d, y)
             Link(x) == \E y \in Station : \E i \in DOMAIN r.link[d][y] :
                          x = OnLink(r, d, y, i)
             LinkR(x) == \E y \in Station \ {s} : \E i \in DOMAIN r.link[d][y] :
                           x = OnLink(r, d, y, i)
             LinkS(x) == \E i \in DOMAIN r.link[d][s] : x = OnLink(r, d, s, i)
             Behind(x) == \E i \in I : x = behind(i)
  <2>2. \A x : x \in P <=> Reg(x) \/ Link(x)
    BY Places, Zenon
  <2>3. \A x : Reg(x) <=> RegR(x)
    OBVIOUS
  <2>4. \A x : Link(x) <=> LinkR(x) \/ LinkS(x)
    OBVIOUS
  <2>5. \A x : Other(x) <=> RegR(x) \/ LinkR(x)
    OBVIOUS
  <2>6. \A x : LinkS(x) <=> x = first \/ Behind(x)
    BY <2>1
  <2> HIDE DEF first, P, Other, Reg, RegR, Link, LinkR, LinkS, Behind
  <2>7. \A x : x \in P <=> Other(x) \/ x = first \/ Behind(x)
    BY <2>2, <2>3, <2>4, <2>5, <2>6
  <2> QED BY <2>7 DEF Behind
<1>5. \A x : x \in Q <=> Other(x) \/ x = in \/ \E i \in I : x = up(i)
  <2>1. \A x : (\E i \in DOMAIN q.link[d][s] : x = OnLink(q, d, s, i))
                <=> \E i \in I : x = up(i)
    <3> SUFFICES ASSUME NEW x
                 PROVE  (\E i \in DOMAIN q.link[d][s] : x = OnLink(q, d, s, i))
                          <=> \E i \in I : x = up(i)
      OBVIOUS
    <3>1. q.link[d][s] = Tail(old)
      BY <1>1, <1>2
    <3>2. DOMAIN Tail(old) = 1 .. Len(old) - 1
      BY <1>1
    <3>3. \A i \in 1 .. Len(old) - 1 :
            i + 1 \in I /\ (i + 1) - 1 = i /\ Tail(old)[i] = old[i + 1]
      BY <1>1
    <3>4. ASSUME NEW i \in DOMAIN q.link[d][s], x = OnLink(q, d, s, i)
          PROVE  \E j \in I : x = up(j)
      <4>1. i + 1 \in I /\ (i + 1) - 1 = i /\ Tail(old)[i] = old[i + 1]
        BY <3>1, <3>4, <3>2, <3>3
      <4>2. x = up(i + 1)
        BY <3>1, <3>4, <4>1 DEF OnLink
      <4> QED BY <4>1, <4>2
    <3>5. ASSUME NEW i \in I, x = up(i)
          PROVE  \E j \in DOMAIN q.link[d][s] : x = OnLink(q, d, s, j)
      <4>1. i - 1 \in DOMAIN Tail(old) /\ Tail(old)[i - 1] = old[i]
        BY <1>1
      <4>2. x = OnLink(q, d, s, i - 1)
        BY <3>1, <3>5, <4>1 DEF OnLink
      <4> QED BY <3>1, <4>1, <4>2
    <3> QED BY <3>4, <3>5
  <2>2. \A x : (\E y \in Station : /\ q.transit[d][y] # NoSlot
                                   /\ x = InRegister(q, d, y))
                <=> \/ x = in
                    \/ \E y \in Station : /\ y # t /\ r.transit[d][y] # NoSlot
                                          /\ x = InRegister(r, d, y)
    <3>1. q.transit[d][t] = old[1] /\ InRegister(q, d, t) = in
      BY <1>1, <1>2 DEF InRegister
    <3>2. \A y \in Station : y # t => /\ q.transit[d][y] = r.transit[d][y]
                                      /\ InRegister(q, d, y) = InRegister(r, d, y)
      BY <1>1, <1>2 DEF InRegister
    <3> HIDE DEF in
    <3> QED BY <1>1, <3>1, <3>2
  <2>3. \A y \in Station \ {s} : \A i :
          /\ DOMAIN q.link[d][y] = DOMAIN r.link[d][y]
          /\ OnLink(q, d, y, i) = OnLink(r, d, y, i)
    BY <1>1, <1>2 DEF OnLink
  <2> DEFINE RegQ(x) == \E y \in Station : /\ q.transit[d][y] # NoSlot
                                           /\ x = InRegister(q, d, y)
             RegR(x) == \E y \in Station : /\ y # t /\ r.transit[d][y] # NoSlot
                                           /\ x = InRegister(r, d, y)
             LinkQ(x) == \E y \in Station : \E i \in DOMAIN q.link[d][y] :
                           x = OnLink(q, d, y, i)
             LinkR(x) == \E y \in Station \ {s} : \E i \in DOMAIN r.link[d][y] :
                           x = OnLink(r, d, y, i)
             Up(x) == \E i \in I : x = up(i)
  <2>4. \A x : x \in Q <=> RegQ(x) \/ LinkQ(x)
    BY Places
  <2>5. \A x : LinkQ(x) <=> Up(x) \/ LinkR(x)
    <3> HIDE DEF up, I
    <3> QED BY <2>1, <2>3
  <2>6. \A x : RegQ(x) <=> x = in \/ RegR(x)
    BY <2>2, SMTT(30)
  <2>7. \A x : Other(x) <=> RegR(x) \/ LinkR(x)
    OBVIOUS
  <2> HIDE DEF in, up, I, Q, RegQ, RegR, LinkQ, LinkR, Up, Other
  <2>8. \A x : x \in Q <=> Other(x) \/ x = in \/ Up(x)
    BY <2>4, <2>5, <2>6, <2>7
  <2> QED BY <2>8 DEF Up
(* The places named are different ones. *)
<1>6. \A x : Other(x) => /\ x # first /\ x # in
                         /\ \A i \in I : x # behind(i) /\ x # up(i)
  BY DEF InRegister, OnLink
<1>7. /\ \A i \in I : /\ behind(i) # first /\ up(i) # in
                      /\ behind(i)[4] = up(i)[4]
      /\ \A i, j \in I : up(i) = up(j) \/ behind(i) = behind(j) => i = j
      /\ first[4] = in[4]
  BY <1>1
<1> DEFINE index(x) == CHOOSE i \in I : x = behind(i)
           f == [x \in P |-> IF x = first THEN in
                             ELSE IF \E i \in I : x = behind(i)
                             THEN up(index(x)) ELSE x]
<1> HIDE DEF Other, first, in, behind, up, I, P, Q
<1>8. \A i \in I : index(behind(i)) = i
  BY <1>7
<1>9. /\ f \in [P -> Q]
      /\ first \in P /\ f[first] = in
      /\ \A i \in I : behind(i) \in P /\ f[behind(i)] = up(i)
      /\ \A x : Other(x) => x \in P /\ f[x] = x
  <2>1. \A x \in P : f[x] \in Q
    BY <1>4, <1>5, <1>6, <1>7, <1>8
  <2> QED BY <2>1, <1>4, <1>5, <1>6, <1>7, <1>8
<1> HIDE DEF f
<1>10. \A x \in P : f[x][4] = x[4]
  BY <1>4, <1>7, <1>9
<1>11. \A x, y \in P : f[x] = f[y] => x = y
  BY <1>4, <1>6, <1>7, <1>9
<1>12. \A y \in Q : \E x \in P : f[x] = y
  BY <1>5, <1>9
<1>13. f \in Bijection(P, Q)
  BY <1>9, <1>11, <1>12 DEF Bijection, Injection, IsInjective, Surjection
<1> QED BY <1>3, <1>10, <1>13 DEF Shifted, P, Q

-----------------------------------------------------------------------------
(* The inductive invariant                                                 *)

(* The pool counts the slots of the lane, and keeps one place free. *)
PoolCounts(r) ==
  \A d \in Dirs : /\ IsFiniteSet(SlotsOf(r, d))
                  /\ r.used[d] = Cardinality(SlotsOf(r, d))
                  /\ r.used[d] < Capacity

(* A slot without a packet has nowhere to go. *)
EmptyShapes(r) ==
  \A d \in Dirs : \A x \in SlotsOf(r, d) : x[4].pkt = NoPkt => x[4].rest = {}

(* An I-tag is out exactly when a slot has it, one slot, and while a packet *)
(* waits.                                                                  *)
TagsOwed(r) ==
  \A d \in Dirs, s \in Station :
    /\ \A x \in SlotsOf(r, d) : x[4].itag = s => r.iTag[d][s]
    /\ r.iTag[d][s] => \E x \in SlotsOf(r, d) : x[4].itag = s
    /\ \A x, y \in SlotsOf(r, d) : x[4].itag = s /\ y[4].itag = s => x = y
    /\ r.iTag[d][s] => Waiting(r, s, d)

(* A mark stands for a reservation of the packet it is on, at a station it *)
(* has still to reach; a reservation has one mark.                         *)
MarksHold(r) ==
  \A d \in Dirs, s \in Station : \A x \in SlotsOf(r, d) :
    x[4].etag = s => /\ x[4].pkt # NoPkt /\ s \in x[4].rest
                     /\ Reservation(r, s, d) = x[4].pkt

ReservationsMarked(r) ==
  \A s \in Station, b \in Dirs :
    r.eTag[s][b] # NoPkt =>
      \E d \in Dirs : Bank(s, d) = b /\ \E x \in SlotsOf(r, d) : x[4].etag = s

OneMark(r) ==
  \A s \in Station, d, e \in Dirs :
    \A x \in SlotsOf(r, d), y \in SlotsOf(r, e) :
      /\ x[4].etag = s /\ y[4].etag = s /\ Bank(s, d) = Bank(s, e)
      => d = e /\ x = y

(* A packet is in one slot, or in one place of one inject bank. *)
SlotsApart(r) ==
  \A d, e \in Dirs : \A x \in SlotsOf(r, d), y \in SlotsOf(r, e) :
    x[4].pkt = y[4].pkt /\ x[4].pkt # NoPkt => d = e /\ x = y

BanksApart(r) ==
  \A d, e \in Dirs, s, t \in Station :
    \A i \in DOMAIN r.inject[d][s], j \in DOMAIN r.inject[e][t] :
      r.inject[d][s][i] = r.inject[e][t][j] => d = e /\ s = t /\ i = j

NotBoth(r) ==
  \A d, e \in Dirs, t \in Station :
    \A x \in SlotsOf(r, d), j \in DOMAIN r.inject[e][t] :
      x[4].pkt # r.inject[e][t][j]

LaneInv(r) ==
  /\ Typed(r) /\ PoolCounts(r) /\ EmptyShapes(r) /\ TagsOwed(r)
  /\ MarksHold(r) /\ ReservationsMarked(r) /\ OneMark(r)
  /\ SlotsApart(r) /\ BanksApart(r) /\ NotBoth(r)

-----------------------------------------------------------------------------
(* One result of serving an output, whatever the case                      *)

ITagOf(slot) == IF slot = NoSlot THEN NoStation ELSE slot.itag

ETagOf(slot) == IF slot = NoSlot THEN NoStation ELSE slot.etag

(* The stations the packet of a slot has still to reach. *)
RestOf(slot) == IF slot = NoSlot THEN {} ELSE slot.rest

(* The head of the bank starts in the slot that goes out, or nothing does. *)
Starts(r, s, d, put, started) ==
  started # NoPkt => /\ Waiting(r, s, d) /\ started = Head(r.inject[d][s])
                     /\ put = Carrier(started)

(* The packet of the register ends, or nothing does. *)
Ends(r, s, d, gone, ended) ==
  ended # NoPkt => /\ gone # NoSlot /\ ended = gone.pkt
                   /\ s \in gone.rest /\ CanEject(r, s, d, gone)

(* A packet stays in its slot until it has reached all its stations. *)
Travels(s, gone, put, started, ended) ==
  LET left == IF ended = NoPkt THEN RestOf(gone) ELSE RestOf(gone) \ {s}
  IN  IF started # NoPkt \/ put = NoSlot THEN left = {}
      ELSE /\ gone # NoSlot /\ put.rest = left
           /\ put.pkt = gone.pkt \/ (put.pkt = NoPkt /\ left = {})

(* The I-tag goes on, or is set, or is cleared. *)
ITagMoves(r, s, d, gone, put, started, tag) ==
  /\ tag \in {"KEPT", "SET", "CLEARED"}
  /\ tag = "KEPT" => /\ ITagOf(put) = ITagOf(gone)
                     /\ started # NoPkt => ~r.iTag[d][s]
  /\ tag = "SET" => /\ ITagOf(gone) = NoStation /\ ITagOf(put) = s
                    /\ ~r.iTag[d][s] /\ Waiting(r, s, d) /\ started = NoPkt
  /\ tag = "CLEARED" => /\ ITagOf(put) = NoStation
                        /\ \/ ITagOf(gone) = s
                           \/ ITagOf(gone) = NoStation /\ ~r.iTag[d][s]

(* The mark goes on, or a reservation is made, or given up. *)
ETagMoves(r, s, d, gone, put, owner) ==
  \/ /\ ETagOf(put) = ETagOf(gone) /\ owner = Reservation(r, s, d)
     /\ ETagOf(gone) # NoStation =>
          put.pkt = gone.pkt /\ ETagOf(gone) \in put.rest
  \/ /\ ETagOf(gone) = NoStation /\ Reservation(r, s, d) = NoPkt
     /\ ETagOf(put) = s /\ owner # NoPkt
     /\ owner = put.pkt /\ s \in put.rest
  \/ ETagOf(gone) = s /\ ETagOf(put) = NoStation /\ owner = NoPkt

Step(r, q, s, d, gone, put, started, ended, tag, owner) ==
  /\ Effect(r, q, s, d, gone, put, started, ended, tag, owner)
  /\ gone \in {NoSlot, r.transit[d][s]} /\ put \in Slot \cup {NoSlot}
  /\ owner \in Packets \cup {NoPkt}
  /\ started \in Packets \cup {NoPkt} /\ ended \in Packets \cup {NoPkt}
  /\ put # NoSlot => Accepts(r, s, d)
  /\ gone = NoSlot => put # NoSlot /\ CanAcquire(r, d)
  /\ Starts(r, s, d, put, started)
  /\ Ends(r, s, d, gone, ended)
  /\ Travels(s, gone, put, started, ended)
  /\ ITagMoves(r, s, d, gone, put, started, tag)
  /\ ETagMoves(r, s, d, gone, put, owner)

(* The slot in a register is one of the lane. *)
LEMMA RegisterSlot ==
  ASSUME NEW r, LaneInv(r), NEW s \in Station, NEW d \in Dirs,
         r.transit[d][s] # NoSlot
  PROVE  LET slot == r.transit[d][s]
         IN  /\ slot \in Slot /\ slot.pkt \in Packets \cup {NoPkt}
             /\ slot.rest \in SUBSET Station
             /\ slot.itag \in Station \cup {NoStation}
             /\ slot.etag \in Station \cup {NoStation}
             /\ slot.pkt = NoPkt => slot.rest = {}
             /\ slot.etag # NoStation =>
                  slot.pkt # NoPkt /\ slot.etag \in slot.rest
             /\ slot.etag = s => Reservation(r, s, d) = slot.pkt
<1> DEFINE slot == r.transit[d][s]
           x == InRegister(r, d, s)
<1>1. x \in SlotsOf(r, d) /\ x[4] = slot
  BY Places DEF InRegister
<1>2. slot \in Slot
  BY DEF LaneInv, Typed
<1>3. slot.pkt = NoPkt => slot.rest = {}
  BY <1>1 DEF LaneInv, EmptyShapes
<1>4. /\ slot.pkt \in Packets \cup {NoPkt} /\ slot.rest \in SUBSET Station
      /\ slot.itag \in Station \cup {NoStation}
      /\ slot.etag \in Station \cup {NoStation}
  BY <1>2 DEF Slot
<1>5. \A t \in Station : slot.etag = t =>
        /\ slot.pkt # NoPkt /\ t \in slot.rest
        /\ Reservation(r, t, d) = slot.pkt
  BY <1>1 DEF LaneInv, MarksHold
<1> QED BY <1>2, <1>3, <1>4, <1>5

(* Serving an output changes nothing, or is a step. *)
LEMMA ServedIsStep ==
  ASSUME NEW r, LaneInv(r), NEW q, NEW s \in Station, NEW d \in Dirs,
         Served(r, q, s, d)
  PROVE  \/ q = r
         \/ \E gone, put, started, ended, tag, owner :
              Step(r, q, s, d, gone, put, started, ended, tag, owner)
<1> DEFINE slot == r.transit[d][s]
           p == Head(r.inject[d][s])
           Some == \E gone, put, started, ended, tag, owner :
                     Step(r, q, s, d, gone, put, started, ended, tag, owner)
<1>1. Typed(r)
  BY DEF LaneInv
<1>2. Reservation(r, s, d) \in Packets \cup {NoPkt}
  BY <1>1, Unwritten
<1>3. Waiting(r, s, d) =>
        /\ p \in Packets /\ p # NoPkt /\ Carrier(p) \in Slot
        /\ Carrier(p) # NoSlot /\ Carrier(p).itag = NoStation
        /\ Carrier(p).etag = NoStation
  BY <1>1, WaitingHead DEF Carrier
<1>4. NoPkt \notin Packets /\ NoStation \notin Station /\ NoSlot \notin Slot
  BY LaneAssumption, NoSlotAssumption
<1>5. CASE Started(r, q, s, d)
  <2>1. Step(r, q, s, d, NoSlot, Carrier(p), p, NoPkt, "KEPT",
             Reservation(r, s, d))
    BY <1>2, <1>3, <1>5 DEF Started, Step, Starts, Ends, Travels, ITagMoves,
       ETagMoves, ITagOf, ETagOf, RestOf
  <2> QED BY <2>1
<1>6. CASE TagReturned(r, q, s, d)
  <2>1. Step(r, q, s, d, slot, NoSlot, NoPkt, NoPkt, "CLEARED",
             Reservation(r, s, d))
    <3>1. /\ slot # NoSlot /\ slot.pkt = NoPkt /\ slot.itag = s
          /\ Effect(r, q, s, d, slot, NoSlot, NoPkt, NoPkt, "CLEARED",
                    Reservation(r, s, d))
      BY <1>6 DEF TagReturned
    <3>2. slot.rest = {} /\ slot.etag = NoStation
      BY <1>4, <3>1, RegisterSlot
    <3>3. ITagMoves(r, s, d, slot, NoSlot, NoPkt, "CLEARED")
      BY <3>1 DEF ITagMoves, ITagOf
    <3>4. ETagMoves(r, s, d, slot, NoSlot, Reservation(r, s, d))
      BY <1>4, <3>1, <3>2 DEF ETagMoves, ETagOf
    <3> QED BY <1>2, <3>1, <3>2, <3>3, <3>4
            DEF Step, Starts, Ends, Travels, RestOf
  <2> QED BY <2>1
<1>7. CASE TagUsed(r, q, s, d)
  <2>1. Step(r, q, s, d, slot, Carrier(p), p, NoPkt, "CLEARED",
             Reservation(r, s, d))
    <3>1. /\ slot # NoSlot /\ slot.pkt = NoPkt /\ slot.itag = s
          /\ Waiting(r, s, d) /\ Accepts(r, s, d)
          /\ Effect(r, q, s, d, slot, Carrier(p), p, NoPkt, "CLEARED",
                    Reservation(r, s, d))
      BY <1>7 DEF TagUsed
    <3>2. slot.rest = {} /\ slot.etag = NoStation
      BY <1>4, <3>1, RegisterSlot
    <3>3. ITagMoves(r, s, d, slot, Carrier(p), p, "CLEARED")
      BY <1>3, <3>1 DEF ITagMoves, ITagOf
    <3>4. ETagMoves(r, s, d, slot, Carrier(p), Reservation(r, s, d))
      BY <1>3, <3>1, <3>2 DEF ETagMoves, ETagOf
    <3> QED BY <1>2, <1>3, <3>1, <3>2, <3>3, <3>4
            DEF Step, Starts, Ends, Travels, RestOf
  <2> QED BY <2>1
<1>8. CASE \E put \in Slot, tag \in {"KEPT", "SET"},
             owner \in Packets \cup {NoPkt} :
               Passed(r, q, s, d, put, tag, owner)
  <2>1. PICK put \in Slot, tag \in {"KEPT", "SET"},
             owner \in Packets \cup {NoPkt} :
               Passed(r, q, s, d, put, tag, owner)
    BY <1>8
  <2>2. ITagMoves(r, s, d, slot, put, NoPkt, tag)
    BY <1>4, <2>1 DEF Passed, KeepsITag, ITagMoves, ITagOf
  <2>3. ETagMoves(r, s, d, slot, put, owner)
    BY <1>4, <2>1, RegisterSlot DEF Passed, KeepsETag, ETagMoves, ETagOf
  <2>4. Step(r, q, s, d, slot, put, NoPkt, NoPkt, tag, owner)
    BY <1>4, <2>1, <2>2, <2>3, RegisterSlot
       DEF Passed, Step, Starts, Ends, Travels, RestOf
  <2> QED BY <2>4
<1>9. ASSUME Arrives(r, s, d)
      PROVE  /\ slot \in Slot /\ slot # NoSlot /\ slot.pkt # NoPkt
             /\ slot.pkt \in Packets /\ s \in slot.rest
             /\ slot.rest \in SUBSET Station
             /\ CanEject(r, s, d, slot)
             /\ Released(r, s, d, slot) \in Packets \cup {NoPkt}
             /\ slot.etag = s => Released(r, s, d, slot) = NoPkt
             /\ slot.etag # s => Released(r, s, d, slot) = Reservation(r, s, d)
  <2>1. slot # NoSlot /\ slot.pkt # NoPkt /\ s \in slot.rest
        /\ CanEject(r, s, d, slot)
    BY <1>9 DEF Arrives
  <2>2. slot.etag = s => OwnsETag(r, s, d, slot)
    BY <2>1, RegisterSlot DEF OwnsETag, Reservation
  <2>3. slot.etag # s => ~OwnsETag(r, s, d, slot)
    BY DEF OwnsETag
  <2> QED BY <1>2, <2>1, <2>2, <2>3, RegisterSlot DEF Released, Reservation
<1>10. CASE Emptied(r, q, s, d)
  <2> DEFINE put == [pkt |-> NoPkt, rest |-> {}, itag |-> slot.itag,
                     etag |-> NoStation]
  <2>1. Arrives(r, s, d) /\ slot.rest = {s} /\ Accepts(r, s, d)
        /\ Effect(r, q, s, d, slot, put, NoPkt, slot.pkt, "KEPT",
                  Released(r, s, d, slot))
    BY <1>10 DEF Emptied
  <2>2. put \in Slot
    BY <1>9, <2>1 DEF Slot
  <2>3. ITagMoves(r, s, d, slot, put, NoPkt, "KEPT")
    BY <1>4, <1>9, <2>1, <2>2 DEF ITagMoves, ITagOf
  <2>4. ETagMoves(r, s, d, slot, put, Released(r, s, d, slot))
    BY <1>4, <1>9, <2>1, <2>2, RegisterSlot DEF ETagMoves, ETagOf
  <2>5. Step(r, q, s, d, slot, put, NoPkt, slot.pkt, "KEPT",
             Released(r, s, d, slot))
    BY <1>4, <1>9, <2>1, <2>2, <2>3, <2>4
       DEF Step, Starts, Ends, Travels, RestOf
  <2> QED BY <2>5
<1>11. CASE Replaced(r, q, s, d)
  <2>1. Arrives(r, s, d) /\ slot.rest = {s} /\ Accepts(r, s, d)
        /\ Waiting(r, s, d)
        /\ (slot.itag # s => slot.itag = NoStation /\ ~r.iTag[d][s])
        /\ Effect(r, q, s, d, slot, Carrier(p), p, slot.pkt, "CLEARED",
                  Released(r, s, d, slot))
    BY <1>11 DEF Replaced
  <2>2. ITagMoves(r, s, d, slot, Carrier(p), p, "CLEARED")
    BY <1>3, <1>4, <1>9, <2>1 DEF ITagMoves, ITagOf
  <2>3. ETagMoves(r, s, d, slot, Carrier(p), Released(r, s, d, slot))
    BY <1>3, <1>4, <1>9, <2>1, RegisterSlot DEF ETagMoves, ETagOf
  <2>4. Step(r, q, s, d, slot, Carrier(p), p, slot.pkt, "CLEARED",
             Released(r, s, d, slot))
    BY <1>3, <1>4, <1>9, <2>1, <2>2, <2>3
       DEF Step, Starts, Ends, Travels, RestOf
  <2> QED BY <2>4
<1>12. CASE Freed(r, q, s, d)
  <2> DEFINE tag == IF slot.itag = s THEN "CLEARED" ELSE "KEPT"
  <2>1. Arrives(r, s, d) /\ slot.rest = {s}
        /\ (slot.itag # NoStation => slot.itag = s /\ ~Waiting(r, s, d))
        /\ Effect(r, q, s, d, slot, NoSlot, NoPkt, slot.pkt, tag,
                  Released(r, s, d, slot))
    BY <1>12 DEF Freed
  <2>2. ITagMoves(r, s, d, slot, NoSlot, NoPkt, tag)
    BY <1>4, <1>9, <2>1 DEF ITagMoves, ITagOf
  <2>3. ETagMoves(r, s, d, slot, NoSlot, Released(r, s, d, slot))
    BY <1>4, <1>9, <2>1, RegisterSlot DEF ETagMoves, ETagOf
  <2>4. Step(r, q, s, d, slot, NoSlot, NoPkt, slot.pkt, tag,
             Released(r, s, d, slot))
    BY <1>4, <1>9, <2>1, <2>2, <2>3 DEF Step, Starts, Ends, Travels, RestOf
  <2> QED BY <2>4
<1>13. CASE Copied(r, q, s, d)
  <2> DEFINE put == Onward(r, s, d)
  <2>1. Arrives(r, s, d) /\ slot.rest # {s} /\ Accepts(r, s, d)
        /\ Effect(r, q, s, d, slot, put, NoPkt, slot.pkt, "KEPT",
                  Released(r, s, d, slot))
    BY <1>13 DEF Copied
  <2>2. OwnsETag(r, s, d, slot) <=> slot.etag = s
    BY <1>9, <2>1, RegisterSlot DEF OwnsETag, Reservation
  <2>3. /\ put \in Slot /\ put.pkt = slot.pkt /\ put.rest = slot.rest \ {s}
        /\ put.itag = slot.itag
        /\ put.etag = IF slot.etag = s THEN NoStation ELSE slot.etag
    BY <1>9, <2>1, <2>2 DEF Onward, Slot
  <2> HIDE DEF put
  <2>4. ITagMoves(r, s, d, slot, put, NoPkt, "KEPT")
    BY <1>4, <1>9, <2>1, <2>3 DEF ITagMoves, ITagOf
  <2>5. ETagMoves(r, s, d, slot, put, Released(r, s, d, slot))
    BY <1>4, <1>9, <2>1, <2>3, RegisterSlot DEF ETagMoves, ETagOf
  <2>6. Step(r, q, s, d, slot, put, NoPkt, slot.pkt, "KEPT",
             Released(r, s, d, slot))
    BY <1>4, <1>9, <2>1, <2>3, <2>4, <2>5
       DEF Step, Starts, Ends, Travels, RestOf
  <2> QED BY <2>6
<1> HIDE DEF slot, p
<1> QED BY <1>5, <1>6, <1>7, <1>8, <1>10, <1>11, <1>12, <1>13 DEF Served

-----------------------------------------------------------------------------
(* The invariant is kept by serving an output                              *)

Vacated(s, gone) == <<"register", s, 0, gone>>

Occupied(r, s, d, put) == <<"link", s, Len(r.link[d][s]) + 1, put>>

(* The places of all lanes, before and after: what stays is what was there *)
(* but not vacated.                                                        *)
PlacesAfter(r, q, s, d, gone, put) ==
  LET from == Vacated(s, gone)
      to == Occupied(r, s, d, put)
  IN  /\ \A x : x \in SlotsOf(q, d) <=>
           \/ x \in SlotsOf(r, d) /\ (gone # NoSlot => x # from)
           \/ put # NoSlot /\ x = to
      /\ gone # NoSlot => from \in SlotsOf(r, d)
      /\ put # NoSlot => to \notin SlotsOf(r, d)
      /\ from[4] = gone /\ to[4] = put /\ from # to
      /\ \A e \in Dirs : e # d => SlotsOf(q, e) = SlotsOf(r, e)

(* The slots of both lanes after a step. *)
LEMMA StepPlaces ==
  ASSUME NEW r, Typed(r), NEW q, NEW s \in Station, NEW d \in Dirs,
         NEW gone, NEW put, NEW started, NEW ended, NEW tag, NEW owner,
         Step(r, q, s, d, gone, put, started, ended, tag, owner)
  PROVE  /\ Moved(SlotsOf(r, d), SlotsOf(q, d), gone, put, s,
                  Len(r.link[d][s]) + 1)
         /\ PlacesAfter(r, q, s, d, gone, put)
<1> DEFINE n == Len(r.link[d][s]) + 1
           from == Vacated(s, gone)
           to == Occupied(r, s, d, put)
<1>1. Moved(SlotsOf(r, d), SlotsOf(q, d), gone, put, s, n)
  BY MovedPlaces DEF Step
<1>2. \A e \in Dirs : e # d => SlotsOf(q, e) = SlotsOf(r, e)
  BY OtherLane DEF Step
<1>3. from # to /\ from[4] = gone /\ to[4] = put
  BY DEF Vacated, Occupied
<1>4. /\ SlotsOf(q, d) = (SlotsOf(r, d) \ (IF gone = NoSlot THEN {} ELSE {from}))
                         \cup (IF put = NoSlot THEN {} ELSE {to})
      /\ gone # NoSlot => from \in SlotsOf(r, d)
      /\ put # NoSlot => to \notin SlotsOf(r, d)
  BY <1>1 DEF Moved, Vacated, Occupied
<1> HIDE DEF from, to
<1>5. \A x : x \in SlotsOf(q, d) <=>
        \/ x \in SlotsOf(r, d) /\ (gone # NoSlot => x # from)
        \/ put # NoSlot /\ x = to
  BY <1>4
<1>6. PlacesAfter(r, q, s, d, gone, put)
  BY <1>2, <1>3, <1>4, <1>5 DEF PlacesAfter, from, to
<1> QED BY <1>1, <1>6

(* A step keeps the types and the depths. *)
LEMMA StepTyped ==
  ASSUME NEW r, LaneInv(r), NEW q, NEW s \in Station, NEW d \in Dirs,
         NEW gone, NEW put, NEW started, NEW ended, NEW tag, NEW owner,
         Step(r, q, s, d, gone, put, started, ended, tag, owner)
  PROVE  Typed(q)
<1> DEFINE b == Bank(s, d)
<1>1. Typed(r) /\ Effect(r, q, s, d, gone, put, started, ended, tag, owner)
  BY DEF LaneInv, Step
<1>2. b \in Dirs
  BY <1>1, Unwritten
<1>3. /\ q.inject \in [Dirs -> [Station -> Seq(Packets)]]
      /\ \A t \in Station, e \in Dirs : Len(q.inject[e][t]) <= InjectDepth
  <2>1. CASE started = NoPkt
    BY <1>1, <2>1 DEF Effect, Typed
  <2>2. CASE started # NoPkt
    <3>1. /\ r.inject[d][s] \in Seq(Packets) /\ r.inject[d][s] # <<>>
          /\ Len(r.inject[d][s]) <= InjectDepth
      BY <1>1, <2>2 DEF Step, Starts, Waiting, Typed
    <3>2. /\ Tail(r.inject[d][s]) \in Seq(Packets)
          /\ Len(Tail(r.inject[d][s])) <= InjectDepth
      BY <3>1, LaneAssumption
    <3>3. q.inject = Change(r.inject, d, s, Tail(r.inject[d][s]))
      BY <1>1, <2>2 DEF Effect
    <3>4. r.inject \in [Dirs -> [Station -> Seq(Packets)]]
      BY <1>1 DEF Typed
    <3>5. /\ q.inject \in [Dirs -> [Station -> Seq(Packets)]]
          /\ \A t \in Station, e \in Dirs :
               q.inject[e][t] = IF e = d /\ t = s THEN Tail(r.inject[d][s])
                                ELSE r.inject[e][t]
      BY <3>2, <3>3, <3>4 DEF Change
    <3> QED BY <1>1, <3>2, <3>5 DEF Typed
  <2> QED BY <2>1, <2>2
<1>4. /\ q.eject \in [Station -> [Dirs -> Seq(Packets)]]
      /\ \A t \in Station, e \in Dirs : Len(q.eject[t][e]) <= EjectDepth
  <2>1. CASE ended = NoPkt
    BY <1>1, <2>1 DEF Effect, Typed
  <2>2. CASE ended # NoPkt
    <3>1. /\ ended \in Packets /\ r.eject[s][b] \in Seq(Packets)
          /\ Len(r.eject[s][b]) \in Nat
      BY <1>1, <1>2, <2>2 DEF Step, Typed
    <3>2. Len(r.eject[s][b]) < EjectDepth
      <4>1. CanEject(r, s, d, gone)
        BY <2>2 DEF Step, Ends
      <4>2. EjectDepth \in Nat
        BY LaneAssumption
      <4> DEFINE kept == IF r.eTag[s][b] = NoPkt \/ OwnsETag(r, s, d, gone)
                         THEN 0 ELSE 1
      <4>3. Len(r.eject[s][b]) + kept < EjectDepth
        BY <4>1, Zenon DEF CanEject
      <4>4. kept = 0 \/ kept = 1
        BY Zenon
      <4> HIDE DEF b, kept
      <4> QED BY <3>1, <4>2, <4>3, <4>4
    <3>3. /\ Append(r.eject[s][b], ended) \in Seq(Packets)
          /\ Len(Append(r.eject[s][b], ended)) <= EjectDepth
      BY <3>1, <3>2, LaneAssumption
    <3>4. q.eject = Change(r.eject, s, b, Append(r.eject[s][b], ended))
      BY <1>1, <2>2 DEF Effect
    <3>5. r.eject \in [Station -> [Dirs -> Seq(Packets)]]
      BY <1>1 DEF Typed
    <3> HIDE DEF b
    <3>6. /\ q.eject \in [Station -> [Dirs -> Seq(Packets)]]
          /\ \A t \in Station, e \in Dirs :
               q.eject[t][e] = IF t = s /\ e = b THEN Append(r.eject[s][b], ended)
                               ELSE r.eject[t][e]
      BY <1>2, <3>3, <3>4, <3>5 DEF Change
    <3> QED BY <1>1, <3>3, <3>6 DEF Typed
  <2> QED BY <2>1, <2>2
<1>5. q.transit \in [Dirs -> [Station -> Slot \cup {NoSlot}]]
  <2>1. q.transit = r.transit \/ q.transit = Change(r.transit, d, s, NoSlot)
    BY <1>1 DEF Effect
  <2>2. r.transit \in [Dirs -> [Station -> Slot \cup {NoSlot}]]
    BY <1>1 DEF Typed
  <2>3. Change(r.transit, d, s, NoSlot)
          \in [Dirs -> [Station -> Slot \cup {NoSlot}]]
    BY <2>2 DEF Change
  <2> QED BY <2>1, <2>2, <2>3
<1>6. /\ q.link \in [Dirs -> [Station -> Seq(Slot)]]
      /\ \A t \in Station, e \in Dirs : Len(q.link[e][t]) <= LinkDepth
  <2>1. CASE put = NoSlot
    BY <1>1, <2>1 DEF Effect, Typed
  <2>2. CASE put # NoSlot
    <3>1. /\ put \in Slot /\ r.link[d][s] \in Seq(Slot)
          /\ Len(r.link[d][s]) < LinkDepth
      BY <1>1, <2>2 DEF Step, Typed, Accepts
    <3>2. /\ Append(r.link[d][s], put) \in Seq(Slot)
          /\ Len(Append(r.link[d][s], put)) <= LinkDepth
      BY <3>1, LaneAssumption
    <3>3. q.link = Change(r.link, d, s, Append(r.link[d][s], put))
      BY <1>1, <2>2 DEF Effect
    <3>4. r.link \in [Dirs -> [Station -> Seq(Slot)]]
      BY <1>1 DEF Typed
    <3>5. /\ q.link \in [Dirs -> [Station -> Seq(Slot)]]
          /\ \A t \in Station, e \in Dirs :
               q.link[e][t] = IF e = d /\ t = s THEN Append(r.link[d][s], put)
                              ELSE r.link[e][t]
      BY <3>2, <3>3, <3>4 DEF Change
    <3> QED BY <1>1, <3>2, <3>5 DEF Typed
  <2> QED BY <2>1, <2>2
<1>7. q.busy \in [Dirs -> [Station -> BOOLEAN]]
  <2>1. q.busy = r.busy \/ q.busy = Set(r.busy, d, s)
    BY <1>1 DEF Effect
  <2>2. r.busy \in [Dirs -> [Station -> BOOLEAN]]
    BY <1>1 DEF Typed
  <2>3. Set(r.busy, d, s) \in [Dirs -> [Station -> BOOLEAN]]
    BY <2>2 DEF Set
  <2> QED BY <2>1, <2>2, <2>3
<1>8. q.iTag \in [Dirs -> [Station -> BOOLEAN]]
  <2>1. \/ q.iTag = r.iTag \/ q.iTag = Set(r.iTag, d, s)
        \/ q.iTag = Cleared(r.iTag, d, s)
    BY <1>1 DEF Step, ITagMoves, Effect
  <2>2. r.iTag \in [Dirs -> [Station -> BOOLEAN]]
    BY <1>1 DEF Typed
  <2>3. /\ Set(r.iTag, d, s) \in [Dirs -> [Station -> BOOLEAN]]
        /\ Cleared(r.iTag, d, s) \in [Dirs -> [Station -> BOOLEAN]]
    BY <2>2 DEF Set, Cleared
  <2> QED BY <2>1, <2>2, <2>3
<1>9. q.eTag \in [Station -> [Dirs -> Packets \cup {NoPkt}]]
  <2>1. /\ q.eTag = Change(r.eTag, s, b, owner) /\ owner \in Packets \cup {NoPkt}
        /\ r.eTag \in [Station -> [Dirs -> Packets \cup {NoPkt}]]
    BY <1>1 DEF Step, Effect, Typed
  <2> HIDE DEF b
  <2> QED BY <1>2, <2>1 DEF Change
<1>10. q.used \in [Dirs -> Nat]
  <2>1. gone # NoSlot => r.used[d] # 0
    <3> SUFFICES ASSUME gone # NoSlot  PROVE r.used[d] # 0
      OBVIOUS
    <3>1. Vacated(s, gone) \in SlotsOf(r, d)
      BY <1>1, StepPlaces DEF PlacesAfter
    <3>2. IsFiniteSet(SlotsOf(r, d)) /\ r.used[d] = Cardinality(SlotsOf(r, d))
      BY DEF LaneInv, PoolCounts
    <3> QED BY <3>1, <3>2, FS_EmptySet
  <2>2. r.used \in [Dirs -> Nat]
    BY <1>1 DEF Typed
  <2>3. \/ q.used = r.used \/ q.used = Recount(r.used, d, r.used[d] + 1)
        \/ gone # NoSlot /\ q.used = Recount(r.used, d, r.used[d] - 1)
    BY <1>1 DEF Effect
  <2> QED BY <2>1, <2>2, <2>3 DEF Recount
<1> QED BY <1>1, <1>3, <1>4, <1>5, <1>6, <1>7, <1>8, <1>9, <1>10
        DEF Typed, Effect

(* A step keeps the pool exact. *)
LEMMA StepPool ==
  ASSUME NEW r, LaneInv(r), NEW q, NEW s \in Station, NEW d \in Dirs,
         NEW gone, NEW put, NEW started, NEW ended, NEW tag, NEW owner,
         Step(r, q, s, d, gone, put, started, ended, tag, owner)
  PROVE  PoolCounts(q)
<1>1. Typed(r) /\ PoolCounts(r)
      /\ Effect(r, q, s, d, gone, put, started, ended, tag, owner)
  BY DEF LaneInv, Step
<1>2. r.used \in [Dirs -> Nat]
  BY <1>1 DEF Typed
<1>3. /\ IsFiniteSet(SlotsOf(q, d))
      /\ Cardinality(SlotsOf(q, d)) =
           Cardinality(SlotsOf(r, d)) - (IF gone = NoSlot THEN 0 ELSE 1)
                                      + (IF put = NoSlot THEN 0 ELSE 1)
  <2>1. /\ Moved(SlotsOf(r, d), SlotsOf(q, d), gone, put, s,
                 Len(r.link[d][s]) + 1)
        /\ IsFiniteSet(SlotsOf(r, d))
    BY <1>1, StepPlaces DEF PoolCounts
  <2> HIDE DEF Moved
  <2> QED BY <2>1, MovedCount
<1>4. q.used = [r.used EXCEPT ![d] = r.used[d]
                  - (IF gone = NoSlot THEN 0 ELSE 1)
                  + (IF put = NoSlot THEN 0 ELSE 1)]
  <2>1. CASE gone # NoSlot /\ put = NoSlot
    BY <1>1, <1>2, <2>1 DEF Effect, Recount
  <2>2. CASE gone = NoSlot /\ put # NoSlot
    BY <1>1, <1>2, <2>2 DEF Effect, Recount
  <2>3. CASE gone = NoSlot <=> put = NoSlot
    <3>1. q.used = r.used
      BY <1>1, <2>3 DEF Effect
    <3>2. r.used[d] - (IF gone = NoSlot THEN 0 ELSE 1)
                    + (IF put = NoSlot THEN 0 ELSE 1) = r.used[d]
      BY <1>2, <2>3
    <3> QED BY <1>2, <3>1, <3>2
  <2> QED BY <2>1, <2>2, <2>3
<1>5. Capacity \in Nat
  BY LaneAssumption DEF Capacity
<1>6. r.used[d] < Capacity /\ (gone = NoSlot => r.used[d] + 1 < Capacity)
  BY <1>1 DEF Step, CanAcquire, PoolCounts
<1>7. /\ q.used[d] = Cardinality(SlotsOf(q, d)) /\ q.used[d] < Capacity
      /\ \A e \in Dirs : e # d => q.used[e] = r.used[e]
  BY <1>1, <1>2, <1>3, <1>4, <1>5, <1>6 DEF PoolCounts
<1>8. \A e \in Dirs : e # d => SlotsOf(q, e) = SlotsOf(r, e)
  BY <1>1, StepPlaces DEF PlacesAfter
<1> QED BY <1>1, <1>3, <1>7, <1>8 DEF PoolCounts

(* A step leaves no empty slot with a destination. *)
LEMMA StepShapes ==
  ASSUME NEW r, LaneInv(r), NEW q, NEW s \in Station, NEW d \in Dirs,
         NEW gone, NEW put, NEW started, NEW ended, NEW tag, NEW owner,
         Step(r, q, s, d, gone, put, started, ended, tag, owner)
  PROVE  EmptyShapes(q)
<1>1. Typed(r) /\ EmptyShapes(r)
  BY DEF LaneInv
<1>2. put # NoSlot /\ put.pkt = NoPkt => put.rest = {}
  <2>1. CASE started # NoPkt
    BY <2>1 DEF Step, Starts, Carrier
  <2>2. CASE started = NoPkt /\ put # NoSlot
    <3>1. gone # NoSlot /\ gone = r.transit[d][s]
      BY <2>2 DEF Step, Travels
    <3>2. gone.pkt = NoPkt => gone.rest = {}
      BY <3>1, RegisterSlot
    <3> QED BY <2>2, <3>1, <3>2 DEF Step, Travels, RestOf
  <2> QED BY <2>1, <2>2
<1>3. \A x \in SlotsOf(q, d) : \/ x \in SlotsOf(r, d)
                               \/ put # NoSlot /\ x[4] = put
  BY <1>1, StepPlaces DEF PlacesAfter
<1>4. \A e \in Dirs : e # d => SlotsOf(q, e) = SlotsOf(r, e)
  BY <1>1, StepPlaces DEF PlacesAfter
<1> QED BY <1>1, <1>2, <1>3, <1>4 DEF EmptyShapes

(* The I-tags and the banks, of this output and of the others. *)
TablesAfter(r, q, s, d, started, tag, owner) ==
  /\ \A e \in Dirs, t \in Station : e # d \/ t # s =>
       /\ q.iTag[e][t] = r.iTag[e][t]
       /\ q.inject[e][t] = r.inject[e][t]
  /\ tag = "KEPT" => q.iTag[d][s] = r.iTag[d][s]
  /\ tag = "SET" => q.iTag[d][s]
  /\ tag = "CLEARED" => ~q.iTag[d][s]
  /\ q.inject[d][s] = IF started = NoPkt THEN r.inject[d][s]
                      ELSE Tail(r.inject[d][s])
  /\ \A t \in Station, b \in Dirs : q.eTag[t][b] =
       IF t = s /\ b = Bank(s, d) THEN owner ELSE r.eTag[t][b]

(* The tags, reservations and banks after a step. *)
LEMMA StepTables ==
  ASSUME NEW r, Typed(r), NEW q, NEW s \in Station, NEW d \in Dirs,
         NEW gone, NEW put, NEW started, NEW ended, NEW tag, NEW owner,
         Step(r, q, s, d, gone, put, started, ended, tag, owner)
  PROVE  TablesAfter(r, q, s, d, started, tag, owner)
<1>1. Effect(r, q, s, d, gone, put, started, ended, tag, owner)
      /\ tag \in {"KEPT", "SET", "CLEARED"}
  BY DEF Step, ITagMoves
<1>2. /\ r.iTag \in [Dirs -> [Station -> BOOLEAN]]
      /\ r.inject \in [Dirs -> [Station -> Seq(Packets)]]
      /\ r.eTag \in [Station -> [Dirs -> Packets \cup {NoPkt}]]
  BY DEF Typed
<1>3. \A e \in Dirs, t \in Station :
        /\ Set(r.iTag, d, s)[e][t] =
             IF e = d /\ t = s THEN TRUE ELSE r.iTag[e][t]
        /\ Cleared(r.iTag, d, s)[e][t] =
             IF e = d /\ t = s THEN FALSE ELSE r.iTag[e][t]
  BY <1>2 DEF Set, Cleared
<1>4. \A e \in Dirs, t \in Station :
        Change(r.inject, d, s, Tail(r.inject[d][s]))[e][t] =
          IF e = d /\ t = s THEN Tail(r.inject[d][s]) ELSE r.inject[e][t]
  BY <1>2 DEF Change
<1>5. \/ tag = "KEPT" /\ q.iTag = r.iTag
      \/ tag = "SET" /\ q.iTag = Set(r.iTag, d, s)
      \/ tag = "CLEARED" /\ q.iTag = Cleared(r.iTag, d, s)
  BY <1>1 DEF Effect
<1>6. \/ started = NoPkt /\ q.inject = r.inject
      \/ /\ started # NoPkt
         /\ q.inject = Change(r.inject, d, s, Tail(r.inject[d][s]))
  BY <1>1 DEF Effect
<1>7. \A t \in Station, b \in Dirs : q.eTag[t][b] =
              IF t = s /\ b = Bank(s, d) THEN owner ELSE r.eTag[t][b]
  <2>1. Bank(s, d) \in Dirs
    BY Unwritten
  <2>2. q.eTag = Change(r.eTag, s, Bank(s, d), owner)
    BY <1>1 DEF Effect
  <2> QED BY <1>2, <2>1, <2>2 DEF Change
<1>8. /\ \A e \in Dirs, t \in Station : e # d \/ t # s =>
            q.iTag[e][t] = r.iTag[e][t]
      /\ tag = "KEPT" => q.iTag[d][s] = r.iTag[d][s]
      /\ tag = "SET" => q.iTag[d][s]
      /\ tag = "CLEARED" => ~q.iTag[d][s]
  <2>1. CASE tag = "KEPT" /\ q.iTag = r.iTag
    BY <2>1
  <2>2. CASE tag = "SET" /\ q.iTag = Set(r.iTag, d, s)
    <3>1. \A e \in Dirs, t \in Station :
            q.iTag[e][t] = IF e = d /\ t = s THEN TRUE ELSE r.iTag[e][t]
      BY <1>3, <2>2
    <3>2. tag # "KEPT" /\ tag # "CLEARED"
      BY <2>2
    <3> QED BY <3>1, <3>2
  <2>3. CASE tag = "CLEARED" /\ q.iTag = Cleared(r.iTag, d, s)
    <3>1. \A e \in Dirs, t \in Station :
            q.iTag[e][t] = IF e = d /\ t = s THEN FALSE ELSE r.iTag[e][t]
      BY <1>3, <2>3
    <3>2. tag # "KEPT" /\ tag # "SET"
      BY <2>3
    <3> QED BY <3>1, <3>2
  <2> QED BY <1>5, <2>1, <2>2, <2>3
<1>9. /\ \A e \in Dirs, t \in Station : e # d \/ t # s =>
            q.inject[e][t] = r.inject[e][t]
      /\ q.inject[d][s] = IF started = NoPkt THEN r.inject[d][s]
                          ELSE Tail(r.inject[d][s])
  BY <1>4, <1>6
<1> QED BY <1>7, <1>8, <1>9 DEF TablesAfter

(* A step keeps one tagged slot for each I-tag that is owed. *)
LEMMA StepTags ==
  ASSUME NEW r, LaneInv(r), NEW q, NEW s \in Station, NEW d \in Dirs,
         NEW gone, NEW put, NEW started, NEW ended, NEW tag, NEW owner,
         Step(r, q, s, d, gone, put, started, ended, tag, owner)
  PROVE  TagsOwed(q)
<1> DEFINE P == SlotsOf(r, d)
           Q == SlotsOf(q, d)
           from == Vacated(s, gone)
           to == Occupied(r, s, d, put)
<1>1. Typed(r) /\ TagsOwed(r)
  BY DEF LaneInv
<1>2. /\ PlacesAfter(r, q, s, d, gone, put)
       /\ TablesAfter(r, q, s, d, started, tag, owner)
  BY <1>1, StepPlaces, StepTables
<1>3. /\ \A x : x \in Q <=> \/ x \in P /\ (gone # NoSlot => x # from)
                            \/ put # NoSlot /\ x = to
      /\ gone # NoSlot => from \in P
      /\ from[4] = gone /\ to[4] = put
  BY <1>2 DEF PlacesAfter
<1>4. NoStation \notin Station
  BY LaneAssumption
<1>5. ITagMoves(r, s, d, gone, put, started, tag)
  BY DEF Step
<1>6. \A t \in Station :
        /\ \A x \in P : x[4].itag = t => r.iTag[d][t]
        /\ r.iTag[d][t] => \E x \in P : x[4].itag = t
        /\ \A x, y \in P : x[4].itag = t /\ y[4].itag = t => x = y
  BY <1>1 DEF TagsOwed
<1>7. /\ \A t \in Station : t # s => q.iTag[d][t] = r.iTag[d][t]
      /\ tag = "KEPT" => q.iTag[d][s] = r.iTag[d][s]
      /\ tag = "SET" => q.iTag[d][s]
      /\ tag = "CLEARED" => ~q.iTag[d][s]
  BY <1>2 DEF TablesAfter
<1>8. \A e \in Dirs, t \in Station : q.iTag[e][t] => Waiting(q, t, e)
  <2> SUFFICES ASSUME NEW e \in Dirs, NEW t \in Station, q.iTag[e][t]
               PROVE  q.inject[e][t] # <<>>
    BY DEF Waiting
  <2>1. CASE e = d /\ t = s
    <3>1. started = NoPkt /\ Waiting(r, s, d)
      BY <1>1, <1>5, <1>7, <2>1 DEF ITagMoves, TagsOwed
    <3> QED BY <1>2, <2>1, <3>1 DEF Waiting, TablesAfter
  <2>2. CASE e # d \/ t # s
    <3>1. r.iTag[e][t] /\ q.inject[e][t] = r.inject[e][t]
      BY <1>1, <1>2, <2>2 DEF TablesAfter
    <3> QED BY <1>1, <3>1 DEF TagsOwed, Waiting
  <2> QED BY <2>1, <2>2
<1> HIDE DEF P, Q, from, to
<1>9. \A t \in Station : \A x \in Q : x[4].itag = t => q.iTag[d][t]
  <2> SUFFICES ASSUME NEW t \in Station, NEW x \in Q, x[4].itag = t
               PROVE  q.iTag[d][t]
    OBVIOUS
  <2>1. CASE put # NoSlot /\ x = to
    BY <1>3, <1>4, <1>5, <1>6, <1>7, <2>1 DEF ITagMoves, ITagOf
  <2>2. CASE x \in P /\ (gone # NoSlot => x # from)
    <3>1. r.iTag[d][t]
      BY <1>6, <2>2
    <3>2. tag = "CLEARED" => t # s
      BY <1>3, <1>4, <1>5, <1>6, <2>2, <3>1 DEF ITagMoves, ITagOf
    <3> QED BY <1>5, <1>7, <3>1, <3>2 DEF ITagMoves
  <2> QED BY <1>3, <2>1, <2>2
<1>10. \A t \in Station : q.iTag[d][t] => \E x \in Q : x[4].itag = t
  <2> SUFFICES ASSUME NEW t \in Station, q.iTag[d][t]
               PROVE  \E x \in Q : x[4].itag = t
    OBVIOUS
  <2>1. CASE put # NoSlot /\ put.itag = t
    BY <1>3, <2>1
  <2>2. CASE ~(put # NoSlot /\ put.itag = t)
    <3>1. ~(tag = "SET" /\ t = s)
      BY <1>4, <1>5, <2>2 DEF ITagMoves, ITagOf
    <3>2. r.iTag[d][t] /\ ITagOf(gone) # t
      BY <1>4, <1>5, <1>7, <2>2, <3>1 DEF ITagMoves, ITagOf
    <3>3. PICK x \in P : x[4].itag = t
      BY <1>6, <3>2
    <3> QED BY <1>3, <3>2, <3>3 DEF ITagOf
  <2> QED BY <2>1, <2>2
<1>11. \A t \in Station : \A x, y \in Q :
         x[4].itag = t /\ y[4].itag = t => x = y
  <2> SUFFICES ASSUME NEW t \in Station, NEW x \in Q, NEW y \in Q,
                      x[4].itag = t, y[4].itag = t, put # NoSlot,
                      x \in P, gone # NoSlot => x # from, y = to
               PROVE  FALSE
    BY <1>3, <1>6
  <2>1. put.itag = t /\ r.iTag[d][t]
    BY <1>3, <1>6
  <2> QED BY <1>3, <1>4, <1>5, <1>6, <2>1 DEF ITagMoves, ITagOf
<1>12. \A e \in Dirs, t \in Station : e # d =>
         /\ SlotsOf(q, e) = SlotsOf(r, e) /\ q.iTag[e][t] = r.iTag[e][t]
  BY <1>2 DEF PlacesAfter, TablesAfter
<1>13. ASSUME NEW e \in Dirs, NEW t \in Station
       PROVE  /\ \A x \in SlotsOf(q, e) : x[4].itag = t => q.iTag[e][t]
              /\ q.iTag[e][t] => \E x \in SlotsOf(q, e) : x[4].itag = t
              /\ \A x, y \in SlotsOf(q, e) :
                   x[4].itag = t /\ y[4].itag = t => x = y
  <2>1. CASE e = d
    BY <1>9, <1>10, <1>11, <2>1 DEF Q
  <2>2. CASE e # d
    BY <1>1, <1>12, <2>2 DEF TagsOwed
  <2> QED BY <2>1, <2>2
<1> QED BY <1>8, <1>13 DEF TagsOwed

(* A step keeps each reservation with the one slot it marks. *)
LEMMA StepMarks ==
  ASSUME NEW r, LaneInv(r), NEW q, NEW s \in Station, NEW d \in Dirs,
         NEW gone, NEW put, NEW started, NEW ended, NEW tag, NEW owner,
         Step(r, q, s, d, gone, put, started, ended, tag, owner)
  PROVE  MarksHold(q) /\ ReservationsMarked(q) /\ OneMark(q)
<1> DEFINE from == Vacated(s, gone)
           to == Occupied(r, s, d, put)
           Old(e, x) == /\ x \in SlotsOf(r, e)
                        /\ ~(e = d /\ gone # NoSlot /\ x = from)
           New(e, x) == e = d /\ put # NoSlot /\ x = to
<1>1. Typed(r) /\ MarksHold(r) /\ ReservationsMarked(r) /\ OneMark(r)
  BY DEF LaneInv
<1>2. /\ PlacesAfter(r, q, s, d, gone, put)
       /\ TablesAfter(r, q, s, d, started, tag, owner)
  BY <1>1, StepPlaces, StepTables
<1>3. ASSUME NEW e \in Dirs, NEW x
      PROVE  x \in SlotsOf(q, e) <=> Old(e, x) \/ New(e, x)
  <2>1. CASE e = d
    BY <1>2, <2>1 DEF PlacesAfter
  <2>2. CASE e # d
    BY <1>2, <2>2 DEF PlacesAfter
  <2> QED BY <2>1, <2>2
<1>4. /\ gone # NoSlot => from \in SlotsOf(r, d)
      /\ from[4] = gone /\ to[4] = put
  BY <1>2 DEF PlacesAfter
<1>5. \A t \in Station, b \in Dirs : q.eTag[t][b] =
        IF t = s /\ b = Bank(s, d) THEN owner ELSE r.eTag[t][b]
  BY <1>2 DEF TablesAfter
<1>6. \A t \in Station, e \in Dirs : Bank(t, e) \in Dirs
  BY DEF Bank, Dirs
<1>7. ETagMoves(r, s, d, gone, put, owner) /\ NoStation \notin Station
  BY LaneAssumption DEF Step
<1>8. \A t \in Station, e \in Dirs : Reservation(q, t, e) =
        IF t = s /\ Bank(s, e) = Bank(s, d) THEN owner ELSE Reservation(r, t, e)
  BY <1>5, <1>6 DEF Reservation
(* What the marks of the slots say, the slot that leaves included. *)
<1>9. \A e \in Dirs, t \in Station : \A x \in SlotsOf(r, e) :
        x[4].etag = t => /\ x[4].pkt # NoPkt /\ t \in x[4].rest
                         /\ Reservation(r, t, e) = x[4].pkt
  BY <1>1 DEF MarksHold
<1>10. \A t \in Station : ETagOf(gone) = t =>
        /\ gone # NoSlot /\ gone.etag = t /\ gone.pkt # NoPkt
        /\ Reservation(r, t, d) = gone.pkt
  BY <1>4, <1>7, <1>9 DEF ETagOf
<1>11. \A t \in Station, c, e \in Dirs :
         \A x \in SlotsOf(r, c), y \in SlotsOf(r, e) :
           /\ x[4].etag = t /\ y[4].etag = t /\ Bank(t, c) = Bank(t, e)
           => c = e /\ x = y
  BY <1>1 DEF OneMark
<1>12. \A t \in Station, e \in Dirs : \A x \in SlotsOf(r, e) :
         /\ Old(e, x) /\ x[4].etag = t /\ Bank(t, e) = Bank(t, d)
         => ETagOf(gone) # t
  BY <1>4, <1>10, <1>11
<1>13. \A e \in Dirs, t \in Station : Reservation(r, t, e) = r.eTag[t][Bank(t, e)]
  BY DEF Reservation
<1> HIDE DEF from, to
<1>14. ASSUME NEW e \in Dirs, NEW t \in Station, NEW x \in SlotsOf(q, e),
              x[4].etag = t
       PROVE  /\ x[4].pkt # NoPkt /\ t \in x[4].rest
              /\ Reservation(q, t, e) = x[4].pkt
  <2>1. CASE Old(e, x)
    <3>1. /\ x[4].pkt # NoPkt /\ t \in x[4].rest
          /\ Reservation(r, t, e) = x[4].pkt
      BY <1>9, <1>14, <2>1
    <3>2. CASE t = s /\ Bank(s, e) = Bank(s, d)
      <4>1. Reservation(r, s, e) = Reservation(r, s, d)
        BY <3>2 DEF Reservation
      <4>2. owner = Reservation(r, s, d)
        BY <1>7, <1>12, <1>14, <2>1, <3>1, <3>2, <4>1 DEF ETagMoves
      <4> QED BY <1>8, <3>1, <3>2, <4>1, <4>2
    <3>3. CASE ~(t = s /\ Bank(s, e) = Bank(s, d))
      BY <1>8, <3>1, <3>3
    <3> QED BY <3>2, <3>3
  <2>2. CASE New(e, x)
    <3>1. e = d /\ x[4] = put /\ ETagOf(put) = t
      BY <1>4, <1>14, <2>2 DEF ETagOf
    <3>2. CASE ETagOf(gone) = t
      <4>1. /\ put.pkt = gone.pkt /\ t \in put.rest
            /\ owner = Reservation(r, s, d)
        BY <1>7, <3>1, <3>2 DEF ETagMoves
      <4> QED BY <1>8, <1>10, <3>1, <3>2, <4>1
    <3>3. CASE ETagOf(gone) # t
      <4>1. t = s /\ owner = put.pkt /\ owner # NoPkt /\ s \in put.rest
        BY <1>7, <3>1, <3>3 DEF ETagMoves
      <4> QED BY <1>8, <3>1, <4>1
    <3> QED BY <3>2, <3>3
  <2> QED BY <1>3, <2>1, <2>2
<1>15. ASSUME NEW t \in Station, NEW b \in Dirs, q.eTag[t][b] # NoPkt
       PROVE  \E e \in Dirs : /\ Bank(t, e) = b
                              /\ \E x \in SlotsOf(q, e) : x[4].etag = t
  <2>1. CASE put # NoSlot /\ put.etag = t /\ Bank(t, d) = b
    <3>1. to \in SlotsOf(q, d)
      BY <1>3, <2>1
    <3> QED BY <1>4, <2>1, <3>1
  <2>2. CASE ~(put # NoSlot /\ put.etag = t /\ Bank(t, d) = b)
    <3>1. r.eTag[t][b] # NoPkt
          /\ ~(ETagOf(gone) = t /\ Bank(t, d) = b)
      BY <1>5, <1>7, <1>13, <1>15, <2>2 DEF ETagMoves, ETagOf
    <3>2. PICK e \in Dirs : /\ Bank(t, e) = b
                            /\ \E x \in SlotsOf(r, e) : x[4].etag = t
      BY <1>1, <3>1 DEF ReservationsMarked
    <3>3. PICK x \in SlotsOf(r, e) : x[4].etag = t
      BY <3>2
    <3>4. Old(e, x)
      BY <1>4, <3>1, <3>2, <3>3 DEF ETagOf
    <3> QED BY <1>3, <3>2, <3>3, <3>4
  <2> QED BY <2>1, <2>2
<1>16. ASSUME NEW t \in Station, NEW c \in Dirs, NEW e \in Dirs,
              NEW x \in SlotsOf(q, c), NEW y \in SlotsOf(q, e),
              x[4].etag = t, y[4].etag = t, Bank(t, c) = Bank(t, e),
              New(c, x), Old(e, y)
       PROVE  FALSE
  <2>1. c = d /\ ETagOf(put) = t
    BY <1>4, <1>16 DEF ETagOf
  <2>2. ETagOf(gone) # t
    BY <1>12, <1>16, <2>1
  <2>3. t = s /\ Reservation(r, s, d) = NoPkt
    BY <1>7, <2>1, <2>2 DEF ETagMoves
  <2> QED BY <1>9, <1>13, <1>16, <2>1, <2>3
<1>17. ASSUME NEW t \in Station, NEW c \in Dirs, NEW e \in Dirs,
              NEW x \in SlotsOf(q, c), NEW y \in SlotsOf(q, e),
              x[4].etag = t, y[4].etag = t, Bank(t, c) = Bank(t, e)
       PROVE  c = e /\ x = y
  <2>1. CASE New(c, x) /\ New(e, y)
    BY <2>1
  <2>2. CASE Old(c, x) /\ Old(e, y)
    BY <1>11, <1>17, <2>2
  <2>3. CASE New(c, x) /\ Old(e, y)
    BY <1>16, <1>17, <2>3
  <2>4. CASE Old(c, x) /\ New(e, y)
    BY <1>16, <1>17, <2>4
  <2> QED BY <1>3, <2>1, <2>2, <2>3, <2>4
<1> QED BY <1>14, <1>15, <1>17 DEF MarksHold, ReservationsMarked, OneMark

(* What waits after the step waited before, one place further back if the  *)
(* head has started.                                                       *)
LEMMA StepBanks ==
  ASSUME NEW r, Typed(r), NEW q, NEW s \in Station, NEW d \in Dirs,
         NEW gone, NEW put, NEW started, NEW ended, NEW tag, NEW owner,
         Step(r, q, s, d, gone, put, started, ended, tag, owner),
         NEW e \in Dirs, NEW t \in Station, NEW i \in DOMAIN q.inject[e][t]
  PROVE  LET k == IF e = d /\ t = s /\ started # NoPkt THEN 1 ELSE 0
         IN  /\ i \in Nat \ {0} /\ i + k \in DOMAIN r.inject[e][t]
             /\ q.inject[e][t][i] = r.inject[e][t][i + k]
             /\ q.inject[e][t][i] \in Packets
<1>1. TablesAfter(r, q, s, d, started, tag, owner)
  BY StepTables
<1>2. r.inject[e][t] \in Seq(Packets)
  BY DEF Typed
<1>3. CASE e = d /\ t = s /\ started # NoPkt
  <2> DEFINE old == r.inject[e][t]
  <2>1. q.inject[e][t] = Tail(old) /\ old # <<>>
    BY <1>1, <1>3 DEF TablesAfter, Step, Starts, Waiting
  <2> HIDE DEF old
  <2>2. old \in Seq(Packets)
    BY <1>2 DEF old
  <2>3. /\ i \in Nat \ {0} /\ i + 1 \in DOMAIN old
        /\ Tail(old)[i] = old[i + 1] /\ Tail(old)[i] \in Packets
    BY <2>1, <2>2
  <2> QED BY <1>3, <2>1, <2>3 DEF old
<1>4. CASE ~(e = d /\ t = s /\ started # NoPkt)
  <2>1. q.inject[e][t] = r.inject[e][t]
    BY <1>1, <1>4 DEF TablesAfter
  <2>2. i \in Nat \ {0} /\ i + 0 = i
    BY <1>2, <2>1
  <2> QED BY <1>2, <1>4, <2>1, <2>2
<1> QED BY <1>3, <1>4

(* A step leaves each packet in one place. *)
LEMMA StepOnce ==
  ASSUME NEW r, LaneInv(r), NEW q, NEW s \in Station, NEW d \in Dirs,
         NEW gone, NEW put, NEW started, NEW ended, NEW tag, NEW owner,
         Step(r, q, s, d, gone, put, started, ended, tag, owner)
  PROVE  SlotsApart(q) /\ BanksApart(q) /\ NotBoth(q)
<1> DEFINE from == Vacated(s, gone)
           to == Occupied(r, s, d, put)
           Old(e, x) == /\ x \in SlotsOf(r, e)
                        /\ ~(e = d /\ gone # NoSlot /\ x = from)
           New(e, x) == e = d /\ put # NoSlot /\ x = to
           k(e, t) == IF e = d /\ t = s /\ started # NoPkt THEN 1 ELSE 0
<1>1. /\ Typed(r) /\ SlotsApart(r) /\ BanksApart(r) /\ NotBoth(r)
      /\ NoPkt \notin Packets
  BY LaneAssumption DEF LaneInv
<1>2. PlacesAfter(r, q, s, d, gone, put)
  BY <1>1, StepPlaces
<1>3. ASSUME NEW e \in Dirs, NEW x
      PROVE  x \in SlotsOf(q, e) <=> Old(e, x) \/ New(e, x)
  <2>1. CASE e = d
    BY <1>2, <2>1 DEF PlacesAfter
  <2>2. CASE e # d
    BY <1>2, <2>2 DEF PlacesAfter
  <2> QED BY <2>1, <2>2
<1>4. /\ gone # NoSlot => from \in SlotsOf(r, d)
      /\ from[4] = gone /\ to[4] = put
  BY <1>2 DEF PlacesAfter
<1>5. \A e \in Dirs, t \in Station : \A i \in DOMAIN q.inject[e][t] :
        /\ i \in Nat \ {0} /\ i + k(e, t) \in DOMAIN r.inject[e][t]
        /\ q.inject[e][t][i] = r.inject[e][t][i + k(e, t)]
        /\ q.inject[e][t][i] \in Packets
  BY <1>1, StepBanks
<1>6. \A e, t : k(e, t) \in {0, 1}
  OBVIOUS
(* The packet of the slot that goes out. *)
<1>7. started # NoPkt =>
        /\ 1 \in DOMAIN r.inject[d][s] /\ put.pkt = r.inject[d][s][1]
  <2> SUFFICES ASSUME started # NoPkt
               PROVE  1 \in DOMAIN r.inject[d][s] /\ put.pkt = r.inject[d][s][1]
    OBVIOUS
  <2>1. r.inject[d][s] \in Seq(Packets) /\ r.inject[d][s] # <<>>
    BY <1>1 DEF Typed, Step, Starts, Waiting
  <2>2. put.pkt = Head(r.inject[d][s])
    BY DEF Step, Starts, Carrier
  <2> QED BY <2>1, <2>2
<1>8. started = NoPkt /\ put # NoSlot =>
        gone # NoSlot /\ (put.pkt = gone.pkt \/ put.pkt = NoPkt)
  BY DEF Step, Travels
<1>9. \A c, e \in Dirs : \A x \in SlotsOf(r, c), y \in SlotsOf(r, e) :
        x[4].pkt = y[4].pkt /\ x[4].pkt # NoPkt => c = e /\ x = y
  BY <1>1 DEF SlotsApart
<1>10. \A c, e \in Dirs, t \in Station :
         \A x \in SlotsOf(r, c), j \in DOMAIN r.inject[e][t] :
           x[4].pkt # r.inject[e][t][j]
  BY <1>1 DEF NotBoth
<1>11. \A c, e \in Dirs, t, u \in Station :
         \A i \in DOMAIN r.inject[c][t], j \in DOMAIN r.inject[e][u] :
           r.inject[c][t][i] = r.inject[e][u][j] => c = e /\ t = u /\ i = j
  BY <1>1 DEF BanksApart
<1> HIDE DEF from, to
<1>12. ASSUME NEW c \in Dirs, NEW e \in Dirs,
              NEW x \in SlotsOf(q, c), NEW y \in SlotsOf(q, e),
              x[4].pkt = y[4].pkt, x[4].pkt # NoPkt, New(c, x), Old(e, y)
       PROVE  FALSE
  <2>1. CASE started # NoPkt
    BY <1>4, <1>7, <1>10, <1>12, <2>1
  <2>2. CASE started = NoPkt
    BY <1>4, <1>8, <1>9, <1>12, <2>2
  <2> QED BY <2>1, <2>2
<1>13. SlotsApart(q)
  <2> SUFFICES ASSUME NEW c \in Dirs, NEW e \in Dirs,
                      NEW x \in SlotsOf(q, c), NEW y \in SlotsOf(q, e),
                      x[4].pkt = y[4].pkt, x[4].pkt # NoPkt
               PROVE  c = e /\ x = y
    BY DEF SlotsApart
  <2>1. CASE Old(c, x) /\ Old(e, y)
    BY <1>9, <2>1
  <2>2. CASE New(c, x) /\ New(e, y)
    BY <2>2
  <2>3. CASE New(c, x) /\ Old(e, y)
    BY <1>12, <2>3
  <2>4. CASE Old(c, x) /\ New(e, y)
    BY <1>12, <2>4
  <2> QED BY <1>3, <2>1, <2>2, <2>3, <2>4
<1>14. BanksApart(q)
  <2> SUFFICES ASSUME NEW c \in Dirs, NEW e \in Dirs,
                      NEW t \in Station, NEW u \in Station,
                      NEW i \in DOMAIN q.inject[c][t],
                      NEW j \in DOMAIN q.inject[e][u],
                      q.inject[c][t][i] = q.inject[e][u][j]
               PROVE  c = e /\ t = u /\ i = j
    BY DEF BanksApart
  <2>1. c = e /\ t = u /\ i + k(c, t) = j + k(e, u)
    BY <1>5, <1>11
  <2>2. i \in Nat /\ j \in Nat /\ k(c, t) \in {0, 1}
    BY <1>5, <1>6
  <2> HIDE DEF k
  <2> QED BY <2>1, <2>2
<1>15. NotBoth(q)
  <2> SUFFICES ASSUME NEW c \in Dirs, NEW e \in Dirs, NEW t \in Station,
                      NEW x \in SlotsOf(q, c), NEW j \in DOMAIN q.inject[e][t],
                      x[4].pkt = q.inject[e][t][j]
               PROVE  FALSE
    BY DEF NotBoth
  <2>1. /\ j \in Nat \ {0} /\ j + k(e, t) \in DOMAIN r.inject[e][t]
        /\ x[4].pkt = r.inject[e][t][j + k(e, t)]
        /\ x[4].pkt # NoPkt
    BY <1>1, <1>5
  <2>2. CASE Old(c, x)
    BY <1>10, <2>1, <2>2
  <2>3. CASE New(c, x) /\ started = NoPkt
    BY <1>4, <1>8, <1>10, <2>1, <2>3
  <2>4. CASE New(c, x) /\ started # NoPkt
    <3>1. e = d /\ t = s /\ 1 = j + k(e, t)
      BY <1>4, <1>7, <1>11, <2>1, <2>4
    <3>2. k(e, t) = 1
      BY <2>4, <3>1
    <3> QED BY <2>1, <3>1, <3>2
  <2> QED BY <1>3, <2>2, <2>3, <2>4
<1> QED BY <1>13, <1>14, <1>15

(* Serving an output changes nothing or is such a step. *)
LEMMA ServeIsStep ==
  ASSUME NEW r, LaneInv(r), NEW s \in Station, NEW d \in Dirs
  PROVE  LET q == ServeOutput(r, s, d)
         IN  \/ q = r
             \/ \E gone, put, started, ended, tag, owner :
                  Step(r, q, s, d, gone, put, started, ended, tag, owner)
<1>1. /\ r.transit[d][s] # NoSlot
      /\ r.transit[d][s].pkt = NoPkt
      => r.transit[d][s].rest = {}
  BY RegisterSlot
<1>2. Served(r, ServeOutput(r, s, d), s, d)
  <2>1. Typed(r)
    BY DEF LaneInv
  <2> QED BY <1>1, <2>1, ServeOutputServes
<1> QED BY <1>2, ServedIsStep

(* Serving an output keeps the invariant. *)
LEMMA ServeKeepsInv ==
  ASSUME NEW r, LaneInv(r), NEW s \in Station, NEW d \in Dirs
  PROVE  LaneInv(ServeOutput(r, s, d))
<1> DEFINE q == ServeOutput(r, s, d)
<1>1. \/ q = r
      \/ \E gone, put, started, ended, tag, owner :
           Step(r, q, s, d, gone, put, started, ended, tag, owner)
  BY ServeIsStep
<1> SUFFICES LaneInv(q)
  OBVIOUS
<1> HIDE DEF q
<1>2. CASE q = r
  BY <1>2
<1>3. CASE \E gone, put, started, ended, tag, owner :
             Step(r, q, s, d, gone, put, started, ended, tag, owner)
  <2>1. PICK gone, put, started, ended, tag, owner :
          Step(r, q, s, d, gone, put, started, ended, tag, owner)
    BY <1>3
  <2>2. Typed(q)
    BY <2>1, StepTyped
  <2>3. PoolCounts(q)
    BY <2>1, StepPool
  <2>4. EmptyShapes(q)
    BY <2>1, StepShapes
  <2>5. TagsOwed(q)
    BY <2>1, StepTags
  <2>6. MarksHold(q) /\ ReservationsMarked(q) /\ OneMark(q)
    BY <2>1, StepMarks
  <2>7. SlotsApart(q) /\ BanksApart(q) /\ NotBoth(q)
    BY <2>1, StepOnce
  <2> QED BY <2>2, <2>3, <2>4, <2>5, <2>6, <2>7 DEF LaneInv
<1> QED BY <1>1, <1>2, <1>3

-----------------------------------------------------------------------------
(* The invariant is kept by the other actions                              *)

(* Slots that stay are slots that shift. *)
LEMMA ShiftedSame ==
  ASSUME NEW P
  PROVE  Shifted(P, P)
<1> DEFINE f == [x \in P |-> x]
<1>1. f \in Bijection(P, P)
  BY DEF Bijection, Injection, IsInjective, Surjection
<1>2. \A x \in P : f[x][4] = x[4]
  OBVIOUS
<1> QED BY <1>1, <1>2 DEF Shifted

(* Slots that only change places keep what is said of them. *)
LEMMA ShiftKeepsInv ==
  ASSUME NEW r, LaneInv(r), NEW q, Typed(q),
         q.inject = r.inject, q.used = r.used, q.iTag = r.iTag,
         q.eTag = r.eTag,
         \A e \in Dirs : Shifted(SlotsOf(r, e), SlotsOf(q, e))
  PROVE  LaneInv(q)
<1> DEFINE F(e) == CHOOSE f \in Bijection(SlotsOf(r, e), SlotsOf(q, e)) :
                     \A x \in SlotsOf(r, e) : f[x][4] = x[4]
<1>1. \A e \in Dirs : /\ F(e) \in Bijection(SlotsOf(r, e), SlotsOf(q, e))
                      /\ \A x \in SlotsOf(r, e) : F(e)[x][4] = x[4]
  BY DEF Shifted
<1> HIDE DEF F
<1>2. \A e \in Dirs :
        /\ \A x \in SlotsOf(r, e) :
             F(e)[x] \in SlotsOf(q, e) /\ F(e)[x][4] = x[4]
        /\ \A y \in SlotsOf(q, e) : \E x \in SlotsOf(r, e) : F(e)[x] = y
  BY <1>1 DEF Bijection, Injection, Surjection
<1>3. PoolCounts(q)
  <2> SUFFICES ASSUME NEW e \in Dirs
               PROVE  /\ IsFiniteSet(SlotsOf(q, e))
                      /\ r.used[e] = Cardinality(SlotsOf(q, e))
                      /\ r.used[e] < Capacity
    BY DEF PoolCounts
  <2>1. /\ IsFiniteSet(SlotsOf(r, e)) /\ r.used[e] < Capacity
        /\ r.used[e] = Cardinality(SlotsOf(r, e))
    BY DEF LaneInv, PoolCounts
  <2>2. ExistsBijection(SlotsOf(r, e), SlotsOf(q, e))
    BY <1>1 DEF ExistsBijection
  <2> QED BY <2>1, <2>2, FS_Bijection
<1>4. EmptyShapes(q)
  BY <1>2 DEF LaneInv, EmptyShapes
<1>5. TagsOwed(q)
  <2>1. \A t \in Station, e \in Dirs : Waiting(q, t, e) <=> Waiting(r, t, e)
    BY DEF Waiting
  <2>2. TagsOwed(r)
    BY DEF LaneInv
  <2> SUFFICES ASSUME NEW e \in Dirs, NEW t \in Station
               PROVE  /\ \A y \in SlotsOf(q, e) : y[4].itag = t => q.iTag[e][t]
                      /\ q.iTag[e][t] => \E y \in SlotsOf(q, e) : y[4].itag = t
                      /\ \A y, z \in SlotsOf(q, e) :
                           y[4].itag = t /\ z[4].itag = t => y = z
                      /\ q.iTag[e][t] => Waiting(q, t, e)
    BY DEF TagsOwed
  <2>3. /\ \A x \in SlotsOf(r, e) : x[4].itag = t => q.iTag[e][t]
        /\ q.iTag[e][t] => \E x \in SlotsOf(r, e) : x[4].itag = t
        /\ \A x, y \in SlotsOf(r, e) :
             x[4].itag = t /\ y[4].itag = t => x = y
        /\ q.iTag[e][t] => Waiting(q, t, e)
    BY <2>1, <2>2 DEF TagsOwed
  <2> QED BY <1>2, <2>3
<1>6. MarksHold(q)
  <2>1. MarksHold(r)
    BY DEF LaneInv
  <2>2. \A t \in Station, e \in Dirs : Reservation(q, t, e) = Reservation(r, t, e)
    BY DEF Reservation
  <2> QED BY <1>2, <2>1, <2>2 DEF MarksHold
<1>7. ReservationsMarked(q)
  <2>1. ReservationsMarked(r)
    BY DEF LaneInv
  <2> SUFFICES ASSUME NEW t \in Station, NEW b \in Dirs, q.eTag[t][b] # NoPkt
               PROVE  \E e \in Dirs : /\ Bank(t, e) = b
                                      /\ \E y \in SlotsOf(q, e) : y[4].etag = t
    BY DEF ReservationsMarked
  <2>2. PICK e \in Dirs : /\ Bank(t, e) = b
                          /\ \E x \in SlotsOf(r, e) : x[4].etag = t
    BY <2>1 DEF ReservationsMarked
  <2> QED BY <1>2, <2>2
<1>8. OneMark(q)
  <2>1. OneMark(r)
    BY DEF LaneInv
  <2> QED BY <1>2, <2>1 DEF OneMark
<1>9. SlotsApart(q)
  <2>1. SlotsApart(r)
    BY DEF LaneInv
  <2> QED BY <1>2, <2>1 DEF SlotsApart
<1>10. BanksApart(q)
  BY DEF LaneInv, BanksApart
<1>11. NotBoth(q)
  <2>1. NotBoth(r)
    BY DEF LaneInv
  <2> QED BY <1>2, <2>1 DEF NotBoth
<1> QED BY <1>3, <1>4, <1>5, <1>6, <1>7, <1>8, <1>9, <1>10, <1>11 DEF LaneInv

(* A slot that leaves its link for a register. *)
LEMMA DrainKeepsInv ==
  ASSUME LaneInv(ring), NEW s \in Station, NEW d \in Dirs, Drain(s, d)
  PROVE  LaneInv(ring')
<1> DEFINE t == Neighbor(s, d)
           q == [ring EXCEPT !.transit[d][t] = Head(ring.link[d][s]),
                             !.link[d][s] = Tail(@)]
<1>1. t \in Station
  BY LaneAssumption DEF Neighbor, Station
<1>2. /\ Typed(ring) /\ ring.link[d][s] # <<>> /\ ring.transit[d][t] = NoSlot
      /\ ring' = q
  BY DEF LaneInv, Drain
<1> HIDE DEF t
<1>3. /\ DOMAIN q = Fields /\ q.inject = ring.inject /\ q.eject = ring.eject
      /\ q.transit = Change(ring.transit, d, t, Head(ring.link[d][s]))
      /\ q.link = Change(ring.link, d, s, Tail(ring.link[d][s]))
      /\ q.busy = ring.busy /\ q.used = ring.used /\ q.iTag = ring.iTag
      /\ q.next = ring.next /\ q.eTag = ring.eTag
  <2>1. DOMAIN ring = Fields
    BY <1>2 DEF Typed
  <2> QED BY <2>1 DEF Change, Fields
<1> HIDE DEF q
<1>4. Typed(q)
  <2>1. /\ ring.link \in [Dirs -> [Station -> Seq(Slot)]]
        /\ ring.transit \in [Dirs -> [Station -> Slot \cup {NoSlot}]]
        /\ ring.link[d][s] \in Seq(Slot) /\ ring.link[d][s] # <<>>
        /\ \A y \in Station, e \in Dirs : Len(ring.link[e][y]) <= LinkDepth
    BY <1>2 DEF Typed
  <2>2. /\ Head(ring.link[d][s]) \in Slot /\ Tail(ring.link[d][s]) \in Seq(Slot)
        /\ Len(Tail(ring.link[d][s])) <= LinkDepth
    BY <2>1, LaneAssumption
  <2>3. q.transit \in [Dirs -> [Station -> Slot \cup {NoSlot}]]
    BY <1>1, <1>3, <2>1, <2>2 DEF Change
  <2>4. /\ q.link \in [Dirs -> [Station -> Seq(Slot)]]
        /\ \A y \in Station, e \in Dirs :
             q.link[e][y] = IF e = d /\ y = s THEN Tail(ring.link[d][s])
                            ELSE ring.link[e][y]
    BY <1>3, <2>1, <2>2 DEF Change
  <2> QED BY <1>2, <1>3, <2>1, <2>2, <2>3, <2>4 DEF Typed
<1>5. /\ Shifted(SlotsOf(ring, d), SlotsOf(q, d))
      /\ \A e \in Dirs : e # d => SlotsOf(q, e) = SlotsOf(ring, e)
  BY <1>1, <1>2, <1>3, DrainedPlaces
<1>6. ASSUME NEW e \in Dirs
      PROVE  Shifted(SlotsOf(ring, e), SlotsOf(q, e))
  <2>1. CASE e = d
    BY <1>5, <2>1
  <2>2. CASE e # d
    BY <1>5, <2>2, ShiftedSame
  <2> QED BY <2>1, <2>2
<1>7. LaneInv(q)
  BY <1>3, <1>4, <1>6, ShiftKeepsInv
<1> QED BY <1>2, <1>7

(* A serializer that is free again. *)
LEMMA ReleaseKeepsInv ==
  ASSUME LaneInv(ring), NEW s \in Station, NEW d \in Dirs,
         ReleaseSerializer(s, d)
  PROVE  LaneInv(ring')
<1>1. /\ Typed(ring) /\ ring' = [ring EXCEPT !.busy[d][s] = FALSE]
  BY DEF LaneInv, ReleaseSerializer
<1>2. /\ DOMAIN ring' = Fields /\ ring'.inject = ring.inject
      /\ ring'.eject = ring.eject /\ ring'.transit = ring.transit
      /\ ring'.link = ring.link /\ ring'.used = ring.used
      /\ ring'.busy = Cleared(ring.busy, d, s)
      /\ ring'.iTag = ring.iTag /\ ring'.next = ring.next
      /\ ring'.eTag = ring.eTag
  BY <1>1 DEF Typed, Fields, Cleared
<1>3. Typed(ring')
  <2>1. ring.busy \in [Dirs -> [Station -> BOOLEAN]]
    BY <1>1 DEF Typed
  <2>2. ring'.busy \in [Dirs -> [Station -> BOOLEAN]]
    BY <1>2, <2>1 DEF Cleared
  <2> QED BY <1>1, <1>2, <2>2 DEF Typed
<1>4. \A e \in Dirs : SlotsOf(ring', e) = SlotsOf(ring, e)
  BY <1>2 DEF SlotsOf
<1>5. \A e \in Dirs : Shifted(SlotsOf(ring, e), SlotsOf(ring', e))
  BY <1>4, ShiftedSame
<1> QED BY <1>2, <1>3, <1>5, ShiftKeepsInv

(* A packet that leaves its eject queue. *)
LEMMA ConsumeKeepsInv ==
  ASSUME LaneInv(ring), NEW s \in Station, NEW b \in Dirs, Consume(s, b)
  PROVE  LaneInv(ring')
<1>1. /\ Typed(ring) /\ ring.eject[s][b] # <<>>
      /\ ring' = [ring EXCEPT !.eject[s][b] = Tail(@)]
  BY DEF LaneInv, Consume
<1>2. /\ DOMAIN ring' = Fields /\ ring'.inject = ring.inject
      /\ ring'.eject = Change(ring.eject, s, b, Tail(ring.eject[s][b]))
      /\ ring'.transit = ring.transit /\ ring'.link = ring.link
      /\ ring'.used = ring.used /\ ring'.busy = ring.busy
      /\ ring'.iTag = ring.iTag /\ ring'.next = ring.next
      /\ ring'.eTag = ring.eTag
  BY <1>1 DEF Typed, Fields, Change
<1>3. Typed(ring')
  <2>1. /\ ring.eject \in [Station -> [Dirs -> Seq(Packets)]]
        /\ ring.eject[s][b] \in Seq(Packets)
        /\ \A t \in Station, e \in Dirs : Len(ring.eject[t][e]) <= EjectDepth
    BY <1>1 DEF Typed
  <2>2. /\ Tail(ring.eject[s][b]) \in Seq(Packets)
        /\ Len(Tail(ring.eject[s][b])) <= EjectDepth
    BY <1>1, <2>1, LaneAssumption
  <2> DEFINE new == Tail(ring.eject[s][b])
  <2> HIDE DEF new
  <2>3. /\ ring'.eject \in [Station -> [Dirs -> Seq(Packets)]]
        /\ \A t \in Station, e \in Dirs :
             ring'.eject[t][e] = IF t = s /\ e = b THEN new ELSE ring.eject[t][e]
    BY <1>2, <2>1, <2>2 DEF Change, new
  <2>4. \A t \in Station, e \in Dirs : Len(ring'.eject[t][e]) <= EjectDepth
    BY <2>1, <2>2, <2>3 DEF new
  <2>5. /\ ring.inject \in [Dirs -> [Station -> Seq(Packets)]]
        /\ \A t \in Station, e \in Dirs : /\ Len(ring.inject[e][t]) <= InjectDepth
                                          /\ Len(ring.link[e][t]) <= LinkDepth
    BY <1>1 DEF Typed
  <2> QED BY <1>1, <1>2, <2>3, <2>4, <2>5 DEF Typed
<1>4. \A e \in Dirs : SlotsOf(ring', e) = SlotsOf(ring, e)
  BY <1>2 DEF SlotsOf
<1>5. \A e \in Dirs : Shifted(SlotsOf(ring, e), SlotsOf(ring', e))
  BY <1>4, ShiftedSame
<1> QED BY <1>2, <1>3, <1>5, ShiftKeepsInv

(* A packet in a slot is carried, a packet in a bank queued. *)
LEMMA CarriedPackets ==
  ASSUME NEW r, NEW d \in Dirs, NEW x \in SlotsOf(r, d), x[4].pkt # NoPkt
  PROVE  x[4].pkt \in Carried(r)
<1>1. x[4] \in SlotsOn(r, d)
  <2>1. ASSUME NEW s \in Station, r.transit[d][s] # NoSlot,
               x = InRegister(r, d, s)
        PROVE  x[4] \in SlotsOn(r, d)
    <3>1. x[4] = r.transit[d][s]
      BY <2>1 DEF InRegister
    <3> QED BY <2>1, <3>1 DEF SlotsOn
  <2>2. ASSUME NEW s \in Station, NEW i \in DOMAIN r.link[d][s],
               x = OnLink(r, d, s, i)
        PROVE  x[4] \in SlotsOn(r, d)
    <3>1. x[4] = r.link[d][s][i]
      BY <2>2 DEF OnLink
    <3>2. x[4] \in {r.link[d][s][j] : j \in DOMAIN r.link[d][s]}
      BY <3>1
    <3> QED BY <3>2 DEF SlotsOn
  <2> QED BY <2>1, <2>2, Places
<1>2. x[4] \in UNION {SlotsOn(r, e) : e \in Dirs}
  BY <1>1
<1> QED BY <1>2 DEF Carried

(* An entry of an inject bank is a packet queued. *)
LEMMA QueuedPackets ==
  ASSUME NEW r, NEW d \in Dirs, NEW s \in Station,
         NEW i \in DOMAIN r.inject[d][s]
  PROVE  r.inject[d][s][i] \in Queued(r)
<1> DEFINE bank(e, t) == {r.inject[e][t][j] : j \in DOMAIN r.inject[e][t]}
<1>1. r.inject[d][s][i] \in bank(d, s)
  OBVIOUS
<1>2. Queued(r) = UNION {bank(e, t) : e \in Dirs, t \in Station}
  BY DEF Queued
<1> HIDE DEF bank
<1> QED BY <1>1, <1>2

(* A new packet in an inject bank. *)
LEMMA OfferKeepsInv ==
  ASSUME LaneInv(ring), NEW p \in Packets, Offer(p)
  PROVE  LaneInv(ring')
<1> DEFINE s == Src[p]
<1>1. PICK d \in Ways(p) :
        /\ Len(ring.inject[d][s]) < InjectDepth
        /\ ring' = [ring EXCEPT !.inject[d][s] = Append(@, p)]
  BY DEF Offer
<1>2. d \in Dirs /\ s \in Station /\ Typed(ring) /\ p # NoPkt
  BY LaneAssumption DEF Ways, Route, Dirs, LaneInv
<1> HIDE DEF s
<1>3. /\ DOMAIN ring' = Fields
      /\ ring'.inject = Change(ring.inject, d, s, Append(ring.inject[d][s], p))
      /\ ring'.eject = ring.eject /\ ring'.transit = ring.transit
      /\ ring'.link = ring.link /\ ring'.used = ring.used
      /\ ring'.busy = ring.busy /\ ring'.iTag = ring.iTag
      /\ ring'.next = ring.next /\ ring'.eTag = ring.eTag
  BY <1>1, <1>2 DEF Typed, Fields, Change
<1> DEFINE old == ring.inject[d][s]
           n == Len(old) + 1
<1>4. /\ ring.inject \in [Dirs -> [Station -> Seq(Packets)]]
      /\ old \in Seq(Packets)
      /\ \A t \in Station, e \in Dirs : Len(ring.inject[e][t]) <= InjectDepth
  BY <1>2 DEF Typed
<1>5. /\ Append(old, p) \in Seq(Packets)
      /\ Len(Append(old, p)) <= InjectDepth
      /\ DOMAIN Append(old, p) = DOMAIN old \cup {n}
      /\ n \notin DOMAIN old
      /\ \A i \in DOMAIN old : Append(old, p)[i] = old[i]
      /\ Append(old, p)[n] = p
      /\ Append(old, p) # <<>>
  <2> HIDE DEF old
  <2>1. Len(old) < InjectDepth /\ InjectDepth \in Nat
    BY <1>1, LaneAssumption DEF old, s
  <2>2. Len(old) \in Nat /\ Append(old, p) \in Seq(Packets)
    BY <1>4
  <2>3. Len(Append(old, p)) = n
    BY <1>4
  <2>4. /\ DOMAIN Append(old, p) = DOMAIN old \cup {n}
        /\ n \notin DOMAIN old
    BY <1>4, <2>2
  <2>5. /\ \A i \in DOMAIN old : Append(old, p)[i] = old[i]
        /\ Append(old, p)[n] = p
    <3>1. old \in Seq(Packets) /\ n = Len(old) + 1
      BY <1>4
    <3> HIDE DEF n
    <3> QED BY <2>2, <3>1
  <2>6. Append(old, p) # <<>>
    BY <1>4, <2>2
  <2> QED BY <2>1, <2>2, <2>3, <2>4, <2>5, <2>6
<1>6. /\ ring'.inject \in [Dirs -> [Station -> Seq(Packets)]]
      /\ \A t \in Station, e \in Dirs :
           ring'.inject[e][t] = IF e = d /\ t = s THEN Append(old, p)
                                ELSE ring.inject[e][t]
  <2> DEFINE new == Append(old, p)
  <2>1. new \in Seq(Packets)
    BY <1>5
  <2> HIDE DEF new
  <2>2. ring'.inject = Change(ring.inject, d, s, new)
    BY <1>3 DEF new
  <2>3. Change(ring.inject, d, s, new) \in [Dirs -> [Station -> Seq(Packets)]]
    BY <1>2, <1>4, <2>1 DEF Change
  <2>4. ASSUME NEW t \in Station, NEW e \in Dirs
        PROVE  ring'.inject[e][t] = IF e = d /\ t = s THEN new
                                    ELSE ring.inject[e][t]
    BY <1>2, <1>4, <2>2, ChangeEntry
  <2> QED BY <2>2, <2>3, <2>4 DEF new
<1>7. Typed(ring')
  BY <1>2, <1>3, <1>4, <1>5, <1>6 DEF Typed
<1>8. \A e \in Dirs : SlotsOf(ring', e) = SlotsOf(ring, e)
  BY <1>3 DEF SlotsOf
<1>9. /\ \A e \in Dirs : \A x \in SlotsOf(ring, e) : x[4].pkt # p
      /\ \A e \in Dirs, t \in Station : \A i \in DOMAIN ring.inject[e][t] :
           ring.inject[e][t][i] # p
  BY <1>2, CarriedPackets, QueuedPackets DEF Offer
<1>10. \A e \in Dirs, t \in Station : \A i \in DOMAIN ring'.inject[e][t] :
         \/ /\ i \in DOMAIN ring.inject[e][t]
            /\ ring'.inject[e][t][i] = ring.inject[e][t][i]
         \/ e = d /\ t = s /\ i = n /\ ring'.inject[e][t][i] = p
  BY <1>5, <1>6, ZenonT(40)
<1> HIDE DEF old, n
<1>11. PoolCounts(ring')
  BY <1>3, <1>8 DEF LaneInv, PoolCounts
<1>12. EmptyShapes(ring')
  BY <1>8 DEF LaneInv, EmptyShapes
<1>13. TagsOwed(ring')
  <2>1. TagsOwed(ring)
    BY DEF LaneInv
  <2>2. \A e \in Dirs, t \in Station : Waiting(ring, t, e) => Waiting(ring', t, e)
    BY <1>5, <1>6 DEF Waiting
  <2> QED BY <1>3, <1>8, <2>1, <2>2 DEF TagsOwed
<1>14. MarksHold(ring') /\ ReservationsMarked(ring') /\ OneMark(ring')
  <2>1. MarksHold(ring) /\ ReservationsMarked(ring) /\ OneMark(ring)
    BY DEF LaneInv
  <2>2. \A e \in Dirs, t \in Station :
          Reservation(ring', t, e) = Reservation(ring, t, e)
    BY <1>3 DEF Reservation
  <2>3. MarksHold(ring')
    BY <1>8, <2>1, <2>2 DEF MarksHold
  <2>4. ReservationsMarked(ring')
    BY <1>3, <1>8, <2>1 DEF ReservationsMarked
  <2>5. OneMark(ring')
    BY <1>8, <2>1 DEF OneMark
  <2> QED BY <2>3, <2>4, <2>5
<1>15. SlotsApart(ring')
  BY <1>8 DEF LaneInv, SlotsApart
<1>16. BanksApart(ring')
  <2>1. BanksApart(ring)
    BY DEF LaneInv
  <2> SUFFICES ASSUME NEW c \in Dirs, NEW e \in Dirs,
                      NEW t \in Station, NEW u \in Station,
                      NEW i \in DOMAIN ring'.inject[c][t],
                      NEW j \in DOMAIN ring'.inject[e][u],
                      ring'.inject[c][t][i] = ring'.inject[e][u][j]
               PROVE  c = e /\ t = u /\ i = j
    BY DEF BanksApart
  <2> QED BY <1>9, <1>10, <2>1 DEF BanksApart
<1>17. NotBoth(ring')
  <2>1. NotBoth(ring)
    BY DEF LaneInv
  <2> QED BY <1>8, <1>9, <1>10, <2>1 DEF NotBoth
<1> QED BY <1>7, <1>11, <1>12, <1>13, <1>14, <1>15, <1>16, <1>17 DEF LaneInv

(* Both outputs of a station served in turn. *)
LEMMA ScheduleKeepsInv ==
  ASSUME LaneInv(ring), NEW s \in Station, Schedule(s)
  PROVE  LaneInv(ring')
<1> DEFINE half == ServeOutput(ring, s, "CW")
<1>1. ring' = ServeOutput(half, s, "CCW")
  BY DEF Schedule
<1>2. "CW" \in Dirs /\ "CCW" \in Dirs
  BY DEF Dirs
<1>3. LaneInv(half)
  BY <1>2, ServeKeepsInv
<1> HIDE DEF half
<1> QED BY <1>1, <1>2, <1>3, ServeKeepsInv

(* An empty ring. *)
LEMMA ResetInv ==
  ASSUME NEW busy \in [Dirs -> [Station -> BOOLEAN]]
  PROVE  LaneInv(ResetRing(busy))
<1> DEFINE r == ResetRing(busy)
<1>1. /\ DOMAIN r = Fields
      /\ r.inject = [d \in Dirs |-> [s \in Station |-> <<>>]]
      /\ r.eject = [s \in Station |-> [b \in Dirs |-> <<>>]]
      /\ r.transit = [d \in Dirs |-> [s \in Station |-> NoSlot]]
      /\ r.link = [d \in Dirs |-> [s \in Station |-> <<>>]]
      /\ r.busy = busy /\ r.used = [d \in Dirs |-> 0]
      /\ r.iTag = [d \in Dirs |-> [s \in Station |-> FALSE]]
      /\ r.next = [d \in Dirs |-> [s \in Station |-> "LOCAL"]]
      /\ r.eTag = [s \in Station |-> [b \in Dirs |-> NoPkt]]
  BY DEF ResetRing, Fields
<1> HIDE DEF r
<1>2. /\ \A T : <<>> \in Seq(T)
      /\ InjectDepth \in Nat /\ EjectDepth \in Nat /\ LinkDepth \in Nat
      /\ Len(<<>>) = 0
  BY LaneAssumption
<1>3. /\ r.inject \in [Dirs -> [Station -> Seq(Packets)]]
      /\ r.eject \in [Station -> [Dirs -> Seq(Packets)]]
      /\ r.link \in [Dirs -> [Station -> Seq(Slot)]]
  BY <1>1, <1>2
<1>4. r.next \in Preference
  BY <1>1 DEF Preference
<1>5. \A s \in Station, d \in Dirs :
        /\ r.inject[d][s] = <<>> /\ r.eject[s][d] = <<>>
        /\ r.link[d][s] = <<>> /\ r.transit[d][s] = NoSlot
        /\ ~r.iTag[d][s] /\ r.eTag[s][d] = NoPkt
  BY <1>1
<1>6. Typed(r)
  BY <1>1, <1>2, <1>3, <1>4, <1>5 DEF Typed
<1>7. \A d \in Dirs : SlotsOf(r, d) = {}
  <2> SUFFICES ASSUME NEW d \in Dirs, NEW x \in SlotsOf(r, d)
               PROVE  FALSE
    OBVIOUS
  <2>1. \A s \in Station : DOMAIN r.link[d][s] = {}
    BY <1>5
  <2> QED BY <1>5, <2>1, Places
<1>8. Capacity \in Nat \ {0}
  BY LaneAssumption DEF Capacity
<1>9. PoolCounts(r)
  <2>1. \A d \in Dirs : r.used[d] = 0
    BY <1>1
  <2>2. IsFiniteSet({}) /\ Cardinality({}) = 0
    BY FS_EmptySet
  <2>3. 0 < Capacity
    BY <1>8
  <2>4. \A d \in Dirs : /\ IsFiniteSet(SlotsOf(r, d))
                        /\ Cardinality(SlotsOf(r, d)) = 0
    BY <1>7, <2>2, Zenon
  <2> QED BY <2>1, <2>3, <2>4 DEF PoolCounts
<1>10. \A s \in Station, d \in Dirs : DOMAIN r.inject[d][s] = {}
  BY <1>5
<1>11. TagsOwed(r)
  BY <1>5, <1>7 DEF TagsOwed
<1>12. ReservationsMarked(r)
  BY <1>5 DEF ReservationsMarked
<1>13. /\ EmptyShapes(r) /\ MarksHold(r) /\ OneMark(r) /\ SlotsApart(r)
       /\ BanksApart(r) /\ NotBoth(r)
  BY <1>7, <1>10 DEF EmptyShapes, MarksHold, OneMark, SlotsApart, BanksApart,
     NotBoth
<1>14. LaneInv(r)
  BY <1>6, <1>9, <1>11, <1>12, <1>13 DEF LaneInv
<1> QED BY <1>14 DEF r

-----------------------------------------------------------------------------
(* The theorems                                                            *)

(* The inductive invariant. *)
IInv == LaneInv(ring)

(* The slots, tags, reservations and packets of a lane fit together in     *)
(* every reachable state: for any ring size, depths and packets.           *)
THEOREM LaneSafe == Spec => []IInv
<1>1. Init => IInv
  <2>1. [d \in Dirs |-> [s \in Station |-> FALSE]]
          \in [Dirs -> [Station -> BOOLEAN]]
    OBVIOUS
  <2> QED BY <2>1, ResetInv DEF Init, IInv
<1>2. IInv /\ [Next]_ring => IInv'
  <2> SUFFICES ASSUME LaneInv(ring), [Next]_ring
               PROVE  LaneInv(ring')
    BY DEF IInv
  <2>1. ASSUME NEW p \in Packets, Offer(p)  PROVE LaneInv(ring')
    BY <2>1, OfferKeepsInv
  <2>2. ASSUME NEW s \in Station, Schedule(s)  PROVE LaneInv(ring')
    BY <2>2, ScheduleKeepsInv
  <2>3. ASSUME NEW s \in Station, NEW d \in Dirs, Drain(s, d)
        PROVE  LaneInv(ring')
    BY <2>3, DrainKeepsInv
  <2>4. ASSUME NEW s \in Station, NEW d \in Dirs, ReleaseSerializer(s, d)
        PROVE  LaneInv(ring')
    BY <2>4, ReleaseKeepsInv
  <2>5. ASSUME NEW s \in Station, NEW b \in Dirs, Consume(s, b)
        PROVE  LaneInv(ring')
    BY <2>5, ConsumeKeepsInv
  <2>6. CASE Reset
    <3>1. ring.busy \in [Dirs -> [Station -> BOOLEAN]]
      BY DEF LaneInv, Typed
    <3> QED BY <2>6, <3>1, ResetInv DEF Reset
  <2>7. CASE UNCHANGED ring
    BY <2>7
  <2> QED BY <2>1, <2>2, <2>3, <2>4, <2>5, <2>6, <2>7 DEF Next
<1> QED BY <1>1, <1>2, PTL DEF Spec

(* TypeOK: queues and links stay within their depth. *)
THEOREM TypesHold == Spec => []TypeOK
<1>1. IInv => TypeOK
  BY DEF IInv, LaneInv, Typed, TypeOK, Fields, Preference
<1> QED BY <1>1, LaneSafe, PTL

(* The pool counts the slots on the lane and keeps one place free. *)
THEOREM PoolIsExact == Spec => []PoolCountsSlots
<1>1. IInv => PoolCountsSlots
  BY DEF IInv, LaneInv, PoolCounts, PoolCountsSlots, SlotsOf, Slots
<1> QED BY <1>1, LaneSafe, PTL

(* An I-tag that is out is carried by exactly one slot, and owed to a      *)
(* packet that waits.                                                      *)
THEOREM TagsAreOwed == Spec => []ITagsAreOwed
<1>1. IInv => ITagsAreOwed
  <2> SUFFICES ASSUME LaneInv(ring), NEW d \in Dirs, NEW s \in Station
               PROVE  /\ Cardinality({x \in Slots(d) : x[4].itag = s}) =
                           IF ring.iTag[d][s] THEN 1 ELSE 0
                      /\ ring.iTag[d][s] => Waiting(ring, s, d)
    BY DEF IInv, ITagsAreOwed
  <2> DEFINE tagged == {x \in SlotsOf(ring, d) : x[4].itag = s}
  <2>1. Slots(d) = SlotsOf(ring, d)
    BY DEF Slots, SlotsOf
  <2>2. /\ \A x \in tagged : ring.iTag[d][s]
        /\ ring.iTag[d][s] => \E x : x \in tagged
        /\ \A x, y \in tagged : x = y
        /\ ring.iTag[d][s] => Waiting(ring, s, d)
    BY DEF LaneInv, TagsOwed
  <2> HIDE DEF tagged
  <2>3. CASE ring.iTag[d][s]
    <3>1. PICK x : x \in tagged
      BY <2>2, <2>3
    <3>2. tagged = {x}
      BY <2>2, <3>1
    <3>3. Cardinality(tagged) = 1
      BY <3>2, FS_Singleton
    <3> QED BY <2>1, <2>2, <2>3, <3>3 DEF tagged
  <2>4. CASE ~ring.iTag[d][s]
    <3>1. tagged = {}
      BY <2>2, <2>4
    <3>2. Cardinality(tagged) = 0
      BY <3>1, FS_EmptySet
    <3> QED BY <2>1, <2>2, <2>4, <3>2 DEF tagged
  <2> QED BY <2>3, <2>4
<1> QED BY <1>1, LaneSafe, PTL

(* An eject reservation belongs to exactly one packet, which is on the     *)
(* ring, marked, and has still to reach the station.                       *)
THEOREM ReservationsAreOwned == Spec => []ReservationsHaveOwners
<1>1. IInv => ReservationsHaveOwners
  <2> SUFFICES ASSUME LaneInv(ring), NEW s \in Station, NEW b \in Dirs
               PROVE  LET marked == {x \in UNION {Slots(d) :
                                       d \in {e \in Dirs : Bank(s, e) = b}} :
                                     x[4].etag = s}
                      IN  /\ {x[4].pkt : x \in marked} =
                               IF ring.eTag[s][b] = NoPkt THEN {}
                               ELSE {ring.eTag[s][b]}
                          /\ \A x \in marked : s \in x[4].rest
    BY DEF IInv, ReservationsHaveOwners
  <2> DEFINE lanes == {e \in Dirs : Bank(s, e) = b}
             marked == {x \in UNION {Slots(d) : d \in lanes} : x[4].etag = s}
             owners == {x[4].pkt : x \in marked}
  <2>1. \A d \in Dirs : Slots(d) = SlotsOf(ring, d)
    BY DEF Slots, SlotsOf
  <2>2. \A x : x \in marked <=> \E d \in lanes : x \in SlotsOf(ring, d)
                                                /\ x[4].etag = s
    BY <2>1
  <2>3. \A x \in marked : /\ s \in x[4].rest /\ x[4].pkt # NoPkt
                          /\ x[4].pkt = ring.eTag[s][b]
    BY <2>2 DEF LaneInv, MarksHold, Reservation
  <2>4. ring.eTag[s][b] # NoPkt => \E x : x \in marked
    BY <2>2 DEF LaneInv, ReservationsMarked
  <2> HIDE DEF marked
  <2>5. owners = IF ring.eTag[s][b] = NoPkt THEN {} ELSE {ring.eTag[s][b]}
    BY <2>3, <2>4
  <2> QED BY <2>3, <2>5 DEF marked
<1> QED BY <1>1, LaneSafe, PTL

-----------------------------------------------------------------------------
(* Reserved room                                                           *)

(* A reservation that was there and is there keeps its room, or has none. *)
RoomKept(r, q) ==
  \A s \in Station, b \in Dirs :
    /\ r.eTag[s][b] # NoPkt
    /\ q.eTag[s][b] = r.eTag[s][b]
    /\ Len(r.eject[s][b]) < EjectDepth
    => Len(q.eject[s][b]) < EjectDepth

(* The eject queues after a step. *)
LEMMA StepQueues ==
  ASSUME NEW r, Typed(r), NEW q, NEW s \in Station, NEW d \in Dirs,
         NEW gone, NEW put, NEW started, NEW ended, NEW tag, NEW owner,
         Step(r, q, s, d, gone, put, started, ended, tag, owner)
  PROVE  \A t \in Station, b \in Dirs : q.eject[t][b] =
           IF ended # NoPkt /\ t = s /\ b = Bank(s, d)
           THEN Append(r.eject[t][b], ended) ELSE r.eject[t][b]
<1>1. Bank(s, d) \in Dirs
  BY Unwritten
<1>2. r.eject \in [Station -> [Dirs -> Seq(Packets)]]
  BY DEF Typed
<1>3. q.eject = IF ended = NoPkt THEN r.eject
                ELSE Change(r.eject, s, Bank(s, d),
                            Append(r.eject[s][Bank(s, d)], ended))
  BY DEF Step, Effect
<1> QED BY <1>1, <1>2, <1>3 DEF Change

(* A reservation that ends at an output, or is made there, is one for the  *)
(* packet in its register.                                                 *)
EndsHere(r, q, s, d) ==
  \A t \in Station, b \in Dirs :
    r.eTag[t][b] # NoPkt /\ q.eTag[t][b] # r.eTag[t][b] =>
      /\ q.eTag[t][b] = NoPkt
      /\ r.transit[d][s] # NoSlot
      /\ r.transit[d][s].pkt = r.eTag[t][b]

MadeHere(r, q, s, d) ==
  \A t \in Station, b \in Dirs :
    r.eTag[t][b] = NoPkt /\ q.eTag[t][b] # NoPkt =>
      /\ r.transit[d][s] # NoSlot
      /\ r.transit[d][s].pkt = q.eTag[t][b]

(* A step ends a reservation only for the packet in its register. *)
LEMMA ReservationEnds ==
  ASSUME NEW r, LaneInv(r), NEW q, NEW s \in Station, NEW d \in Dirs,
         NEW gone, NEW put, NEW started, NEW ended, NEW tag, NEW owner,
         Step(r, q, s, d, gone, put, started, ended, tag, owner)
  PROVE  EndsHere(r, q, s, d)
<1> SUFFICES ASSUME NEW t \in Station, NEW b \in Dirs,
                    r.eTag[t][b] # NoPkt, q.eTag[t][b] # r.eTag[t][b]
             PROVE  /\ q.eTag[t][b] = NoPkt
                    /\ r.transit[d][s] # NoSlot
                    /\ r.transit[d][s].pkt = r.eTag[t][b]
  BY DEF EndsHere
<1>1. Typed(r) /\ NoStation \notin Station
  BY LaneAssumption DEF LaneInv
<1>2. t = s /\ b = Bank(s, d) /\ q.eTag[t][b] = owner
  <2>1. TablesAfter(r, q, s, d, started, tag, owner)
    BY <1>1, StepTables
  <2> QED BY <2>1 DEF TablesAfter
<1>3. Reservation(r, s, d) # NoPkt /\ owner # Reservation(r, s, d)
  BY <1>2 DEF Reservation
<1>4. ETagMoves(r, s, d, gone, put, owner) /\ gone \in {NoSlot, r.transit[d][s]}
  BY DEF Step
<1>5. ETagOf(gone) = s /\ owner = NoPkt
  BY <1>3, <1>4 DEF ETagMoves
<1>6. gone # NoSlot /\ gone = r.transit[d][s] /\ gone.etag = s
  BY <1>1, <1>4, <1>5 DEF ETagOf
<1>7. Reservation(r, s, d) = gone.pkt
  BY <1>6, RegisterSlot
<1> QED BY <1>2, <1>5, <1>6, <1>7 DEF Reservation

(* A step makes a reservation only for the packet in its register. *)
LEMMA ReservationStarts ==
  ASSUME NEW r, LaneInv(r), NEW q, NEW s \in Station, NEW d \in Dirs,
         NEW gone, NEW put, NEW started, NEW ended, NEW tag, NEW owner,
         Step(r, q, s, d, gone, put, started, ended, tag, owner)
  PROVE  MadeHere(r, q, s, d)
<1> SUFFICES ASSUME NEW t \in Station, NEW b \in Dirs,
                    r.eTag[t][b] = NoPkt, q.eTag[t][b] # NoPkt
             PROVE  /\ r.transit[d][s] # NoSlot
                    /\ r.transit[d][s].pkt = q.eTag[t][b]
  BY DEF MadeHere
<1>1. Typed(r) /\ NoStation \notin Station
  BY LaneAssumption DEF LaneInv
<1>2. t = s /\ b = Bank(s, d) /\ q.eTag[t][b] = owner
  <2>1. TablesAfter(r, q, s, d, started, tag, owner)
    BY <1>1, StepTables
  <2> QED BY <2>1 DEF TablesAfter
<1>3. Reservation(r, s, d) = NoPkt /\ owner # NoPkt
  BY <1>2 DEF Reservation
<1>4. ETagMoves(r, s, d, gone, put, owner) /\ gone \in {NoSlot, r.transit[d][s]}
  BY DEF Step
<1>5. ETagOf(put) = s /\ owner = put.pkt /\ s \in put.rest
  BY <1>3, <1>4 DEF ETagMoves
<1>6. started = NoPkt /\ put # NoSlot
  <2>1. put # NoSlot
    BY <1>1, <1>5 DEF ETagOf
  <2>2. started # NoPkt => put.etag = NoStation
    BY DEF Step, Starts, Carrier
  <2> QED BY <1>1, <1>5, <2>1, <2>2 DEF ETagOf
<1>7. gone # NoSlot /\ put.pkt = gone.pkt
  BY <1>3, <1>5, <1>6 DEF Step, Travels
<1> QED BY <1>2, <1>4, <1>5, <1>7

(* One output keeps the room: only the owner of a reservation takes the    *)
(* last entry, and then the reservation ends.                              *)
LEMMA ServeKeepsRoom ==
  ASSUME NEW r, LaneInv(r), NEW s \in Station, NEW d \in Dirs
  PROVE  RoomKept(r, ServeOutput(r, s, d))
<1> DEFINE q == ServeOutput(r, s, d)
<1>1. \/ q = r
      \/ \E gone, put, started, ended, tag, owner :
           Step(r, q, s, d, gone, put, started, ended, tag, owner)
  BY ServeIsStep
<1> SUFFICES RoomKept(r, q)
  OBVIOUS
<1> HIDE DEF q
<1>2. CASE q = r
  BY <1>2 DEF RoomKept
<1>3. CASE \E gone, put, started, ended, tag, owner :
             Step(r, q, s, d, gone, put, started, ended, tag, owner)
  <2>1. PICK gone, put, started, ended, tag, owner :
          Step(r, q, s, d, gone, put, started, ended, tag, owner)
    BY <1>3
  <2> SUFFICES ASSUME NEW t \in Station, NEW b \in Dirs,
                      r.eTag[t][b] # NoPkt, q.eTag[t][b] = r.eTag[t][b],
                      Len(r.eject[t][b]) < EjectDepth
               PROVE  Len(q.eject[t][b]) < EjectDepth
    BY DEF RoomKept
  <2>2. Typed(r) /\ NoStation \notin Station
    BY LaneAssumption DEF LaneInv
  <2>3. q.eject[t][b] = IF ended # NoPkt /\ t = s /\ b = Bank(s, d)
                        THEN Append(r.eject[t][b], ended) ELSE r.eject[t][b]
    BY <2>1, <2>2, StepQueues
  <2>4. CASE ended # NoPkt /\ t = s /\ b = Bank(s, d)
    <3>1. /\ gone # NoSlot /\ s \in gone.rest /\ CanEject(r, s, d, gone)
          /\ gone = r.transit[d][s]
      BY <2>1, <2>4 DEF Step, Ends
    <3>2. owner = Reservation(r, s, d) /\ Reservation(r, s, d) # NoPkt
      <4>1. TablesAfter(r, q, s, d, started, tag, owner)
        BY <2>1, <2>2, StepTables
      <4>2. q.eTag[t][b] = owner
        BY <2>4, <4>1 DEF TablesAfter
      <4> QED BY <2>4, <4>2 DEF Reservation
    <3>3. gone.etag # s
      <4> SUFFICES ASSUME gone.etag = s  PROVE FALSE
        OBVIOUS
      <4>1. ETagOf(gone) = s /\ s # NoStation
        BY <2>2, <3>1 DEF ETagOf
      <4>2. ETagMoves(r, s, d, gone, put, owner)
        BY <2>1 DEF Step
      <4>3. ETagOf(put) = s /\ s \in put.rest
        BY <3>2, <4>1, <4>2 DEF ETagMoves
      <4>4. put # NoSlot /\ put.etag = s
        BY <2>2, <4>1, <4>3 DEF ETagOf
      <4>5. started = NoPkt
        BY <2>1, <4>1, <4>4 DEF Step, Starts, Carrier
      <4>6. put.rest = RestOf(gone) \ {s}
        BY <2>1, <2>4, <4>4, <4>5 DEF Step, Travels
      <4> QED BY <4>3, <4>6
    <3>4. ~OwnsETag(r, s, d, gone)
      BY <3>3 DEF OwnsETag
    <3>5. Len(r.eject[t][b]) + 1 < EjectDepth
      <4> DEFINE kept == IF r.eTag[s][b] = NoPkt \/ OwnsETag(r, s, d, gone)
                         THEN 0 ELSE 1
      <4>1. Len(r.eject[s][b]) + kept < EjectDepth
        BY <2>4, <3>1, Zenon DEF CanEject
      <4>2. kept = 1
        BY <2>4, <3>4, Zenon
      <4> HIDE DEF kept
      <4> QED BY <2>4, <4>1, <4>2
    <3>6. r.eject[t][b] \in Seq(Packets)
      BY <2>2 DEF Typed
    <3>7. Len(q.eject[t][b]) = Len(r.eject[t][b]) + 1
      BY <2>3, <2>4, <3>6
    <3> QED BY <3>5, <3>7
  <2>5. CASE ~(ended # NoPkt /\ t = s /\ b = Bank(s, d))
    BY <2>3, <2>5
  <2> QED BY <2>4, <2>5
<1> QED BY <1>1, <1>2, <1>3

(* A reservation one output ends is not made again by the other for the    *)
(* same packet: it is in one register only.                                *)
LEMMA OutputsKeepRoom ==
  ASSUME NEW r, LaneInv(r), NEW s \in Station,
         NEW c \in Dirs, NEW d \in Dirs, c # d
  PROVE  RoomKept(r, ServeOutput(ServeOutput(r, s, c), s, d))
<1> DEFINE half == ServeOutput(r, s, c)
           q == ServeOutput(half, s, d)
<1>1. LaneInv(half) /\ RoomKept(r, half)
  BY ServeKeepsInv, ServeKeepsRoom
<1>2. \/ half = r
      \/ \E gone, put, started, ended, tag, owner :
           Step(r, half, s, c, gone, put, started, ended, tag, owner)
  BY ServeIsStep
<1> HIDE DEF half
<1>3. RoomKept(half, q)
  BY <1>1, ServeKeepsRoom
<1>4. \/ q = half
      \/ \E gone, put, started, ended, tag, owner :
           Step(half, q, s, d, gone, put, started, ended, tag, owner)
  BY <1>1, ServeIsStep
<1> SUFFICES RoomKept(r, q)
  BY DEF half
<1> HIDE DEF q
<1> SUFFICES ASSUME NEW t \in Station, NEW b \in Dirs,
                    r.eTag[t][b] # NoPkt, q.eTag[t][b] = r.eTag[t][b],
                    Len(r.eject[t][b]) < EjectDepth
             PROVE  Len(q.eject[t][b]) < EjectDepth
  BY DEF RoomKept
<1>5. CASE half.eTag[t][b] = r.eTag[t][b]
  <2>1. Len(half.eject[t][b]) < EjectDepth
    BY <1>1, <1>5 DEF RoomKept
  <2> QED BY <1>3, <1>5, <2>1 DEF RoomKept
<1>6. CASE half.eTag[t][b] # r.eTag[t][b]
  <2>1. PICK gone, put, started, ended, tag, owner :
          Step(r, half, s, c, gone, put, started, ended, tag, owner)
    BY <1>2, <1>6
  <2>2. /\ half.eTag[t][b] = NoPkt
        /\ r.transit[c][s] # NoSlot
        /\ r.transit[c][s].pkt = r.eTag[t][b]
    <3>1. EndsHere(r, half, s, c)
      BY <2>1, ReservationEnds
    <3> QED BY <1>6, <3>1 DEF EndsHere
  <2>3. PICK gone2, put2, started2, ended2, tag2, owner2 :
          Step(half, q, s, d, gone2, put2, started2, ended2, tag2, owner2)
    BY <1>4, <2>2
  <2>4. /\ half.transit[d][s] # NoSlot
        /\ half.transit[d][s].pkt = q.eTag[t][b]
    <3>1. MadeHere(half, q, s, d)
      BY <1>1, <2>3, ReservationStarts
    <3> QED BY <2>2, <3>1 DEF MadeHere
  <2>5. half.transit[d] = r.transit[d]
    <3>1. r.transit \in [Dirs -> [Station -> Slot \cup {NoSlot}]]
      BY DEF LaneInv, Typed
    <3>2. \/ half.transit = r.transit
          \/ half.transit = Change(r.transit, c, s, NoSlot)
      BY <2>1 DEF Step, Effect
    <3> QED BY <3>1, <3>2 DEF Change
  <2>6. /\ InRegister(r, c, s) \in SlotsOf(r, c)
        /\ InRegister(r, d, s) \in SlotsOf(r, d)
    BY <2>2, <2>4, <2>5, Places
  <2>7. InRegister(r, c, s)[4].pkt = InRegister(r, d, s)[4].pkt
    BY <2>2, <2>4, <2>5 DEF InRegister
  <2>8. InRegister(r, c, s)[4].pkt # NoPkt
    BY <2>2 DEF InRegister
  <2>9. c = d
    BY <2>6, <2>7, <2>8 DEF LaneInv, SlotsApart
  <2> QED BY <2>9
<1> QED BY <1>5, <1>6

(* While a reservation lasts, an eject queue that has room keeps room for  *)
(* its owner, whatever else arrives in between.                            *)
THEOREM ReservedRoomIsKept == Spec => ReservedRoomKept
<1> DEFINE Kept ==
      \A s \in Station, b \in Dirs :
        /\ ring.eTag[s][b] # NoPkt
        /\ ring'.eTag[s][b] = ring.eTag[s][b]
        /\ Len(ring.eject[s][b]) < EjectDepth
        => Len(ring'.eject[s][b]) < EjectDepth
<1>1. IInv /\ [Next]_ring => [Kept]_ring
  <2> SUFFICES ASSUME LaneInv(ring), Next
               PROVE  RoomKept(ring, ring')
    BY DEF IInv, RoomKept
  <2>1. Typed(ring)
    BY DEF LaneInv
  <2>2. ring.eject \in [Station -> [Dirs -> Seq(Packets)]]
    BY <2>1 DEF Typed
  <2>3. ASSUME ring'.eject = ring.eject  PROVE RoomKept(ring, ring')
    BY <2>3 DEF RoomKept
  <2>4. ASSUME NEW p \in Packets, Offer(p)  PROVE RoomKept(ring, ring')
    <3>1. ring'.eject = ring.eject
      BY <2>1, <2>4 DEF Offer, Typed, Fields
    <3> QED BY <2>3, <3>1
  <2>5. ASSUME NEW s \in Station, Schedule(s)  PROVE RoomKept(ring, ring')
    <3>1. "CW" \in Dirs /\ "CCW" \in Dirs /\ "CW" # "CCW"
      BY DEF Dirs
    <3> QED BY <2>5, <3>1, OutputsKeepRoom DEF Schedule
  <2>6. ASSUME NEW s \in Station, NEW d \in Dirs, Drain(s, d)
        PROVE  RoomKept(ring, ring')
    <3>1. ring'.eject = ring.eject
      BY <2>1, <2>6 DEF Drain, Typed, Fields
    <3> QED BY <2>3, <3>1
  <2>7. ASSUME NEW s \in Station, NEW d \in Dirs, ReleaseSerializer(s, d)
        PROVE  RoomKept(ring, ring')
    <3>1. ring'.eject = ring.eject
      BY <2>1, <2>7 DEF ReleaseSerializer, Typed, Fields
    <3> QED BY <2>3, <3>1
  <2>8. ASSUME NEW s \in Station, NEW c \in Dirs, Consume(s, c)
        PROVE  RoomKept(ring, ring')
    <3>1. /\ ring'.eject = Change(ring.eject, s, c, Tail(ring.eject[s][c]))
          /\ ring.eject[s][c] # <<>>
      BY <2>1, <2>8 DEF Consume, Typed, Fields, Change
    <3>2. Len(Tail(ring.eject[s][c])) < Len(ring.eject[s][c])
      BY <2>2, <3>1
    <3>3. \A t \in Station, b \in Dirs :
            ring'.eject[t][b] = IF t = s /\ b = c THEN Tail(ring.eject[s][c])
                                ELSE ring.eject[t][b]
      BY <2>2, <3>1 DEF Change
    <3>4. \A t \in Station, b \in Dirs :
            Len(ring'.eject[t][b]) <= Len(ring.eject[t][b])
      <4> SUFFICES ASSUME NEW t \in Station, NEW b \in Dirs
                   PROVE  Len(ring'.eject[t][b]) <= Len(ring.eject[t][b])
        OBVIOUS
      <4>1. Len(ring.eject[t][b]) \in Nat
        BY <2>2
      <4>2. CASE t = s /\ b = c
        <5>1. Len(Tail(ring.eject[s][c])) \in Nat
          BY <2>2, <3>1
        <5>2. ring'.eject[t][b] = Tail(ring.eject[s][c])
          BY <3>3, <4>2
        <5> DEFINE x == Len(Tail(ring.eject[s][c]))
                   y == Len(ring.eject[t][b])
        <5>3. x \in Nat /\ y \in Nat /\ x < y /\ Len(ring'.eject[t][b]) = x
          BY <3>2, <4>1, <4>2, <5>1, <5>2
        <5> HIDE DEF x
        <5> QED BY <5>3
      <4>3. CASE ~(t = s /\ b = c)
        <5>1. ring'.eject[t][b] = ring.eject[t][b]
          BY <3>3, <4>3
        <5> QED BY <4>1, <5>1
      <4> QED BY <4>2, <4>3
    <3>5. /\ \A t \in Station, b \in Dirs :
               /\ Len(ring.eject[t][b]) \in Nat
               /\ Len(ring'.eject[t][b]) \in Nat
          /\ EjectDepth \in Nat
      BY <2>2, <3>1, <3>3, LaneAssumption
    <3> QED BY <3>4, <3>5 DEF RoomKept
  <2>9. CASE Reset
    <3>1. \A s \in Station, b \in Dirs : ring'.eTag[s][b] = NoPkt
      BY <2>9 DEF Reset, ResetRing
    <3> QED BY <3>1 DEF RoomKept
  <2> QED BY <2>4, <2>5, <2>6, <2>7, <2>8, <2>9 DEF Next
<1> QED BY <1>1, LaneSafe, PTL DEF Spec, ReservedRoomKept

-----------------------------------------------------------------------------
(* A ring lane implements RingTransport                                    *)

(* The slots under way in state r, by the places of the lanes. *)
LegsOf(r) ==
  UNION {UNION {{<<x[4].pkt, t, d>> : t \in x[4].rest} :
                  x \in SlotsOf(r, d)} : d \in Dirs}

(* A leg is a packet in a slot, with a destination left to serve. *)
LEMMA LegIsLeg ==
  ASSUME NEW r, NEW leg
  PROVE  leg \in LegsOf(r) <=>
           \E d \in Dirs : \E x \in SlotsOf(r, d) : \E t \in x[4].rest :
             leg = <<x[4].pkt, t, d>>
<1> DEFINE of(x, d) == {<<x[4].pkt, t, d>> : t \in x[4].rest}
           on(d) == UNION {of(x, d) : x \in SlotsOf(r, d)}
<1>1. LegsOf(r) = UNION {on(d) : d \in Dirs}
  BY DEF LegsOf
<1>2. \A x, d : leg \in of(x, d) <=> \E t \in x[4].rest : leg = <<x[4].pkt, t, d>>
  BY Zenon
<1> HIDE DEF of
<1>3. \A d : leg \in on(d) <=> \E x \in SlotsOf(r, d) : leg \in of(x, d)
  BY Zenon
<1> HIDE DEF on
<1>4. leg \in LegsOf(r) <=> \E d \in Dirs : leg \in on(d)
  BY <1>1, Zenon
<1> QED BY <1>2, <1>3, <1>4

(* The slots on a lane are those of its places. *)
LEMMA SlotsOnPlaces ==
  ASSUME NEW r, NEW d
  PROVE  \A slot : slot \in SlotsOn(r, d) <=>
                     \E x \in SlotsOf(r, d) : slot = x[4]
<1> DEFINE taken == {s \in Station : r.transit[d][s] # NoSlot}
           A == {r.transit[d][s] : s \in taken}
           L(s) == {r.link[d][s][i] : i \in DOMAIN r.link[d][s]}
<1>1. SlotsOn(r, d) = A \cup UNION {L(s) : s \in Station}
  BY DEF SlotsOn
<1> SUFFICES ASSUME NEW slot
             PROVE  slot \in SlotsOn(r, d) <=>
                      \E x \in SlotsOf(r, d) : slot = x[4]
  OBVIOUS
<1>2. slot \in A <=> \E s \in Station : /\ r.transit[d][s] # NoSlot
                                         /\ slot = r.transit[d][s]
  BY Zenon
<1>3. \A s : slot \in L(s) <=> \E i \in DOMAIN r.link[d][s] :
                                 slot = r.link[d][s][i]
  BY Zenon
<1> HIDE DEF A, L
<1>4. slot \in SlotsOn(r, d) <=> slot \in A \/ \E s \in Station : slot \in L(s)
  BY <1>1
<1>5. /\ \A s : InRegister(r, d, s)[4] = r.transit[d][s]
      /\ \A s, i : OnLink(r, d, s, i)[4] = r.link[d][s][i]
  BY DEF InRegister, OnLink
<1>6. slot \in A <=> \E s \in Station : /\ r.transit[d][s] # NoSlot
                                         /\ slot = InRegister(r, d, s)[4]
  BY <1>2, <1>5
<1>7. (\E s \in Station : slot \in L(s)) <=>
        \E s \in Station : \E i \in DOMAIN r.link[d][s] :
          slot = OnLink(r, d, s, i)[4]
  BY <1>3, <1>5
<1>8. (\E x \in SlotsOf(r, d) : slot = x[4]) <=>
        \/ \E s \in Station : /\ r.transit[d][s] # NoSlot
                              /\ slot = InRegister(r, d, s)[4]
        \/ \E s \in Station : \E i \in DOMAIN r.link[d][s] :
             slot = OnLink(r, d, s, i)[4]
  BY Places
<1> QED BY <1>4, <1>6, <1>7, <1>8

(* The legs of RingLane are those of the slots in their places. *)
LEMMA LegsInSlots ==
  ASSUME NEW r
  PROVE  UNION {UNION {{<<slot.pkt, t, d>> : t \in slot.rest} :
                         slot \in SlotsOn(r, d)} : d \in Dirs} = LegsOf(r)
<1> DEFINE of(slot, d) == {<<slot.pkt, t, d>> : t \in slot.rest}
           onA(d) == UNION {of(slot, d) : slot \in SlotsOn(r, d)}
           onB(d) == UNION {of(x[4], d) : x \in SlotsOf(r, d)}
<1>1. \A d \in Dirs : onA(d) = onB(d)
  <2> SUFFICES ASSUME NEW d \in Dirs  PROVE onA(d) = onB(d)
    OBVIOUS
  <2> HIDE DEF of
  <2>1. \A slot : slot \in SlotsOn(r, d) <=>
                    \E x \in SlotsOf(r, d) : slot = x[4]
    BY SlotsOnPlaces
  <2> QED BY <2>1
<1>2. LegsOf(r) = UNION {onB(d) : d \in Dirs}
  BY DEF LegsOf
<1>3. UNION {onA(d) : d \in Dirs} = LegsOf(r)
  <2> HIDE DEF onA, onB
  <2> QED BY <1>1, <1>2
<1> QED BY <1>3

(* The legs the refinement names, before a step and after it. *)
LEMMA LegsAreLegs == Legs = LegsOf(ring) /\ Legs' = LegsOf(ring')
<1>1. Legs = LegsOf(ring)
  BY LegsInSlots DEF Legs
<1>2. Legs' = LegsOf(ring')
  BY LegsInSlots DEF Legs
<1> QED BY <1>1, <1>2

(* Serving an output carries out a part of a turn: a packet may start and  *)
(* one may end.                                                            *)
StartedLegs(d, started) ==
  IF started = NoPkt THEN {} ELSE {<<started, t, d>> : t \in Dst[started]}

EndedLegs(s, d, ended) == IF ended = NoPkt THEN {} ELSE {<<ended, s, d>>}

Carries(r, q, s, d, started, ended) ==
  /\ started # NoPkt => Waiting(r, s, d) /\ started = Head(r.inject[d][s])
  /\ ended # NoPkt => <<ended, s, d>> \in LegsOf(r)
  /\ q.inject = IF started = NoPkt THEN r.inject
                ELSE Change(r.inject, d, s, Tail(r.inject[d][s]))
  /\ q.eject = IF ended = NoPkt THEN r.eject
               ELSE Change(r.eject, s, Bank(s, d),
                           Append(r.eject[s][Bank(s, d)], ended))
  /\ LegsOf(q) = (LegsOf(r) \ EndedLegs(s, d, ended))
                 \cup StartedLegs(d, started)

(* A step starts the legs of one packet and ends one leg at most. *)
LEMMA StepCarries ==
  ASSUME NEW r, LaneInv(r), NEW q, NEW s \in Station, NEW d \in Dirs,
         NEW gone, NEW put, NEW started, NEW ended, NEW tag, NEW owner,
         Step(r, q, s, d, gone, put, started, ended, tag, owner)
  PROVE  Carries(r, q, s, d, started, ended)
<1> DEFINE P == SlotsOf(r, d)
           Q == SlotsOf(q, d)
           from == Vacated(s, gone)
           to == Occupied(r, s, d, put)
<1>1. Typed(r) /\ NoPkt \notin Packets /\ SlotsApart(r)
  BY LaneAssumption DEF LaneInv
<1>2. /\ PlacesAfter(r, q, s, d, gone, put)
      /\ Travels(s, gone, put, started, ended)
      /\ Starts(r, s, d, put, started) /\ Ends(r, s, d, gone, ended)
      /\ Effect(r, q, s, d, gone, put, started, ended, tag, owner)
  BY <1>1, StepPlaces DEF Step
<1>3. /\ \A x : x \in Q <=> \/ x \in P /\ (gone # NoSlot => x # from)
                            \/ put # NoSlot /\ x = to
      /\ gone # NoSlot => from \in P
      /\ from[4] = gone /\ to[4] = put
      /\ \A e \in Dirs : e # d => SlotsOf(q, e) = SlotsOf(r, e)
  BY <1>2 DEF PlacesAfter
<1>4. started # NoPkt =>
        /\ Waiting(r, s, d) /\ started = Head(r.inject[d][s])
        /\ put # NoSlot /\ put.pkt = started /\ put.rest = Dst[started]
  <2>1. started # NoPkt => /\ Waiting(r, s, d) /\ put = Carrier(started)
                           /\ started = Head(r.inject[d][s])
    BY <1>2 DEF Starts
  <2>2. started # NoPkt => Carrier(started) # NoSlot
    BY <1>1, <2>1, WaitingHead
  <2> QED BY <2>1, <2>2 DEF Carrier
<1>5. ended # NoPkt => gone # NoSlot /\ ended = gone.pkt /\ s \in gone.rest
  BY <1>2 DEF Ends
<1>6. \A x \in P : x # from /\ ended # NoPkt => x[4].pkt # ended
  BY <1>1, <1>3, <1>5 DEF SlotsApart
<1> DEFINE left == IF ended = NoPkt THEN RestOf(gone) ELSE RestOf(gone) \ {s}
<1>7. /\ started # NoPkt \/ put = NoSlot => left = {}
      /\ started = NoPkt /\ put # NoSlot =>
           /\ gone # NoSlot /\ put.rest = left
           /\ put.pkt = gone.pkt \/ (put.pkt = NoPkt /\ left = {})
  BY <1>2 DEF Travels
<1>8. \A t : t \in left <=> /\ gone # NoSlot /\ t \in gone.rest
                            /\ ended # NoPkt => t # s
  BY DEF RestOf
<1> HIDE DEF P, Q, from, to, left
<1>9. ended # NoPkt => <<ended, s, d>> \in LegsOf(r)
  BY <1>3, <1>5, LegIsLeg DEF P
<1>10. LegsOf(q) = (LegsOf(r) \ EndedLegs(s, d, ended))
                   \cup StartedLegs(d, started)
  <2>1. ASSUME NEW leg \in LegsOf(q)
        PROVE  \/ leg \in LegsOf(r) /\ leg \notin EndedLegs(s, d, ended)
               \/ leg \in StartedLegs(d, started)
    <3>1. PICK e, x, t : /\ e \in Dirs /\ x \in SlotsOf(q, e)
                         /\ t \in x[4].rest /\ leg = <<x[4].pkt, t, e>>
      BY LegIsLeg
    <3>2. CASE e # d
      <4>1. x \in SlotsOf(r, e)
        BY <1>3, <3>1, <3>2
      <4>2. leg \in LegsOf(r)
        BY <3>1, <4>1, LegIsLeg
      <4> QED BY <3>1, <3>2, <4>2 DEF EndedLegs
    <3>3. CASE e = d /\ x \in P /\ (gone # NoSlot => x # from)
      <4>1. leg \in LegsOf(r)
        BY <3>1, <3>3, LegIsLeg DEF P
      <4>2. ended # NoPkt => x[4].pkt # ended
        BY <1>5, <1>6, <3>3
      <4> QED BY <3>1, <4>1, <4>2 DEF EndedLegs
    <3>4. CASE e = d /\ put # NoSlot /\ x = to
      <4>1. x[4] = put
        BY <1>3, <3>4
      <4>2. CASE started # NoPkt
        BY <1>4, <3>1, <3>4, <4>1, <4>2 DEF StartedLegs
      <4>3. CASE started = NoPkt
        <5>1. t \in left /\ put.pkt = gone.pkt /\ gone # NoSlot
          BY <1>7, <3>1, <3>4, <4>1, <4>3
        <5>2. t \in gone.rest /\ (ended # NoPkt => t # s)
          BY <1>8, <5>1
        <5>3. from \in SlotsOf(r, d) /\ from[4] = gone
          BY <1>3, <5>1 DEF P
        <5>4. leg = <<gone.pkt, t, d>>
          BY <3>1, <3>4, <4>1, <5>1
        <5>5. leg \in LegsOf(r)
          BY <5>2, <5>3, <5>4, LegIsLeg
        <5> QED BY <5>2, <5>4, <5>5 DEF EndedLegs
      <4> QED BY <4>2, <4>3
    <3>5. e = d => x \in Q
      BY <3>1 DEF Q
    <3> QED BY <1>3, <3>2, <3>3, <3>4, <3>5
  <2>2. ASSUME NEW leg \in LegsOf(r), leg \notin EndedLegs(s, d, ended)
        PROVE  leg \in LegsOf(q)
    <3>1. PICK e, x, t : /\ e \in Dirs /\ x \in SlotsOf(r, e)
                         /\ t \in x[4].rest /\ leg = <<x[4].pkt, t, e>>
      BY LegIsLeg
    <3>2. CASE e # d
      <4>1. x \in SlotsOf(q, e)
        BY <1>3, <3>1, <3>2
      <4> QED BY <3>1, <4>1, LegIsLeg
    <3>3. CASE e = d /\ (gone # NoSlot => x # from)
      <4>1. x \in SlotsOf(q, e)
        BY <1>3, <3>1, <3>3 DEF P, Q
      <4> QED BY <3>1, <4>1, LegIsLeg
    <3>4. CASE e = d /\ gone # NoSlot /\ x = from
      <4>1. x[4] = gone /\ t \in gone.rest /\ leg = <<gone.pkt, t, d>>
        BY <1>3, <3>1, <3>4
      <4>2. ended # NoPkt => t # s
        BY <1>5, <2>2, <4>1 DEF EndedLegs
      <4>3. t \in left
        BY <1>8, <3>4, <4>1, <4>2
      <4>4. /\ put # NoSlot /\ put.rest = left /\ put.pkt = gone.pkt
        BY <1>7, <4>3
      <4>5. to \in SlotsOf(q, d) /\ to[4] = put
        BY <1>3, <4>4 DEF Q
      <4> QED BY <4>1, <4>3, <4>4, <4>5, LegIsLeg
    <3> QED BY <3>2, <3>3, <3>4
  <2>3. ASSUME NEW leg \in StartedLegs(d, started)  PROVE leg \in LegsOf(q)
    <3>1. started # NoPkt
      BY DEF StartedLegs
    <3>2. PICK t \in Dst[started] : leg = <<started, t, d>>
      BY <3>1 DEF StartedLegs
    <3>3. to \in SlotsOf(q, d) /\ to[4] = put
      BY <1>3, <1>4, <3>1 DEF Q
    <3> QED BY <1>4, <3>1, <3>2, <3>3, LegIsLeg
  <2> QED BY <2>1, <2>2, <2>3
<1>11. /\ q.inject = IF started = NoPkt THEN r.inject
                     ELSE Change(r.inject, d, s, Tail(r.inject[d][s]))
       /\ q.eject = IF ended = NoPkt THEN r.eject
                    ELSE Change(r.eject, s, Bank(s, d),
                                Append(r.eject[s][Bank(s, d)], ended))
  BY <1>2 DEF Effect
<1> QED BY <1>4, <1>9, <1>10, <1>11 DEF Carries

(* Serving an output starts and ends legs as a step does. *)
LEMMA ServeCarries ==
  ASSUME NEW r, LaneInv(r), NEW s \in Station, NEW d \in Dirs
  PROVE  \E started, ended \in Packets \cup {NoPkt} :
           Carries(r, ServeOutput(r, s, d), s, d, started, ended)
<1> DEFINE q == ServeOutput(r, s, d)
<1>1. \/ q = r
      \/ \E gone, put, started, ended, tag, owner :
           Step(r, q, s, d, gone, put, started, ended, tag, owner)
  BY ServeIsStep
<1> HIDE DEF q
<1>2. CASE q = r
  <2>1. Carries(r, q, s, d, NoPkt, NoPkt)
    BY <1>2 DEF Carries, EndedLegs, StartedLegs
  <2> QED BY <2>1 DEF q
<1>3. CASE \E gone, put, started, ended, tag, owner :
             Step(r, q, s, d, gone, put, started, ended, tag, owner)
  <2>1. PICK gone, put, started, ended, tag, owner :
          Step(r, q, s, d, gone, put, started, ended, tag, owner)
    BY <1>3
  <2>2. Carries(r, q, s, d, started, ended)
    BY <2>1, StepCarries
  <2>3. started \in Packets \cup {NoPkt} /\ ended \in Packets \cup {NoPkt}
    BY <2>1 DEF Step
  <2> QED BY <2>2, <2>3 DEF q
<1> QED BY <1>1, <1>2, <1>3

(* Schedule is a turn of the station: what its two outputs do adds up. *)
Packet(p) == IF p = NoPkt THEN <<>> ELSE <<p>>

Adds(r, q, s, cw, cwEnd, ccw, ccwEnd) ==
  LET starts == {d \in Dirs : (d = "CW" /\ cw # NoPkt)
                              \/ (d = "CCW" /\ ccw # NoPkt)}
      started == UNION {{<<Head(r.inject[d][s]), t, d>> :
                           t \in Dst[Head(r.inject[d][s])]} : d \in starts}
      ending == {<<p, s, "CW">> : p \in Transport!Entries(Packet(cwEnd))}
                \cup {<<p, s, "CCW">> : p \in Transport!Entries(Packet(ccwEnd))}
      ended(b) == (IF Bank(s, "CW") = b THEN Packet(cwEnd) ELSE <<>>)
                    \o (IF Bank(s, "CCW") = b THEN Packet(ccwEnd) ELSE <<>>)
  IN  /\ starts \in SUBSET {d \in Dirs : r.inject[d][s] # <<>>}
      /\ cwEnd # NoPkt => <<cwEnd, s, "CW">> \in LegsOf(r)
      /\ ccwEnd # NoPkt => <<ccwEnd, s, "CCW">> \in LegsOf(r)
      /\ q.inject = [d \in Dirs |->
           IF d \in starts THEN [r.inject[d] EXCEPT ![s] = Tail(@)]
                           ELSE r.inject[d]]
      /\ LegsOf(q) = (LegsOf(r) \ ending) \cup started
      /\ q.eject = [r.eject EXCEPT ![s] =
                      [b \in Dirs |-> r.eject[s][b] \o ended(b)]]

(* What both outputs start and end adds up to one turn of the station. *)
LEMMA OutputsAddUp ==
  ASSUME NEW r, LaneInv(r), NEW s \in Station,
         NEW cw \in Packets \cup {NoPkt}, NEW ccw \in Packets \cup {NoPkt},
         NEW cwEnd \in Packets \cup {NoPkt}, NEW ccwEnd \in Packets \cup {NoPkt},
         NEW half, NEW q, LaneInv(half), LaneInv(q),
         Carries(r, half, s, "CW", cw, cwEnd),
         Carries(half, q, s, "CCW", ccw, ccwEnd)
  PROVE  Adds(r, q, s, cw, cwEnd, ccw, ccwEnd)
<1> DEFINE starts == {d \in Dirs : (d = "CW" /\ cw # NoPkt)
                                   \/ (d = "CCW" /\ ccw # NoPkt)}
           legs(d) == {<<Head(r.inject[d][s]), t, d>> :
                         t \in Dst[Head(r.inject[d][s])]}
           started == UNION {legs(d) : d \in starts}
           endCW == {<<p, s, "CW">> : p \in Transport!Entries(Packet(cwEnd))}
           endCCW == {<<p, s, "CCW">> : p \in Transport!Entries(Packet(ccwEnd))}
           ended(b) ==
             (IF Bank(s, "CW") = b THEN Packet(cwEnd) ELSE <<>>)
               \o (IF Bank(s, "CCW") = b THEN Packet(ccwEnd) ELSE <<>>)
<1>1. /\ Typed(r) /\ Typed(half) /\ Typed(q)
      /\ "CW" \in Dirs /\ "CCW" \in Dirs /\ \A d \in Dirs : d = "CW" \/ d = "CCW"
      /\ Bank(s, "CW") \in Dirs /\ Bank(s, "CCW") \in Dirs
  BY DEF LaneInv, Dirs, Bank
<1>2. /\ r.inject \in [Dirs -> [Station -> Seq(Packets)]]
      /\ r.eject \in [Station -> [Dirs -> Seq(Packets)]]
      /\ half.inject \in [Dirs -> [Station -> Seq(Packets)]]
      /\ half.eject \in [Station -> [Dirs -> Seq(Packets)]]
      /\ q.inject \in [Dirs -> [Station -> Seq(Packets)]]
      /\ q.eject \in [Station -> [Dirs -> Seq(Packets)]]
  BY <1>1 DEF Typed
<1>3. /\ cw # NoPkt => Waiting(r, s, "CW") /\ cw = Head(r.inject["CW"][s])
      /\ half.inject = IF cw = NoPkt THEN r.inject
                       ELSE Change(r.inject, "CW", s, Tail(r.inject["CW"][s]))
      /\ half.eject = IF cwEnd = NoPkt THEN r.eject
                      ELSE Change(r.eject, s, Bank(s, "CW"),
                                  Append(r.eject[s][Bank(s, "CW")], cwEnd))
  BY DEF Carries
<1>4. /\ cwEnd # NoPkt => <<cwEnd, s, "CW">> \in LegsOf(r)
      /\ LegsOf(half) = (LegsOf(r) \ EndedLegs(s, "CW", cwEnd))
                        \cup StartedLegs("CW", cw)
  BY DEF Carries
<1>5. /\ ccw # NoPkt => /\ Waiting(half, s, "CCW")
                        /\ ccw = Head(half.inject["CCW"][s])
      /\ q.inject = IF ccw = NoPkt THEN half.inject
                    ELSE Change(half.inject, "CCW", s,
                                Tail(half.inject["CCW"][s]))
      /\ q.eject = IF ccwEnd = NoPkt THEN half.eject
                   ELSE Change(half.eject, s, Bank(s, "CCW"),
                               Append(half.eject[s][Bank(s, "CCW")], ccwEnd))
  BY DEF Carries
<1>6. /\ ccwEnd # NoPkt => <<ccwEnd, s, "CCW">> \in LegsOf(half)
      /\ LegsOf(q) = (LegsOf(half) \ EndedLegs(s, "CCW", ccwEnd))
                     \cup StartedLegs("CCW", ccw)
  BY DEF Carries
<1>7. half.inject["CCW"] = r.inject["CCW"]
  BY <1>1, <1>2, <1>3 DEF Change
<1>8. starts \in SUBSET {d \in Dirs : r.inject[d][s] # <<>>}
  BY <1>3, <1>5, <1>7 DEF Waiting
<1>9. q.inject = [d \in Dirs |->
        IF d \in starts THEN [r.inject[d] EXCEPT ![s] = Tail(@)]
                        ELSE r.inject[d]]
  <2>1. q.inject["CW"] = IF cw = NoPkt THEN r.inject["CW"]
                         ELSE [r.inject["CW"] EXCEPT ![s] = Tail(@)]
    <3>1. q.inject["CW"] = half.inject["CW"]
      BY <1>1, <1>2, <1>5 DEF Change
    <3>2. CASE cw = NoPkt
      BY <1>3, <3>1, <3>2
    <3>3. CASE cw # NoPkt
      <4>1. half.inject["CW"] = [r.inject["CW"] EXCEPT ![s] = Tail(r.inject["CW"][s])]
        BY <1>1, <1>2, <1>3, <3>3 DEF Change
      <4> QED BY <3>1, <3>3, <4>1
    <3> QED BY <3>2, <3>3
  <2>2. q.inject["CCW"] = IF ccw = NoPkt THEN r.inject["CCW"]
                          ELSE [r.inject["CCW"] EXCEPT ![s] = Tail(@)]
    <3>1. CASE ccw = NoPkt
      BY <1>5, <1>7, <3>1
    <3>2. CASE ccw # NoPkt
      <4>1. q.inject["CCW"] =
              [half.inject["CCW"] EXCEPT ![s] = Tail(half.inject["CCW"][s])]
        BY <1>1, <1>2, <1>5, <3>2 DEF Change
      <4> QED BY <1>7, <3>2, <4>1
    <3> QED BY <3>1, <3>2
  <2>3. \A d \in Dirs : d \in starts <=> (d = "CW" /\ cw # NoPkt)
                                         \/ (d = "CCW" /\ ccw # NoPkt)
    OBVIOUS
  <2> HIDE DEF starts
  <2>4. \A d \in Dirs : q.inject[d] =
          IF d \in starts THEN [r.inject[d] EXCEPT ![s] = Tail(@)]
                          ELSE r.inject[d]
    <3>1. "CW" \in starts <=> cw # NoPkt
      BY <1>1, <2>3
    <3>2. "CCW" \in starts <=> ccw # NoPkt
      BY <1>1, <2>3
    <3> QED BY <1>1, <2>1, <2>2, <3>1, <3>2
  <2> QED BY <1>2, <2>4
<1>10. /\ endCW = EndedLegs(s, "CW", cwEnd)
       /\ endCCW = EndedLegs(s, "CCW", ccwEnd)
  <2>1. \A p : Transport!Entries(Packet(p)) = IF p = NoPkt THEN {} ELSE {p}
    BY DEF Transport!Entries, Packet
  <2> QED BY <2>1 DEF EndedLegs
<1>11. started = StartedLegs("CW", cw) \cup StartedLegs("CCW", ccw)
  <2>1. cw # NoPkt => legs("CW") = StartedLegs("CW", cw)
    BY <1>3 DEF StartedLegs
  <2>2. ccw # NoPkt => legs("CCW") = StartedLegs("CCW", ccw)
    BY <1>5, <1>7 DEF StartedLegs
  <2>3. /\ cw = NoPkt => StartedLegs("CW", cw) = {}
        /\ ccw = NoPkt => StartedLegs("CCW", ccw) = {}
    BY DEF StartedLegs
  <2>4. /\ "CW" \in starts <=> cw # NoPkt
        /\ "CCW" \in starts <=> ccw # NoPkt
        /\ \A d \in starts : d = "CW" \/ d = "CCW"
    BY <1>1
  <2> HIDE DEF legs, starts
  <2>5. \A x : x \in started <=> \E d \in starts : x \in legs(d)
    OBVIOUS
  <2> HIDE DEF started
  <2> QED BY <2>1, <2>2, <2>3, <2>4, <2>5
<1>12. /\ \A x \in StartedLegs("CW", cw) : x[3] = "CW"
       /\ \A x \in EndedLegs(s, "CCW", ccwEnd) : x[3] = "CCW"
       /\ ccwEnd # NoPkt => <<ccwEnd, s, "CCW">> \notin StartedLegs("CW", cw)
  BY DEF StartedLegs, EndedLegs
<1>13. ccwEnd # NoPkt => <<ccwEnd, s, "CCW">> \in LegsOf(r)
  BY <1>4, <1>6, <1>12
<1> HIDE DEF started, endCW, endCCW
<1>14. LegsOf(q) = (LegsOf(r) \ (endCW \cup endCCW)) \cup started
  <2>1. \A x : ~(x \in StartedLegs("CW", cw) /\ x \in EndedLegs(s, "CCW", ccwEnd))
    BY <1>12
  <2> QED BY <1>4, <1>6, <1>10, <1>11, <2>1
<1>15. q.eject = [r.eject EXCEPT ![s] =
                    [b \in Dirs |-> r.eject[s][b] \o ended(b)]]
  <2>1. \A t \in Station, b \in Dirs : q.eject[t][b] =
          IF t = s THEN r.eject[t][b] \o ended(b) ELSE r.eject[t][b]
    <3> SUFFICES ASSUME NEW t \in Station, NEW b \in Dirs
                 PROVE  q.eject[t][b] = IF t = s THEN r.eject[t][b] \o ended(b)
                                        ELSE r.eject[t][b]
      OBVIOUS
    <3>1. half.eject[t][b] =
            IF cwEnd # NoPkt /\ t = s /\ b = Bank(s, "CW")
            THEN Append(r.eject[t][b], cwEnd) ELSE r.eject[t][b]
      <4>1. CASE cwEnd = NoPkt
        BY <1>3, <4>1
      <4>2. CASE cwEnd # NoPkt
        <5> DEFINE c == Bank(s, "CW")
                   new == Append(r.eject[s][c], cwEnd)
        <5>1. half.eject = Change(r.eject, s, c, new) /\ c \in Dirs
          BY <1>1, <1>3, <4>2
        <5> HIDE DEF c, new
        <5>2. /\ s \in DOMAIN r.eject /\ c \in DOMAIN r.eject[s]
              /\ t \in DOMAIN r.eject /\ b \in DOMAIN r.eject[t]
          BY <1>2, <5>1
        <5>3. half.eject[t][b] = IF t = s /\ b = c THEN new ELSE r.eject[t][b]
          BY <5>1, <5>2, ChangeEntry
        <5> QED BY <4>2, <5>3 DEF c, new
      <4> QED BY <4>1, <4>2
    <3>2. q.eject[t][b] =
            IF ccwEnd # NoPkt /\ t = s /\ b = Bank(s, "CCW")
            THEN Append(half.eject[t][b], ccwEnd) ELSE half.eject[t][b]
      BY <1>1, <1>2, <1>5 DEF Change
    <3> DEFINE e == r.eject[t][b]
               f == half.eject[t][b]
               x == IF Bank(s, "CW") = b THEN Packet(cwEnd) ELSE <<>>
               y == IF Bank(s, "CCW") = b THEN Packet(ccwEnd) ELSE <<>>
    <3>3. e \in Seq(Packets) /\ f \in Seq(Packets)
      BY <1>2
    <3>4. /\ x \in Seq(Packets) /\ y \in Seq(Packets)
      <4>1. \A p \in Packets \cup {NoPkt} : Packet(p) \in Seq(Packets)
        BY DEF Packet
      <4> QED BY <4>1
    <3>5. \A z \in Seq(Packets) : /\ z \o <<>> = z
                                  /\ \A p \in Packets : z \o <<p>> = Append(z, p)
      OBVIOUS
    <3>6. t = s => f = e \o x /\ q.eject[t][b] = f \o y
      <4>1. t = s => f = e \o x
        <5>1. CASE cwEnd # NoPkt /\ b = Bank(s, "CW")
          <6>1. x = <<cwEnd>> /\ cwEnd \in Packets
            BY <5>1 DEF Packet
          <6> QED BY <3>1, <3>3, <3>5, <5>1, <6>1
        <5>2. CASE ~(cwEnd # NoPkt /\ b = Bank(s, "CW"))
          <6>1. x = <<>>
            BY <5>2 DEF Packet
          <6> QED BY <3>1, <3>3, <3>5, <5>2, <6>1
        <5> QED BY <5>1, <5>2
      <4>2. t = s => q.eject[t][b] = f \o y
        <5>1. CASE ccwEnd # NoPkt /\ b = Bank(s, "CCW")
          <6>1. y = <<ccwEnd>> /\ ccwEnd \in Packets
            BY <5>1 DEF Packet
          <6> QED BY <3>2, <3>3, <3>5, <5>1, <6>1, ZenonT(40)
        <5>2. CASE ~(ccwEnd # NoPkt /\ b = Bank(s, "CCW"))
          <6>1. y = <<>>
            BY <5>2 DEF Packet
          <6> QED BY <3>2, <3>3, <3>5, <5>2, <6>1
        <5> QED BY <5>1, <5>2
      <4> QED BY <4>1, <4>2
    <3>7. t # s => q.eject[t][b] = e
      BY <3>1, <3>2
    <3>8. (e \o x) \o y = e \o (x \o y)
      <4> HIDE DEF e, x, y
      <4> QED BY <3>3, <3>4
    <3>9. ended(b) = x \o y
      OBVIOUS
    <3> HIDE DEF e, f, x, y, ended
    <3> QED BY <3>6, <3>7, <3>8, <3>9 DEF e
  <2> HIDE DEF ended
  <2> DEFINE row == [b \in Dirs |-> r.eject[s][b] \o ended(b)]
  <2>2. q.eject[s] = row
    BY <1>2, <2>1
  <2>3. \A t \in Station : t # s => q.eject[t] = r.eject[t]
    BY <1>2, <2>1
  <2> HIDE DEF row
  <2>4. q.eject = [r.eject EXCEPT ![s] = row]
    BY <1>2, <2>2, <2>3
  <2> QED BY <2>4 DEF row
<1> QED BY <1>4, <1>8, <1>9, <1>13, <1>14, <1>15
        DEF Adds, started, endCW, endCCW

(* A scheduling of the station is a turn of RingTransport. *)
LEMMA ScheduleIsTurn ==
  ASSUME LaneInv(ring), NEW s \in Station, Schedule(s)
  PROVE  Transport!Turn(s)
<1> DEFINE r == ring
           half == ServeOutput(r, s, "CW")
           q == ServeOutput(half, s, "CCW")
<1>1. ring' = q /\ "CW" \in Dirs /\ "CCW" \in Dirs
  BY DEF Schedule, Dirs
<1>2. LaneInv(half)
  BY <1>1, ServeKeepsInv
<1>3. PICK cw \in Packets \cup {NoPkt}, cwEnd \in Packets \cup {NoPkt} :
        Carries(r, half, s, "CW", cw, cwEnd)
  BY <1>1, ServeCarries
<1> HIDE DEF half
<1>4. LaneInv(q)
  BY <1>1, <1>2, ServeKeepsInv
<1>5. PICK ccw \in Packets \cup {NoPkt}, ccwEnd \in Packets \cup {NoPkt} :
        Carries(half, q, s, "CCW", ccw, ccwEnd)
  BY <1>1, <1>2, ServeCarries
<1> HIDE DEF q
<1> DEFINE starts == {d \in Dirs : (d = "CW" /\ cw # NoPkt)
                                   \/ (d = "CCW" /\ ccw # NoPkt)}
           legs(d) == {<<Head(r.inject[d][s]), t, d>> :
                         t \in Dst[Head(r.inject[d][s])]}
           started == UNION {legs(d) : d \in starts}
           a == Packet(cwEnd)
           b == Packet(ccwEnd)
           ending == {<<p, s, "CW">> : p \in Transport!Entries(a)}
                     \cup {<<p, s, "CCW">> : p \in Transport!Entries(b)}
           ended(c) == (IF Bank(s, "CW") = c THEN a ELSE <<>>)
                         \o (IF Bank(s, "CCW") = c THEN b ELSE <<>>)
<1>6. /\ starts \in SUBSET {d \in Dirs : r.inject[d][s] # <<>>}
      /\ cwEnd # NoPkt => <<cwEnd, s, "CW">> \in LegsOf(r)
      /\ ccwEnd # NoPkt => <<ccwEnd, s, "CCW">> \in LegsOf(r)
      /\ q.inject = [d \in Dirs |->
           IF d \in starts THEN [r.inject[d] EXCEPT ![s] = Tail(@)]
                           ELSE r.inject[d]]
      /\ LegsOf(q) = (LegsOf(r) \ ending) \cup started
      /\ q.eject = [r.eject EXCEPT ![s] =
                      [c \in Dirs |-> r.eject[s][c] \o ended(c)]]
  <2>1. Adds(r, q, s, cw, cwEnd, ccw, ccwEnd)
    BY <1>2, <1>3, <1>4, <1>5, OutputsAddUp
  <2> QED BY <2>1 DEF Adds
<1>7. Legs = LegsOf(r) /\ Legs' = LegsOf(q)
  BY <1>1, LegsAreLegs
<1>8. \A p : p # NoPkt => Packet(p) = <<p>>
  BY DEF Packet
<1>9. a \in Transport!Ending(s, "CW")
  <2>1. cwEnd = NoPkt => a = <<>>
    BY DEF Packet
  <2>2. cwEnd # NoPkt => a = <<cwEnd>> /\ <<cwEnd, s, "CW">> \in Legs
    BY <1>6, <1>7, <1>8
  <2> HIDE DEF a
  <2> QED BY <1>3, <2>1, <2>2 DEF Transport!Ending
<1>10. b \in Transport!Ending(s, "CCW")
  <2>1. ccwEnd = NoPkt => b = <<>>
    BY DEF Packet
  <2>2. ccwEnd # NoPkt => b = <<ccwEnd>> /\ <<ccwEnd, s, "CCW">> \in Legs
    BY <1>6, <1>7, <1>8
  <2> HIDE DEF b
  <2> QED BY <1>5, <2>1, <2>2 DEF Transport!Ending
<1>11. \A c \in Dirs : Len(q.eject[s][c]) <= EjectDepth
  BY <1>4 DEF LaneInv, Typed
<1> HIDE DEF a, b
<1>12. /\ ring'.inject = [d \in Dirs |->
            IF d \in starts THEN [ring.inject[d] EXCEPT ![s] = Tail(@)]
                            ELSE ring.inject[d]]
       /\ Legs' = (Legs \ ending) \cup started
       /\ ring'.eject = [ring.eject EXCEPT ![s] =
                           [c \in Dirs |-> ring.eject[s][c] \o ended(c)]]
       /\ \A c \in Dirs : Len(ring'.eject[s][c]) <= EjectDepth
       /\ starts \in SUBSET {d \in Dirs : ring.inject[d][s] # <<>>}
  BY <1>1, <1>6, <1>7, <1>11
<1> QED BY <1>9, <1>10, <1>12 DEF Transport!Turn

(* Slots that only change places carry the same legs. *)
LEMMA ShiftKeepsLegs ==
  ASSUME NEW r, NEW q, \A e \in Dirs : Shifted(SlotsOf(r, e), SlotsOf(q, e))
  PROVE  LegsOf(q) = LegsOf(r)
<1> DEFINE F(e) == CHOOSE f \in Bijection(SlotsOf(r, e), SlotsOf(q, e)) :
                     \A x \in SlotsOf(r, e) : f[x][4] = x[4]
<1>1. \A e \in Dirs : /\ F(e) \in Bijection(SlotsOf(r, e), SlotsOf(q, e))
                      /\ \A x \in SlotsOf(r, e) : F(e)[x][4] = x[4]
  BY DEF Shifted
<1> HIDE DEF F
<1>2. \A e \in Dirs :
        /\ \A x \in SlotsOf(r, e) :
             F(e)[x] \in SlotsOf(q, e) /\ F(e)[x][4] = x[4]
        /\ \A y \in SlotsOf(q, e) : \E x \in SlotsOf(r, e) : F(e)[x] = y
  BY <1>1 DEF Bijection, Injection, Surjection
<1>3. ASSUME NEW leg  PROVE leg \in LegsOf(q) <=> leg \in LegsOf(r)
  <2> DEFINE Has(x, e) == \E t \in x[4].rest : leg = <<x[4].pkt, t, e>>
  <2>1. /\ leg \in LegsOf(q) <=> \E e \in Dirs : \E y \in SlotsOf(q, e) : Has(y, e)
        /\ leg \in LegsOf(r) <=> \E e \in Dirs : \E x \in SlotsOf(r, e) : Has(x, e)
    BY LegIsLeg
  <2>2. \A x, y, e : x[4] = y[4] => (Has(x, e) <=> Has(y, e))
    OBVIOUS
  <2> HIDE DEF Has
  <2> QED BY <1>2, <2>1, <2>2
<1> QED BY <1>3

(* A packet offered to the ring is a packet offered to RingTransport. *)
LEMMA OfferIsOffer ==
  ASSUME LaneInv(ring), NEW p \in Packets, Offer(p)
  PROVE  Transport!OfferPacket(p)
<1> DEFINE s == Src[p]
<1>1. Typed(ring)
  BY DEF LaneInv
<1>2. p \notin Transport!Known
  <2>1. p \notin {leg[1] : leg \in Legs}
    <3> SUFFICES ASSUME NEW leg \in Legs, leg[1] = p  PROVE FALSE
      OBVIOUS
    <3>1. PICK d, x, t : /\ d \in Dirs /\ x \in SlotsOf(ring, d)
                         /\ t \in x[4].rest /\ leg = <<x[4].pkt, t, d>>
      BY LegsAreLegs, LegIsLeg
    <3>2. x[4].pkt = p
      BY <3>1
    <3>3. p # NoPkt
      BY LaneAssumption
    <3>4. p \in Carried(ring)
      BY <3>1, <3>2, <3>3, CarriedPackets
    <3> QED BY <3>4 DEF Offer
  <2>2. p \notin Queued(ring) /\ p \notin Arrived(ring)
    BY DEF Offer
  <2> DEFINE heads == {leg[1] : leg \in Legs}
             queued == UNION {Transport!Entries(ring.inject[d][t]) :
                                d \in Dirs, t \in Station}
             landed == UNION {Transport!Entries(ring.eject[t][b]) :
                                b \in Dirs, t \in Station}
  <2>3. queued = Queued(ring)
    BY DEF Queued, Transport!Entries
  <2>4. landed = Arrived(ring)
    BY DEF Arrived, Transport!Entries
  <2>5. Transport!Known = heads \cup queued \cup landed
    BY DEF Transport!Known
  <2> HIDE DEF heads, queued, landed
  <2>6. p \notin heads
    BY <2>1 DEF heads
  <2> QED BY <2>2, <2>3, <2>4, <2>5, <2>6
<1>3. PICK d \in Ways(p) :
        /\ Len(ring.inject[d][s]) < InjectDepth
        /\ ring' = [ring EXCEPT !.inject[d][s] = Append(@, p)]
  BY DEF Offer
<1>4. /\ ring'.inject = [ring.inject EXCEPT ![d][s] = Append(@, p)]
      /\ ring'.eject = ring.eject /\ ring'.transit = ring.transit
      /\ ring'.link = ring.link
  BY <1>1, <1>3 DEF Typed, Fields
<1>5. LegsOf(ring') = LegsOf(ring)
  BY <1>4 DEF LegsOf, SlotsOf
<1>6. Legs' = Legs
  BY <1>5, LegsAreLegs
<1> QED BY <1>2, <1>3, <1>4, <1>6 DEF Transport!OfferPacket

(* A packet consumed leaves RingTransport. *)
LEMMA ConsumeIsConsume ==
  ASSUME LaneInv(ring), NEW s \in Station, NEW b \in Dirs, Consume(s, b)
  PROVE  Transport!ConsumePacket(s, b)
<1>1. Typed(ring)
  BY DEF LaneInv
<1>2. /\ ring'.eject = [ring.eject EXCEPT ![s][b] = Tail(@)]
      /\ ring'.inject = ring.inject /\ ring'.transit = ring.transit
      /\ ring'.link = ring.link /\ ring.eject[s][b] # <<>>
  BY <1>1 DEF Consume, Typed, Fields
<1>3. LegsOf(ring') = LegsOf(ring)
  BY <1>2 DEF LegsOf, SlotsOf
<1>4. Legs' = Legs
  BY <1>3, LegsAreLegs
<1> QED BY <1>2, <1>4 DEF Transport!ConsumePacket

(* A ring after reset carries nothing. *)
LEMMA EmptyRing ==
  ASSUME NEW busy
  PROVE  LET r == ResetRing(busy)
         IN  /\ r.inject = [d \in Dirs |-> [s \in Station |-> <<>>]]
             /\ r.eject = [s \in Station |-> [b \in Dirs |-> <<>>]]
             /\ LegsOf(r) = {}
<1> DEFINE r == ResetRing(busy)
<1>1. /\ r.inject = [d \in Dirs |-> [s \in Station |-> <<>>]]
      /\ r.eject = [s \in Station |-> [b \in Dirs |-> <<>>]]
      /\ \A s \in Station, d \in Dirs :
           r.transit[d][s] = NoSlot /\ r.link[d][s] = <<>>
  BY DEF ResetRing
<1> HIDE DEF r
<1>2. \A d \in Dirs, s \in Station : DOMAIN r.link[d][s] = {}
  BY <1>1
<1>3. \A d \in Dirs : \A x : x \notin SlotsOf(r, d)
  BY <1>1, <1>2, Places
<1>4. \A leg : leg \notin LegsOf(r)
  BY <1>3, LegIsLeg
<1> QED BY <1>1, <1>4 DEF r

(* The lane carries out RingTransport: no packet is lost, duplicated or    *)
(* delivered anywhere but at its destinations, at each of them once, and   *)
(* banks are FIFO.                                                         *)
THEOREM LaneImplementsTransport == Spec => ImplementsTransport
<1>1. Init => Transport!Empty
  <2> SUFFICES ASSUME Init  PROVE Transport!Empty
    OBVIOUS
  <2>1. Legs = LegsOf(ring)
    BY LegsAreLegs
  <2>2. /\ ring.inject = [d \in Dirs |-> [s \in Station |-> <<>>]]
        /\ ring.eject = [s \in Station |-> [b \in Dirs |-> <<>>]]
        /\ LegsOf(ring) = {}
    BY EmptyRing DEF Init
  <2> QED BY <2>1, <2>2 DEF Transport!Empty
<1>2. IInv /\ [Next]_ring => [Transport!TransportNext]_(Transport!transportVars)
  <2> SUFFICES ASSUME LaneInv(ring), [Next]_ring
               PROVE  [Transport!TransportNext]_(Transport!transportVars)
    BY DEF IInv
  <2>1. Typed(ring)
    BY DEF LaneInv
  <2>2. ASSUME NEW p \in Packets, Offer(p)  PROVE Transport!TransportNext
    <3>1. Transport!OfferPacket(p)
      BY <2>2, OfferIsOffer
    <3> QED BY <3>1 DEF Transport!TransportNext
  <2>3. ASSUME NEW s \in Station, Schedule(s)  PROVE Transport!TransportNext
    <3>1. Transport!Turn(s)
      BY <2>3, ScheduleIsTurn
    <3> QED BY <3>1 DEF Transport!TransportNext
  <2>4. ASSUME ring'.inject = ring.inject, ring'.eject = ring.eject,
               LegsOf(ring') = LegsOf(ring)
        PROVE  UNCHANGED Transport!transportVars
    <3>1. Legs' = Legs
      BY <2>4, LegsAreLegs
    <3> QED BY <2>4, <3>1 DEF Transport!transportVars
  <2>5. ASSUME NEW s \in Station, NEW d \in Dirs, Drain(s, d)
        PROVE  UNCHANGED Transport!transportVars
    <3> DEFINE t == Neighbor(s, d)
    <3>1. t \in Station
      BY LaneAssumption DEF Neighbor, Station
    <3>2. /\ ring.link[d][s] # <<>> /\ ring.transit[d][t] = NoSlot
          /\ ring' = [ring EXCEPT !.transit[d][t] = Head(ring.link[d][s]),
                                  !.link[d][s] = Tail(@)]
      BY <2>5 DEF Drain
    <3> HIDE DEF t
    <3>3. /\ ring'.inject = ring.inject /\ ring'.eject = ring.eject
          /\ ring'.transit = Change(ring.transit, d, t, Head(ring.link[d][s]))
          /\ ring'.link = Change(ring.link, d, s, Tail(ring.link[d][s]))
      BY <2>1, <3>2 DEF Typed, Fields, Change
    <3>4. /\ Shifted(SlotsOf(ring, d), SlotsOf(ring', d))
          /\ \A e \in Dirs : e # d => SlotsOf(ring', e) = SlotsOf(ring, e)
      <4> DEFINE q == ring'
      <4>1. /\ ring.link[d][s] # <<>> /\ ring.transit[d][t] = NoSlot
            /\ q.transit = Change(ring.transit, d, t, Head(ring.link[d][s]))
            /\ q.link = Change(ring.link, d, s, Tail(ring.link[d][s]))
        BY <3>2, <3>3
      <4> HIDE DEF q
      <4>2. /\ Shifted(SlotsOf(ring, d), SlotsOf(q, d))
            /\ \A e \in Dirs : e # d => SlotsOf(q, e) = SlotsOf(ring, e)
        BY <2>1, <3>1, <4>1, DrainedPlaces
      <4> QED BY <4>2 DEF q
    <3>5. \A e \in Dirs : Shifted(SlotsOf(ring, e), SlotsOf(ring', e))
      BY <3>4, ShiftedSame
    <3>6. LegsOf(ring') = LegsOf(ring)
      BY <3>5, ShiftKeepsLegs
    <3> QED BY <2>4, <3>3, <3>6
  <2>6. ASSUME NEW s \in Station, NEW d \in Dirs, ReleaseSerializer(s, d)
        PROVE  UNCHANGED Transport!transportVars
    <3>1. /\ ring'.inject = ring.inject /\ ring'.eject = ring.eject
          /\ ring'.transit = ring.transit /\ ring'.link = ring.link
      BY <2>1, <2>6 DEF ReleaseSerializer, Typed, Fields
    <3>2. LegsOf(ring') = LegsOf(ring)
      BY <3>1 DEF LegsOf, SlotsOf
    <3> QED BY <2>4, <3>1, <3>2
  <2>7. ASSUME NEW s \in Station, NEW b \in Dirs, Consume(s, b)
        PROVE  Transport!TransportNext
    <3>1. Transport!ConsumePacket(s, b)
      BY <2>7, ConsumeIsConsume
    <3> QED BY <3>1 DEF Transport!TransportNext
  <2>8. CASE Reset
    <3>1. /\ ring'.inject = [d \in Dirs |-> [s \in Station |-> <<>>]]
          /\ ring'.eject = [s \in Station |-> [b \in Dirs |-> <<>>]]
          /\ LegsOf(ring') = {}
      BY <2>8, EmptyRing DEF Reset
    <3>2. Legs' = {}
      BY <3>1, LegsAreLegs
    <3>3. Transport!DropAll
      BY <3>1, <3>2 DEF Transport!DropAll
    <3> QED BY <3>3 DEF Transport!TransportNext
  <2>9. CASE UNCHANGED ring
    BY <2>4, <2>9
  <2> QED BY <2>2, <2>3, <2>5, <2>6, <2>7, <2>8, <2>9 DEF Next
<1> QED BY <1>1, <1>2, LaneSafe, PTL
        DEF Spec, ImplementsTransport, Transport!TransportSpec
=============================================================================
