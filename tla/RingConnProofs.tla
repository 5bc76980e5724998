--------------------------- MODULE RingConnProofs ---------------------------
(***************************************************************************)
(* Proofs about RingConn for every latency and every assignment of         *)
(* serialization cycles: its safety invariants, the bandwidth guarantee    *)
(* across resets, and that it implements RingLink.                         *)
(***************************************************************************)
EXTENDS RingConn, SequenceTheorems, TLAPS

(* The inductive invariant.  The flags alone are not inductive: that a     *)
(* release is still ahead of every move, and that the link stays busy for  *)
(* as long as its last slot needs, is in the distances of the events.      *)
ConnInv ==
  /\ TypeOK
  /\ EventsMatchFlags
  /\ MoveBeforeRelease
  /\ InflightCounts
  /\ HoldCovered

(* One cycle less to go keeps a single notification single. *)
LEMMA OneLess ==
  ASSUME NEW due \in SUBSET Nat, 0 \notin due
  PROVE  /\ {n - 1 : n \in due} \in SUBSET Nat
         /\ due = {} => {n - 1 : n \in due} = {}
         /\ \A m \in Nat : due = {m} => {n - 1 : n \in due} = {m - 1}
  OBVIOUS

LEMMA InitHolds == Init => ConnInv
<1> USE DEF Init
<1>1. Init => FlagTypes
  BY DEF FlagTypes
<1>2. Init => DataTypes
  BY EmptySeq DEF DataTypes
<1>3. Init => EventsMatchFlags /\ HoldCovered
  BY DEF EventsMatchFlags, Outstanding, HoldCovered
<1>4. Init => MoveBeforeRelease
  BY DEF MoveBeforeRelease
<1>5. Init => InflightCounts
  BY ConnAssumption DEF InflightCounts, Depth, ConnAssumption
<1> QED BY <1>1, <1>2, <1>3, <1>4, <1>5 DEF ConnInv, TypeOK

(* A slot enters the pipeline behind the others. *)
LEMMA EnterPipeline ==
  ASSUME DataTypes, NEW x \in Slots
  PROVE  /\ Append(pipeline, Entering(x)) \in Seq(PipelineEntry)
         /\ Len(Append(pipeline, Entering(x))) = Len(pipeline) + 1
         /\ Len(pipeline) \in Nat
<1>1. Entering(x) \in PipelineEntry
  BY ConnAssumption DEF Entering, PipelineEntry, ConnAssumption
<1> QED BY <1>1, AppendProperties, LenProperties DEF DataTypes

LEMMA AcceptKeeps ==
  ASSUME ConnInv, NEW x \in Slots, AcceptPaid(x) \/ AcceptUnpaid(x)
  PROVE  ConnInv'
<1> USE DEF ConnInv, TypeOK
<1>1. Cycles[x] \in Nat /\ Cycles[x] # 0 /\ Cycles[x] - 1 \in Nat /\ x # NoSlot
  BY ConnAssumption DEF ConnAssumption
<1>2. Reserve(x) /\ CanAccept
  BY DEF AcceptPaid, AcceptUnpaid, Reserve
<1>3. releaseDue = {} /\ moveDue = {} /\ hold = 0 /\ serializer = NoSlot
      /\ ~movePending
  BY <1>2 DEF CanAccept, EventsMatchFlags, MoveBeforeRelease, HoldCovered, Outstanding
<1>4. /\ available' = FALSE /\ releasePending' = TRUE
      /\ releaseDue' = {Cycles[x]} /\ hold' = Cycles[x]
      /\ retiredRelease' = FALSE /\ retiredMove' = FALSE
      /\ inflight' = inflight + 1 /\ register' = register
  BY <1>2, <1>3 DEF Reserve, CanAccept, retiredVars, FlagTypes
<1>5. inflight + 1 \in Nat /\ inflight + 1 <= Depth /\ Len(pipeline) \in Nat
  BY <1>2, ConnAssumption, LenProperties
  DEF CanAccept, DataTypes, Depth, ConnAssumption
<1>6. CASE AcceptPaid(x)
  <2>1. UNCHANGED <<serializer, movePending, moveDue>>
        /\ pipeline' = Append(pipeline, Entering(x))
    BY <1>6 DEF AcceptPaid
  <2>2. FlagTypes'
    BY <1>3, <1>4, <2>1 DEF FlagTypes
  <2>3. DataTypes'
    BY <1>1, <1>4, <1>5, <2>1, EnterPipeline DEF DataTypes
  <2>4. EventsMatchFlags' /\ HoldCovered'
    BY <1>1, <1>3, <1>4, <2>1 DEF EventsMatchFlags, Outstanding, HoldCovered
  <2>5. MoveBeforeRelease'
    BY <1>3, <1>4, <2>1 DEF MoveBeforeRelease
  <2>6. InflightCounts'
    BY <1>3, <1>4, <1>5, <2>1, EnterPipeline DEF InflightCounts, Depth
  <2> QED BY <2>2, <2>3, <2>4, <2>5, <2>6
<1>7. CASE AcceptUnpaid(x)
  <2>1. serializer' = x /\ movePending' = TRUE
        /\ moveDue' = {Cycles[x] - 1} /\ pipeline' = pipeline
    BY <1>3, <1>7 DEF AcceptUnpaid
  <2>2. FlagTypes'
    BY <1>4, <2>1 DEF FlagTypes
  <2>3. DataTypes'
    BY <1>1, <1>4, <1>5, <2>1 DEF DataTypes
  <2>4. EventsMatchFlags' /\ HoldCovered'
    BY <1>1, <1>4, <2>1 DEF EventsMatchFlags, Outstanding, HoldCovered
  <2>5. MoveBeforeRelease'
    BY <1>1, <1>4, <2>1 DEF MoveBeforeRelease
  <2>6. InflightCounts'
    BY <1>1, <1>3, <1>4, <1>5, <2>1 DEF InflightCounts, Depth
  <2> QED BY <2>2, <2>3, <2>4, <2>5, <2>6
<1> QED BY <1>6, <1>7

LEMMA ReleaseKeeps ==
  ASSUME ConnInv, ReleaseEvent
  PROVE  ConnInv'
<1> USE DEF ConnInv, TypeOK
<1>1. releaseDue = {0} /\ releaseDue' = {} /\ hold = 0 /\ moveDue = {}
  BY DEF EventsMatchFlags, Outstanding, HoldCovered, MoveBeforeRelease,
         DataTypes, ReleaseEvent
<1>2. ~movePending /\ ~retiredMove /\ (releasePending \/ retiredRelease)
      /\ ~(releasePending /\ retiredRelease)
  BY <1>1 DEF EventsMatchFlags, Outstanding
<1>3. retiredRelease' = FALSE /\ releasePending' = FALSE /\ available' = TRUE
  BY <1>2 DEF ReleaseEvent, MoveBeforeRelease, FlagTypes
<1>4. UNCHANGED <<inflight, serializer, movePending, retiredMove, moveDue,
                  pipeline, register, hold>>
  BY DEF ReleaseEvent
<1>5. FlagTypes' /\ DataTypes'
  BY <1>1, <1>3, <1>4 DEF FlagTypes, DataTypes
<1>6. EventsMatchFlags' /\ HoldCovered'
  BY <1>1, <1>2, <1>3, <1>4 DEF EventsMatchFlags, Outstanding, HoldCovered
<1>7. MoveBeforeRelease'
  BY <1>1, <1>2, <1>3, <1>4 DEF MoveBeforeRelease
<1>8. InflightCounts'
  BY <1>4 DEF InflightCounts, Depth
<1> QED BY <1>5, <1>6, <1>7, <1>8

LEMMA MoveKeeps ==
  ASSUME ConnInv, MoveEvent
  PROVE  ConnInv'
<1> USE DEF ConnInv, TypeOK
<1>1. moveDue = {0} /\ moveDue' = {}
  BY DEF EventsMatchFlags, Outstanding, MoveEvent
<1>2. (movePending \/ retiredMove) /\ ~(movePending /\ retiredMove)
  BY <1>1 DEF EventsMatchFlags, Outstanding
<1>3. retiredMove' = FALSE /\ movePending' = FALSE
  BY <1>2 DEF MoveEvent, FlagTypes
<1>4. UNCHANGED <<inflight, available, releasePending, retiredRelease,
                  releaseDue, register, hold>>
  BY DEF MoveEvent
<1>5. /\ serializer' = NoSlot
      /\ movePending => serializer \in Slots
      /\ movePending => pipeline' = Append(pipeline, Entering(serializer))
      /\ ~movePending => pipeline' = pipeline /\ serializer = NoSlot
  BY <1>2 DEF MoveEvent, MoveBeforeRelease, DataTypes, FlagTypes
<1>6. FlagTypes'
  BY <1>3, <1>4 DEF FlagTypes
<1>7. DataTypes'
  BY <1>1, <1>4, <1>5, EnterPipeline DEF DataTypes, FlagTypes
<1>8. EventsMatchFlags' /\ HoldCovered'
  BY <1>1, <1>3, <1>4 DEF EventsMatchFlags, Outstanding, HoldCovered
<1>9. MoveBeforeRelease'
  BY <1>1, <1>3, <1>4, <1>5 DEF MoveBeforeRelease
<1>10. InflightCounts'
  BY <1>4, <1>5, EnterPipeline, ConnAssumption
  DEF InflightCounts, Depth, FlagTypes, ConnAssumption
<1> QED BY <1>6, <1>7, <1>8, <1>9, <1>10

LEMMA DrainKeeps ==
  ASSUME ConnInv, Drain
  PROVE  ConnInv'
<1> USE DEF ConnInv, TypeOK, serializerVars, retiredVars, eventVars
<1>1. pipeline \in Seq(PipelineEntry) /\ pipeline # <<>>
  BY DEF DataTypes, Drain
<1>2. /\ Tail(pipeline) \in Seq(PipelineEntry)
      /\ Len(Tail(pipeline)) = Len(pipeline) - 1
      /\ Head(pipeline) \in PipelineEntry
      /\ Len(pipeline) \in Nat \ {0}
  BY <1>1, HeadTailProperties, EmptySeq
<1>3. <<Head(pipeline).slot>> \in Seq(Slots)
  BY <1>2, EmptySeq, AppendProperties DEF PipelineEntry
<1>4. /\ inflight - 1 \in Nat /\ inflight - 1 <= Depth
      /\ inflight - 1 = Len(Tail(pipeline))
                         + (IF serializer = NoSlot THEN 0 ELSE 1)
  <2>1. Depth \in Nat
    BY ConnAssumption DEF Depth, ConnAssumption
  <2>2. inflight <= Depth
    BY DEF InflightCounts
  <2>3. CASE serializer = NoSlot
    <3>1. inflight = Len(pipeline)
      BY <1>2, <2>3 DEF InflightCounts
    <3> QED BY <1>2, <2>1, <2>2, <2>3, <3>1
  <2>4. CASE serializer # NoSlot
    <3>1. inflight = Len(pipeline) + 1
      BY <2>4 DEF InflightCounts
    <3> QED BY <1>2, <2>1, <2>2, <2>4, <3>1
  <2> QED BY <2>3, <2>4
<1>5. FlagTypes'
  BY DEF FlagTypes, Drain
<1>6. DataTypes'
  BY <1>2, <1>3, <1>4 DEF DataTypes, Drain
<1>7. EventsMatchFlags' /\ HoldCovered' /\ MoveBeforeRelease'
  BY DEF EventsMatchFlags, Outstanding, HoldCovered, MoveBeforeRelease, Drain
<1>8. InflightCounts'
  BY <1>4 DEF InflightCounts, Depth, Drain
<1> QED BY <1>5, <1>6, <1>7, <1>8

LEMMA ResetKeeps ==
  ASSUME ConnInv, Reset
  PROVE  ConnInv'
<1> USE DEF ConnInv, TypeOK, Reset, eventVars
<1>1. FlagTypes'
  BY DEF FlagTypes
<1>2. DataTypes'
  BY EmptySeq DEF DataTypes
<1>3. EventsMatchFlags' /\ HoldCovered'
  BY DEF EventsMatchFlags, Outstanding, HoldCovered, FlagTypes
<1>4. MoveBeforeRelease'
  BY DEF MoveBeforeRelease, FlagTypes
<1>5. InflightCounts'
  BY ConnAssumption, EmptySeq DEF InflightCounts, Depth, ConnAssumption
<1> QED BY <1>1, <1>2, <1>3, <1>4, <1>5

LEMMA TickKeeps ==
  ASSUME ConnInv, Tick
  PROVE  ConnInv'
<1> USE DEF ConnInv, TypeOK, Tick, serializerVars, retiredVars
<1>1. /\ releaseDue' \in SUBSET Nat /\ moveDue' \in SUBSET Nat
      /\ releaseDue = {} => releaseDue' = {}
      /\ moveDue = {} => moveDue' = {}
      /\ \A m \in Nat : releaseDue = {m} => releaseDue' = {m - 1}
      /\ \A m \in Nat : moveDue = {m} => moveDue' = {m - 1}
  BY OneLess DEF DataTypes
<1>2. \A n \in releaseDue \cup moveDue : n \in Nat /\ n # 0
  BY DEF DataTypes
<1>3. \A n \in Nat : Earlier(n) \in Nat
  BY DEF Earlier
<1>4. /\ pipeline' \in Seq(PipelineEntry)
      /\ Len(pipeline') = Len(pipeline)
  <2>1. /\ Len(pipeline) \in Nat
        /\ DOMAIN pipeline = 1 .. Len(pipeline)
        /\ \A i \in 1 .. Len(pipeline) : pipeline[i] \in PipelineEntry
    BY LenProperties DEF DataTypes
  <2>2. \A i \in 1 .. Len(pipeline) :
          [pipeline[i] EXCEPT !.wait = Earlier(@)] \in PipelineEntry
    BY <1>3, <2>1 DEF PipelineEntry
  <2>3. pipeline' \in Seq(PipelineEntry)
    BY <2>1, <2>2, IsASeq
  <2> QED BY <2>1, <2>3, LenProperties
<1>5. FlagTypes'
  BY DEF FlagTypes
<1>6. DataTypes'
  BY <1>1, <1>3, <1>4 DEF DataTypes
<1>7. EventsMatchFlags'
  BY <1>1, <1>2 DEF EventsMatchFlags, Outstanding
<1>8. HoldCovered'
  <2>1. CASE releaseDue = {}
    BY <2>1 DEF HoldCovered, Earlier
  <2>2. CASE releaseDue # {}
    <3>1. PICK n \in Nat : releaseDue = {n} /\ n # 0
      BY <1>2, <2>2 DEF EventsMatchFlags, Outstanding
    <3>2. releaseDue' = {n - 1} /\ (hold # 0 => hold <= n)
      BY <1>1, <3>1 DEF HoldCovered
    <3>3. hold' # 0 => hold' <= n - 1
      BY <3>1, <3>2 DEF Earlier, DataTypes
    <3> QED BY <3>2, <3>3 DEF HoldCovered
  <2> QED BY <2>1, <2>2
<1>9. MoveBeforeRelease'
  <2>1. \A m \in moveDue', n \in releaseDue' : m < n
    BY <1>2 DEF MoveBeforeRelease
  <2> QED BY <2>1 DEF MoveBeforeRelease
<1>10. InflightCounts'
  BY <1>4 DEF InflightCounts, Depth
<1> QED BY <1>5, <1>6, <1>7, <1>8, <1>9, <1>10

LEMMA ConnInvStep == ConnInv /\ [Next]_vars => ConnInv'
<1> SUFFICES ASSUME ConnInv, [Next]_vars PROVE ConnInv'
  OBVIOUS
<1>1. ASSUME NEW x \in Slots, AcceptPaid(x) \/ AcceptUnpaid(x) PROVE ConnInv'
  BY <1>1, AcceptKeeps
<1>2. CASE ReleaseEvent
  BY <1>2, ReleaseKeeps
<1>3. CASE MoveEvent
  BY <1>3, MoveKeeps
<1>4. CASE Drain
  BY <1>4, DrainKeeps
<1>5. CASE TakeFromRegister
  BY <1>5, EmptySeq DEF TakeFromRegister, ConnInv, TypeOK, FlagTypes, DataTypes, EventsMatchFlags, Outstanding,
    MoveBeforeRelease, InflightCounts, HoldCovered, serializerVars, retiredVars,
    eventVars, Depth
<1>6. CASE Reset
  BY <1>6, ResetKeeps
<1>7. CASE Tick
  BY <1>7, TickKeeps
<1>8. CASE UNCHANGED vars
  BY <1>8 DEF vars, ConnInv, TypeOK, FlagTypes, DataTypes, EventsMatchFlags, Outstanding,
    MoveBeforeRelease, InflightCounts, HoldCovered, serializerVars, retiredVars,
    eventVars, Depth
<1> QED BY <1>1, <1>2, <1>3, <1>4, <1>5, <1>6, <1>7, <1>8 DEF Next

LEMMA ConnInvAlways == Spec => []ConnInv
  BY InitHolds, ConnInvStep, PTL DEF Spec

(* For every latency and all serialization times: no event is ever         *)
(* notified twice, a stale one is never taken for a live one, the          *)
(* serializer is never overwritten and the pipeline never overflows.       *)
THEOREM ConnSafe ==
  Spec => [](TypeOK /\ EventsMatchFlags /\ MoveBeforeRelease /\ InflightCounts)
<1>1. ConnInv => TypeOK /\ EventsMatchFlags /\ MoveBeforeRelease /\ InflightCounts
  BY DEF ConnInv
<1> QED BY <1>1, ConnInvAlways, PTL

(* The event that moves a slot into the pipeline comes before the one that *)
(* releases the link, whatever resets and stale events came in between.    *)
THEOREM MovesFirst == Spec => []MoveBeforeRelease
  BY ConnSafe, PTL

(* What the lane counts as in flight is what the serializer and the        *)
(* pipeline hold.                                                          *)
THEOREM FlightsCounted == Spec => []InflightCounts
  BY ConnSafe, PTL

(* A link that accepts a slot has let the serialization time of the last   *)
(* one pass, whatever resets came in between: no event is outstanding when *)
(* both retired flags and the serializer are clear.                        *)
THEOREM SerializationPaid == Spec => SerializationIsPaid
<1>1. ASSUME ConnInv, NEW x \in Slots, AcceptPaid(x) \/ AcceptUnpaid(x)
      PROVE  hold = 0
  <2>1. CanAccept
    BY <1>1 DEF AcceptPaid, AcceptUnpaid, Reserve
  <2>2. releaseDue = {}
    BY <1>1, <2>1 DEF ConnInv, CanAccept, EventsMatchFlags, Outstanding,
      MoveBeforeRelease
  <2> QED BY <1>1, <2>2 DEF ConnInv, HoldCovered
<1>2. ConnInv =>
        [\A x \in Slots : AcceptPaid(x) \/ AcceptUnpaid(x) => hold = 0]_vars
  BY <1>1
<1> QED BY <1>2, ConnInvAlways, PTL DEF SerializationIsPaid

-----------------------------------------------------------------------------
(* The slots of the pipeline, under each change the link makes to it. *)

LEMMA SlotsOfType ==
  ASSUME NEW p \in Seq(PipelineEntry)
  PROVE  /\ SlotsOf(p) \in Seq(Slots)
         /\ Len(SlotsOf(p)) = Len(p)
         /\ \A i \in 1 .. Len(p) : SlotsOf(p)[i] = p[i].slot
<1>1. DOMAIN p = 1 .. Len(p) /\ Len(p) \in Nat
  BY LenProperties
<1>2. \A i \in 1 .. Len(p) : p[i].slot \in Slots
  <2>1. \A i \in 1 .. Len(p) : p[i] \in PipelineEntry
    BY <1>1
  <2> QED BY <2>1 DEF PipelineEntry
<1>3. SlotsOf(p) \in Seq(Slots)
  <2>1. SlotsOf(p) \in [1 .. Len(p) -> Slots]
    BY <1>1, <1>2 DEF SlotsOf
  <2> QED BY <1>1, <2>1
<1>4. DOMAIN SlotsOf(p) = 1 .. Len(p)
  BY <1>1 DEF SlotsOf
<1> QED BY <1>1, <1>3, <1>4, LenProperties DEF SlotsOf

LEMMA SlotsOfAppend ==
  ASSUME NEW p \in Seq(PipelineEntry), NEW e \in PipelineEntry
  PROVE  SlotsOf(Append(p, e)) = Append(SlotsOf(p), e.slot)
<1> DEFINE whole == Append(p, e)
<1>1. whole \in Seq(PipelineEntry) /\ Len(whole) = Len(p) + 1 /\ Len(p) \in Nat
      /\ (\A i \in 1 .. Len(p) : whole[i] = p[i]) /\ whole[Len(p) + 1] = e
  BY AppendProperties, LenProperties
<1>2. e.slot \in Slots
  BY DEF PipelineEntry
<1> HIDE DEF whole
<1>3. /\ SlotsOf(whole) \in Seq(Slots)
      /\ Len(SlotsOf(whole)) = Len(p) + 1
      /\ \A i \in 1 .. Len(p) + 1 : SlotsOf(whole)[i] = whole[i].slot
  BY <1>1, SlotsOfType
<1>4. /\ SlotsOf(p) \in Seq(Slots)
      /\ Len(SlotsOf(p)) = Len(p)
      /\ \A i \in 1 .. Len(p) : SlotsOf(p)[i] = p[i].slot
  BY SlotsOfType
<1>5. /\ Append(SlotsOf(p), e.slot) \in Seq(Slots)
      /\ Len(Append(SlotsOf(p), e.slot)) = Len(p) + 1
      /\ \A i \in 1 .. Len(p) : Append(SlotsOf(p), e.slot)[i] = SlotsOf(p)[i]
      /\ Append(SlotsOf(p), e.slot)[Len(p) + 1] = e.slot
  BY <1>2, <1>4, AppendProperties
<1>6. \A i \in 1 .. Len(p) + 1 :
        SlotsOf(whole)[i] = Append(SlotsOf(p), e.slot)[i]
  <2> TAKE i \in 1 .. Len(p) + 1
  <2>1. CASE i = Len(p) + 1
    BY <1>1, <1>3, <1>5, <2>1
  <2>2. CASE i # Len(p) + 1
    <3>1. i \in 1 .. Len(p)
      BY <1>1, <2>2
    <3> QED BY <1>1, <1>3, <1>4, <1>5, <3>1
  <2> QED BY <2>1, <2>2
<1>7. SlotsOf(whole) = Append(SlotsOf(p), e.slot)
  BY <1>3, <1>5, <1>6, SeqEqual
<1> QED BY <1>7 DEF whole

LEMMA SlotsOfTail ==
  ASSUME NEW p \in Seq(PipelineEntry), p # <<>>
  PROVE  /\ SlotsOf(p) # <<>>
         /\ SlotsOf(Tail(p)) = Tail(SlotsOf(p))
         /\ Head(SlotsOf(p)) = Head(p).slot
<1>1. /\ Len(p) \in Nat /\ Len(p) # 0
      /\ SlotsOf(p) \in Seq(Slots) /\ Len(SlotsOf(p)) = Len(p)
      /\ \A i \in 1 .. Len(p) : SlotsOf(p)[i] = p[i].slot
  BY SlotsOfType, EmptySeq
<1>2. SlotsOf(p) # <<>>
  BY <1>1, EmptySeq
<1>3. /\ Tail(p) \in Seq(PipelineEntry) /\ Len(Tail(p)) = Len(p) - 1
      /\ \A i \in 1 .. Len(Tail(p)) : Tail(p)[i] = p[i + 1]
  BY HeadTailProperties
<1>4. /\ Tail(SlotsOf(p)) \in Seq(Slots)
      /\ Len(Tail(SlotsOf(p))) = Len(p) - 1
      /\ \A i \in 1 .. Len(p) - 1 : Tail(SlotsOf(p))[i] = SlotsOf(p)[i + 1]
  BY <1>1, <1>2, HeadTailProperties
<1>5. /\ SlotsOf(Tail(p)) \in Seq(Slots)
      /\ Len(SlotsOf(Tail(p))) = Len(p) - 1
      /\ \A i \in 1 .. Len(p) - 1 : SlotsOf(Tail(p))[i] = Tail(p)[i].slot
  BY <1>3, SlotsOfType
<1>6. \A i \in 1 .. Len(p) - 1 : SlotsOf(Tail(p))[i] = Tail(SlotsOf(p))[i]
  BY <1>1, <1>3, <1>4, <1>5
<1>7. SlotsOf(Tail(p)) = Tail(SlotsOf(p))
  BY <1>4, <1>5, <1>6, SeqEqual
<1>8. Head(SlotsOf(p)) = SlotsOf(p)[1] /\ Head(p) = p[1]
  OBVIOUS
<1>9. SlotsOf(p)[1] = p[1].slot
  BY <1>1
<1> QED BY <1>2, <1>7, <1>8, <1>9

-----------------------------------------------------------------------------
(* Refinement *)

LEMMA LinkFifoType ==
  ASSUME ConnInv
  PROVE  /\ SlotsOf(pipeline) \in Seq(Slots)
         /\ serializer # NoSlot => serializer \in Slots
         /\ serializer = NoSlot => LinkFifo = SlotsOf(pipeline)
         /\ serializer # NoSlot => LinkFifo = Append(SlotsOf(pipeline), serializer)
         /\ Len(LinkFifo) = inflight
<1>1. /\ pipeline \in Seq(PipelineEntry)
      /\ SlotsOf(pipeline) \in Seq(Slots)
      /\ Len(SlotsOf(pipeline)) = Len(pipeline)
      /\ serializer # NoSlot => serializer \in Slots
  BY SlotsOfType DEF ConnInv, TypeOK, DataTypes
<1>2. CASE serializer = NoSlot
  <2>1. LinkFifo = SlotsOf(pipeline)
    BY <1>1, <1>2, ConcatEmptySeq DEF LinkFifo
  <2>2. inflight = Len(pipeline) + 0 /\ Len(pipeline) \in Nat
    BY <1>1, <1>2, LenProperties DEF ConnInv, InflightCounts
  <2> QED BY <1>1, <1>2, <2>1, <2>2
<1>3. CASE serializer # NoSlot
  <2>1. LinkFifo = Append(SlotsOf(pipeline), serializer)
    BY <1>1, <1>3, AppendIsConcat DEF LinkFifo
  <2>2. inflight = Len(pipeline) + 1
    BY <1>3 DEF ConnInv, InflightCounts
  <2>3. Len(LinkFifo) = Len(SlotsOf(pipeline)) + 1
    BY <1>1, <1>3, <2>1, AppendProperties
  <2> QED BY <1>1, <1>3, <2>1, <2>2, <2>3
<1> QED BY <1>2, <1>3

LEMMA AcceptIsTake ==
  ASSUME ConnInv, ConnInv', NEW x \in Slots, AcceptPaid(x) \/ AcceptUnpaid(x)
  PROVE  Link!Take(x)
<1>1. CanAccept /\ Reserve(x)
  BY DEF AcceptPaid, AcceptUnpaid, Reserve
<1>2. ~LinkBusy /\ LinkBusy' /\ register' = register
  BY <1>1 DEF LinkBusy, CanAccept, Reserve
<1>3. serializer = NoSlot /\ x # NoSlot
  BY <1>1, ConnAssumption
  DEF ConnInv, MoveBeforeRelease, CanAccept, ConnAssumption
<1>4. Len(LinkFifo) < Depth
  BY <1>1, LinkFifoType DEF CanAccept
<1>5. LinkFifo' = Append(LinkFifo, x)
  <2>1. CASE AcceptPaid(x)
    <3>1. pipeline' = Append(pipeline, Entering(x)) /\ serializer' = serializer
      BY <2>1 DEF AcceptPaid
    <3>2. Entering(x) \in PipelineEntry /\ Entering(x).slot = x
      BY ConnAssumption DEF Entering, PipelineEntry, ConnAssumption
    <3>3. SlotsOf(pipeline') = Append(SlotsOf(pipeline), x)
      BY <3>1, <3>2, SlotsOfAppend DEF ConnInv, TypeOK, DataTypes
    <3>4. LinkFifo = SlotsOf(pipeline)
      BY <1>3, LinkFifoType
    <3>5. LinkFifo' = SlotsOf(pipeline')
      <4>1. SlotsOf(pipeline') \in Seq(Slots)
        BY SlotsOfType DEF ConnInv, TypeOK, DataTypes
      <4> QED BY <1>3, <3>1, <4>1, ConcatEmptySeq DEF LinkFifo
    <3> QED BY <3>3, <3>4, <3>5
  <2>2. CASE AcceptUnpaid(x)
    <3>1. pipeline' = pipeline /\ serializer' = x
      BY <2>2 DEF AcceptUnpaid
    <3>2. LinkFifo' = SlotsOf(pipeline) \o <<x>>
      BY <1>3, <3>1 DEF LinkFifo
    <3>3. SlotsOf(pipeline) \o <<x>> = Append(SlotsOf(pipeline), x)
      BY LinkFifoType, AppendIsConcat
    <3> QED BY <1>3, <3>2, <3>3, LinkFifoType
  <2> QED BY <2>1, <2>2
<1> QED BY <1>2, <1>4, <1>5 DEF Link!Take

LEMMA MoveKeepsFifo ==
  ASSUME ConnInv, ConnInv', MoveEvent
  PROVE  LinkFifo' = LinkFifo
<1>1. /\ serializer' = NoSlot
      /\ ~movePending => pipeline' = pipeline /\ serializer = NoSlot
      /\ movePending => /\ serializer \in Slots
                        /\ serializer # NoSlot
                        /\ pipeline' = Append(pipeline, Entering(serializer))
  BY DEF ConnInv, TypeOK, FlagTypes, DataTypes, MoveEvent, MoveBeforeRelease,
    EventsMatchFlags, Outstanding
<1>2. LinkFifo' = SlotsOf(pipeline')
  <2>1. SlotsOf(pipeline') \in Seq(Slots)
    BY SlotsOfType DEF ConnInv, TypeOK, DataTypes
  <2> QED BY <1>1, <2>1, ConcatEmptySeq DEF LinkFifo
<1>3. CASE ~movePending
  BY <1>1, <1>2, <1>3, LinkFifoType
<1>4. CASE movePending
  <2>1. /\ Entering(serializer) \in PipelineEntry
        /\ Entering(serializer).slot = serializer
    BY <1>1, <1>4, ConnAssumption DEF Entering, PipelineEntry, ConnAssumption
  <2>2. SlotsOf(pipeline') = Append(SlotsOf(pipeline), serializer)
    BY <1>1, <1>4, <2>1, SlotsOfAppend DEF ConnInv, TypeOK, DataTypes
  <2> QED BY <1>1, <1>2, <1>4, <2>2, LinkFifoType
<1> QED BY <1>3, <1>4 DEF ConnInv, TypeOK, FlagTypes

(* Only the event that is due and not behind a retired one ends the wait:  *)
(* a live move leaves the link busy, a stale one is still followed by its  *)
(* release.                                                                *)
LEMMA MoveKeepsBusy ==
  ASSUME ConnInv, MoveEvent
  PROVE  LinkBusy' = LinkBusy
<1>1. (movePending \/ retiredMove) /\ UNCHANGED <<available, retiredRelease>>
      /\ retiredMove' = FALSE
  BY DEF ConnInv, EventsMatchFlags, Outstanding, MoveEvent
<1>2. ~available \/ retiredRelease
  BY <1>1 DEF ConnInv, MoveBeforeRelease
<1> QED BY <1>1, <1>2 DEF LinkBusy

LEMMA DrainIsDeliver ==
  ASSUME ConnInv, ConnInv', Drain
  PROVE  Link!Deliver
<1>1. pipeline \in Seq(PipelineEntry) /\ pipeline # <<>>
  BY DEF Drain, ConnInv, TypeOK, DataTypes
<1>2. /\ SlotsOf(pipeline) # <<>> /\ SlotsOf(pipeline) \in Seq(Slots)
      /\ SlotsOf(pipeline') = Tail(SlotsOf(pipeline))
      /\ Head(SlotsOf(pipeline)) = Head(pipeline).slot
  BY <1>1, SlotsOfTail, SlotsOfType DEF Drain
<1>3. LinkBusy' = LinkBusy /\ serializer' = serializer
      /\ register = <<>> /\ register' = <<Head(pipeline).slot>>
  BY DEF Drain, serializerVars, retiredVars, LinkBusy
<1>4. CASE serializer = NoSlot
  <2>1. LinkFifo = SlotsOf(pipeline)
    BY <1>4, LinkFifoType
  <2>2. LinkFifo' = SlotsOf(pipeline')
    <3>1. SlotsOf(pipeline') \in Seq(Slots)
      BY SlotsOfType DEF ConnInv, TypeOK, DataTypes
    <3> QED BY <1>3, <1>4, <3>1, ConcatEmptySeq DEF LinkFifo
  <2> QED BY <1>2, <1>3, <2>1, <2>2 DEF Link!Deliver
<1>5. CASE serializer # NoSlot
  <2>1. LinkFifo = Append(SlotsOf(pipeline), serializer) /\ serializer \in Slots
    BY <1>5, LinkFifoType
  <2>2. LinkFifo' = Append(Tail(SlotsOf(pipeline)), serializer)
    <3>1. LinkFifo' = SlotsOf(pipeline') \o <<serializer>>
      BY <1>3, <1>5 DEF LinkFifo
    <3>2. SlotsOf(pipeline') \in Seq(Slots)
      BY SlotsOfType DEF ConnInv, TypeOK, DataTypes
    <3> QED BY <1>2, <2>1, <3>1, <3>2, AppendIsConcat
  <2>3. /\ Head(LinkFifo) = Head(SlotsOf(pipeline))
        /\ Tail(LinkFifo) = Append(Tail(SlotsOf(pipeline)), serializer)
    BY <1>2, <2>1, HeadTailAppend
  <2>4. LinkFifo # <<>>
    BY <1>2, <2>1, AppendProperties
  <2> QED BY <1>2, <1>3, <2>2, <2>3, <2>4 DEF Link!Deliver
<1> QED BY <1>4, <1>5

LEMMA SlotsOfTick ==
  ASSUME ConnInv, ConnInv', Tick
  PROVE  SlotsOf(pipeline') = SlotsOf(pipeline)
<1>1. /\ pipeline \in Seq(PipelineEntry)
      /\ DOMAIN pipeline' = DOMAIN pipeline
      /\ \A i \in DOMAIN pipeline :
           pipeline'[i] = [pipeline[i] EXCEPT !.wait = Earlier(@)]
  BY DEF ConnInv, TypeOK, DataTypes, Tick
<1>2. \A i \in DOMAIN pipeline : pipeline'[i].slot = pipeline[i].slot
  <2> TAKE i \in DOMAIN pipeline
  <2>1. pipeline[i] \in PipelineEntry
    BY <1>1, LenProperties
  <2> QED BY <1>1, <2>1 DEF PipelineEntry
<1> QED BY <1>1, <1>2 DEF SlotsOf

LEMMA LinkStep == ConnInv /\ ConnInv' /\ [Next]_vars => [Link!LinkNext]_Link!linkVars
<1> SUFFICES ASSUME ConnInv, ConnInv', [Next]_vars
             PROVE  Link!LinkNext \/ UNCHANGED <<LinkFifo, LinkBusy, register>>
  BY DEF Link!linkVars
<1>1. ASSUME NEW x \in Slots, AcceptPaid(x) \/ AcceptUnpaid(x)
      PROVE  Link!LinkNext
  BY <1>1, AcceptIsTake DEF Link!LinkNext
<1>2. CASE ReleaseEvent
  <2>1. releaseDue = {0} /\ moveDue = {}
    BY <1>2 DEF ConnInv, EventsMatchFlags, Outstanding, MoveBeforeRelease,
      ReleaseEvent, TypeOK, DataTypes
  <2>2. LinkBusy /\ LinkBusy' = FALSE /\ UNCHANGED <<pipeline, serializer, register>>
    BY <1>2, <2>1 DEF LinkBusy, ReleaseEvent, ConnInv, EventsMatchFlags,
      Outstanding, MoveBeforeRelease
  <2> QED BY <2>2 DEF Link!LinkNext, Link!Release, LinkFifo
<1>3. CASE MoveEvent
  BY <1>3, MoveKeepsFifo, MoveKeepsBusy DEF MoveEvent
<1>4. CASE Drain
  BY <1>4, DrainIsDeliver DEF Link!LinkNext
<1>5. CASE TakeFromRegister
  BY <1>5 DEF TakeFromRegister, Link!LinkNext, Link!Collect, LinkFifo, LinkBusy,
    serializerVars, retiredVars
<1>6. CASE Reset
  <2>1. LinkFifo' = <<>>
    <3>1. SlotsOf(<<>>) = <<>>
      BY SlotsOfType, EmptySeq
    <3> QED BY <1>6, <3>1, ConcatEmptySeq, EmptySeq DEF Reset, LinkFifo
  <2>2. LinkBusy' = LinkBusy
    BY <1>6 DEF Reset, LinkBusy, ConnInv, MoveBeforeRelease
  <2> QED BY <1>6, <2>1, <2>2 DEF Reset, Link!LinkNext, Link!Drop
<1>7. CASE Tick
  BY <1>7, SlotsOfTick DEF Tick, LinkFifo, LinkBusy, serializerVars, retiredVars
<1>8. CASE UNCHANGED vars
  BY <1>8 DEF vars, LinkFifo, LinkBusy, serializerVars, retiredVars
<1> QED BY <1>1, <1>2, <1>3, <1>4, <1>5, <1>6, <1>7, <1>8 DEF Next

(* Whatever the latency and the sizes of the slots, and however often it   *)
(* is reset, the lane is the bounded FIFO with a busy link that the Cross  *)
(* Station model takes it for.                                             *)
THEOREM LinkImplemented == Spec => ImplementsLink
<1>1. Init => Link!LinkInit
  <2>1. SlotsOf(<<>>) = <<>>
    BY SlotsOfType, EmptySeq
  <2> QED BY <2>1, ConcatEmptySeq, EmptySeq DEF Init, Link!LinkInit, LinkFifo, LinkBusy
<1> QED BY <1>1, LinkStep, ConnInvAlways, PTL
        DEF Spec, ImplementsLink, Link!LinkSpec
=============================================================================
