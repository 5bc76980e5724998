-------------------------- MODULE RingBridgeProofs --------------------------
(***************************************************************************)
(* Proofs about RingBridge.  The inductive invariant BridgeInv says of     *)
(* each output what its flags, its outstanding events, its serializer and  *)
(* its bank have to do with each other, and of the two inputs that one     *)
(* that has been passed over has the turn.                                 *)
(***************************************************************************)
EXTENDS RingBridge, SequenceTheorems, FiniteSetTheorems, SharedLemmas, TLAPS

(* An output at rest, busy, or waiting for the events of an earlier run. *)
OutputOK(p, d) ==
  /\ Outstanding(p.bandwidthDue[d], p.bandwidth[d], p.retiredBandwidth[d])
  /\ Outstanding(p.handoffDue[d], p.handoff[d], p.retiredHandoff[d])
  /\ \A m \in p.handoffDue[d], n \in p.bandwidthDue[d] : m < n
  /\ p.handoff[d] => p.bandwidth[d]
  /\ p.retiredHandoff[d] => p.retiredBandwidth[d]
  /\ p.available[d] <=> ~p.bandwidth[d]
  /\ p.handoff[d] <=> p.serializer[d] # NoPkt
  /\ p.handoff[d] => HasCapacity(p, d)
  /\ p.hold[d] # 0 => \E n \in p.bandwidthDue[d] : p.hold[d] <= n

(* The input passed over once is the next to choose. *)
TurnKept(p) ==
  \A i \in Dirs : p.passed[i] # 0 => p.passed[i] = 1 /\ p.next = i

Good(p) ==
  /\ p \in PathType
  /\ ~p.fault
  /\ TurnKept(p)
  /\ \A d \in Dirs : OutputOK(p, d)

BridgeInv == Good(path)

(* A new path is in order. *)
LEMMA InitGood == Good(InitPath)
<1>1. <<>> \in Seq(Packets)
  BY EmptySeq
<1>2. InitPath \in PathType
  BY <1>1 DEF InitPath, PathType, Everywhere, Dirs
<1>3. ASSUME NEW d \in Dirs PROVE OutputOK(InitPath, d)
  BY DEF InitPath, Everywhere, OutputOK, Outstanding
<1>4. TurnKept(InitPath)
  BY DEF InitPath, Everywhere, TurnKept
<1> QED BY <1>2, <1>3, <1>4 DEF Good, InitPath

(* Nothing an output looks at changes for another one. *)
Same(p, q, d) ==
  /\ q.bank[d] = p.bank[d] /\ q.serializer[d] = p.serializer[d]
  /\ q.available[d] = p.available[d] /\ q.hold[d] = p.hold[d]
  /\ q.bandwidth[d] = p.bandwidth[d] /\ q.handoff[d] = p.handoff[d]
  /\ q.retiredBandwidth[d] = p.retiredBandwidth[d]
  /\ q.retiredHandoff[d] = p.retiredHandoff[d]
  /\ q.bandwidthDue[d] = p.bandwidthDue[d]
  /\ q.handoffDue[d] = p.handoffDue[d]

(* What does not change keeps an output in order. *)
LEMMA SameOutput ==
  ASSUME NEW p, NEW q, NEW d, Same(p, q, d)
  PROVE  OutputOK(p, d) => OutputOK(q, d)
BY DEF Same, OutputOK, HasCapacity

(* The head of an eject queue is a packet with its cycles. *)
LEMMA HeadAndTail ==
  ASSUME NEW p \in PathType, NEW i \in Dirs, Waits(p, i)
  PROVE  /\ Head(p.source[i]) \in Packets
         /\ Tail(p.source[i]) \in Seq(Packets)
         /\ Cycles[Head(p.source[i])] \in Nat \ {0}
         /\ Head(p.source[i]) # NoPkt
<1>1. p.source[i] \in Seq(Packets) /\ p.source[i] # <<>>
  BY DEF PathType, Waits
<1>2. Head(p.source[i]) \in Packets /\ Tail(p.source[i]) \in Seq(Packets)
  BY <1>1, HeadTailProperties
<1> QED BY <1>2, BridgeAssumption DEF BridgeAssumption

(* start_serializer at an open output keeps the path in order and touches *)
(* neither the other output nor the other eject queue.                    *)
LEMMA StartGood ==
  ASSUME NEW p, Good(p), NEW i \in Dirs, NEW d \in Dirs, Waits(p, i), Open(p, d)
  PROVE  /\ Good(Start(p, i, d))
         /\ \A e \in Dirs \ {d} : Same(p, Start(p, i, d), e)
         /\ \A j \in Dirs \ {i} : Start(p, i, d).source[j] = p.source[j]
         /\ Start(p, i, d).passed = p.passed /\ Start(p, i, d).next = p.next
<1> DEFINE x == Head(p.source[i])
           q == Start(p, i, d)
<1>1. p \in PathType /\ OutputOK(p, d) /\ ~p.fault
  BY DEF Good
<1>2. /\ x \in Packets /\ x # NoPkt /\ Tail(p.source[i]) \in Seq(Packets)
      /\ Cycles[x] \in Nat /\ Cycles[x] # 0
  BY <1>1, HeadAndTail
<1>3. /\ q.source = [p.source EXCEPT ![i] = Tail(p.source[i])]
      /\ q.bank = p.bank
  BY <1>1 DEF Start, PathType
<1>4. q.serializer = [p.serializer EXCEPT ![d] = x]
  BY <1>1 DEF Start, PathType
<1>5. /\ q.available = [p.available EXCEPT ![d] = FALSE]
      /\ q.bandwidth = [p.bandwidth EXCEPT ![d] = TRUE]
      /\ q.handoff = [p.handoff EXCEPT ![d] = TRUE]
  BY <1>1 DEF Start, PathType
<1>6. q.bandwidthDue = [p.bandwidthDue EXCEPT ![d] = @ \cup {Cycles[x]}]
  BY <1>1 DEF Start, PathType
<1>7. q.handoffDue = [p.handoffDue EXCEPT ![d] = @ \cup {Cycles[x] - 1}]
  BY <1>1 DEF Start, PathType
<1>8. q.hold = [p.hold EXCEPT ![d] = Cycles[x]]
  BY <1>1 DEF Start, PathType
<1>9. /\ q.retiredBandwidth = p.retiredBandwidth
      /\ q.retiredHandoff = p.retiredHandoff
      /\ q.passed = p.passed /\ q.fault = p.fault /\ q.next = p.next
  BY <1>1 DEF Start, PathType
<1>10. q \in PathType
  <2> DEFINE p1 == [p EXCEPT !.source[i] = Tail(@), !.serializer[d] = x,
                       !.tie = IF Preference[x] = "TIE" THEN Opposite(@) ELSE @]
             p2 == [p1 EXCEPT !.available[d] = FALSE, !.bandwidth[d] = TRUE,
                       !.handoff[d] = TRUE]
             p3 == [p2 EXCEPT !.handoffDue[d] = @ \cup {Cycles[x] - 1}]
             p4 == [p3 EXCEPT !.bandwidthDue[d] = @ \cup {Cycles[x]},
                       !.hold[d] = Cycles[x]]
  <2>1. p1 \in PathType
    <3>1. \A t \in Dirs : Opposite(t) \in Dirs
      BY DEF Opposite, Dirs
    <3> HIDE DEF x
    <3> QED BY <1>1, <1>2, <3>1 DEF PathType
  <2>2. p2 \in PathType
    <3> HIDE DEF p1
    <3> QED BY <2>1 DEF PathType
  <2>3. p3 \in PathType
    <3>1. Cycles[x] - 1 \in Nat
      BY <1>2
    <3> HIDE DEF p2, x
    <3> QED BY <2>2, <3>1 DEF PathType
  <2>4. p4 \in PathType
    <3> HIDE DEF p3, x
    <3> QED BY <2>3, <1>2 DEF PathType
  <2>5. q = p4
    BY DEF Start
  <2> QED BY <2>4, <2>5
<1>11. p.bandwidthDue[d] = {} /\ p.handoffDue[d] = {}
  BY <1>1 DEF Open, OutputOK, Outstanding
<1>12. OutputOK(q, d)
  <2>1. /\ q.serializer[d] = x /\ ~q.available[d] /\ q.bandwidth[d] /\ q.handoff[d]
        /\ ~q.retiredBandwidth[d] /\ ~q.retiredHandoff[d]
        /\ q.hold[d] = Cycles[x] /\ q.bank[d] = p.bank[d]
    BY <1>1, <1>3, <1>4, <1>5, <1>8, <1>9 DEF PathType, Open
  <2>2. /\ q.bandwidthDue[d] = {Cycles[x]} /\ q.handoffDue[d] = {Cycles[x] - 1}
    BY <1>1, <1>6, <1>7, <1>11 DEF PathType
  <2>3. HasCapacity(q, d)
    BY <2>1 DEF HasCapacity, Open
  <2> HIDE DEF q, x
  <2> QED BY <1>2, <2>1, <2>2, <2>3 DEF OutputOK, Outstanding
<1>13. ASSUME NEW e \in Dirs \ {d} PROVE Same(p, q, e)
  BY <1>1, <1>3, <1>4, <1>5, <1>6, <1>7, <1>8, <1>9 DEF Same, PathType
<1>14. ASSUME NEW e \in Dirs PROVE OutputOK(q, e)
  BY <1>12, <1>13, SameOutput DEF Good
<1>15. Good(q)
  BY <1>1, <1>9, <1>10, <1>14 DEF Good, TurnKept
<1>16. \A j \in Dirs \ {i} : q.source[j] = p.source[j]
  BY <1>1, <1>3 DEF PathType
<1> QED BY <1>9, <1>13, <1>15, <1>16

(* There are two directions. *)
LEMMA AtMostTwo ==
  ASSUME NEW T \in SUBSET Dirs
  PROVE  Cardinality(T) \in 0..2
<1>1. IsFiniteSet(Dirs) /\ Cardinality(Dirs) <= 2
  <2>1. IsFiniteSet({"CW"}) /\ Cardinality({"CW"}) = 1
    BY FS_Singleton
  <2>2. IsFiniteSet(Dirs) /\ Cardinality({"CW"} \cup {"CCW"}) = 2
    BY <2>1, FS_AddElement DEF Dirs
  <2>3. Dirs = {"CW"} \cup {"CCW"}
    BY DEF Dirs
  <2> QED BY <2>2, <2>3
<1>2. IsFiniteSet(T) /\ Cardinality(T) <= Cardinality(Dirs)
  BY <1>1, FS_Subset
<1>3. Cardinality(T) \in Nat /\ Cardinality(Dirs) \in Nat
  BY <1>1, <1>2, FS_CardinalityType
<1> QED BY <1>1, <1>2, <1>3

(* Ranks are bounded, so one of them is the greatest. *)
LEMMA RankBound ==
  ASSUME NEW wants, NEW next, NEW a
  PROVE  Rank(wants, next, a) \in 0..87
<1>1. Served(a) \in SUBSET Dirs
  BY DEF Served
<1>2. {i \in Served(a) : a[i] = wants[i]} \in SUBSET Dirs
  BY <1>1
<1>3. /\ Cardinality(Served(a)) \in 0..2
      /\ Cardinality({i \in Served(a) : a[i] = wants[i]}) \in 0..2
  BY <1>1, <1>2, AtMostTwo
<1>4. One(next \in Served(a)) \in 0..1 /\ One("CW" \in Served(a)) \in 0..1
      /\ One(a["CW"] = "CW") \in 0..1
  BY DEF One
<1> QED BY <1>3, <1>4 DEF Rank

(* The assignment chosen is an allowed one, and none ranks above it. *)
LEMMA BestAllowed ==
  ASSUME NEW wants \in [Dirs -> Dirs \cup {"NONE"}],
         NEW open \in [Dirs -> BOOLEAN], NEW next \in Dirs
  PROVE  /\ Best[wants][open][next] \in Assignments(wants, open)
         /\ \A b \in Assignments(wants, open) :
              Rank(wants, next, b) <= Rank(wants, next, Best[wants][open][next])
<1> DEFINE S == Assignments(wants, open)
           T == {87 - Rank(wants, next, a) : a \in S}
<1>1. [i \in Dirs |-> "NONE"] \in S
  BY DEF Assignments, Dirs
<1>2. T \in SUBSET Nat /\ T # {}
  BY <1>1, RankBound
<1>3. PICK t \in T : \A u \in T : t <= u
  BY <1>2, LeastOf
<1>4. PICK a \in S : t = 87 - Rank(wants, next, a)
  BY <1>3
<1>5. \A b \in S : Rank(wants, next, b) <= Rank(wants, next, a)
  <2> SUFFICES ASSUME NEW b \in S
               PROVE  Rank(wants, next, b) <= Rank(wants, next, a)
    OBVIOUS
  <2>1. t <= 87 - Rank(wants, next, b)
    BY <1>3
  <2> QED BY <1>4, <2>1, RankBound
<1> DEFINE Top(c) == \A b \in S : Rank(wants, next, b) <= Rank(wants, next, c)
<1>6. Best[wants][open][next] = CHOOSE c \in S : Top(c)
  BY DEF Best
<1>7. \E c \in S : Top(c)
  BY <1>4, <1>5
<1> HIDE DEF S, Top
<1>8. (CHOOSE c \in S : Top(c)) \in S /\ Top(CHOOSE c \in S : Top(c))
  BY <1>7, Zenon
<1>9. Best[wants][open][next] \in S /\ Top(Best[wants][open][next])
  BY <1>6, <1>8, Zenon
<1> QED BY <1>9 DEF S, Top

(* The preferred output of a waiting packet is a direction. *)
LEMMA PreferredType ==
  ASSUME NEW p \in PathType, NEW i \in Dirs, Waits(p, i)
  PROVE  Preferred(p, i) \in Dirs
BY HeadAndTail, BridgeAssumption DEF Preferred, BridgeAssumption, PathType

(* schedule_path serves inputs with a packet from outputs that are open,  *)
(* each output once.                                                      *)
LEMMA ChosenAllowed ==
  ASSUME NEW p \in PathType
  PROVE  /\ \A i \in Dirs : Chosen(p)[i] \in Dirs \cup {"NONE"}
         /\ \A i \in Dirs : Chosen(p)[i] # "NONE" =>
              Waits(p, i) /\ Open(p, Chosen(p)[i])
         /\ Chosen(p)["CW"] = "NONE" \/ Chosen(p)["CW"] # Chosen(p)["CCW"]
         /\ Chosen(p) \in [Dirs -> Dirs \cup {"NONE"}]
<1> DEFINE wants == [i \in Dirs |-> Wants(p, i)]
           open == [d \in Dirs |-> Open(p, d)]
<1>1. wants \in [Dirs -> Dirs \cup {"NONE"}]
  BY PreferredType DEF Wants
<1>2. open \in [Dirs -> BOOLEAN]
  BY DEF Open, HasCapacity, PathType
<1>3. p.next \in Dirs
  BY DEF PathType
<1>4. Chosen(p) \in Assignments(wants, open)
  BY <1>1, <1>2, <1>3, BestAllowed DEF Chosen
<1>5. \A i \in Dirs : wants[i] # "NONE" => Waits(p, i)
  BY DEF Wants
<1> QED BY <1>4, <1>5 DEF Assignments

(* Serving one input keeps the path in order. *)
LEMMA ServeGood ==
  ASSUME NEW p, Good(p), NEW i \in Dirs, NEW a,
         a[i] # "NONE" => Waits(p, i) /\ a[i] \in Dirs /\ Open(p, a[i])
  PROVE  /\ Good(Serve(p, i, a))
         /\ \A d \in Dirs : d # a[i] => Same(p, Serve(p, i, a), d)
         /\ \A j \in Dirs \ {i} : Serve(p, i, a).source[j] = p.source[j]
         /\ Serve(p, i, a).passed = p.passed /\ Serve(p, i, a).next = p.next
<1>1. CASE a[i] = "NONE"
  BY <1>1 DEF Serve, Same
<1>2. CASE a[i] # "NONE"
  BY <1>2, StartGood DEF Serve
<1> QED BY <1>1, <1>2

(* The rank of an assignment that serves one input only. *)
LEMMA RankParts ==
  ASSUME NEW wants \in [Dirs -> Dirs \cup {"NONE"}], NEW next \in Dirs,
         NEW a \in [Dirs -> Dirs \cup {"NONE"}], NEW i \in Dirs,
         a[Opposite(i)] = "NONE", a[i] # "NONE"
  PROVE  \E n \in 0..3 : Rank(wants, next, a) =
           32 + 8 * One(a[i] = wants[i]) + 4 * One(next = i) + n
<1>1. Served(a) = {i}
  BY DEF Served, Dirs, Opposite
<1>2. Cardinality({i}) = 1 /\ Cardinality({}) = 0
  BY FS_Singleton, FS_EmptySet
<1>3. {j \in Served(a) : a[j] = wants[j]} = IF a[i] = wants[i] THEN {i} ELSE {}
  BY <1>1
<1>4. Cardinality({j \in Served(a) : a[j] = wants[j]}) = One(a[i] = wants[i])
  BY <1>2, <1>3 DEF One
<1>5. One(next \in Served(a)) = One(next = i)
  BY <1>1 DEF One
<1>6. One("CW" \in Served(a)) \in 0..1 /\ One(a["CW"] = "CW") \in 0..1
  BY DEF One
<1>7. Rank(wants, next, a) = 32 + 8 * One(a[i] = wants[i]) + 4 * One(next = i)
        + (2 * One("CW" \in Served(a)) + One(a["CW"] = "CW"))
  BY <1>1, <1>2, <1>4, <1>5, <1>6 DEF Rank, One
<1> QED BY <1>6, <1>7

(* An input passed over in favour of the other wanted the same output,    *)
(* and it was not its turn.                                               *)
LEMMA LoserHadTheTurn ==
  ASSUME NEW p \in PathType, NEW i \in Dirs,
         Waits(p, i), Chosen(p)[i] = "NONE",
         Chosen(p)[Opposite(i)] # "NONE"
  PROVE  /\ Chosen(p)[Opposite(i)] = Preferred(p, i) => Rivals(p)
         /\ Rivals(p) => p.next # i
<1> DEFINE wants == [j \in Dirs |-> Wants(p, j)]
           open == [d \in Dirs |-> Open(p, d)]
           j == Opposite(i)
           a == Chosen(p)
           b == [k \in Dirs |-> IF k = i THEN a[j] ELSE "NONE"]
<1>1. wants \in [Dirs -> Dirs \cup {"NONE"}] /\ open \in [Dirs -> BOOLEAN]
      /\ p.next \in Dirs
  BY PreferredType DEF Wants, Open, HasCapacity, PathType
<1>2. /\ a \in Assignments(wants, open)
      /\ \A c \in Assignments(wants, open) :
           Rank(wants, p.next, c) <= Rank(wants, p.next, a)
  BY <1>1, BestAllowed DEF Chosen
<1>3. /\ j \in Dirs /\ j # i /\ Opposite(j) = i /\ "NONE" \notin Dirs
      /\ Dirs = {i, j}
  BY DEF Dirs, Opposite
<1>4. a \in [Dirs -> Dirs \cup {"NONE"}] /\ a[j] \in Dirs /\ open[a[j]]
      /\ wants[j] # "NONE"
  BY <1>2, <1>3 DEF Assignments
<1>5. wants[i] = Preferred(p, i) /\ wants[i] # "NONE"
  BY <1>3, PreferredType DEF Wants
<1>6. Waits(p, j) /\ wants[j] = Preferred(p, j)
  BY <1>3, <1>4 DEF Wants
<1>7. /\ b \in [Dirs -> Dirs \cup {"NONE"}] /\ b[i] = a[j] /\ b[j] = "NONE"
  BY <1>3, <1>4
<1> HIDE DEF wants, open, a, b, j
<1>8. b \in Assignments(wants, open)
  <2>1. b["CW"] = "NONE" \/ b["CW"] # b["CCW"]
    BY <1>3, <1>4, <1>7 DEF Dirs
  <2> QED BY <1>3, <1>4, <1>5, <1>7, <2>1 DEF Assignments
<1>9. PICK m \in 0..3 : Rank(wants, p.next, a) =
         32 + 8 * One(a[j] = wants[j]) + 4 * One(p.next = j) + m
  BY <1>1, <1>3, <1>4, RankParts DEF a
<1>10. PICK n \in 0..3 : Rank(wants, p.next, b) =
         32 + 8 * One(b[i] = wants[i]) + 4 * One(p.next = i) + n
  BY <1>1, <1>3, <1>4, <1>7, RankParts DEF j
<1>11. 8 * One(a[j] = wants[i]) + 4 * One(p.next = i) + n
         <= 8 * One(a[j] = wants[j]) + 4 * One(p.next = j) + m
  BY <1>2, <1>7, <1>8, <1>9, <1>10 DEF One
<1>12. a[j] = wants[i] => a[j] = wants[j]
  BY <1>11 DEF One
<1>13. wants[i] = wants[j] => p.next # i
  BY <1>3, <1>11 DEF One
<1>14. Rivals(p) <=> wants[i] = wants[j]
  BY <1>3, <1>5, <1>6 DEF Rivals, Dirs
<1> QED BY <1>5, <1>12, <1>13, <1>14 DEF a, j

(* An input that schedule_path leaves passed over has been so once, and   *)
(* has the turn afterwards.                                               *)
LEMMA PassedOnce ==
  ASSUME NEW p \in PathType, TurnKept(p), Served(Chosen(p)) # {},
         NEW i \in Dirs, Passed(p, Chosen(p))[i] # 0
  PROVE  /\ Passed(p, Chosen(p))[i] = 1
         /\ i = IF Rivals(p) THEN Opposite(p.next) ELSE p.next
<1> DEFINE a == Chosen(p)
           j == Opposite(i)
<1>1. /\ j \in Dirs /\ j # i /\ Opposite(j) = i /\ Dirs = {i, j}
      /\ p.next \in Dirs /\ p.passed[i] \in Nat
  BY DEF Dirs, Opposite, PathType
<1>2. a[i] = "NONE"
  BY DEF Passed
<1>3. a[j] # "NONE"
  BY <1>1, <1>2 DEF Served
<1>4. CASE Waits(p, i) /\ a[j] = Preferred(p, i)
  <2>1. Rivals(p) /\ p.next # i
    BY <1>2, <1>3, <1>4, LoserHadTheTurn
  <2>2. p.passed[i] = 0
    BY <2>1 DEF TurnKept
  <2>3. Passed(p, a)[i] = p.passed[i] + 1
    BY <1>2, <1>4 DEF Passed
  <2> QED BY <1>1, <2>1, <2>2, <2>3
<1>5. CASE ~(Waits(p, i) /\ a[j] = Preferred(p, i))
  <2>1. Passed(p, a)[i] = p.passed[i]
    BY <1>2, <1>5 DEF Passed
  <2>2. p.passed[i] = 1 /\ p.next = i
    BY <2>1 DEF TurnKept
  <2>3. ~Rivals(p)
    BY <1>2, <1>3, <2>2, LoserHadTheTurn DEF Rivals
  <2> QED BY <2>1, <2>2, <2>3
<1> QED BY <1>4, <1>5

(* schedule_path keeps the path in order; it fills a serializer only when *)
(* the bandwidth of the packet before is paid.                            *)
LEMMA ScheduledGood ==
  ASSUME NEW p, Good(p)
  PROVE  /\ Good(Scheduled(p))
         /\ \A d \in Dirs : Scheduled(p).serializer[d] = p.serializer[d]
                              \/ p.hold[d] = 0
<1> DEFINE a == Chosen(p)
           p1 == Serve(p, "CW", a)
           p2 == Serve(p1, "CCW", a)
           p3 == [p2 EXCEPT !.next = IF Rivals(p) THEN Opposite(@) ELSE @,
                            !.passed = Passed(p, a)]
<1>1. CASE Served(a) = {}
  BY <1>1 DEF Scheduled
<1>2. CASE Served(a) # {}
  <2>1. p \in PathType
    BY DEF Good
  <2>2. /\ \A i \in Dirs : a[i] \in Dirs \cup {"NONE"}
        /\ \A i \in Dirs : a[i] # "NONE" => Waits(p, i) /\ Open(p, a[i])
        /\ a["CW"] = "NONE" \/ a["CW"] # a["CCW"]
    BY <2>1, ChosenAllowed
  <2>3. /\ "CW" \in Dirs /\ "CCW" \in Dirs /\ "NONE" \notin Dirs /\ "CW" # "CCW"
    BY DEF Dirs
  <2> HIDE DEF a
  <2>4. /\ Good(p1)
        /\ \A d \in Dirs : d # a["CW"] => Same(p, p1, d)
        /\ p1.source["CCW"] = p.source["CCW"] /\ p1.next = p.next
    BY <2>2, <2>3, ServeGood
  <2> HIDE DEF p1
  <2>5. a["CCW"] # "NONE" =>
          Waits(p1, "CCW") /\ a["CCW"] \in Dirs /\ Open(p1, a["CCW"])
    BY <2>2, <2>3, <2>4 DEF Waits, Same, Open, HasCapacity
  <2>6. /\ Good(p2)
        /\ \A d \in Dirs : d # a["CCW"] => Same(p1, p2, d)
        /\ p2.next = p1.next
    BY <2>3, <2>4, <2>5, ServeGood
  <2> HIDE DEF p2
  <2>7. Passed(p, a) \in [Dirs -> Nat]
    BY <2>1 DEF Passed, PathType
  <2>8. p3 \in PathType
    <3>1. \A t \in Dirs : Opposite(t) \in Dirs
      BY DEF Opposite, Dirs
    <3> QED BY <2>6, <2>7, <3>1 DEF Good, PathType
  <2>9. /\ ~p3.fault /\ p3.serializer = p2.serializer
        /\ \A d \in Dirs : Same(p2, p3, d)
    BY <2>6 DEF Good, PathType, Same
  <2>10. Good(p3)
    <3>1. \A d \in Dirs : OutputOK(p3, d)
      BY <2>6, <2>9, SameOutput DEF Good
    <3>2. /\ p3.passed = Passed(p, a)
          /\ p3.next = IF Rivals(p) THEN Opposite(p.next) ELSE p.next
      <4>1. p2.next = p.next /\ p2 \in PathType
        BY <2>4, <2>6 DEF Good
      <4>2. p3.passed = Passed(p, a)
        BY <4>1 DEF PathType
      <4>3. p3.next = IF Rivals(p) THEN Opposite(p2.next) ELSE p2.next
        BY <4>1 DEF PathType
      <4> QED BY <4>1, <4>2, <4>3
    <3>3. TurnKept(p3)
      <4>1. TurnKept(p) /\ Served(Chosen(p)) # {}
        BY <1>2 DEF Good, a
      <4> HIDE DEF p3
      <4> QED BY <2>1, <3>2, <4>1, PassedOnce DEF TurnKept, a
    <3> QED BY <2>8, <2>9, <3>1, <3>3 DEF Good
  <2>11. ASSUME NEW d \in Dirs, p3.serializer[d] # p.serializer[d]
         PROVE  p.hold[d] = 0
    <3>1. d = a["CW"] \/ d = a["CCW"]
      BY <2>4, <2>6, <2>9, <2>11 DEF Same
    <3>2. Open(p, d)
      BY <2>2, <2>3, <3>1
    <3>3. OutputOK(p, d)
      BY DEF Good
    <3> QED BY <3>2, <3>3 DEF Open, OutputOK, Outstanding
  <2>12. Scheduled(p) = p3
    BY <1>2 DEF Scheduled, a, p2, p1
  <2> QED BY <2>10, <2>11, <2>12
<1> QED BY <1>1, <1>2

(* A step at one output. *)
LEMMA OneOutput ==
  ASSUME NEW p, Good(p), NEW q \in PathType, NEW d \in Dirs,
         q.fault = p.fault, q.passed = p.passed, q.next = p.next,
         \A e \in Dirs \ {d} : Same(p, q, e), OutputOK(q, d)
  PROVE  Good(q)
<1>1. ASSUME NEW e \in Dirs PROVE OutputOK(q, e)
  BY <1>1, SameOutput DEF Good
<1> QED BY <1>1 DEF Good, TurnKept

(* A serializer is filled only when the packet before has paid its        *)
(* cycles.                                                                *)
Paid(p, q) ==
  \A d \in Dirs : \/ q.serializer[d] = p.serializer[d]
                  \/ q.serializer[d] = NoPkt
                  \/ p.hold[d] = 0

(* Arrivals keep the invariant. *)
LEMMA ArriveStep ==
  ASSUME BridgeInv, NEW x \in Packets, NEW i \in Dirs, Arrive(x, i)
  PROVE  BridgeInv' /\ Paid(path, path')
<1>1. /\ path \in PathType /\ ~path.fault /\ TurnKept(path)
      /\ \A d \in Dirs : OutputOK(path, d)
  BY DEF BridgeInv, Good
<1>2. Append(path.source[i], x) \in Seq(Packets)
  BY <1>1, AppendProperties DEF PathType
<1>3. path' \in PathType
  BY <1>1, <1>2 DEF Arrive, PathType
<1>4. /\ path'.fault = path.fault /\ path'.passed = path.passed
        /\ path'.next = path.next /\ path'.serializer = path.serializer
      /\ \A d \in Dirs : Same(path, path', d)
  BY <1>1 DEF Arrive, PathType, Same
<1>5. \A d \in Dirs : OutputOK(path', d)
  BY <1>1, <1>4, SameOutput
<1>6. Good(path')
  BY <1>1, <1>3, <1>4, <1>5 DEF Good, TurnKept
<1> QED BY <1>4, <1>6 DEF BridgeInv, Paid

(* A process run keeps the invariant. *)
LEMMA ScheduleStep ==
  ASSUME BridgeInv, Schedule
  PROVE  BridgeInv' /\ Paid(path, path')
<1>1. Good(path) /\ path' = Scheduled(path)
  BY DEF BridgeInv, Schedule
<1>2. Good(path') /\ Paid(path, path')
  BY <1>1, ScheduledGood DEF Paid
<1> QED BY <1>2 DEF BridgeInv

(* A release event, of this run or of one before a reset, keeps the       *)
(* invariant.                                                             *)
LEMMA ReleaseStep ==
  ASSUME BridgeInv, NEW d \in Dirs, ReleaseBandwidth(d)
  PROVE  BridgeInv' /\ Paid(path, path')
<1> DEFINE fired == [path EXCEPT !.bandwidthDue[d] = @ \ {0}]
           early == [fired EXCEPT !.retiredBandwidth[d] = FALSE]
           late == [fired EXCEPT !.bandwidth[d] = FALSE, !.available[d] = TRUE]
<1>1. path \in PathType /\ ~path.fault /\ OutputOK(path, d) /\ Good(path)
  BY DEF BridgeInv, Good
<1>2. path.bandwidthDue[d] = {0} /\ path.handoffDue[d] = {}
  <2>1. 0 \in path.bandwidthDue[d] /\ path.handoffDue[d] \in SUBSET Nat
    BY <1>1 DEF ReleaseBandwidth, PathType
  <2> QED BY <1>1, <2>1 DEF OutputOK, Outstanding
<1>3. /\ ~path.handoff[d] /\ ~path.retiredHandoff[d]
      /\ path.bandwidth[d] \/ path.retiredBandwidth[d]
      /\ ~(path.bandwidth[d] /\ path.retiredBandwidth[d])
      /\ path.serializer[d] = NoPkt
  BY <1>1, <1>2 DEF OutputOK, Outstanding
<1>4. path.hold[d] = 0
  <2>1. path.hold[d] \in Nat
    BY <1>1 DEF PathType
  <2>2. path.hold[d] # 0 => path.hold[d] <= 0
    BY <1>1, <1>2 DEF OutputOK
  <2> QED BY <2>1, <2>2
<1>5. CASE path.retiredBandwidth[d]
  <2>1. early \in PathType
    BY <1>1 DEF PathType
  <2>2. /\ early.fault = path.fault /\ early.passed = path.passed
        /\ early.next = path.next /\ early.serializer = path.serializer
        /\ early.hold = path.hold
        /\ \A e \in Dirs \ {d} : Same(path, early, e)
    BY <1>1 DEF PathType, Same
  <2>3. /\ early.bandwidthDue[d] = {} /\ early.handoffDue[d] = {}
        /\ ~early.bandwidth[d] /\ ~early.retiredBandwidth[d]
        /\ ~early.handoff[d] /\ ~early.retiredHandoff[d]
        /\ early.serializer[d] = NoPkt /\ early.hold[d] = 0
        /\ early.available[d]
    BY <1>1, <1>2, <1>3, <1>4, <1>5 DEF PathType, OutputOK
  <2>4. path' = Scheduled(early)
    BY <1>5 DEF ReleaseBandwidth
  <2> HIDE DEF early
  <2>5. OutputOK(early, d)
    BY <2>3 DEF OutputOK, Outstanding
  <2>6. Good(early)
    BY <1>1, <2>1, <2>2, <2>5, OneOutput
  <2> QED BY <2>2, <2>4, <2>6, ScheduledGood DEF BridgeInv, Paid
<1>6. CASE ~path.retiredBandwidth[d]
  <2>1. late \in PathType
    BY <1>1 DEF PathType
  <2>2. /\ late.fault = path.fault /\ late.passed = path.passed
        /\ late.next = path.next /\ late.serializer = path.serializer
        /\ late.hold = path.hold
        /\ \A e \in Dirs \ {d} : Same(path, late, e)
    BY <1>1 DEF PathType, Same
  <2>3. /\ late.bandwidthDue[d] = {} /\ late.handoffDue[d] = {}
        /\ ~late.bandwidth[d] /\ ~late.retiredBandwidth[d]
        /\ ~late.handoff[d] /\ ~late.retiredHandoff[d]
        /\ late.serializer[d] = NoPkt /\ late.hold[d] = 0 /\ late.available[d]
    BY <1>1, <1>2, <1>3, <1>4, <1>6 DEF PathType
  <2>4. path' = Scheduled(late)
    BY <1>3, <1>6 DEF ReleaseBandwidth
  <2> HIDE DEF late
  <2>5. OutputOK(late, d)
    BY <2>3 DEF OutputOK, Outstanding
  <2>6. Good(late)
    BY <1>1, <2>1, <2>2, <2>5, OneOutput
  <2> QED BY <2>2, <2>4, <2>6, ScheduledGood DEF BridgeInv, Paid
<1> QED BY <1>5, <1>6

(* A handoff event finds its packet and room for it, or is one from       *)
(* before a reset.                                                        *)
LEMMA HandOffStep ==
  ASSUME BridgeInv, NEW d \in Dirs, HandOff(d)
  PROVE  BridgeInv' /\ Paid(path, path')
<1> DEFINE fired == [path EXCEPT !.handoffDue[d] = @ \ {0}]
           dropped == [fired EXCEPT !.retiredHandoff[d] = FALSE]
           moved == [fired EXCEPT !.bank[d] = Append(@, path.serializer[d]),
                                  !.serializer[d] = NoPkt, !.handoff[d] = FALSE]
<1>1. path \in PathType /\ ~path.fault /\ OutputOK(path, d) /\ Good(path)
  BY DEF BridgeInv, Good
<1>2. path.handoffDue[d] = {0}
  <2>1. 0 \in path.handoffDue[d]
    BY DEF HandOff
  <2> QED BY <1>1, <2>1 DEF OutputOK, Outstanding
<1>3. /\ path.handoff[d] \/ path.retiredHandoff[d]
      /\ ~(path.handoff[d] /\ path.retiredHandoff[d])
  BY <1>1, <1>2 DEF OutputOK, Outstanding
<1>4. CASE path.retiredHandoff[d]
  <2>1. dropped \in PathType
    BY <1>1 DEF PathType
  <2>2. /\ dropped.fault = path.fault /\ dropped.passed = path.passed
        /\ dropped.next = path.next /\ dropped.serializer = path.serializer
        /\ dropped.hold = path.hold
        /\ \A e \in Dirs \ {d} : Same(path, dropped, e)
    BY <1>1 DEF PathType, Same
  <2>3. /\ dropped.handoffDue[d] = {} /\ ~dropped.retiredHandoff[d]
        /\ ~dropped.handoff[d]
        /\ dropped.bandwidthDue[d] = path.bandwidthDue[d]
        /\ dropped.bandwidth[d] = path.bandwidth[d]
        /\ dropped.retiredBandwidth[d] = path.retiredBandwidth[d]
        /\ dropped.available[d] = path.available[d]
    BY <1>1, <1>2, <1>3, <1>4 DEF PathType
  <2>4. path' = Scheduled(dropped)
    BY <1>4 DEF HandOff
  <2> HIDE DEF dropped
  <2>5. OutputOK(dropped, d)
    BY <1>1, <1>3, <1>4, <2>2, <2>3 DEF OutputOK, Outstanding
  <2>6. Good(dropped)
    BY <1>1, <2>1, <2>2, <2>5, OneOutput
  <2> QED BY <2>2, <2>4, <2>6, ScheduledGood DEF BridgeInv, Paid
<1>5. CASE ~path.retiredHandoff[d]
  <2>1. path.handoff[d] /\ path.serializer[d] # NoPkt /\ HasCapacity(path, d)
    BY <1>1, <1>3, <1>5 DEF OutputOK
  <2>2. path' = moved
    BY <1>5, <2>1 DEF HandOff
  <2>3. Append(path.bank[d], path.serializer[d]) \in Seq(Packets)
    <3>1. path.bank[d] \in Seq(Packets) /\ path.serializer[d] \in Packets
      BY <1>1, <2>1 DEF PathType
    <3> QED BY <3>1, AppendProperties
  <2>4. moved \in PathType
    BY <1>1, <2>3 DEF PathType
  <2>5. /\ moved.fault = path.fault /\ moved.passed = path.passed
        /\ moved.next = path.next
        /\ moved.serializer = [path.serializer EXCEPT ![d] = NoPkt]
        /\ \A e \in Dirs \ {d} : Same(path, moved, e)
    BY <1>1 DEF PathType, Same
  <2>6. /\ moved.handoffDue[d] = {} /\ ~moved.handoff[d]
        /\ moved.retiredHandoff[d] = path.retiredHandoff[d]
        /\ moved.bandwidthDue[d] = path.bandwidthDue[d]
        /\ moved.bandwidth[d] = path.bandwidth[d]
        /\ moved.retiredBandwidth[d] = path.retiredBandwidth[d]
        /\ moved.available[d] = path.available[d]
        /\ moved.hold[d] = path.hold[d]
        /\ moved.serializer[d] = NoPkt
    BY <1>1, <1>2 DEF PathType
  <2> HIDE DEF moved
  <2>7. OutputOK(moved, d)
    BY <1>1, <1>5, <2>6 DEF OutputOK, Outstanding
  <2>8. Good(moved)
    BY <1>1, <2>4, <2>5, <2>7, OneOutput
  <2>9. Paid(path, moved)
    BY <1>1, <2>5 DEF Paid, PathType
  <2> QED BY <2>2, <2>8, <2>9 DEF BridgeInv
<1> QED BY <1>4, <1>5

(* Injection only makes room. *)
LEMMA InjectStep ==
  ASSUME BridgeInv, NEW d \in Dirs, Inject(d)
  PROVE  BridgeInv' /\ Paid(path, path')
<1>1. path \in PathType /\ ~path.fault /\ OutputOK(path, d) /\ Good(path)
  BY DEF BridgeInv, Good
<1>2. /\ path.bank[d] \in Seq(Packets) /\ path.bank[d] # <<>>
      /\ path' = [path EXCEPT !.bank[d] = Tail(@)]
  BY <1>1 DEF Inject, PathType
<1>3. /\ Tail(path.bank[d]) \in Seq(Packets)
      /\ Len(Tail(path.bank[d])) = Len(path.bank[d]) - 1
      /\ Len(path.bank[d]) \in Nat
  BY <1>2, HeadTailProperties, LenProperties
<1>4. path' \in PathType
  BY <1>1, <1>2, <1>3 DEF PathType
<1>5. /\ path'.fault = path.fault /\ path'.passed = path.passed
        /\ path'.next = path.next /\ path'.serializer = path.serializer
      /\ \A e \in Dirs \ {d} : Same(path, path', e)
  BY <1>1, <1>2 DEF PathType, Same
<1>6. HasCapacity(path, d) => HasCapacity(path', d)
  <2>1. path'.bank[d] = Tail(path.bank[d])
    BY <1>1, <1>2 DEF PathType
  <2> QED BY <1>3, <2>1, BridgeAssumption DEF HasCapacity, BridgeAssumption
<1>7. /\ path'.available = path.available /\ path'.hold = path.hold
      /\ path'.bandwidth = path.bandwidth /\ path'.handoff = path.handoff
      /\ path'.retiredBandwidth = path.retiredBandwidth
      /\ path'.retiredHandoff = path.retiredHandoff
      /\ path'.bandwidthDue = path.bandwidthDue
      /\ path'.handoffDue = path.handoffDue
  BY <1>1, <1>2 DEF PathType
<1>8. OutputOK(path', d)
  BY <1>1, <1>5, <1>6, <1>7 DEF OutputOK
<1>9. Good(path')
  BY <1>1, <1>4, <1>5, <1>8, OneOutput
<1> QED BY <1>5, <1>9 DEF BridgeInv, Paid

(* A reset leaves the events of the run before to be swallowed. *)
LEMMA ResetStep ==
  ASSUME BridgeInv, Reset
  PROVE  BridgeInv' /\ Paid(path, path')
<1>1. /\ path \in PathType /\ ~path.fault /\ TurnKept(path)
      /\ \A d \in Dirs : OutputOK(path, d)
  BY DEF BridgeInv, Good
<1>2. InitPath \in PathType /\ \A d \in Dirs : OutputOK(InitPath, d)
  BY InitGood DEF Good
<1>3. /\ path'.source = InitPath.source /\ path'.bank = InitPath.bank
      /\ path'.serializer = InitPath.serializer
      /\ path'.available = InitPath.available
      /\ path'.bandwidth = InitPath.bandwidth
      /\ path'.handoff = InitPath.handoff
      /\ path'.bandwidthDue = path.bandwidthDue
      /\ path'.handoffDue = path.handoffDue
      /\ path'.hold = path.hold /\ path'.fault = path.fault
      /\ path'.passed = InitPath.passed
      /\ path'.retiredBandwidth =
           [d \in Dirs |-> path.retiredBandwidth[d] \/ path.bandwidth[d]]
      /\ path'.retiredHandoff =
           [d \in Dirs |-> path.retiredHandoff[d] \/ path.handoff[d]]
  BY <1>2 DEF Reset, PathType
<1>4. path' \in PathType
  BY <1>1, <1>2 DEF Reset, PathType
<1>5. ASSUME NEW d \in Dirs PROVE OutputOK(path', d)
  <2>1. /\ path'.serializer[d] = NoPkt /\ path'.available[d]
        /\ ~path'.bandwidth[d] /\ ~path'.handoff[d]
    BY <1>3, <1>5 DEF InitPath, Everywhere
  <2>2. /\ path'.retiredBandwidth[d] <=> path.retiredBandwidth[d] \/ path.bandwidth[d]
        /\ path'.retiredHandoff[d] <=> path.retiredHandoff[d] \/ path.handoff[d]
    BY <1>3, <1>5
  <2> QED BY <1>1, <1>3, <1>5, <2>1, <2>2 DEF OutputOK, Outstanding
<1>6. Good(path')
  <2>1. TurnKept(path')
    BY <1>3 DEF TurnKept, InitPath, Everywhere
  <2> QED BY <1>1, <1>3, <1>4, <1>5, <2>1 DEF Good
<1>7. Paid(path, path')
  BY <1>3 DEF Paid, InitPath, Everywhere
<1> QED BY <1>6, <1>7 DEF BridgeInv

(* One cycle less to go for every event outstanding. *)
LEMMA OneLess ==
  ASSUME NEW due \in SUBSET Nat, 0 \notin due, NEW live, NEW retired,
         Outstanding(due, live, retired)
  PROVE  /\ {n - 1 : n \in due} \in SUBSET Nat
         /\ Outstanding({n - 1 : n \in due}, live, retired)
<1>1. \A n \in due : n - 1 \in Nat
  OBVIOUS
<1>2. ASSUME NEW n \in due, due = {n} PROVE {m - 1 : m \in due} = {n - 1}
  BY <1>2
<1> QED BY <1>1, <1>2 DEF Outstanding

(* The passing of a cycle keeps the invariant. *)
LEMMA TickStep ==
  ASSUME BridgeInv, Tick
  PROVE  BridgeInv' /\ Paid(path, path')
<1>1. /\ path \in PathType /\ ~path.fault /\ TurnKept(path)
      /\ \A d \in Dirs : OutputOK(path, d)
  BY DEF BridgeInv, Good
<1>2. /\ path'.source = path.source /\ path'.bank = path.bank
      /\ path'.serializer = path.serializer /\ path'.available = path.available
      /\ path'.bandwidth = path.bandwidth /\ path'.handoff = path.handoff
      /\ path'.retiredBandwidth = path.retiredBandwidth
      /\ path'.retiredHandoff = path.retiredHandoff
      /\ path'.fault = path.fault /\ path'.passed = path.passed
        /\ path'.next = path.next
      /\ path'.bandwidthDue =
           [d \in Dirs |-> {n - 1 : n \in path.bandwidthDue[d]}]
      /\ path'.handoffDue = [d \in Dirs |-> {n - 1 : n \in path.handoffDue[d]}]
      /\ path'.hold = [d \in Dirs |-> Earlier(path.hold[d])]
  BY <1>1 DEF Tick, PathType
<1>3. ASSUME NEW d \in Dirs
      PROVE  /\ path'.bandwidthDue[d] \in SUBSET Nat
             /\ path'.handoffDue[d] \in SUBSET Nat /\ path'.hold[d] \in Nat
             /\ OutputOK(path', d)
  <2>1. /\ path.bandwidthDue[d] \in SUBSET Nat /\ 0 \notin path.bandwidthDue[d]
        /\ path.handoffDue[d] \in SUBSET Nat /\ 0 \notin path.handoffDue[d]
        /\ path.hold[d] \in Nat /\ OutputOK(path, d)
    BY <1>1 DEF PathType, Tick
  <2>2. /\ path'.bandwidthDue[d] \in SUBSET Nat
        /\ Outstanding(path'.bandwidthDue[d], path.bandwidth[d],
                       path.retiredBandwidth[d])
        /\ path'.handoffDue[d] \in SUBSET Nat
        /\ Outstanding(path'.handoffDue[d], path.handoff[d],
                       path.retiredHandoff[d])
    BY <1>2, <2>1, OneLess DEF OutputOK
  <2>3. \A m \in path'.handoffDue[d], n \in path'.bandwidthDue[d] : m < n
    BY <1>2, <2>1 DEF OutputOK
  <2>4. path'.hold[d] \in Nat
    BY <1>2, <2>1 DEF Earlier
  <2>5. path'.hold[d] # 0 => \E n \in path'.bandwidthDue[d] : path'.hold[d] <= n
    <3> SUFFICES ASSUME path'.hold[d] # 0
                 PROVE  \E n \in path'.bandwidthDue[d] : path'.hold[d] <= n
      OBVIOUS
    <3>1. path.hold[d] # 0 /\ path'.hold[d] = path.hold[d] - 1
      BY <1>2, <2>1 DEF Earlier
    <3>2. PICK n \in path.bandwidthDue[d] : path.hold[d] <= n
      BY <2>1, <3>1 DEF OutputOK
    <3>3. n - 1 \in path'.bandwidthDue[d] /\ path'.hold[d] <= n - 1
      BY <1>2, <2>1, <3>1, <3>2
    <3> QED BY <3>3
  <2>6. HasCapacity(path, d) <=> HasCapacity(path', d)
    BY <1>2 DEF HasCapacity
  <2> QED BY <1>2, <2>1, <2>2, <2>3, <2>4, <2>5, <2>6 DEF OutputOK
<1>4. path' \in PathType
  <2>1. \A d \in Dirs : /\ {n - 1 : n \in path.bandwidthDue[d]} \in SUBSET Nat
                        /\ {n - 1 : n \in path.handoffDue[d]} \in SUBSET Nat
                        /\ Earlier(path.hold[d]) \in Nat
    BY <1>2, <1>3
  <2> QED BY <1>1, <2>1 DEF Tick, PathType
<1>5. Good(path')
  BY <1>1, <1>2, <1>3, <1>4 DEF Good, TurnKept
<1> QED BY <1>2, <1>5 DEF BridgeInv, Paid

(* Every step keeps the invariant and pays for its bandwidth. *)
LEMMA BridgeStep ==
  ASSUME BridgeInv, [Next]_path
  PROVE  BridgeInv' /\ Paid(path, path')
<1>1. CASE UNCHANGED path
  BY <1>1 DEF BridgeInv, Paid
<1>2. CASE Next
  BY <1>2, ArriveStep, ScheduleStep, ReleaseStep, HandOffStep, InjectStep,
     ResetStep, TickStep DEF Next
<1> QED BY <1>1, <1>2

(* The inductive invariant holds always. *)
LEMMA BridgeInvariant == Spec => []BridgeInv
<1>1. Init => BridgeInv
  BY InitGood DEF Init, BridgeInv
<1>2. BridgeInv /\ [Next]_path => BridgeInv'
  BY BridgeStep
<1> QED BY <1>1, <1>2, PTL DEF Spec

(* The handoff never throws: its packet and its room are there, however   *)
(* arrivals, events and resets (tm_ring_rbrg_l1.cc) interleave, and at    *)
(* most one event of each kind is outstanding for an output.              *)
THEOREM BridgeSafe == Spec => [](TypeOK /\ SplitRoomKept /\ EventsMatchFlags)
<1>1. BridgeInv => TypeOK /\ SplitRoomKept /\ EventsMatchFlags
  BY DEF BridgeInv, Good, OutputOK, TypeOK, SplitRoomKept, EventsMatchFlags
<1> QED BY <1>1, BridgeInvariant, PTL

(* The flags of an output and its outstanding events agree, and the        *)
(* handoff of a packet comes before the release of the output.             *)
THEOREM BridgeEventsMatch == Spec => []EventsMatchFlags
  BY BridgeSafe, PTL

(* An output takes no packet before the one before it has had its         *)
(* serialization cycles, also when a reset came between.                  *)
THEOREM BandwidthPaid == Spec => BandwidthIsPaid
<1>1. BridgeInv /\ [Next]_path =>
        [\A d \in Dirs :
           path'.serializer[d] # NoPkt /\ path.serializer[d] = NoPkt
             => path.hold[d] = 0]_path
  BY BridgeStep DEF Paid
<1> QED BY <1>1, BridgeInvariant, PTL DEF Spec, BandwidthIsPaid

(* The choice of schedule_path passes over the head of an eject queue at  *)
(* most once in favour of the other input.                                *)
THEOREM OvertakenOnceSafe == Spec => []OvertakenOnce
<1>1. BridgeInv => OvertakenOnce
  BY DEF BridgeInv, Good, TurnKept, OvertakenOnce
<1> QED BY <1>1, BridgeInvariant, PTL
=============================================================================
