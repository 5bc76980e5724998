---------------------------- MODULE RingPmuProofs ----------------------------
(***************************************************************************)
(* Proofs about RingPmu, for all packets, depths and times: the meters     *)
(* agree with the queues, a snapshot is exact, and deflections are counted *)
(* on the ring where they happen.                                          *)
(***************************************************************************)
EXTENDS RingPmu, SharedLemmas

-----------------------------------------------------------------------------
(* The meters *)

MeterType ==
  [occupancy : Nat, peak : Nat, pushes : Nat, pops : Nat,
   area : Nat, full : Nat, last : Nat]

QueuesTyped ==
  /\ cycle \in Nat
  /\ queue \in [Banks -> Seq(Packets)]
  /\ occupancy \in [Banks -> Nat]
  /\ meter \in [Meters -> MeterType]
  /\ truth \in [Meters -> [area : Nat, full : Nat]]

(* A meter has counted what its banks hold. *)
Counted(m) ==
  /\ meter[m].occupancy = Held(m)
  /\ meter[m].pushes - meter[m].pops = Held(m)
  /\ meter[m].peak \in Held(m) .. MeterDepth(m)

(* What a meter has added up and what passed since is the truth. *)
Exact(m) ==
  /\ meter[m].last <= cycle
  /\ truth[m].area =
       meter[m].area + meter[m].occupancy * (cycle - meter[m].last)
  /\ truth[m].full =
       meter[m].full
         + One(meter[m].occupancy = MeterDepth(m)) * (cycle - meter[m].last)

MeterInv ==
  /\ QueuesTyped
  /\ ~fault
  /\ \A b \in Banks : occupancy[b] = Len(queue[b]) /\ Len(queue[b]) <= Depth(b)
  /\ \A m \in Meters : Counted(m) /\ Exact(m)

(* The banks have a meter each, but for those of the bridge's V-Ring side. *)
LEMMA BankFacts ==
  /\ \A b \in Banks : /\ MeterOf(b) \in Meters
                      /\ Depth(b) \in Nat \ {0}
                      /\ b[1] # "vside" => MeterOf(b) = b
                      /\ MeterOf(b)[1] = b[1]
  /\ \A m \in Meters : /\ MeterDepth(m) \in Nat \ {0}
                       /\ m[1] # "vside" => m \in Banks /\ BanksOf(m) = {m}
                                            /\ MeterDepth(m) = Depth(m)
                       /\ m[1] = "vside" =>
                            /\ m = <<"vside", "LOCAL">>
                            /\ BanksOf(m) = {<<"vside", "CW">>, <<"vside", "CCW">>}
                            /\ MeterDepth(m) = 2 * EjectDepth
  /\ <<"vside", "CW">> \in Banks /\ <<"vside", "CCW">> \in Banks
  /\ Depth(<<"vside", "CW">>) = EjectDepth /\ Depth(<<"vside", "CCW">>) = EjectDepth
  /\ EjectDepth \in Nat \ {0}
  /\ \A b \in Banks : b[1] = "vside" => b = <<"vside", "CW">> \/ b = <<"vside", "CCW">>
  /\ <<"vside", "CW">> # <<"vside", "CCW">>
<1>1. \A b \in Banks : \/ b[1] \in {"niu", "vside", "hside"} /\ b[2] \in Dirs
                                     /\ b = <<b[1], b[2]>>
                       \/ b = <<"home", "CW">>
  BY DEF Banks
<1>2. {InjectDepth, EjectDepth, SplitDepth} \subseteq Nat \ {0}
  BY PmuAssumption DEF PmuAssumption
<1>3. \A b \in Banks : /\ MeterOf(b) \in Meters
                       /\ Depth(b) \in Nat \ {0}
                       /\ b[1] # "vside" => MeterOf(b) = b
                       /\ MeterOf(b)[1] = b[1]
  <2> TAKE b \in Banks
  <2>1. MeterOf(b) \in Meters
    BY DEF Meters
  <2>2. Depth(b) \in Nat \ {0}
    BY <1>2 DEF Depth
  <2>3. /\ b[1] # "vside" => MeterOf(b) = b
        /\ MeterOf(b)[1] = b[1]
    BY DEF MeterOf
  <2> QED BY <2>1, <2>2, <2>3
<1>4. /\ <<"vside", "CW">> \in Banks /\ <<"vside", "CCW">> \in Banks
      /\ Depth(<<"vside", "CW">>) = EjectDepth /\ Depth(<<"vside", "CCW">>) = EjectDepth
      /\ EjectDepth \in Nat \ {0}
      /\ <<"vside", "CW">> # <<"vside", "CCW">>
  BY <1>2 DEF Banks, Dirs, Depth
<1>5. \A b \in Banks : b[1] = "vside" => b = <<"vside", "CW">> \/ b = <<"vside", "CCW">>
  BY <1>1 DEF Dirs
<1>6. ASSUME NEW m \in Meters
      PROVE  /\ MeterDepth(m) \in Nat \ {0}
             /\ m[1] # "vside" => m \in Banks /\ BanksOf(m) = {m}
                                  /\ MeterDepth(m) = Depth(m)
             /\ m[1] = "vside" =>
                  /\ m = <<"vside", "LOCAL">>
                  /\ BanksOf(m) = {<<"vside", "CW">>, <<"vside", "CCW">>}
                  /\ MeterDepth(m) = 2 * EjectDepth
  <2>1. PICK b \in Banks : m = MeterOf(b)
    BY DEF Meters
  <2>2. MeterDepth(m) \in Nat \ {0}
    BY <1>2 DEF MeterDepth
  <2>3. m[1] = b[1]
    BY <1>3, <2>1
  <2>4. CASE b[1] # "vside"
    <3>1. m = b
      BY <1>3, <2>1, <2>4
    <3>2. \A a \in Banks : MeterOf(a) = m <=> a = m
      BY <1>3, <2>3, <2>4, <3>1
    <3>3. MeterDepth(m) = Depth(m)
      BY <2>3, <2>4 DEF MeterDepth, Depth
    <3> QED BY <2>2, <2>3, <2>4, <3>1, <3>2, <3>3 DEF BanksOf
  <2>5. CASE b[1] = "vside"
    <3>1. m = <<"vside", "LOCAL">>
      BY <2>1, <2>5 DEF MeterOf
    <3>2. \A a \in Banks : MeterOf(a) = m <=> a[1] = "vside"
      BY <1>3, <2>3, <2>5, <3>1 DEF MeterOf
    <3>3. BanksOf(m) = {<<"vside", "CW">>, <<"vside", "CCW">>}
      BY <1>4, <1>5, <3>2 DEF BanksOf
    <3>4. MeterDepth(m) = 2 * EjectDepth
      BY <2>3, <2>5 DEF MeterDepth
    <3> QED BY <2>2, <2>3, <2>5, <3>1, <3>3, <3>4
  <2> QED BY <2>4, <2>5
<1> QED BY <1>3, <1>4, <1>5, <1>6

(* What a meter holds is within its depth, and full if all its banks are. *)
LEMMA HeldBounds ==
  ASSUME MeterInv, NEW m \in Meters
  PROVE  /\ Held(m) \in 0 .. MeterDepth(m)
         /\ (\A b \in BanksOf(m) : Len(queue[b]) = Depth(b))
              <=> Held(m) = MeterDepth(m)
         /\ \A b \in Banks : MeterOf(b) = m =>
              /\ Len(queue[b]) <= Held(m)
              /\ Held(m) + Depth(b) <= MeterDepth(m) + Len(queue[b])
<1>1. \A b \in Banks : Len(queue[b]) \in Nat /\ Len(queue[b]) <= Depth(b)
  BY DEF MeterInv, QueuesTyped
<1>2. CASE m[1] # "vside"
  <2>1. Held(m) = Len(queue[m])
    BY <1>2 DEF Held
  <2>2. m \in Banks /\ BanksOf(m) = {m} /\ MeterDepth(m) = Depth(m) /\ Depth(m) \in Nat
    BY <1>2, BankFacts
  <2>3. \A b \in Banks : MeterOf(b) = m => b = m
    BY <1>2, BankFacts
  <2> QED BY <1>1, <2>1, <2>2, <2>3
<1>3. CASE m[1] = "vside"
  <2> DEFINE a == <<"vside", "CW">>
             b == <<"vside", "CCW">>
  <2>1. Held(m) = Len(queue[a]) + Len(queue[b])
    BY <1>3 DEF Held
  <2>2. /\ a \in Banks /\ b \in Banks /\ BanksOf(m) = {a, b}
        /\ MeterDepth(m) = 2 * EjectDepth
        /\ Depth(a) = EjectDepth /\ Depth(b) = EjectDepth /\ EjectDepth \in Nat
    BY <1>3, BankFacts
  <2> HIDE DEF a, b
  <2> DEFINE x == Len(queue[a])
             y == Len(queue[b])
             n == MeterDepth(m)
             h == Held(m)
  <2>3. /\ x \in Nat /\ x <= EjectDepth
        /\ y \in Nat /\ y <= EjectDepth
        /\ n = EjectDepth + EjectDepth /\ EjectDepth \in Nat /\ h = x + y
    BY <1>1, <2>1, <2>2
  <2> HIDE DEF x, y, n, h
  <2>4. h \in 0 .. n
    BY <2>3
  <2>5. (\A c \in BanksOf(m) : Len(queue[c]) = Depth(c))
          <=> x = EjectDepth /\ y = EjectDepth
    BY <2>2 DEF x, y
  <2>6. x = EjectDepth /\ y = EjectDepth <=> h = n
    BY <2>3
  <2>7. ASSUME NEW c \in Banks, MeterOf(c) = m
        PROVE  /\ Len(queue[c]) <= h
               /\ h + Depth(c) <= n + Len(queue[c])
    <3>1. (c = a /\ Len(queue[c]) = x) \/ (c = b /\ Len(queue[c]) = y)
      BY <1>3, <2>7, BankFacts DEF a, b, x, y
    <3>2. Depth(c) = EjectDepth
      BY <2>2, <3>1
    <3> DEFINE l == Len(queue[c])
    <3>3. l = x \/ l = y
      BY <3>1
    <3> HIDE DEF l
    <3>4. l <= h /\ h + EjectDepth <= n + l
      BY <2>3, <3>3
    <3> QED BY <3>2, <3>4 DEF l
  <2> QED BY <2>4, <2>5, <2>6, <2>7 DEF h, n
<1> QED BY <1>2, <1>3

(* A meter that is settled has added the time that passed. *)
LEMMA ObservedParts ==
  ASSUME NEW e \in MeterType, NEW depth \in Nat, NEW after \in Nat,
         cycle \in Nat, e.last <= cycle
  PROVE  LET o == Observed(e, depth, after)
         IN  /\ o \in MeterType
             /\ o.occupancy = after /\ o.last = cycle
             /\ o.peak = Larger(e.peak, after)
             /\ o.pushes = e.pushes /\ o.pops = e.pops
             /\ o.area = e.area + e.occupancy * (cycle - e.last)
             /\ o.full = e.full + One(e.occupancy = depth) * (cycle - e.last)
<1> DEFINE area == e.area + e.occupancy * (cycle - e.last)
           full == e.full + One(e.occupancy = depth) * (cycle - e.last)
           peak == Larger(e.peak, after)
           s == [e EXCEPT !.area = area, !.full = full, !.last = cycle]
           o == [s EXCEPT !.occupancy = after, !.peak = peak]
<1>1. /\ e.occupancy \in Nat /\ e.peak \in Nat /\ e.pushes \in Nat /\ e.pops \in Nat
      /\ e.area \in Nat /\ e.full \in Nat /\ e.last \in Nat
  BY DEF MeterType
<1>2. cycle - e.last \in Nat /\ One(e.occupancy = depth) \in Nat
  BY <1>1 DEF One
<1>3. \A x, y, z \in Nat : x + y * z \in Nat
  OBVIOUS
<1>4. area \in Nat /\ full \in Nat
  BY <1>1, <1>2, <1>3
<1>5. peak \in Nat
  BY <1>1 DEF Larger
<1>6. s = Settled(e, depth)
  BY DEF Settled, MeterType
<1>7. o = Observed(e, depth, after)
  BY <1>6 DEF Observed, Settled, MeterType
<1> HIDE DEF area, full, peak
<1>8. /\ o \in MeterType /\ o.occupancy = after /\ o.last = cycle /\ o.peak = peak
      /\ o.pushes = e.pushes /\ o.pops = e.pops /\ o.area = area /\ o.full = full
  BY <1>1, <1>4, <1>5 DEF MeterType
<1> QED BY <1>7, <1>8 DEF area, full, peak

(* A bank that changes changes what its meter holds, and no other meter.   *)
LEMMA HeldChange ==
  ASSUME MeterInv, NEW b \in Banks, NEW q \in Seq(Packets),
         queue' = [queue EXCEPT ![b] = q]
  PROVE  /\ Held(MeterOf(b))' = Held(MeterOf(b)) + Len(q) - Len(queue[b])
         /\ \A m \in Meters : m # MeterOf(b) => Held(m)' = Held(m)
         /\ queue' \in [Banks -> Seq(Packets)]
         /\ queue'[b] = q
         /\ \A c \in Banks : c # b => queue'[c] = queue[c]
<1>1. queue \in [Banks -> Seq(Packets)]
  BY DEF MeterInv, QueuesTyped
<1>2. /\ queue' \in [Banks -> Seq(Packets)]
      /\ queue'[b] = q
      /\ \A c \in Banks : c # b => queue'[c] = queue[c]
  BY <1>1
<1>3. \A c \in Banks : Len(queue[c]) \in Nat /\ Len(queue'[c]) \in Nat
  BY <1>1, <1>2
<1> DEFINE u == <<"vside", "CW">>
           v == <<"vside", "CCW">>
<1>4. u \in Banks /\ v \in Banks /\ u # v
  BY BankFacts
<1>5. \A m \in Meters :
        /\ Held(m) = IF m[1] = "vside" THEN Len(queue[u]) + Len(queue[v])
                                       ELSE Len(queue[m])
        /\ Held(m)' = IF m[1] = "vside" THEN Len(queue'[u]) + Len(queue'[v])
                                        ELSE Len(queue'[m])
  BY DEF Held
<1>6. /\ \A m \in Meters : m[1] # "vside" => m \in Banks
      /\ MeterOf(b) \in Meters /\ MeterOf(b)[1] = b[1]
      /\ b[1] # "vside" => MeterOf(b) = b
      /\ b[1] = "vside" => b = u \/ b = v
      /\ u[1] = "vside" /\ v[1] = "vside"
      /\ \A m \in Meters : b[1] = "vside" /\ m[1] = "vside" => m = MeterOf(b)
  BY BankFacts
<1> HIDE DEF u, v
<1>7. CASE b[1] # "vside"
  <2>1. \A m \in Meters : m # MeterOf(b) => Held(m)' = Held(m)
    BY <1>2, <1>4, <1>5, <1>6, <1>7
  <2>2. Held(b)' = Len(q) /\ Held(b) = Len(queue[b])
    BY <1>2, <1>5, <1>6, <1>7
  <2> QED BY <1>2, <1>3, <1>6, <1>7, <2>1, <2>2
<1>8. CASE b[1] = "vside"
  <2>1. \A m \in Meters : m # MeterOf(b) => Held(m)' = Held(m)
    BY <1>2, <1>4, <1>5, <1>6, <1>8
  <2>2. /\ Held(MeterOf(b))' = Len(queue'[u]) + Len(queue'[v])
        /\ Held(MeterOf(b)) = Len(queue[u]) + Len(queue[v])
    BY <1>5, <1>6, <1>8
  <2>3. CASE b = u
    BY <1>2, <1>3, <1>4, <2>1, <2>2, <2>3
  <2>4. CASE b = v
    BY <1>2, <1>3, <1>4, <2>1, <2>2, <2>4
  <2> QED BY <1>6, <1>8, <2>3, <2>4
<1> QED BY <1>7, <1>8

(* One meter is settled and counts a change of its banks.                  *)
LEMMA Remetered ==
  ASSUME MeterInv, UNCHANGED <<cycle, truth, fault>>,
         NEW m \in Meters, NEW e \in MeterType, meter' = [meter EXCEPT ![m] = e],
         queue' \in [Banks -> Seq(Packets)], occupancy' \in [Banks -> Nat],
         \A b \in Banks : occupancy'[b] = Len(queue'[b]) /\ Len(queue'[b]) <= Depth(b),
         \A n \in Meters : n # m => Held(n)' = Held(n),
         e.occupancy = Held(m)', e.pushes - e.pops = Held(m)',
         e.peak \in Held(m)' .. MeterDepth(m), e.last = cycle,
         e.area = truth[m].area, e.full = truth[m].full
  PROVE  MeterInv'
<1>1. QueuesTyped' /\ ~fault'
  BY DEF MeterInv, QueuesTyped
<1>2. meter'[m] = e /\ \A n \in Meters : n # m => meter'[n] = meter[n]
  BY DEF MeterInv, QueuesTyped
<1>3. ASSUME NEW n \in Meters, n # m
      PROVE  Counted(n)' /\ Exact(n)'
  <2>1. Counted(n) /\ Exact(n)
    BY DEF MeterInv
  <2> QED BY <1>2, <1>3, <2>1 DEF Counted, Exact
<1>4. Counted(m)'
  BY <1>2 DEF Counted
<1>5. Exact(m)'
  <2>1. /\ cycle \in Nat /\ e.occupancy \in Nat
        /\ e.area \in Nat /\ e.full \in Nat
        /\ One(e.occupancy = MeterDepth(m)) \in Nat
    BY DEF MeterInv, QueuesTyped, MeterType, One
  <2>2. \A x \in Nat : x * (cycle - cycle) = 0
    BY <2>1
  <2> DEFINE full == One(e.occupancy = MeterDepth(m))
  <2>3. /\ e.area = e.area + e.occupancy * (cycle - cycle)
        /\ e.full = e.full + full * (cycle - cycle)
    <3> HIDE DEF full
    <3> QED BY <2>1, <2>2 DEF full
  <2> QED BY <1>2, <2>1, <2>3 DEF Exact
<1> QED BY <1>1, <1>3, <1>4, <1>5 DEF MeterInv

(* What is observed of a meter is exact. *)
LEMMA ObservedExact ==
  ASSUME MeterInv, NEW m \in Meters, NEW after \in 0 .. MeterDepth(m)
  PROVE  LET o == Observed(meter[m], MeterDepth(m), after)
         IN  /\ o \in MeterType /\ o.occupancy = after /\ o.last = cycle
             /\ o.peak \in after .. MeterDepth(m)
             /\ o.pushes = meter[m].pushes /\ o.pops = meter[m].pops
             /\ o.area = truth[m].area /\ o.full = truth[m].full
<1> DEFINE e == meter[m]
           depth == MeterDepth(m)
<1>1. /\ e \in MeterType /\ cycle \in Nat /\ Counted(m) /\ Exact(m)
  BY DEF MeterInv, QueuesTyped
<1>2. depth \in Nat /\ after \in Nat
  BY BankFacts
<1>3. e.last <= cycle /\ e.peak \in Nat /\ e.peak <= depth /\ after <= depth
  BY <1>1, <1>2 DEF Exact, Counted, MeterType
<1>4. /\ truth[m].area = e.area + e.occupancy * (cycle - e.last)
      /\ truth[m].full = e.full + One(e.occupancy = depth) * (cycle - e.last)
  BY <1>1 DEF Exact
<1>5. Larger(e.peak, after) \in after .. depth
  BY <1>2, <1>3 DEF Larger
<1> HIDE DEF e, depth
<1>6. LET o == Observed(e, depth, after)
      IN  /\ o \in MeterType
          /\ o.occupancy = after /\ o.last = cycle
          /\ o.peak = Larger(e.peak, after)
          /\ o.pushes = e.pushes /\ o.pops = e.pops
          /\ o.area = e.area + e.occupancy * (cycle - e.last)
          /\ o.full = e.full + One(e.occupancy = depth) * (cycle - e.last)
  BY <1>1, <1>2, <1>3, ObservedParts
<1> QED BY <1>4, <1>5, <1>6 DEF e, depth

(* A packet enters a bank that has room: its meter accepts it. *)
LEMMA PushStep ==
  ASSUME MeterInv, NEW b \in Banks, NEW x \in Packets, Len(queue[b]) < Depth(b),
         Push(b, x), UNCHANGED <<cycle, truth>>
  PROVE  /\ MeterInv'
         /\ queue' = [queue EXCEPT ![b] = Append(queue[b], x)]
<1> DEFINE m == MeterOf(b)
           q == Append(queue[b], x)
           blind == b[1] = "vside"
           after == IF blind THEN meter[m].occupancy + 1 ELSE occupancy[b] + 1
           o == Observed(meter[m], MeterDepth(m), after)
           e == [o EXCEPT !.pushes = o.pushes + 1]
<1>1. /\ m \in Meters /\ (~blind => m = b) /\ m[1] = b[1]
      /\ MeterDepth(m) \in Nat /\ Depth(b) \in Nat
  BY BankFacts
<1>2. /\ queue[b] \in Seq(Packets) /\ q \in Seq(Packets) /\ Len(q) = Len(queue[b]) + 1
      /\ Len(queue[b]) \in Nat /\ occupancy[b] = Len(queue[b])
      /\ occupancy \in [Banks -> Nat] /\ queue \in [Banks -> Seq(Packets)]
      /\ \A c \in Banks : occupancy[c] = Len(queue[c]) /\ Len(queue[c]) <= Depth(c)
  BY DEF MeterInv, QueuesTyped
<1>3. /\ queue' = [queue EXCEPT ![b] = q]
      /\ occupancy' = [occupancy EXCEPT ![b] = occupancy[b] + 1]
  BY <1>2 DEF Push
<1>4. /\ meter[m].occupancy = Held(m) /\ Counted(m)
      /\ meter[m].pushes - meter[m].pops = Held(m)
      /\ meter \in [Meters -> MeterType] /\ meter[m] \in MeterType
  BY <1>1 DEF MeterInv, QueuesTyped, Counted
<1>5. Held(m) \in Nat /\ Held(m) + 1 <= MeterDepth(m)
  <2>1. /\ Held(m) \in 0 .. MeterDepth(m)
        /\ Held(m) + Depth(b) <= MeterDepth(m) + Len(queue[b])
    BY <1>1, HeldBounds
  <2> QED BY <1>1, <1>2, <2>1
<1>6. after = Held(m) + 1
  <2>1. ~blind => Held(m) = Len(queue[b])
    BY <1>1 DEF Held
  <2> QED BY <1>2, <1>4, <2>1
<1>7. meter' = [meter EXCEPT ![m] = e] /\ fault' = fault
  <2>1. ~(meter[m].occupancy >= MeterDepth(m))
    BY <1>1, <1>4, <1>5
  <2>2. meter' = [meter EXCEPT ![m] = [o EXCEPT !.pushes = @ + 1]] /\ fault' = fault
    BY <2>1 DEF Push
  <2> QED BY <2>2
<1> HIDE DEF after, q, blind
<1>8. /\ o \in MeterType /\ o.occupancy = after /\ o.last = cycle
      /\ o.peak \in after .. MeterDepth(m)
      /\ o.pushes = meter[m].pushes /\ o.pops = meter[m].pops
      /\ o.area = truth[m].area /\ o.full = truth[m].full
  <2>1. after \in 0 .. MeterDepth(m)
    BY <1>1, <1>5, <1>6
  <2> QED BY <1>1, <2>1, ObservedExact
<1> HIDE DEF o, m
<1>9. /\ e \in MeterType /\ e.occupancy = after /\ e.last = cycle /\ e.peak = o.peak
      /\ e.pushes = meter[m].pushes + 1 /\ e.pops = meter[m].pops
      /\ e.area = truth[m].area /\ e.full = truth[m].full
  BY <1>8 DEF MeterType
<1>10. /\ Held(m)' = Held(m) + 1
       /\ \A n \in Meters : n # m => Held(n)' = Held(n)
       /\ queue' \in [Banks -> Seq(Packets)] /\ queue'[b] = q
       /\ \A c \in Banks : c # b => queue'[c] = queue[c]
  <2>1. /\ Held(m)' = Held(m) + Len(q) - Len(queue[b])
        /\ \A n \in Meters : n # m => Held(n)' = Held(n)
        /\ queue' \in [Banks -> Seq(Packets)] /\ queue'[b] = q
        /\ \A c \in Banks : c # b => queue'[c] = queue[c]
    BY <1>2, <1>3, HeldChange DEF m
  <2> QED BY <1>2, <1>5, <2>1
<1>11. /\ occupancy' \in [Banks -> Nat]
       /\ \A c \in Banks : occupancy'[c] = Len(queue'[c]) /\ Len(queue'[c]) <= Depth(c)
  <2>1. /\ occupancy'[b] = Len(q) /\ \A c \in Banks : c # b => occupancy'[c] = occupancy[c]
    BY <1>2, <1>3
  <2>2. occupancy' \in [Banks -> Nat]
    BY <1>2, <1>3
  <2>3. Len(q) <= Depth(b)
    BY <1>1, <1>2
  <2> QED BY <1>2, <1>10, <2>1, <2>2, <2>3
<1>12. e.pushes - e.pops = Held(m)'
  <2>1. meter[m].pushes \in Nat /\ meter[m].pops \in Nat
    BY <1>4 DEF MeterType
  <2> QED BY <1>4, <1>5, <1>9, <1>10, <2>1
<1>13. e.occupancy = Held(m)' /\ e.peak \in Held(m)' .. MeterDepth(m)
  BY <1>6, <1>8, <1>9, <1>10
<1> HIDE DEF e
<1>14. MeterInv'
  BY <1>1, <1>7, <1>9, <1>10, <1>11, <1>12, <1>13, Remetered
<1> QED BY <1>3, <1>14 DEF q

(* A packet leaves a bank: its meter had counted it. *)
LEMMA PopStep ==
  ASSUME MeterInv, NEW b \in Banks, queue[b] # <<>>,
         Pop(b), UNCHANGED <<cycle, truth>>
  PROVE  /\ MeterInv'
         /\ queue' = [queue EXCEPT ![b] = Tail(queue[b])]
<1> DEFINE m == MeterOf(b)
           q == Tail(queue[b])
           blind == b[1] = "vside"
           after == IF blind THEN meter[m].occupancy - 1 ELSE occupancy[b] - 1
           o == Observed(meter[m], MeterDepth(m), after)
           e == [o EXCEPT !.pops = o.pops + 1]
<1>1. /\ m \in Meters /\ (~blind => m = b) /\ m[1] = b[1]
      /\ MeterDepth(m) \in Nat /\ Depth(b) \in Nat
  BY BankFacts
<1>2. /\ queue[b] \in Seq(Packets) /\ q \in Seq(Packets) /\ Len(q) = Len(queue[b]) - 1
      /\ Len(queue[b]) \in Nat /\ Len(queue[b]) > 0 /\ occupancy[b] = Len(queue[b])
      /\ occupancy \in [Banks -> Nat] /\ queue \in [Banks -> Seq(Packets)]
      /\ \A c \in Banks : occupancy[c] = Len(queue[c]) /\ Len(queue[c]) <= Depth(c)
  BY DEF MeterInv, QueuesTyped
<1>3. /\ queue' = [queue EXCEPT ![b] = q]
      /\ occupancy' = [occupancy EXCEPT ![b] = occupancy[b] - 1]
  BY <1>2 DEF Pop
<1>4. /\ meter[m].occupancy = Held(m) /\ Counted(m)
      /\ meter[m].pushes - meter[m].pops = Held(m)
      /\ meter[m].peak \in Held(m) .. MeterDepth(m)
      /\ meter \in [Meters -> MeterType] /\ meter[m] \in MeterType
  BY <1>1 DEF MeterInv, QueuesTyped, Counted
<1>5. Held(m) - 1 \in Nat /\ Held(m) <= MeterDepth(m) /\ Held(m) \in Nat
  <2>1. Held(m) \in 0 .. MeterDepth(m) /\ Len(queue[b]) <= Held(m)
    BY <1>1, HeldBounds
  <2> QED BY <1>1, <1>2, <2>1
<1>6. after = Held(m) - 1
  <2>1. ~blind => Held(m) = Len(queue[b])
    BY <1>1 DEF Held
  <2> QED BY <1>2, <1>4, <2>1
<1>7. meter' = [meter EXCEPT ![m] = e] /\ fault' = fault
  <2>1. meter[m].occupancy # 0
    BY <1>1, <1>4, <1>5
  <2>2. meter' = [meter EXCEPT ![m] = [o EXCEPT !.pops = @ + 1]] /\ fault' = fault
    BY <2>1 DEF Pop
  <2> QED BY <2>2
<1> HIDE DEF after, q, blind
<1>8. /\ o \in MeterType /\ o.occupancy = after /\ o.last = cycle
      /\ o.peak \in after .. MeterDepth(m)
      /\ o.pushes = meter[m].pushes /\ o.pops = meter[m].pops
      /\ o.area = truth[m].area /\ o.full = truth[m].full
  <2>1. after \in 0 .. MeterDepth(m)
    BY <1>1, <1>5, <1>6
  <2> QED BY <1>1, <2>1, ObservedExact
<1> HIDE DEF o, m
<1>9. /\ e \in MeterType /\ e.occupancy = after /\ e.last = cycle /\ e.peak = o.peak
      /\ e.pushes = meter[m].pushes /\ e.pops = meter[m].pops + 1
      /\ e.area = truth[m].area /\ e.full = truth[m].full
  BY <1>8 DEF MeterType
<1>10. /\ Held(m)' = Held(m) - 1
       /\ \A n \in Meters : n # m => Held(n)' = Held(n)
       /\ queue' \in [Banks -> Seq(Packets)] /\ queue'[b] = q
       /\ \A c \in Banks : c # b => queue'[c] = queue[c]
  <2>1. /\ Held(m)' = Held(m) + Len(q) - Len(queue[b])
        /\ \A n \in Meters : n # m => Held(n)' = Held(n)
        /\ queue' \in [Banks -> Seq(Packets)] /\ queue'[b] = q
        /\ \A c \in Banks : c # b => queue'[c] = queue[c]
    BY <1>2, <1>3, HeldChange DEF m
  <2> QED BY <1>2, <1>5, <2>1
<1>11. /\ occupancy' \in [Banks -> Nat]
       /\ \A c \in Banks : occupancy'[c] = Len(queue'[c]) /\ Len(queue'[c]) <= Depth(c)
  <2>1. /\ occupancy'[b] = Len(q) /\ \A c \in Banks : c # b => occupancy'[c] = occupancy[c]
    BY <1>2, <1>3
  <2>2. occupancy' \in [Banks -> Nat]
    <3>1. occupancy[b] - 1 \in Nat
      BY <1>2
    <3> QED BY <1>2, <1>3, <3>1
  <2>3. Len(q) <= Depth(b)
    BY <1>1, <1>2
  <2> QED BY <1>2, <1>10, <2>1, <2>2, <2>3
<1>12. e.pushes - e.pops = Held(m)'
  <2>1. meter[m].pushes \in Nat /\ meter[m].pops \in Nat
    BY <1>4 DEF MeterType
  <2> QED BY <1>4, <1>5, <1>9, <1>10, <2>1
<1>13. e.occupancy = Held(m)' /\ e.peak \in Held(m)' .. MeterDepth(m)
  BY <1>5, <1>6, <1>8, <1>9, <1>10
<1> HIDE DEF e
<1>14. MeterInv'
  BY <1>1, <1>7, <1>9, <1>10, <1>11, <1>12, <1>13, Remetered
<1> QED BY <1>3, <1>14 DEF q

-----------------------------------------------------------------------------
(* Where packets are *)

BankSpot(b) == <<"bank", b>>
RingSpot(r, d) == <<"ring", <<r, d>>>>
SlotSpot(d) == <<"slot", d>>

Spots ==
  {BankSpot(b) : b \in Banks} \cup {RingSpot(r, d) : r \in Rings, d \in Dirs}
    \cup {SlotSpot(d) : d \in Dirs}

(* The packets that go in direction d among those R of a ring. *)
Riders(R, d) == {x \in Packets : <<x, d>> \in R}

(* The packets at a spot. *)
At(p) ==
  CASE p[1] = "bank" -> In(queue[p[2]], Packets)
    [] p[1] = "ring" -> Riders(ring[p[2][1]], p[2][2])
    [] OTHER -> {x \in Packets : slot[p[2]] = x}

(* Before a ring, packets carry no deflection state. *)
ClearSpots ==
  {BankSpot(b) : b \in {c \in Banks : c[1] \in {"niu", "hside"}}}
    \cup {SlotSpot(d) : d \in Dirs}

MarkType == [started : BOOLEAN, first : Int, count : Nat]

CrossType ==
  [events : Int, unique : Int, eligible : Int, completed : Int, rounds : Int,
   delay : Int]

PathTyped ==
  /\ ring \in [Rings -> SUBSET (Packets \X Dirs)]
  /\ slot \in [Dirs -> Packets \cup {NoPkt}]
  /\ mark \in [Packets -> MarkType]
  /\ cross \in [Rings -> CrossType]
  /\ sent \in SUBSET Packets

(* A packet is in one place, and only there once. *)
Apart ==
  /\ \A b \in Banks : Once(queue[b], Packets)
  /\ \A p, q \in Spots : p # q => At(p) \cap At(q) = {}
  /\ \A p \in Spots : At(p) \subseteq sent

MarkOK(k) == (k.started <=> k.count # 0) /\ k.count <= MaxRounds

Marked ==
  /\ \A x \in Packets :
       x \notin sent \/ (\E p \in ClearSpots : x \in At(p)) => mark[x] = ClearMark
  /\ \A x \in Packets : MarkOK(mark[x])

(* The spots, unprimed and primed. *)
LEMMA SpotFacts ==
  /\ \A b \in Banks : /\ BankSpot(b) \in Spots
                      /\ At(BankSpot(b)) = In(queue[b], Packets)
                      /\ At(BankSpot(b))' = In(queue'[b], Packets)
                      /\ BankSpot(b) \in ClearSpots <=> b[1] \in {"niu", "hside"}
  /\ \A r \in Rings, d \in Dirs :
       /\ RingSpot(r, d) \in Spots \ ClearSpots
       /\ At(RingSpot(r, d)) = Riders(ring[r], d)
       /\ At(RingSpot(r, d))' = Riders(ring'[r], d)
  /\ \A d \in Dirs : /\ SlotSpot(d) \in ClearSpots /\ SlotSpot(d) \in Spots
                     /\ At(SlotSpot(d)) = {x \in Packets : slot[d] = x}
                     /\ At(SlotSpot(d))' = {x \in Packets : slot'[d] = x}
  /\ \A p \in Spots : \/ \E b \in Banks : p = BankSpot(b)
                      \/ \E r \in Rings, d \in Dirs : p = RingSpot(r, d)
                      \/ \E d \in Dirs : p = SlotSpot(d)
  /\ ClearSpots \subseteq Spots
<1>1. \A b \in Banks : /\ BankSpot(b) \in Spots
                       /\ At(BankSpot(b)) = In(queue[b], Packets)
                       /\ At(BankSpot(b))' = In(queue'[b], Packets)
  BY DEF BankSpot, Spots, At
<1>2. \A b \in Banks : BankSpot(b) \in ClearSpots <=> b[1] \in {"niu", "hside"}
  BY DEF BankSpot, SlotSpot, ClearSpots
<1>3. \A r \in Rings, d \in Dirs :
       /\ RingSpot(r, d) \in Spots \ ClearSpots
       /\ At(RingSpot(r, d)) = Riders(ring[r], d)
       /\ At(RingSpot(r, d))' = Riders(ring'[r], d)
  BY DEF RingSpot, BankSpot, SlotSpot, Spots, ClearSpots, At
<1>4. \A d \in Dirs : /\ SlotSpot(d) \in ClearSpots /\ SlotSpot(d) \in Spots
                      /\ At(SlotSpot(d)) = {x \in Packets : slot[d] = x}
                      /\ At(SlotSpot(d))' = {x \in Packets : slot'[d] = x}
  BY DEF SlotSpot, Spots, ClearSpots, At
<1>5. \A p \in Spots : \/ \E b \in Banks : p = BankSpot(b)
                       \/ \E r \in Rings, d \in Dirs : p = RingSpot(r, d)
                       \/ \E d \in Dirs : p = SlotSpot(d)
  BY DEF Spots
<1>6. ClearSpots \subseteq Spots
  BY DEF Spots, ClearSpots
<1> QED BY <1>1, <1>2, <1>3, <1>4, <1>5, <1>6, Zenon

(* Different spots have different names. *)
LEMMA SpotNames ==
  /\ \A a, b \in Banks : BankSpot(a) = BankSpot(b) <=> a = b
  /\ \A r, q \in Rings, d, e \in Dirs : RingSpot(r, d) = RingSpot(q, e) <=> r = q /\ d = e
  /\ \A d, e \in Dirs : SlotSpot(d) = SlotSpot(e) <=> d = e
  /\ \A b \in Banks, d \in Dirs : BankSpot(b) # SlotSpot(d)
  /\ \A b \in Banks, r \in Rings, d \in Dirs : BankSpot(b) # RingSpot(r, d)
  /\ \A e \in Dirs, r \in Rings, d \in Dirs : SlotSpot(e) # RingSpot(r, d)
BY DEF BankSpot, RingSpot, SlotSpot

(* A packet that is new, or leaves the spot where it was, for spot q. *)
LEMMA Moved ==
  ASSUME Apart, Marked, NEW x \in Packets, NEW q \in Spots,
         \A p \in Spots \ {q} : At(p)' \subseteq At(p) \ {x},
         At(q)' \subseteq At(q) \cup {x},
         \A b \in Banks : Once(queue'[b], Packets),
         sent \subseteq sent', x \in sent',
         \A y \in Packets \ {x} : mark'[y] = mark[y],
         mark'[x] = ClearMark \/ q \notin ClearSpots,
         MarkOK(mark'[x])
  PROVE  Apart' /\ Marked'
<1>1. ASSUME NEW a \in Spots, NEW b \in Spots, a # b
      PROVE  At(a)' \cap At(b)' = {}
  <2>1. At(a) \cap At(b) = {}
    BY <1>1 DEF Apart
  <2>2. a # q \/ b # q
    BY <1>1
  <2>3. \A p \in Spots : p # q => At(p)' \subseteq At(p) /\ x \notin At(p)'
    OBVIOUS
  <2> QED BY <2>1, <2>2, <2>3
<1>2. \A p \in Spots : At(p)' \subseteq sent'
  <2> TAKE p \in Spots
  <2>1. At(p) \subseteq sent /\ At(p)' \subseteq At(p) \cup {x}
    BY DEF Apart
  <2> QED BY <2>1
<1>3. ASSUME NEW y \in Packets,
             y \notin sent' \/ \E p \in ClearSpots : y \in At(p)'
      PROVE  mark'[y] = ClearMark
  <2>1. ClearSpots \subseteq Spots
    BY SpotFacts
  <2>2. CASE y # x
    <3>1. y \notin sent \/ \E p \in ClearSpots : y \in At(p)
      BY <1>3, <2>1, <2>2
    <3> QED BY <2>2, <3>1 DEF Marked
  <2>3. CASE y = x
    <3>1. PICK p \in ClearSpots : x \in At(p)'
      BY <1>3, <2>3
    <3>2. p = q
      BY <2>1, <3>1
    <3> QED BY <2>3, <3>1, <3>2
  <2> QED BY <2>2, <2>3
<1>4. \A y \in Packets : MarkOK(mark'[y])
  BY DEF Marked
<1>5. Apart'
  BY <1>1, <1>2 DEF Apart, Spots, BankSpot, RingSpot, SlotSpot
<1>6. Marked'
  BY <1>3, <1>4 DEF Marked, ClearSpots, BankSpot, RingSpot, SlotSpot, MarkOK
<1> QED BY <1>5, <1>6

(* A packet that goes from spot s to spot q. *)
LEMMA MovedFrom ==
  ASSUME Apart, Marked, NEW x \in Packets, NEW s \in Spots, NEW q \in Spots, s # q,
         x \in At(s), At(s)' = At(s) \ {x}, At(q)' = At(q) \cup {x},
         \A p \in Spots \ {s, q} : At(p)' = At(p),
         \A b \in Banks : Once(queue'[b], Packets),
         sent' = sent,
         \A y \in Packets \ {x} : mark'[y] = mark[y],
         mark'[x] = ClearMark \/ (mark'[x] = mark[x] /\ q \notin ClearSpots)
  PROVE  Apart' /\ Marked'
<1>1. \A p \in Spots \ {q} : At(p)' \subseteq At(p) \ {x}
  <2> TAKE p \in Spots \ {q}
  <2>1. CASE p = s
    BY <2>1
  <2>2. CASE p # s
    <3>1. x \notin At(p) /\ At(p)' = At(p)
      BY <2>2 DEF Apart
    <3> QED BY <3>1
  <2> QED BY <2>1, <2>2
<1>2. x \in sent
  BY DEF Apart
<1>3. MarkOK(mark'[x])
  <2>1. MarkOK(ClearMark)
    BY PmuAssumption DEF MarkOK, ClearMark, PmuAssumption
  <2> QED BY <2>1 DEF Marked
<1> QED BY <1>1, <1>2, <1>3, Moved

(* A bank is popped. *)
LEMMA BankPopped ==
  ASSUME MeterInv, Apart, NEW b \in Banks, queue[b] # <<>>,
         queue' = [queue EXCEPT ![b] = Tail(queue[b])]
  PROVE  /\ Head(queue[b]) \in Packets
         /\ Head(queue[b]) \in At(BankSpot(b))
         /\ At(BankSpot(b))' = At(BankSpot(b)) \ {Head(queue[b])}
         /\ \A c \in Banks \ {b} : At(BankSpot(c))' = At(BankSpot(c))
         /\ \A c \in Banks : Once(queue'[c], Packets)
<1> DEFINE s == queue[b]
<1>1. s \in Seq(Packets) /\ s # <<>> /\ Once(s, Packets)
  BY DEF MeterInv, QueuesTyped, Apart
<1>2. queue'[b] = Tail(s) /\ \A c \in Banks \ {b} : queue'[c] = queue[c]
  BY DEF MeterInv, QueuesTyped
<1> HIDE DEF s
<1>3. /\ Head(s) \in Packets /\ Tail(s) \in Seq(Packets)
      /\ Once(Tail(s), Packets)
      /\ In(Tail(s), Packets) = In(s, Packets) \ {Head(s)}
      /\ Head(s) \in Packets => Head(s) \in In(s, Packets)
  BY <1>1, TailOnce
<1>4. At(BankSpot(b)) = In(s, Packets) /\ At(BankSpot(b))' = In(Tail(s), Packets)
  BY <1>2, SpotFacts DEF s
<1>5. \A c \in Banks \ {b} : At(BankSpot(c))' = At(BankSpot(c))
  BY <1>2, SpotFacts
<1>6. \A c \in Banks : Once(queue'[c], Packets)
  BY <1>2, <1>3 DEF Apart
<1> QED BY <1>3, <1>4, <1>5, <1>6 DEF s

(* A bank is pushed. *)
LEMMA BankPushed ==
  ASSUME MeterInv, Apart, NEW b \in Banks, NEW x \in Packets, x \notin At(BankSpot(b)),
         queue' = [queue EXCEPT ![b] = Append(queue[b], x)]
  PROVE  /\ At(BankSpot(b))' = At(BankSpot(b)) \cup {x}
         /\ \A c \in Banks \ {b} : At(BankSpot(c))' = At(BankSpot(c))
         /\ \A c \in Banks : Once(queue'[c], Packets)
<1> DEFINE s == queue[b]
<1>1. s \in Seq(Packets) /\ Once(s, Packets) /\ x \notin In(s, Packets)
  BY SpotFacts DEF MeterInv, QueuesTyped, Apart
<1>2. queue'[b] = Append(s, x) /\ \A c \in Banks \ {b} : queue'[c] = queue[c]
  BY DEF MeterInv, QueuesTyped
<1> HIDE DEF s
<1>3. /\ Once(Append(s, x), Packets)
      /\ In(Append(s, x), Packets) = In(s, Packets) \cup ({x} \cap Packets)
  BY <1>1, AppendOnce
<1>4. At(BankSpot(b)) = In(s, Packets) /\ At(BankSpot(b))' = In(Append(s, x), Packets)
  BY <1>2, SpotFacts DEF s
<1>5. \A c \in Banks \ {b} : At(BankSpot(c))' = At(BankSpot(c))
  BY <1>2, SpotFacts
<1>6. \A c \in Banks : Once(queue'[c], Packets)
  BY <1>2, <1>3 DEF Apart
<1> QED BY <1>3, <1>4, <1>5, <1>6

(* Spots that a step leaves alone. *)
LEMMA SameSpots ==
  /\ queue' = queue => \A b \in Banks : At(BankSpot(b))' = At(BankSpot(b))
  /\ \A r \in Rings : ring'[r] = ring[r] =>
       \A d \in Dirs : At(RingSpot(r, d))' = At(RingSpot(r, d))
  /\ \A d \in Dirs : slot'[d] = slot[d] => At(SlotSpot(d))' = At(SlotSpot(d))
<1>1. queue' = queue => \A b \in Banks : At(BankSpot(b))' = At(BankSpot(b))
  BY SpotFacts
<1>2. ASSUME NEW r \in Rings, ring'[r] = ring[r], NEW d \in Dirs
      PROVE  At(RingSpot(r, d))' = At(RingSpot(r, d))
  <2>1. At(RingSpot(r, d)) = Riders(ring[r], d)
    BY SpotFacts
  <2>2. At(RingSpot(r, d))' = Riders(ring'[r], d)
    BY SpotFacts
  <2> QED BY <1>2, <2>1, <2>2
<1>3. ASSUME NEW d \in Dirs, slot'[d] = slot[d]
      PROVE  At(SlotSpot(d))' = At(SlotSpot(d))
  <2>1. /\ At(SlotSpot(d)) = {x \in Packets : slot[d] = x}
        /\ At(SlotSpot(d))' = {x \in Packets : slot'[d] = x}
    BY SpotFacts
  <2> QED BY <1>3, <2>1
<1> QED BY <1>1, <1>2, <1>3

PathInv ==
  /\ MeterInv /\ PathTyped /\ Apart /\ Marked
  /\ rbrg = Cardinality({d \in Dirs : slot[d] # NoPkt})

(* An inject bank of either ring and the queue a ring ejects into. *)
LEMMA RingBanks ==
  /\ \A d \in Dirs : /\ <<"niu", d>> \in Banks
                     /\ <<"vside", d>> \in Banks
                     /\ <<"hside", d>> \in Banks
  /\ <<"home", "CW">> \in Banks
  /\ \A r \in Rings, d \in Dirs :
       /\ <<Source(r), d>> \in Banks
       /\ <<Source(r), d>>[1] \in {"niu", "hside"}
       /\ EjectBank(r, d) \in Banks
<1>1. /\ \A d \in Dirs : /\ <<"niu", d>> \in Banks
                         /\ <<"vside", d>> \in Banks
                         /\ <<"hside", d>> \in Banks
      /\ <<"home", "CW">> \in Banks
  BY DEF Banks
<1>2. \A r \in Rings, d \in Dirs :
        /\ <<Source(r), d>> \in Banks
        /\ <<Source(r), d>>[1] \in {"niu", "hside"}
        /\ EjectBank(r, d) \in Banks
  BY <1>1 DEF Source, EjectBank
<1> QED BY <1>1, <1>2, Zenon

(* A request is issued or refused. *)
LEMMA RequestKeeps ==
  ASSUME PathInv, NEW x \in Packets, NEW d \in Dirs, Request(x, d)
  PROVE  PathInv'
<1> DEFINE b == <<"niu", d>>
<1>1. /\ b \in Banks /\ MeterOf(b) = b /\ b \in Meters /\ MeterDepth(b) = Depth(b)
      /\ b[1] # "vside" /\ Depth(b) \in Nat
  <2>1. b \in Banks /\ b[1] # "vside"
    BY RingBanks
  <2> HIDE DEF b
  <2>2. MeterOf(b) = b /\ MeterOf(b) \in Meters /\ Depth(b) \in Nat
    BY <2>1, BankFacts
  <2>3. MeterDepth(b) = Depth(b)
    BY <2>1, <2>2, BankFacts
  <2> QED BY <2>1, <2>2, <2>3
<1> HIDE DEF b
<1>2. /\ UNCHANGED <<cycle, truth, ring, slot, mark, cross, rbrg>>
      /\ x \notin sent /\ MeterInv /\ PathTyped /\ Apart /\ Marked
  BY DEF Request, PathInv
<1>3. CASE Len(queue[b]) < Depth(b)
  <2>1. Push(b, x) /\ sent' = sent \cup {x}
    BY <1>3 DEF Request, b
  <2>2. MeterInv' /\ queue' = [queue EXCEPT ![b] = Append(queue[b], x)]
    BY <1>1, <1>2, <1>3, <2>1, PushStep
  <2>3. \A p \in Spots : x \notin At(p)
    BY <1>2 DEF Apart
  <2>4. BankSpot(b) \in Spots
    BY <1>1, SpotFacts
  <2>5. /\ At(BankSpot(b))' = At(BankSpot(b)) \cup {x}
        /\ \A c \in Banks \ {b} : At(BankSpot(c))' = At(BankSpot(c))
        /\ \A c \in Banks : Once(queue'[c], Packets)
    BY <1>1, <1>2, <2>2, <2>3, <2>4, BankPushed
  <2>6. \A p \in Spots \ {BankSpot(b)} : At(p)' \subseteq At(p) \ {x}
    <3>1. \A p \in Spots \ {BankSpot(b)} : At(p)' = At(p)
      BY <1>2, <2>5, SameSpots, SpotFacts
    <3> QED BY <2>3, <3>1
  <2>7. mark'[x] = ClearMark /\ MarkOK(mark'[x])
    BY <1>2 DEF Marked
  <2>8. Apart' /\ Marked'
    BY <1>2, <2>1, <2>4, <2>5, <2>6, <2>7, Moved
  <2>9. PathTyped'
    BY <1>2, <2>1 DEF PathTyped
  <2> QED BY <1>2, <2>2, <2>8, <2>9 DEF PathInv
<1>4. CASE ~(Len(queue[b]) < Depth(b))
  <2> DEFINE o == Observed(meter[b], MeterDepth(b), occupancy[b])
  <2>1. /\ meter' = [meter EXCEPT ![b] = o]
        /\ UNCHANGED <<queue, occupancy, fault, sent>>
    BY <1>1, <1>4 DEF Request, b
  <2>2. /\ occupancy[b] = Held(b) /\ Held(b) \in 0 .. MeterDepth(b) /\ Counted(b)
        /\ meter[b].occupancy = Held(b)
        /\ meter[b].pushes - meter[b].pops = Held(b)
    BY <1>1, <1>2, HeldBounds DEF MeterInv, Held, Counted
  <2>3. /\ o \in MeterType /\ o.occupancy = occupancy[b] /\ o.last = cycle
        /\ o.peak \in occupancy[b] .. MeterDepth(b)
        /\ o.pushes = meter[b].pushes /\ o.pops = meter[b].pops
        /\ o.area = truth[b].area /\ o.full = truth[b].full
    BY <1>1, <1>2, <2>2, ObservedExact
  <2> HIDE DEF o
  <2>4. \A m \in Meters : Held(m)' = Held(m)
    BY <2>1 DEF Held
  <2>5. /\ queue' \in [Banks -> Seq(Packets)] /\ occupancy' \in [Banks -> Nat]
        /\ \A c \in Banks : occupancy'[c] = Len(queue'[c]) /\ Len(queue'[c]) <= Depth(c)
    BY <1>2, <2>1 DEF MeterInv, QueuesTyped
  <2>6. MeterInv'
    BY <1>1, <1>2, <2>1, <2>2, <2>3, <2>4, <2>5, Remetered
  <2>7. Apart' /\ Marked' /\ PathTyped'
    BY <1>2, <2>1 DEF Apart, Marked, PathTyped, At
  <2> QED BY <1>2, <2>6, <2>7 DEF PathInv
<1> QED BY <1>3, <1>4

(* A ring takes a packet, or gives it away. *)
LEMMA RingChange ==
  ASSUME PathTyped, NEW r \in Rings, NEW d \in Dirs, NEW x \in Packets
  PROVE  /\ ring' = [ring EXCEPT ![r] = @ \cup {<<x, d>>}] =>
              /\ ring' \in [Rings -> SUBSET (Packets \X Dirs)]
              /\ At(RingSpot(r, d))' = At(RingSpot(r, d)) \cup {x}
              /\ \A q \in Rings, e \in Dirs : RingSpot(q, e) # RingSpot(r, d) =>
                   At(RingSpot(q, e))' = At(RingSpot(q, e))
         /\ ring' = [ring EXCEPT ![r] = @ \ {<<x, d>>}] =>
              /\ ring' \in [Rings -> SUBSET (Packets \X Dirs)]
              /\ At(RingSpot(r, d))' = At(RingSpot(r, d)) \ {x}
              /\ \A q \in Rings, e \in Dirs : RingSpot(q, e) # RingSpot(r, d) =>
                   At(RingSpot(q, e))' = At(RingSpot(q, e))
<1>1. \A q \in Rings, e \in Dirs :
        /\ At(RingSpot(q, e)) = Riders(ring[q], e)
        /\ At(RingSpot(q, e))' = Riders(ring'[q], e)
  BY SpotFacts
<1>2. ring \in [Rings -> SUBSET (Packets \X Dirs)] /\ <<x, d>> \in Packets \X Dirs
  BY DEF PathTyped
<1>3. ASSUME ring' = [ring EXCEPT ![r] = @ \cup {<<x, d>>}]
      PROVE  /\ ring' \in [Rings -> SUBSET (Packets \X Dirs)]
             /\ At(RingSpot(r, d))' = At(RingSpot(r, d)) \cup {x}
             /\ \A q \in Rings, e \in Dirs : RingSpot(q, e) # RingSpot(r, d) =>
                  At(RingSpot(q, e))' = At(RingSpot(q, e))
  <2>1. /\ ring' \in [Rings -> SUBSET (Packets \X Dirs)]
        /\ ring'[r] = ring[r] \cup {<<x, d>>}
        /\ \A q \in Rings : q # r => ring'[q] = ring[q]
    BY <1>2, <1>3
  <2>2. /\ Riders(ring'[r], d) = Riders(ring[r], d) \cup {x}
        /\ \A e \in Dirs : e # d => Riders(ring'[r], e) = Riders(ring[r], e)
    <3> DEFINE R == ring[r]
    <3> HIDE DEF R
    <3>1. /\ Riders(R \cup {<<x, d>>}, d) = Riders(R, d) \cup {x}
          /\ \A e \in Dirs : e # d => Riders(R \cup {<<x, d>>}, e) = Riders(R, e)
      BY DEF Riders
    <3>2. ring'[r] = R \cup {<<x, d>>}
      BY <2>1 DEF R
    <3> QED BY <3>1, <3>2 DEF R
  <2>3. ASSUME NEW q \in Rings, NEW e \in Dirs, RingSpot(q, e) # RingSpot(r, d)
        PROVE  At(RingSpot(q, e))' = At(RingSpot(q, e))
    <3>1. Riders(ring'[q], e) = Riders(ring[q], e)
      <4>1. CASE q = r
        <5>1. e # d
          BY <2>3, <4>1
        <5> QED BY <2>2, <4>1, <5>1
      <4>2. CASE q # r
        BY <2>1, <4>2
      <4> QED BY <4>1, <4>2
    <3> QED BY <1>1, <3>1
  <2>4. At(RingSpot(r, d))' = At(RingSpot(r, d)) \cup {x}
    BY <1>1, <2>2
  <2> QED BY <2>1, <2>3, <2>4
<1>4. ASSUME ring' = [ring EXCEPT ![r] = @ \ {<<x, d>>}]
      PROVE  /\ ring' \in [Rings -> SUBSET (Packets \X Dirs)]
             /\ At(RingSpot(r, d))' = At(RingSpot(r, d)) \ {x}
             /\ \A q \in Rings, e \in Dirs : RingSpot(q, e) # RingSpot(r, d) =>
                  At(RingSpot(q, e))' = At(RingSpot(q, e))
  <2>1. /\ ring' \in [Rings -> SUBSET (Packets \X Dirs)]
        /\ ring'[r] = ring[r] \ {<<x, d>>}
        /\ \A q \in Rings : q # r => ring'[q] = ring[q]
    BY <1>2, <1>4
  <2>2. /\ Riders(ring'[r], d) = Riders(ring[r], d) \ {x}
        /\ \A e \in Dirs : e # d => Riders(ring'[r], e) = Riders(ring[r], e)
    <3> DEFINE R == ring[r]
    <3> HIDE DEF R
    <3>1. /\ Riders(R \ {<<x, d>>}, d) = Riders(R, d) \ {x}
          /\ \A e \in Dirs : e # d => Riders(R \ {<<x, d>>}, e) = Riders(R, e)
      BY DEF Riders
    <3>2. ring'[r] = R \ {<<x, d>>}
      BY <2>1 DEF R
    <3> QED BY <3>1, <3>2 DEF R
  <2>3. ASSUME NEW q \in Rings, NEW e \in Dirs, RingSpot(q, e) # RingSpot(r, d)
        PROVE  At(RingSpot(q, e))' = At(RingSpot(q, e))
    <3>1. Riders(ring'[q], e) = Riders(ring[q], e)
      <4>1. CASE q = r
        <5>1. e # d
          BY <2>3, <4>1
        <5> QED BY <2>2, <4>1, <5>1
      <4>2. CASE q # r
        BY <2>1, <4>2
      <4> QED BY <4>1, <4>2
    <3> QED BY <1>1, <3>1
  <2>4. At(RingSpot(r, d))' = At(RingSpot(r, d)) \ {x}
    BY <1>1, <2>2
  <2> QED BY <2>1, <2>3, <2>4
<1> QED BY <1>3, <1>4

(* A packet enters a ring. *)
LEMMA InjectKeeps ==
  ASSUME PathInv, NEW r \in Rings, NEW d \in Dirs, Inject(r, d)
  PROVE  PathInv'
<1> DEFINE b == <<Source(r), d>>
           x == Head(queue[b])
           s == BankSpot(b)
           q == RingSpot(r, d)
<1>1. b \in Banks
  BY RingBanks
<1>2. /\ queue[b] # <<>> /\ Pop(b) /\ ring' = [ring EXCEPT ![r] = @ \cup {<<x, d>>}]
      /\ UNCHANGED <<cycle, slot, mark, cross, rbrg, sent, truth>>
  BY DEF Inject
<1>3. MeterInv /\ PathTyped /\ Apart /\ Marked
  BY DEF PathInv
<1> HIDE DEF b, x
<1>4. MeterInv' /\ queue' = [queue EXCEPT ![b] = Tail(queue[b])]
  BY <1>1, <1>2, <1>3, PopStep
<1>5. /\ x \in Packets /\ x \in At(s) /\ At(s)' = At(s) \ {x}
      /\ \A c \in Banks \ {b} : At(BankSpot(c))' = At(BankSpot(c))
      /\ \A c \in Banks : Once(queue'[c], Packets)
  BY <1>1, <1>2, <1>3, <1>4, BankPopped DEF x
<1>6. /\ ring' \in [Rings -> SUBSET (Packets \X Dirs)]
      /\ At(q)' = At(q) \cup {x}
      /\ \A p \in Rings, e \in Dirs : RingSpot(p, e) # q =>
           At(RingSpot(p, e))' = At(RingSpot(p, e))
  BY <1>2, <1>3, <1>5, RingChange
<1>7. s \in Spots /\ q \in Spots \ ClearSpots /\ s # q
  BY <1>1, SpotFacts, SpotNames
<1> HIDE DEF s, q
<1>8. \A p \in Spots \ {s, q} : At(p)' = At(p)
  BY <1>2, <1>5, <1>6, SameSpots, SpotFacts DEF s
<1>9. Apart' /\ Marked'
  BY <1>2, <1>3, <1>5, <1>6, <1>7, <1>8, MovedFrom
<1>10. PathTyped'
  BY <1>2, <1>3, <1>6 DEF PathTyped
<1> QED BY <1>2, <1>4, <1>9, <1>10 DEF PathInv

(* A packet leaves a ring; what the ring counts stays a number. *)
LEMMA EjectKeeps ==
  ASSUME PathInv, NEW r \in Rings, NEW x \in Packets, NEW d \in Dirs, Eject(r, x, d)
  PROVE  PathInv'
<1> DEFINE b == EjectBank(r, d)
           s == RingSpot(r, d)
           q == BankSpot(b)
<1>1. b \in Banks /\ b[1] \notin {"niu", "hside"}
  BY RingBanks DEF EjectBank
<1>2. /\ <<x, d>> \in ring[r] /\ HasRoom(b) /\ Push(b, x)
      /\ ring' = [ring EXCEPT ![r] = @ \ {<<x, d>>}]
      /\ UNCHANGED <<cycle, slot, mark, rbrg, sent, truth>>
  BY DEF Eject
<1>3. MeterInv /\ PathTyped /\ Apart /\ Marked
  BY DEF PathInv
<1> HIDE DEF b
<1>4. MeterInv' /\ queue' = [queue EXCEPT ![b] = Append(queue[b], x)]
  <2>1. Len(queue[b]) < Depth(b)
    BY <1>1, <1>2, <1>3 DEF HasRoom, MeterInv
  <2> QED BY <1>1, <1>2, <1>3, <2>1, PushStep
<1>5. s \in Spots /\ q \in Spots \ ClearSpots /\ s # q
  BY <1>1, SpotFacts, SpotNames
<1>6. x \in At(s)
  BY <1>2, SpotFacts DEF Riders
<1>7. x \notin At(q)
  BY <1>3, <1>5, <1>6 DEF Apart
<1>8. /\ At(q)' = At(q) \cup {x}
      /\ \A c \in Banks \ {b} : At(BankSpot(c))' = At(BankSpot(c))
      /\ \A c \in Banks : Once(queue'[c], Packets)
  BY <1>1, <1>3, <1>4, <1>7, BankPushed
<1>9. /\ ring' \in [Rings -> SUBSET (Packets \X Dirs)]
      /\ At(s)' = At(s) \ {x}
      /\ \A p \in Rings, e \in Dirs : RingSpot(p, e) # s =>
           At(RingSpot(p, e))' = At(RingSpot(p, e))
  BY <1>2, <1>3, RingChange
<1> HIDE DEF s, q
<1>10. \A p \in Spots \ {s, q} : At(p)' = At(p)
  BY <1>2, <1>8, <1>9, SameSpots, SpotFacts DEF q
<1>11. Apart' /\ Marked'
  BY <1>2, <1>3, <1>5, <1>6, <1>8, <1>9, <1>10, MovedFrom
<1>12. cross' \in [Rings -> CrossType]
  <2> DEFINE c == cross[r]
             k == mark[x]
             rounds == IF k.started THEN k.count ELSE 0
             delay == IF k.started THEN cycle - k.first ELSE 0
             n == [c EXCEPT !.eligible = c.eligible + 1,
                            !.completed = c.completed + One(k.started),
                            !.rounds = c.rounds + rounds, !.delay = c.delay + delay]
  <2>1. /\ cross \in [Rings -> CrossType] /\ c \in CrossType /\ k \in MarkType
        /\ cycle \in Int
    BY <1>3 DEF PathTyped, MeterInv, QueuesTyped
  <2>2. cross' = [cross EXCEPT ![r] = n]
    BY <2>1 DEF Eject, CrossType
  <2> HIDE DEF c, k
  <2>3. One(k.started) \in Int /\ rounds \in Int /\ delay \in Int
    BY <2>1 DEF One, MarkType
  <2> HIDE DEF rounds, delay
  <2>4. /\ c.eligible + 1 \in Int /\ c.completed + One(k.started) \in Int
        /\ c.rounds + rounds \in Int /\ c.delay + delay \in Int
    BY <2>1, <2>3 DEF CrossType
  <2>5. n \in CrossType
    BY <2>1, <2>4 DEF CrossType
  <2> HIDE DEF n
  <2> QED BY <2>1, <2>2, <2>5
<1>13. PathTyped'
  BY <1>2, <1>3, <1>9, <1>12 DEF PathTyped
<1> QED BY <1>2, <1>4, <1>11, <1>13 DEF PathInv

(* A packet is deflected where it is. *)
LEMMA DeflectKeeps ==
  ASSUME PathInv, NEW r \in Rings, NEW x \in Packets, NEW d \in Dirs, Deflect(r, x, d)
  PROVE  PathInv'
<1> DEFINE q == RingSpot(r, d)
           k == mark[x]
           n == IF k.started THEN [k EXCEPT !.count = k.count + 1]
                ELSE [started |-> TRUE, first |-> cycle, count |-> k.count + 1]
<1>1. /\ <<x, d>> \in ring[r] /\ k.count < MaxRounds
      /\ UNCHANGED <<cycle, queue, occupancy, meter, ring, slot, rbrg, fault, sent,
                     truth>>
  BY DEF Deflect
<1>2. MeterInv /\ PathTyped /\ Apart /\ Marked
  BY DEF PathInv
<1>3. k \in MarkType /\ mark \in [Packets -> MarkType] /\ cycle \in Nat
  BY <1>2 DEF PathTyped, MeterInv, QueuesTyped
<1>4. mark' = [mark EXCEPT ![x] = n]
  BY DEF Deflect
<1> HIDE DEF k
<1>5. n \in MarkType /\ n.started /\ n.count = k.count + 1
  BY <1>3 DEF MarkType
<1> HIDE DEF n
<1>6. mark' \in [Packets -> MarkType] /\ mark'[x] = n
      /\ \A y \in Packets \ {x} : mark'[y] = mark[y]
  BY <1>3, <1>4, <1>5
<1>7. MarkOK(mark'[x])
  <2>1. k.count \in Nat /\ MaxRounds \in Nat
    BY <1>3, PmuAssumption DEF MarkType, PmuAssumption
  <2>2. n.count # 0 /\ n.count <= MaxRounds
    BY <1>1, <1>5, <2>1
  <2> QED BY <1>5, <1>6, <2>2 DEF MarkOK
<1>8. /\ q \in Spots \ ClearSpots /\ x \in At(q)
  BY <1>1, SpotFacts DEF Riders
<1> HIDE DEF q
<1>9. \A p \in Spots : At(p)' = At(p)
  BY <1>1 DEF At
<1>10. \A p \in Spots \ {q} : At(p)' \subseteq At(p) \ {x}
  BY <1>2, <1>8, <1>9 DEF Apart
<1>11. At(q)' \subseteq At(q) \cup {x}
  BY <1>8, <1>9
<1>12. \A b \in Banks : Once(queue'[b], Packets)
  BY <1>1, <1>2 DEF Apart
<1>13. sent \subseteq sent' /\ x \in sent'
  BY <1>1, <1>2, <1>8 DEF Apart
<1>14. Apart' /\ Marked'
  BY <1>2, <1>6, <1>7, <1>8, <1>10, <1>11, <1>12, <1>13, Moved
<1>15. cross' \in [Rings -> CrossType]
  <2> DEFINE c == cross[r]
             u == One(~k.started)
             m == [c EXCEPT !.events = c.events + 1, !.unique = c.unique + u]
  <2>1. cross \in [Rings -> CrossType] /\ c \in CrossType
    BY <1>2 DEF PathTyped
  <2>2. cross' = [cross EXCEPT ![r] = m]
    BY <2>1 DEF Deflect, CrossType, k
  <2> HIDE DEF c
  <2>3. u \in Int
    BY DEF One
  <2> HIDE DEF u
  <2>4. c.events + 1 \in Int /\ c.unique + u \in Int
    BY <2>1, <2>3 DEF CrossType
  <2>5. m \in CrossType
    BY <2>1, <2>4 DEF CrossType
  <2> HIDE DEF m
  <2> QED BY <2>1, <2>2, <2>5
<1>16. MeterInv'
  BY <1>1, <1>2 DEF MeterInv, QueuesTyped, Counted, Exact, Held
<1>17. PathTyped'
  BY <1>1, <1>2, <1>6, <1>15 DEF PathTyped
<1> QED BY <1>1, <1>14, <1>16, <1>17 DEF PathInv

(* The outputs of the bridge that are busy. *)
LEMMA Busy ==
  ASSUME NEW d \in Dirs, PathTyped, slot' \in [Dirs -> Packets \cup {NoPkt}],
         \A e \in Dirs \ {d} : slot'[e] = slot[e]
  PROVE  LET busy == {e \in Dirs : slot[e] # NoPkt}
             then == {e \in Dirs : slot'[e] # NoPkt}
         IN  /\ Cardinality(busy) \in Nat
             /\ slot[d] = NoPkt /\ slot'[d] # NoPkt =>
                  Cardinality(then) = Cardinality(busy) + 1
             /\ slot[d] # NoPkt /\ slot'[d] = NoPkt =>
                  /\ Cardinality(busy) # 0
                  /\ Cardinality(then) = Cardinality(busy) - 1
<1> DEFINE busy == {e \in Dirs : slot[e] # NoPkt}
           then == {e \in Dirs : slot'[e] # NoPkt}
<1>1. IsFiniteSet(Dirs)
  <2>1. Dirs = {"CW"} \cup {"CCW"}
    BY DEF Dirs
  <2>2. IsFiniteSet({"CW"}) /\ IsFiniteSet({"CCW"})
    BY FS_Singleton
  <2> QED BY <2>1, <2>2, FS_Union
<1>2. busy \in SUBSET Dirs
  OBVIOUS
<1>3. IsFiniteSet(busy)
  BY <1>1, <1>2, FS_Subset
<1>4. Cardinality(busy) \in Nat
  BY <1>3, FS_CardinalityType
<1>5. slot[d] = NoPkt /\ slot'[d] # NoPkt => then = busy \cup {d} /\ d \notin busy
  OBVIOUS
<1>6. slot[d] # NoPkt /\ slot'[d] = NoPkt => then = busy \ {d} /\ d \in busy
  OBVIOUS
<1> HIDE DEF busy, then
<1>7. d \notin busy => Cardinality(busy \cup {d}) = Cardinality(busy) + 1
  BY <1>3, FS_AddElement
<1>8. d \in busy => Cardinality(busy \ {d}) = Cardinality(busy) - 1
  BY <1>3, FS_RemoveElement
<1>9. d \in busy => Cardinality(busy) # 0
  BY <1>3, FS_EmptySet
<1> QED BY <1>4, <1>5, <1>6, <1>7, <1>8, <1>9 DEF busy, then

(* A packet crosses from an eject bank of the V-Ring into an output. *)
LEMMA CrossKeeps ==
  ASSUME PathInv, NEW i \in Dirs, NEW d \in Dirs, Cross(i, d)
  PROVE  PathInv'
<1> DEFINE b == <<"vside", i>>
           x == Head(queue[b])
           s == BankSpot(b)
           q == SlotSpot(d)
<1>1. b \in Banks
  BY RingBanks
<1>2. /\ queue[b] # <<>> /\ slot[d] = NoPkt /\ Pop(b)
      /\ slot' = [slot EXCEPT ![d] = x]
      /\ mark' = [mark EXCEPT ![x] = ClearMark]
      /\ rbrg' = rbrg + 1
      /\ UNCHANGED <<cycle, ring, cross, sent, truth>>
  BY DEF Cross, Cleared
<1>3. MeterInv /\ PathTyped /\ Apart /\ Marked
  BY DEF PathInv
<1> HIDE DEF b, x
<1>4. MeterInv' /\ queue' = [queue EXCEPT ![b] = Tail(queue[b])]
  BY <1>1, <1>2, <1>3, PopStep
<1>5. /\ x \in Packets /\ x \in At(s) /\ At(s)' = At(s) \ {x}
      /\ \A c \in Banks \ {b} : At(BankSpot(c))' = At(BankSpot(c))
      /\ \A c \in Banks : Once(queue'[c], Packets)
  BY <1>1, <1>2, <1>3, <1>4, BankPopped DEF x
<1>6. /\ slot' \in [Dirs -> Packets \cup {NoPkt}] /\ slot'[d] = x
      /\ \A e \in Dirs \ {d} : slot'[e] = slot[e]
      /\ x # NoPkt
  BY <1>2, <1>3, <1>5, PmuAssumption DEF PathTyped, PmuAssumption
<1>7. At(q)' = At(q) \cup {x}
  <2>1. At(q)' = {y \in Packets : slot'[d] = y} /\ At(q) = {y \in Packets : slot[d] = y}
    BY SpotFacts
  <2>2. At(q)' = {x} /\ At(q) = {}
    BY <1>2, <1>5, <1>6, <2>1, PmuAssumption DEF PmuAssumption
  <2> QED BY <2>2
<1>8. s \in Spots /\ q \in Spots /\ s # q
  BY <1>1, SpotFacts, SpotNames
<1>9. \A e \in Dirs : SlotSpot(e) # q => At(SlotSpot(e))' = At(SlotSpot(e))
  BY <1>6, SameSpots
<1> HIDE DEF s, q
<1>10. \A p \in Spots \ {s, q} : At(p)' = At(p)
  BY <1>2, <1>5, <1>9, SameSpots, SpotFacts DEF s
<1>11. /\ mark'[x] = ClearMark /\ \A y \in Packets \ {x} : mark'[y] = mark[y]
       /\ mark' \in [Packets -> MarkType]
  <2>1. ClearMark \in MarkType
    BY DEF ClearMark, MarkType
  <2> QED BY <1>2, <1>3, <1>5, <2>1 DEF PathTyped
<1>12. Apart' /\ Marked'
  BY <1>2, <1>3, <1>5, <1>7, <1>8, <1>10, <1>11, MovedFrom
<1>13. PathTyped'
  BY <1>2, <1>3, <1>6, <1>11 DEF PathTyped
<1>14. rbrg' = Cardinality({e \in Dirs : slot'[e] # NoPkt})
  BY <1>2, <1>3, <1>6, Busy DEF PathInv
<1> QED BY <1>4, <1>12, <1>13, <1>14 DEF PathInv

(* An output hands its packet to the H-Ring. *)
LEMMA HandOffKeeps ==
  ASSUME PathInv, NEW d \in Dirs, HandOff(d)
  PROVE  PathInv'
<1> DEFINE b == <<"hside", d>>
           x == slot[d]
           s == SlotSpot(d)
           q == BankSpot(b)
<1>1. b \in Banks /\ b[1] \in {"niu", "hside"}
  BY RingBanks
<1>2. /\ x # NoPkt /\ HasRoom(b) /\ Push(b, x)
      /\ slot' = [slot EXCEPT ![d] = NoPkt]
      /\ rbrg' = IF rbrg = 0 THEN 0 ELSE rbrg - 1
      /\ UNCHANGED <<cycle, ring, mark, cross, sent, truth>>
  BY DEF HandOff
<1>3. MeterInv /\ PathTyped /\ Apart /\ Marked
  BY DEF PathInv
<1>4. x \in Packets
  BY <1>2, <1>3 DEF PathTyped
<1> HIDE DEF b
<1>5. MeterInv' /\ queue' = [queue EXCEPT ![b] = Append(queue[b], x)]
  <2>1. Len(queue[b]) < Depth(b)
    BY <1>1, <1>2, <1>3 DEF HasRoom, MeterInv
  <2> HIDE DEF x
  <2> QED BY <1>1, <1>2, <1>3, <1>4, <2>1, PushStep
<1>6. /\ slot' \in [Dirs -> Packets \cup {NoPkt}] /\ slot'[d] = NoPkt
      /\ \A e \in Dirs \ {d} : slot'[e] = slot[e]
  BY <1>2, <1>3 DEF PathTyped
<1>7. s \in Spots /\ s \in ClearSpots /\ q \in Spots /\ s # q
  BY <1>1, SpotFacts, SpotNames
<1>8. x \in At(s) /\ At(s)' = At(s) \ {x}
  <2>1. At(s)' = {y \in Packets : slot'[d] = y} /\ At(s) = {y \in Packets : slot[d] = y}
    BY SpotFacts
  <2>2. At(s)' = {} /\ At(s) = {x}
    BY <1>4, <1>6, <2>1, PmuAssumption DEF PmuAssumption
  <2> QED BY <2>2
<1>9. x \notin At(q)
  BY <1>3, <1>7, <1>8 DEF Apart
<1> HIDE DEF x
<1>10. /\ At(q)' = At(q) \cup {x}
       /\ \A c \in Banks \ {b} : At(BankSpot(c))' = At(BankSpot(c))
       /\ \A c \in Banks : Once(queue'[c], Packets)
  BY <1>1, <1>3, <1>4, <1>5, <1>9, BankPushed
<1>11. \A e \in Dirs : SlotSpot(e) # s => At(SlotSpot(e))' = At(SlotSpot(e))
  BY <1>6, SameSpots
<1> HIDE DEF s, q
<1>12. \A p \in Spots \ {s, q} : At(p)' = At(p)
  BY <1>2, <1>10, <1>11, SameSpots, SpotFacts DEF q
<1>13. mark'[x] = ClearMark
  BY <1>2, <1>3, <1>4, <1>7, <1>8 DEF Marked
<1>14. Apart' /\ Marked'
  BY <1>2, <1>3, <1>4, <1>7, <1>8, <1>10, <1>12, <1>13, MovedFrom
<1>15. PathTyped'
  BY <1>2, <1>3, <1>6 DEF PathTyped
<1>16. rbrg' = Cardinality({e \in Dirs : slot'[e] # NoPkt})
  BY <1>2, <1>3, <1>6, Busy DEF PathInv, x
<1> QED BY <1>5, <1>14, <1>15, <1>16 DEF PathInv

(* The Home Agent takes a packet off the path. *)
LEMMA TakeKeeps ==
  ASSUME PathInv, Take
  PROVE  PathInv'
<1> DEFINE b == <<"home", "CW">>
           x == Head(queue[b])
           q == BankSpot(b)
<1>1. b \in Banks /\ b[1] \notin {"niu", "hside"}
  BY RingBanks
<1>2. /\ queue[b] # <<>> /\ Pop(b)
      /\ UNCHANGED <<cycle, ring, slot, mark, cross, rbrg, sent, truth>>
  BY DEF Take
<1>3. MeterInv /\ PathTyped /\ Apart /\ Marked
  BY DEF PathInv
<1> HIDE DEF b, x
<1>4. MeterInv' /\ queue' = [queue EXCEPT ![b] = Tail(queue[b])]
  BY <1>1, <1>2, <1>3, PopStep
<1>5. /\ x \in Packets /\ x \in At(q) /\ At(q)' = At(q) \ {x}
      /\ \A c \in Banks \ {b} : At(BankSpot(c))' = At(BankSpot(c))
      /\ \A c \in Banks : Once(queue'[c], Packets)
  BY <1>1, <1>2, <1>3, <1>4, BankPopped DEF x
<1>6. q \in Spots \ ClearSpots
  BY <1>1, SpotFacts
<1> HIDE DEF q
<1>7. \A p \in Spots \ {q} : At(p)' = At(p)
  BY <1>2, <1>5, SameSpots, SpotFacts DEF q
<1>8. \A p \in Spots \ {q} : At(p)' \subseteq At(p) \ {x}
  BY <1>3, <1>5, <1>6, <1>7 DEF Apart
<1>9. At(q)' \subseteq At(q) \cup {x}
  BY <1>5
<1>10. x \in sent' /\ sent \subseteq sent'
  BY <1>2, <1>3, <1>5, <1>6 DEF Apart
<1>11. MarkOK(mark'[x])
  BY <1>2, <1>3, <1>5 DEF Marked
<1>12. Apart' /\ Marked'
  BY <1>2, <1>3, <1>5, <1>6, <1>8, <1>9, <1>10, <1>11, Moved
<1>13. PathTyped'
  BY <1>2, <1>3 DEF PathTyped
<1> QED BY <1>2, <1>4, <1>12, <1>13 DEF PathInv

(* New meters are exact. *)
LEMMA NewMeters ==
  ASSUME NEW c \in Nat
  PROVE  NewMeter(c) \in MeterType
BY DEF NewMeter, MeterType

NothingCounted ==
  /\ cycle \in Nat /\ ~fault
  /\ queue = [b \in Banks |-> <<>>] /\ occupancy = [b \in Banks |-> 0]
  /\ meter = [m \in Meters |-> NewMeter(cycle)]
  /\ truth = [m \in Meters |-> [area |-> 0, full |-> 0]]

(* Before anything is queued there is nothing that a meter could miss. *)
LEMMA EmptyMeters == NothingCounted => MeterInv
<1> SUFFICES ASSUME NothingCounted PROVE MeterInv
  OBVIOUS
<1> USE DEF NothingCounted
<1>1. QueuesTyped
  BY NewMeters DEF QueuesTyped
<1>2. \A b \in Banks : occupancy[b] = Len(queue[b]) /\ Len(queue[b]) <= Depth(b)
  BY BankFacts
<1>3. ASSUME NEW m \in Meters
      PROVE  Counted(m) /\ Exact(m)
  <2>1. Held(m) = 0
    BY <1>3, BankFacts DEF Held
  <2>2. /\ meter[m].occupancy = 0 /\ meter[m].peak = 0
        /\ meter[m].pushes = 0 /\ meter[m].pops = 0
        /\ meter[m].area = 0 /\ meter[m].full = 0 /\ meter[m].last = cycle
        /\ truth[m].area = 0 /\ truth[m].full = 0
    BY DEF NewMeter
  <2>3. MeterDepth(m) \in Nat
    BY BankFacts
  <2>4. Counted(m)
    BY <2>1, <2>2, <2>3 DEF Counted
  <2>5. \A n \in Nat : n * (cycle - cycle) = 0
    OBVIOUS
  <2>6. One(meter[m].occupancy = MeterDepth(m)) \in Nat
    BY DEF One
  <2>7. Exact(m)
    BY <2>2, <2>5, <2>6 DEF Exact
  <2> QED BY <2>4, <2>7
<1> QED BY <1>1, <1>2, <1>3 DEF MeterInv

LEMMA InitMeters == Init => MeterInv
<1>1. Init => NothingCounted
  BY DEF Init, NothingCounted
<1> QED BY <1>1, EmptyMeters

NothingHeld ==
  /\ queue = [b \in Banks |-> <<>>]
  /\ ring = [r \in Rings |-> {}]
  /\ slot = [d \in Dirs |-> NoPkt]

Vacant ==
  /\ \A p \in Spots : At(p) = {}
  /\ \A b \in Banks : Once(queue[b], Packets)
  /\ Cardinality({d \in Dirs : slot[d] # NoPkt}) = 0

(* Spots are empty while queues, rings and outputs are. *)
LEMMA EmptySpots == NothingHeld => Vacant
<1> SUFFICES ASSUME NothingHeld PROVE Vacant
  OBVIOUS
<1> USE DEF NothingHeld
<1>1. \A b \in Banks : At(BankSpot(b)) = {}
  <2>1. In(<<>>, Packets) = {}
    BY DEF In
  <2> QED BY <2>1, SpotFacts
<1>2. \A r \in Rings, d \in Dirs : At(RingSpot(r, d)) = {}
  <2>1. \A d \in Dirs : Riders({}, d) = {}
    BY DEF Riders
  <2> QED BY <2>1, SpotFacts
<1>3. \A d \in Dirs : At(SlotSpot(d)) = {}
  <2>1. \A d \in Dirs : At(SlotSpot(d)) = {x \in Packets : slot[d] = x}
    BY SpotFacts
  <2> QED BY <2>1, PmuAssumption DEF PmuAssumption
<1>4. \A b \in Banks : Once(queue[b], Packets)
  BY DEF Once
<1>5. Cardinality({d \in Dirs : slot[d] # NoPkt}) = 0
  <2>1. {d \in Dirs : slot[d] # NoPkt} = {}
    OBVIOUS
  <2> QED BY <2>1, FS_EmptySet
<1> QED BY <1>1, <1>2, <1>3, <1>4, <1>5, SpotFacts DEF Vacant

LEMMA InitPath == Init => PathInv
<1> SUFFICES ASSUME Init PROVE PathInv
  OBVIOUS
<1>1. /\ \A p \in Spots : At(p) = {}
      /\ \A b \in Banks : Once(queue[b], Packets)
      /\ Cardinality({d \in Dirs : slot[d] # NoPkt}) = 0
  BY EmptySpots DEF Init, NothingHeld, Vacant
<1>2. Apart
  BY <1>1 DEF Apart
<1>3. MarkOK(ClearMark) /\ ClearMark \in MarkType
  BY PmuAssumption DEF MarkOK, ClearMark, MarkType, PmuAssumption
<1>4. Marked
  BY <1>3 DEF Init, Marked
<1>5. PathTyped
  BY <1>3 DEF Init, PathTyped, NoDeflections, CrossType
<1> QED BY <1>1, <1>2, <1>4, <1>5, InitMeters DEF Init, PathInv

(* The same after a step. *)
LEMMA EmptiedMeters == NothingCounted' => MeterInv'
BY EmptyMeters, PTL

LEMMA EmptiedSpots == NothingHeld' => Vacant'
BY EmptySpots, PTL

(* A reset leaves nothing under way and begins to count anew. *)
LEMMA ResetKeeps ==
  ASSUME PathInv, Reset
  PROVE  PathInv'
<1>1. MeterInv /\ PathTyped /\ Apart /\ Marked /\ cycle \in Nat /\ ~fault
  BY DEF PathInv, MeterInv, QueuesTyped
<1>2. MeterInv'
  BY <1>1, EmptiedMeters DEF Reset, NothingCounted
<1>3. Vacant'
  BY EmptiedSpots DEF Reset, NothingHeld
<1>4. /\ \A p \in Spots : At(p)' = {}
      /\ \A b \in Banks : Once(queue'[b], Packets)
      /\ rbrg' = Cardinality({d \in Dirs : slot'[d] # NoPkt})
  BY <1>3 DEF Vacant, Reset, Spots, BankSpot, RingSpot, SlotSpot
<1>5. Apart'
  BY <1>4 DEF Apart, Spots, BankSpot, RingSpot, SlotSpot
<1>6. ClearSpots \subseteq Spots
  BY SpotFacts
<1>7. Marked'
  <2>1. \A x \in Packets : ~\E p \in ClearSpots : x \in At(p)'
    BY <1>4, <1>6
  <2>2. UNCHANGED <<mark, sent>>
    BY DEF Reset
  <2> QED BY <1>1, <2>1, <2>2 DEF Marked, ClearSpots, BankSpot, SlotSpot
<1>8. PathTyped'
  <2>1. NoDeflections \in CrossType
    BY DEF NoDeflections, CrossType
  <2> QED BY <1>1, <2>1 DEF Reset, PathTyped
<1> QED BY <1>2, <1>4, <1>5, <1>7, <1>8 DEF PathInv

(* A cycle passes: every meter owes it, and is owed what its banks hold. *)
LEMMA TickKeeps ==
  ASSUME PathInv, Tick
  PROVE  PathInv'
<1>1. MeterInv /\ PathTyped /\ Apart /\ Marked /\ QueuesTyped
  BY DEF PathInv, MeterInv
<1>2. /\ UNCHANGED <<queue, occupancy, meter, ring, slot, mark, cross, rbrg, fault, sent>>
      /\ cycle' = cycle + 1
  BY DEF Tick
<1>3. ASSUME NEW m \in Meters
      PROVE  /\ truth'[m] \in [area : Nat, full : Nat]
             /\ Counted(m)' /\ Exact(m)'
  <2> DEFINE e == meter[m]
             full == One(e.occupancy = MeterDepth(m))
  <2>1. /\ Counted(m) /\ Exact(m) /\ e \in MeterType /\ cycle \in Nat
        /\ truth[m] \in [area : Nat, full : Nat]
    BY <1>1 DEF MeterInv, QueuesTyped
  <2>2. /\ e.occupancy = Held(m) /\ e.occupancy \in Nat /\ e.last \in Nat
        /\ e.area \in Nat /\ e.full \in Nat
    BY <2>1 DEF Counted, MeterType
  <2>3. full \in Nat
    BY DEF One
  <2>4. /\ truth'[m].area = truth[m].area + e.occupancy
        /\ truth'[m].full = truth[m].full + full
    <3>1. (\A b \in BanksOf(m) : Len(queue[b]) = Depth(b)) <=> e.occupancy = MeterDepth(m)
      BY <1>1, <2>2, HeldBounds
    <3>2. One(\A b \in BanksOf(m) : Len(queue[b]) = Depth(b)) = full
      BY <3>1 DEF One
    <3> QED BY <2>2, <3>2 DEF Tick
  <2>5. truth'[m] \in [area : Nat, full : Nat]
    <3>1. truth'[m] = [area |-> truth'[m].area, full |-> truth'[m].full]
      BY DEF Tick
    <3>2. truth'[m].area \in Nat /\ truth'[m].full \in Nat
      BY <2>1, <2>2, <2>3, <2>4
    <3> QED BY <3>1, <3>2
  <2>6. Counted(m)'
    BY <1>2, <2>1 DEF Counted, Held
  <2>7. \A n \in Nat : n * ((cycle + 1) - e.last) = n * (cycle - e.last) + n
    BY <2>1, <2>2
  <2>8. /\ truth[m].area = e.area + e.occupancy * (cycle - e.last)
        /\ truth[m].full = e.full + full * (cycle - e.last)
        /\ e.last <= cycle
    BY <2>1 DEF Exact
  <2> HIDE DEF full
  <2>9. /\ truth'[m].area = e.area + e.occupancy * ((cycle + 1) - e.last)
        /\ truth'[m].full = e.full + full * ((cycle + 1) - e.last)
    <3> DEFINE a == e.occupancy * (cycle - e.last)
               f == full * (cycle - e.last)
    <3>1. a \in Int /\ f \in Int
      BY <2>1, <2>2, <2>3
    <3>2. truth[m].area = e.area + a /\ truth[m].full = e.full + f
      BY <2>8
    <3>3. /\ e.occupancy * ((cycle + 1) - e.last) = a + e.occupancy
          /\ full * ((cycle + 1) - e.last) = f + full
      BY <2>2, <2>3, <2>7
    <3> HIDE DEF a, f
    <3> QED BY <2>2, <2>3, <2>4, <3>1, <3>2, <3>3
  <2>10. e.last <= cycle'
    BY <1>2, <2>1, <2>2, <2>8
  <2>11. Exact(m)'
    BY <1>2, <2>9, <2>10 DEF Exact, full
  <2> QED BY <2>5, <2>6, <2>11
<1>4. QueuesTyped'
  <2>1. cycle' \in Nat
    BY <1>1, <1>2 DEF QueuesTyped
  <2>2. truth' \in [Meters -> [area : Nat, full : Nat]]
    BY <1>3 DEF Tick
  <2> QED BY <1>1, <1>2, <2>1, <2>2 DEF QueuesTyped
<1>5. MeterInv'
  BY <1>1, <1>2, <1>3, <1>4 DEF MeterInv
<1>6. Apart' /\ Marked' /\ PathTyped'
  BY <1>1, <1>2 DEF Apart, Marked, PathTyped, At
<1> QED BY <1>2, <1>5, <1>6 DEF PathInv

-----------------------------------------------------------------------------
(* Deflections *)

(* What ring r has counted of the packets that left it, and of those on it. *)
Attributed(r) ==
  /\ IsFiniteSet(Late(r))
  /\ cross[r].unique = cross[r].completed + Cardinality(Late(r))
  /\ cross[r].events = cross[r].rounds + Cardinality(Rounds(r))
  /\ cross[r].completed <= cross[r].eligible

(* The deflections of finitely many packets are finitely many. *)
LEMMA FiniteRounds ==
  ASSUME NEW r \in Rings, IsFiniteSet(Late(r))
  PROVE  /\ IsFiniteSet(Rounds(r))
         /\ Cardinality(Rounds(r)) \in Nat /\ Cardinality(Late(r)) \in Nat
<1>1. IsFiniteSet(1 .. MaxRounds)
  BY PmuAssumption, FS_Interval DEF PmuAssumption
<1>2. IsFiniteSet(Late(r) \X (1 .. MaxRounds))
  BY <1>1, FS_Product
<1>3. Rounds(r) \in SUBSET (Late(r) \X (1 .. MaxRounds))
  BY DEF Rounds
<1>4. IsFiniteSet(Rounds(r))
  BY <1>2, <1>3, FS_Subset
<1> QED BY <1>4, FS_CardinalityType

(* A step that neither changes the late packets of a ring nor their count. *)
LEMMA LateSame ==
  ASSUME NEW r \in Rings, Attributed(r), cross'[r] = cross[r],
         \A x \in Packets : (\E d \in Dirs : <<x, d>> \in ring[r]) =>
           mark'[x] = mark[x],
         \A x \in Packets, d \in Dirs : <<x, d>> \in ring'[r] =>
           <<x, d>> \in ring[r] \/ ~mark'[x].started,
         \A x \in Packets, d \in Dirs : <<x, d>> \in ring[r] => <<x, d>> \in ring'[r]
  PROVE  Attributed(r)'
<1>1. Late(r)' = Late(r)
  BY DEF Late
<1>2. \A x \in Late(r) : mark'[x] = mark[x]
  BY DEF Late
<1>3. Rounds(r)' = Rounds(r)
  BY <1>1, <1>2 DEF Rounds
<1> QED BY <1>1, <1>3 DEF Attributed

(* A step that concerns neither rings nor deflections. *)
LEMMA RingsSame ==
  ASSUME NEW r \in Rings, Attributed(r), UNCHANGED <<cross, mark, ring>>
  PROVE  Attributed(r)'
BY LateSame

(* A packet that is somewhere is nowhere else. *)
LEMMA Elsewhere ==
  ASSUME Apart, NEW s \in Spots, NEW x \in At(s), NEW p \in Spots, p # s
  PROVE  x \notin At(p)
BY DEF Apart

(* A packet that enters a ring has not been deflected on it yet. *)
LEMMA InjectAttributes ==
  ASSUME PathInv, NEW q \in Rings, NEW e \in Dirs, Inject(q, e),
         NEW r \in Rings, Attributed(r)
  PROVE  Attributed(r)'
<1> DEFINE b == <<Source(q), e>>
           x == Head(queue[b])
<1>1. b \in Banks /\ b[1] \in {"niu", "hside"}
  BY RingBanks
<1>2. /\ queue[b] # <<>> /\ Pop(b)
      /\ ring' = [ring EXCEPT ![q] = @ \cup {<<x, e>>}]
      /\ UNCHANGED <<mark, cross>>
  BY DEF Inject
<1>3. MeterInv /\ PathTyped /\ Apart /\ Marked
  BY DEF PathInv
<1> HIDE DEF b, x
<1>4. x \in Packets /\ x \in At(BankSpot(b)) /\ BankSpot(b) \in ClearSpots
  <2>1. /\ queue[b] \in Seq(Packets) /\ Once(queue[b], Packets)
    BY <1>1, <1>3 DEF MeterInv, QueuesTyped, Apart
  <2>2. x \in Packets /\ x \in In(queue[b], Packets)
    BY <1>2, <2>1, TailOnce DEF x
  <2> QED BY <1>1, <2>2, SpotFacts
<1>5. ~mark[x].started
  BY <1>3, <1>4 DEF Marked, ClearMark
<1>6. ring'[r] \subseteq ring[r] \cup {<<x, e>>} /\ ring[r] \subseteq ring'[r]
  BY <1>2, <1>3 DEF PathTyped
<1> QED BY <1>2, <1>5, <1>6, LateSame

(* The bridge clears the deflections of a packet that is on no ring. *)
LEMMA CrossAttributes ==
  ASSUME PathInv, NEW i \in Dirs, NEW e \in Dirs, Cross(i, e),
         NEW r \in Rings, Attributed(r)
  PROVE  Attributed(r)'
<1> DEFINE b == <<"vside", i>>
           x == Head(queue[b])
<1>1. b \in Banks
  BY RingBanks
<1>2. /\ queue[b] # <<>> /\ mark' = [mark EXCEPT ![x] = ClearMark]
      /\ UNCHANGED <<ring, cross>>
  BY DEF Cross, Cleared
<1>3. MeterInv /\ PathTyped /\ Apart
  BY DEF PathInv
<1> HIDE DEF b, x
<1>4. x \in Packets /\ x \in At(BankSpot(b)) /\ BankSpot(b) \in Spots
  <2>1. /\ queue[b] \in Seq(Packets) /\ Once(queue[b], Packets)
    BY <1>1, <1>3 DEF MeterInv, QueuesTyped, Apart
  <2>2. x \in Packets /\ x \in In(queue[b], Packets)
    BY <1>2, <2>1, TailOnce DEF x
  <2> QED BY <1>1, <2>2, SpotFacts
<1>5. \A d \in Dirs : <<x, d>> \notin ring[r]
  <2> TAKE d \in Dirs
  <2>1. RingSpot(r, d) \in Spots /\ RingSpot(r, d) # BankSpot(b)
    BY <1>1, SpotFacts, SpotNames
  <2>2. x \notin At(RingSpot(r, d))
    BY <1>3, <1>4, <2>1, Elsewhere
  <2> QED BY <1>4, <2>2, SpotFacts DEF Riders
<1>6. \A y \in Packets : y # x => mark'[y] = mark[y]
  BY <1>2, <1>3 DEF PathTyped
<1> QED BY <1>2, <1>5, <1>6, LateSame

(* A deflected packet that leaves takes its deflections with it. *)
LEMMA EjectAttributes ==
  ASSUME PathInv, NEW q \in Rings, NEW x \in Packets, NEW e \in Dirs, Eject(q, x, e),
         NEW r \in Rings, Attributed(r)
  PROVE  Attributed(r)'
<1>1. /\ <<x, e>> \in ring[q] /\ ring' = [ring EXCEPT ![q] = @ \ {<<x, e>>}]
      /\ mark' = mark
  BY DEF Eject
<1>2. PathTyped /\ Apart /\ Marked
  BY DEF PathInv
<1>3. CASE r # q
  <2>1. ring'[r] = ring[r] /\ cross'[r] = cross[r]
    BY <1>1, <1>2, <1>3 DEF Eject, PathTyped
  <2> QED BY <1>1, <2>1, LateSame
<1>4. CASE r = q
  <2> DEFINE c == cross[r]
             k == mark[x]
             late == Late(r)
             rounds == Rounds(r)
             own == {x} \X (1 .. k.count)
  <2>1. /\ cross'[r].eligible = c.eligible + 1
        /\ cross'[r].completed = c.completed + One(k.started)
        /\ cross'[r].rounds = c.rounds + (IF k.started THEN k.count ELSE 0)
        /\ cross'[r].unique = c.unique /\ cross'[r].events = c.events
        /\ c \in CrossType /\ k \in MarkType
    BY <1>2, <1>4 DEF Eject, PathTyped, CrossType
  <2>2. /\ \A d \in Dirs : <<x, d>> \in ring[r] => d = e
        /\ \A y \in Packets, d \in Dirs :
             <<y, d>> \in ring'[r] <=> <<y, d>> \in ring[r] /\ ~(y = x /\ d = e)
    <3>1. ASSUME NEW d \in Dirs, <<x, d>> \in ring[r], d # e
          PROVE  FALSE
      <4>1. /\ RingSpot(r, d) \in Spots /\ RingSpot(r, e) \in Spots
            /\ RingSpot(r, d) # RingSpot(r, e)
        BY <3>1, SpotFacts, SpotNames
      <4>2. x \in At(RingSpot(r, d)) /\ x \in At(RingSpot(r, e))
        BY <1>1, <1>4, <3>1, SpotFacts DEF Riders
      <4> QED BY <1>2, <4>1, <4>2, Elsewhere
    <3>2. \A y \in Packets, d \in Dirs :
            <<y, d>> \in ring'[r] <=> <<y, d>> \in ring[r] /\ ~(y = x /\ d = e)
      BY <1>1, <1>2, <1>4 DEF PathTyped
    <3> QED BY <3>1, <3>2
  <2>3. Late(r)' = late \ {x} /\ (x \in late <=> k.started)
    BY <1>1, <1>4, <2>2 DEF Late
  <2>4. Rounds(r)' = rounds \ own
    <3>1. \A y \in late : mark[y] \in MarkType
      BY <1>2 DEF PathTyped, Late
    <3>2. \A y \in Rounds(r)' : y \in rounds \ own
      BY <1>1, <2>3 DEF Rounds
    <3>3. \A y \in rounds \ own : y \in Rounds(r)'
      <4> TAKE y \in rounds \ own
      <4>1. /\ y \in late \X (1 .. MaxRounds) /\ y = <<y[1], y[2]>>
            /\ y[2] <= mark[y[1]].count /\ y[2] \in Nat /\ 1 <= y[2]
        BY PmuAssumption DEF Rounds, PmuAssumption
      <4>2. y[1] # x
        <5> SUFFICES ASSUME y[1] = x PROVE FALSE
          OBVIOUS
        <5>1. y[2] \in 1 .. k.count
          BY <2>1, <4>1 DEF MarkType
        <5> QED BY <4>1, <5>1
      <4> QED BY <1>1, <2>3, <4>1, <4>2 DEF Rounds
    <3> QED BY <3>2, <3>3
  <2>5. /\ IsFiniteSet(late) /\ IsFiniteSet(rounds)
        /\ Cardinality(late) \in Nat /\ Cardinality(rounds) \in Nat
        /\ c.unique = c.completed + Cardinality(late)
        /\ c.events = c.rounds + Cardinality(rounds)
        /\ c.completed <= c.eligible
    BY FiniteRounds DEF Attributed
  <2>6. /\ c.unique \in Int /\ c.completed \in Int /\ c.events \in Int /\ c.rounds \in Int
        /\ c.eligible \in Int /\ k.count \in Nat
    BY <2>1 DEF CrossType, MarkType
  <2>7. CASE k.started
    <3>1. rounds \cap own = own
      <4>1. k.count <= MaxRounds
        BY <1>2 DEF Marked, MarkOK
      <4>2. \A n \in 1 .. k.count : n \in 1 .. MaxRounds
        BY <2>6, <4>1, PmuAssumption DEF PmuAssumption
      <4>3. \A y \in own : /\ y = <<x, y[2]>> /\ y[1] = x /\ y[2] \in 1 .. k.count
        OBVIOUS
      <4>4. \A y \in own : y \in rounds
        BY <2>3, <2>6, <2>7, <4>2, <4>3 DEF Rounds
      <4> QED BY <4>4
    <3>2. Cardinality(own) = k.count
      <4>1. IsFiniteSet({x}) /\ Cardinality({x}) = 1
        BY FS_Singleton
      <4>2. IsFiniteSet(1 .. k.count) /\ Cardinality(1 .. k.count) = k.count
        BY <2>6, FromOne
      <4>3. Cardinality(own) = Cardinality({x}) * Cardinality(1 .. k.count)
        BY <4>1, <4>2, FS_Product
      <4> QED BY <2>6, <4>1, <4>2, <4>3
    <3> HIDE DEF own, late, rounds
    <3>3. Cardinality(rounds \ own) = Cardinality(rounds) - k.count
      <4>1. Cardinality(rounds \ own) = Cardinality(rounds) - Cardinality(rounds \cap own)
        BY <2>5, FS_Difference, Zenon
      <4> QED BY <3>1, <3>2, <4>1
    <3>4. /\ IsFiniteSet(late \ {x})
          /\ Cardinality(late \ {x}) = Cardinality(late) - 1
      BY <2>3, <2>5, <2>7, FS_RemoveElement
    <3>5. One(k.started) = 1
      BY <2>7 DEF One
    <3> HIDE DEF c, k
    <3>6. /\ cross'[r].unique = cross'[r].completed + Cardinality(late \ {x})
          /\ cross'[r].events = cross'[r].rounds + Cardinality(rounds \ own)
          /\ cross'[r].completed <= cross'[r].eligible
      <4> DEFINE l == Cardinality(late)
                 n == Cardinality(rounds)
                 l2 == Cardinality(late \ {x})
                 n2 == Cardinality(rounds \ own)
      <4>1. l \in Nat /\ n \in Nat /\ l2 = l - 1 /\ n2 = n - k.count
        BY <2>5, <3>3, <3>4
      <4>2. c.unique = c.completed + l /\ c.events = c.rounds + n
        BY <2>5
      <4>3. /\ cross'[r].eligible = c.eligible + 1
            /\ cross'[r].completed = c.completed + 1
            /\ cross'[r].rounds = c.rounds + k.count
        BY <2>1, <2>7, <3>5
      <4> HIDE DEF l, n, l2, n2
      <4>4. cross'[r].unique = cross'[r].completed + l2
        BY <2>1, <2>6, <4>1, <4>2, <4>3
      <4>5. cross'[r].events = cross'[r].rounds + n2
        BY <2>1, <2>6, <4>1, <4>2, <4>3
      <4>6. cross'[r].completed <= cross'[r].eligible
        BY <2>5, <2>6, <4>3
      <4> QED BY <4>4, <4>5, <4>6 DEF l2, n2
    <3> QED BY <2>3, <2>4, <3>4, <3>6 DEF Attributed
  <2>8. CASE ~k.started
    <3>1. late \ {x} = late
      BY <2>3, <2>8
    <3>2. rounds \ own = rounds
      BY <2>3, <2>8 DEF Rounds
    <3>3. One(k.started) = 0
      BY <2>8 DEF One
    <3> HIDE DEF own, late, rounds, c, k
    <3>4. /\ cross'[r].unique = cross'[r].completed + Cardinality(late)
          /\ cross'[r].events = cross'[r].rounds + Cardinality(rounds)
          /\ cross'[r].completed <= cross'[r].eligible
      BY <2>1, <2>5, <2>6, <2>8, <3>3
    <3> QED BY <2>3, <2>4, <2>5, <3>1, <3>2, <3>4 DEF Attributed
  <2> QED BY <2>7, <2>8
<1> QED BY <1>3, <1>4

(* A deflection is the next round of a packet on the ring, or its first. *)
LEMMA DeflectAttributes ==
  ASSUME PathInv, NEW q \in Rings, NEW x \in Packets, NEW e \in Dirs, Deflect(q, x, e),
         NEW r \in Rings, Attributed(r)
  PROVE  Attributed(r)'
<1> DEFINE k == mark[x]
           n == IF k.started THEN [k EXCEPT !.count = k.count + 1]
                ELSE [started |-> TRUE, first |-> cycle, count |-> k.count + 1]
<1>1. /\ <<x, e>> \in ring[q] /\ ring' = ring /\ k.count < MaxRounds
      /\ mark' = [mark EXCEPT ![x] = n]
  BY DEF Deflect
<1>2. PathTyped /\ Apart /\ Marked
  BY DEF PathInv
<1>3. k \in MarkType /\ k.count \in Nat /\ MarkOK(k)
  BY <1>2 DEF PathTyped, Marked, MarkType
<1>4. n.started /\ n.count = k.count + 1
  BY <1>3 DEF MarkType
<1> HIDE DEF n
<1>5. mark'[x] = n /\ \A y \in Packets \ {x} : mark'[y] = mark[y]
  BY <1>1, <1>2 DEF PathTyped
<1>6. CASE r # q
  <2>1. \A d \in Dirs : <<x, d>> \notin ring[r]
    <3> TAKE d \in Dirs
    <3>1. /\ RingSpot(r, d) \in Spots /\ RingSpot(q, e) \in Spots
          /\ RingSpot(r, d) # RingSpot(q, e)
      BY <1>6, SpotFacts, SpotNames
    <3>2. x \in At(RingSpot(q, e))
      BY <1>1, SpotFacts DEF Riders
    <3>3. x \notin At(RingSpot(r, d))
      BY <1>2, <3>1, <3>2, Elsewhere
    <3> QED BY <3>3, SpotFacts DEF Riders
  <2>2. cross'[r] = cross[r]
    BY <1>2, <1>6 DEF Deflect, PathTyped
  <2> QED BY <1>1, <1>5, <2>1, <2>2, LateSame
<1>7. CASE r = q
  <2> DEFINE c == cross[r]
             late == Late(r)
             rounds == Rounds(r)
             next == <<x, k.count + 1>>
  <2>1. /\ cross'[r].eligible = c.eligible /\ cross'[r].completed = c.completed
        /\ cross'[r].rounds = c.rounds
        /\ cross'[r].unique = c.unique + One(~k.started)
        /\ cross'[r].events = c.events + 1
    BY <1>2, <1>7 DEF Deflect, PathTyped, CrossType
  <2>2. Late(r)' = late \cup {x} /\ (x \in late <=> k.started)
    BY <1>1, <1>4, <1>5, <1>7 DEF Late
  <2>3. next \notin rounds
    BY <1>3 DEF Rounds
  <2>4. Rounds(r)' = rounds \cup {next}
    <3>1. k.count + 1 \in 1 .. MaxRounds
      BY <1>1, <1>3, PmuAssumption DEF PmuAssumption
    <3>2. next \in Rounds(r)'
      BY <1>3, <1>4, <1>5, <2>2, <3>1 DEF Rounds
    <3>3. ASSUME NEW y \in rounds
          PROVE  y \in Rounds(r)'
      <4>1. /\ y \in late \X (1 .. MaxRounds) /\ y[2] <= mark[y[1]].count
            /\ y[2] \in Nat /\ y[1] \in Packets
        BY PmuAssumption DEF Rounds, Late, PmuAssumption
      <4>2. y[2] <= mark'[y[1]].count
        BY <1>3, <1>4, <1>5, <4>1
      <4> QED BY <2>2, <4>1, <4>2 DEF Rounds
    <3>4. ASSUME NEW y \in Rounds(r)'
          PROVE  y \in rounds \cup {next}
      <4>1. /\ y[1] \in late \cup {x} /\ y[2] \in 1 .. MaxRounds /\ y = <<y[1], y[2]>>
            /\ y[2] <= mark'[y[1]].count /\ y[2] \in Nat /\ 1 <= y[2]
        BY <2>2, PmuAssumption DEF Rounds, PmuAssumption
      <4>2. CASE y[1] # x
        <5>1. y[1] \in late /\ y[1] \in Packets
          BY <4>1, <4>2 DEF Late
        <5>2. y[2] <= mark[y[1]].count
          BY <1>5, <4>1, <4>2, <5>1
        <5> QED BY <4>1, <5>1, <5>2 DEF Rounds
      <4>3. CASE y[1] = x
        <5>1. y[2] <= k.count + 1
          BY <1>4, <1>5, <4>1, <4>3
        <5>2. CASE y[2] = k.count + 1
          BY <4>1, <4>3, <5>2
        <5>3. CASE y[2] # k.count + 1
          <6>1. y[2] <= k.count
            BY <1>3, <4>1, <5>1, <5>3
          <6>2. k.started
            BY <1>3, <4>1, <6>1 DEF MarkOK
          <6> QED BY <2>2, <4>1, <4>3, <6>1, <6>2 DEF Rounds
        <5> QED BY <5>2, <5>3
      <4> QED BY <4>2, <4>3
    <3> QED BY <3>2, <3>3, <3>4
  <2>5. /\ IsFiniteSet(late) /\ IsFiniteSet(rounds)
        /\ Cardinality(late) \in Nat /\ Cardinality(rounds) \in Nat
        /\ c.unique = c.completed + Cardinality(late)
        /\ c.events = c.rounds + Cardinality(rounds)
        /\ c.completed <= c.eligible
    BY FiniteRounds DEF Attributed
  <2>6. c.completed \in Int /\ c.rounds \in Int
    BY <1>2 DEF PathTyped, CrossType
  <2> HIDE DEF late, rounds, c, next
  <2>7. Cardinality(rounds \cup {next}) = Cardinality(rounds) + 1
    BY <2>3, <2>5, FS_AddElement
  <2>8. /\ IsFiniteSet(late \cup {x})
        /\ Cardinality(late \cup {x}) = Cardinality(late) + One(~k.started)
    BY <2>2, <2>5, FS_AddElement DEF One
  <2>9. One(~k.started) \in Nat
    BY DEF One
  <2>10. cross'[r].unique = cross'[r].completed + Cardinality(late \cup {x})
    BY <2>1, <2>5, <2>6, <2>8, <2>9
  <2>11. cross'[r].events = cross'[r].rounds + Cardinality(rounds \cup {next})
    BY <2>1, <2>5, <2>6, <2>7
  <2> QED BY <2>1, <2>2, <2>4, <2>5, <2>8, <2>10, <2>11 DEF Attributed
<1> QED BY <1>6, <1>7

(* A ring that carries nothing and has counted nothing. *)
EmptyRing(r) == ring[r] = {} /\ cross[r] = NoDeflections

LEMMA NothingLate ==
  ASSUME NEW r \in Rings
  PROVE  EmptyRing(r) => Attributed(r)
<1> SUFFICES ASSUME EmptyRing(r) PROVE Attributed(r)
  OBVIOUS
<1>1. Late(r) = {} /\ Rounds(r) = {}
  BY DEF EmptyRing, Late, Rounds
<1>2. IsFiniteSet({}) /\ Cardinality({}) = 0
  BY FS_EmptySet
<1> QED BY <1>1, <1>2 DEF EmptyRing, NoDeflections, Attributed

LEMMA NothingLateNext ==
  ASSUME NEW r \in Rings, ring'[r] = {}, cross'[r] = NoDeflections
  PROVE  Attributed(r)'
<1>1. Late(r)' = {} /\ Rounds(r)' = {}
  BY DEF Late, Rounds
<1>2. IsFiniteSet({}) /\ Cardinality({}) = 0
  BY FS_EmptySet
<1> QED BY <1>1, <1>2 DEF NoDeflections, Attributed

-----------------------------------------------------------------------------
(* The invariant *)

PmuInv == PathInv /\ \A r \in Rings : Attributed(r)

LEMMA InitPmu == Init => PmuInv
<1> SUFFICES ASSUME Init PROVE PmuInv
  OBVIOUS
<1>1. \A r \in Rings : EmptyRing(r)
  BY DEF Init, EmptyRing
<1> QED BY <1>1, InitPath, NothingLate DEF PmuInv

LEMMA NextPmu ==
  ASSUME PmuInv, Next
  PROVE  PmuInv'
<1>1. PathInv /\ \A r \in Rings : Attributed(r)
  BY DEF PmuInv
<1>2. CASE \E x \in Packets, d \in Dirs : Request(x, d)
  <2>1. PathInv'
    BY <1>1, <1>2, RequestKeeps
  <2>2. UNCHANGED <<cross, mark, ring>>
    BY <1>2 DEF Request
  <2> QED BY <1>1, <2>1, <2>2, RingsSame DEF PmuInv
<1>3. CASE \E r \in Rings, d \in Dirs : Inject(r, d)
  BY <1>1, <1>3, InjectKeeps, InjectAttributes DEF PmuInv
<1>4. CASE \E r \in Rings, x \in Packets, d \in Dirs : Eject(r, x, d)
  BY <1>1, <1>4, EjectKeeps, EjectAttributes DEF PmuInv
<1>5. CASE \E r \in Rings, x \in Packets, d \in Dirs : Deflect(r, x, d)
  BY <1>1, <1>5, DeflectKeeps, DeflectAttributes DEF PmuInv
<1>6. CASE \E i, d \in Dirs : Cross(i, d)
  BY <1>1, <1>6, CrossKeeps, CrossAttributes DEF PmuInv
<1>7. CASE \E d \in Dirs : HandOff(d)
  <2>1. PathInv'
    BY <1>1, <1>7, HandOffKeeps
  <2>2. UNCHANGED <<cross, mark, ring>>
    BY <1>7 DEF HandOff
  <2> QED BY <1>1, <2>1, <2>2, RingsSame DEF PmuInv
<1>8. CASE Take
  <2>1. UNCHANGED <<cross, mark, ring>>
    BY <1>8 DEF Take
  <2> QED BY <1>1, <1>8, <2>1, TakeKeeps, RingsSame DEF PmuInv
<1>9. CASE Reset
  <2>1. \A r \in Rings : ring'[r] = {} /\ cross'[r] = NoDeflections
    BY <1>9 DEF Reset
  <2> QED BY <1>1, <1>9, <2>1, ResetKeeps, NothingLateNext DEF PmuInv
<1>10. CASE Tick
  <2>1. UNCHANGED <<cross, mark, ring>>
    BY <1>10 DEF Tick
  <2> QED BY <1>1, <1>10, <2>1, TickKeeps, RingsSame DEF PmuInv
<1> QED
  BY <1>2, <1>3, <1>4, <1>5, <1>6, <1>7, <1>8, <1>9, <1>10 DEF Next

LEMMA IdlePmu ==
  ASSUME PmuInv, UNCHANGED vars
  PROVE  PmuInv'
<1>1. PathInv /\ \A r \in Rings : Attributed(r)
  BY DEF PmuInv
<1>2. /\ UNCHANGED <<cycle, queue, occupancy, meter, truth, fault>>
      /\ UNCHANGED <<ring, slot, mark, cross, rbrg, sent>>
  BY DEF vars
<1>3. MeterInv'
  BY <1>1, <1>2 DEF PathInv, MeterInv, QueuesTyped, Counted, Exact, Held
<1>4. Apart' /\ Marked' /\ PathTyped'
  BY <1>1, <1>2 DEF PathInv, Apart, Marked, PathTyped, At
<1>5. PathInv'
  BY <1>1, <1>2, <1>3, <1>4 DEF PathInv
<1>6. \A r \in Rings : Attributed(r)'
  BY <1>1, <1>2, RingsSame
<1> QED BY <1>5, <1>6 DEF PmuInv

LEMMA PmuHolds == Spec => []PmuInv
<1>1. PmuInv /\ [Next]_vars => PmuInv'
  BY NextPmu, IdlePmu
<1> QED BY <1>1, InitPmu, PTL DEF Spec

(* What the banks hold, what the node interfaces count and what the meters *)
(* count agree, though the meter of the bridge's two eject banks is told   *)
(* neither occupancy: TmRingQueueMeter::record_push and record_pop never   *)
(* refuse, and the occupancy of the bridge is that of its serializers.     *)
THEOREM MetersAgree == Spec => []MeterAgreesWithQueues
<1>1. PmuInv => MeterAgreesWithQueues
  BY DEF PmuInv, PathInv, MeterInv, Counted, MeterAgreesWithQueues
<1> QED BY <1>1, PmuHolds, PTL

(* A snapshot reports the packet-cycles and the full cycles that have      *)
(* passed since the reset, though settle_queue runs only when something    *)
(* happens to a meter.                                                     *)
THEOREM SnapshotsAreExact == Spec => []SnapshotIsExact
<1>1. ASSUME PmuInv PROVE SnapshotIsExact
  <2> SUFFICES ASSUME NEW m \in Meters
               PROVE  /\ Snapshot(m).area = truth[m].area
                      /\ Snapshot(m).full = truth[m].full
    BY DEF SnapshotIsExact
  <2> DEFINE e == meter[m]
             area == e.area + e.occupancy * (cycle - e.last)
             full == e.full + One(e.occupancy = MeterDepth(m)) * (cycle - e.last)
  <2>1. e \in MeterType /\ truth[m].area = area /\ truth[m].full = full
    BY <1>1 DEF PmuInv, PathInv, MeterInv, QueuesTyped, Exact
  <2>2. Snapshot(m) = [e EXCEPT !.area = area, !.full = full, !.last = cycle]
    BY <2>1 DEF Snapshot, Settled, MeterType
  <2> HIDE DEF area, full
  <2>3. Snapshot(m).area = area /\ Snapshot(m).full = full
    BY <2>1, <2>2 DEF MeterType
  <2> QED BY <2>1, <2>3
<1>2. PmuInv => SnapshotIsExact
  BY <1>1
<1> QED BY <1>2, PmuHolds, PTL

(* Every deflection a ring reports is of a packet that has left it since   *)
(* or is still on it: the state cross_packet_deflected and                 *)
(* cross_packet_ejected leave on a packet never reaches the next ring.     *)
THEOREM DeflectionsAttributed == Spec => []DeflectionsAreAttributed
<1>1. PmuInv => DeflectionsAreAttributed
  BY DEF PmuInv, Attributed, DeflectionsAreAttributed
<1> QED BY <1>1, PmuHolds, PTL
=============================================================================
