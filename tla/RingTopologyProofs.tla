------------------------- MODULE RingTopologyProofs -------------------------
(***************************************************************************)
(* Proofs about RingTopology: the layout of every configuration that the   *)
(* fabric accepts is one to one, on the H-Ring between stations and        *)
(* bridges, Home Agents and L2 Buffers, on the V-Rings between masters and *)
(* the stations behind the bridge; and the routes and carriers of its      *)
(* rings take the shortest way.  And about RingAddress: every line has one *)
(* home, for every hash, because the lowest bits of a hash tell the lines  *)
(* of a stretch apart.                                                     *)
(***************************************************************************)
EXTENDS RingAddress, FiniteSetTheorems, SharedLemmas, TLAPS

(* A configuration that validate_ring_config lets pass. *)
Accepted(c) == /\ c.masters \in Nat /\ c.perRing \in Nat /\ c.targets \in Nat
              /\ Valid(c)

(* An accepted configuration has a V-Ring and stations on the H-Ring. *)
LEMMA Sizes ==
  ASSUME NEW c, Accepted(c)
  PROVE  /\ VRings(c) \in Nat \ {0} /\ HStations(c) \in Nat \ {0}
         /\ c.targets \in Nat \ {0}
         /\ HStations(c) = VRings(c) + 2 * c.targets
<1>1. /\ c.masters \in Nat \ {0} /\ c.perRing \in Nat \ {0}
      /\ c.targets \in Nat \ {0}
  BY DEF Accepted, Valid
<1>2. c.masters + c.perRing - 1 \in Nat
  BY <1>1
<1>3. /\ VRings(c) \in Nat
      /\ c.masters + c.perRing - 1 < c.perRing * VRings(c) + c.perRing
  BY <1>1, <1>2, Quotient DEF VRings
<1>4. VRings(c) # 0
  BY <1>1, <1>3
<1> QED BY <1>1, <1>3, <1>4 DEF HStations

(* Spreading the bridges by division gives each a station of its own. *)
LEMMA BridgesApart ==
  ASSUME NEW c, Accepted(c)
  PROVE  /\ \A r \in VRing(c) : BridgeStation(c, r) \in HStation(c)
         /\ \A r, q \in VRing(c) :
              BridgeStation(c, r) = BridgeStation(c, q) => r = q
<1> DEFINE R == VRings(c)
           N == HStations(c)
           B(r) == BridgeStation(c, r)
<1>1. R \in Nat \ {0} /\ N \in Nat \ {0} /\ R <= N
  BY Sizes
<1>2. ASSUME NEW r \in VRing(c)
      PROVE  /\ r \in Nat /\ r < R /\ r * N \in Nat
             /\ B(r) \in Nat /\ R * B(r) <= r * N /\ r * N < R * B(r) + R
  <2>1. r \in Nat /\ r < R
    BY <1>1 DEF VRing
  <2>2. r * N \in Nat
    BY <1>1, <2>1
  <2> QED BY <1>1, <2>1, <2>2, Quotient DEF BridgeStation
<1> HIDE DEF R, N, B
<1>3. ASSUME NEW r \in VRing(c) PROVE B(r) < N
  <2>1. r \in Nat /\ r < R /\ B(r) \in Nat /\ R * B(r) <= r * N
    BY <1>2
  <2>2. r * N \in Nat /\ R * N \in Nat /\ r * N + N <= R * N
    BY <1>1, <2>1, Multiples
  <2>3. R * B(r) \in Nat
    BY <1>1, <2>1
  <2>4. R * B(r) < R * N
    BY <1>1, <2>1, <2>2, <2>3
  <2> QED BY <1>1, <2>1, <2>4, Smaller
<1>4. ASSUME NEW r \in VRing(c), NEW q \in VRing(c), r < q PROVE B(r) # B(q)
  <2>1. /\ r \in Nat /\ R * B(r) <= r * N
        /\ q \in Nat /\ q * N < R * B(q) + R
        /\ B(r) \in Nat /\ B(q) \in Nat
    BY <1>2
  <2>2. r * N \in Nat /\ q * N \in Nat /\ r * N + N <= q * N
    BY <1>1, <1>4, <2>1, Multiples
  <2>3. R * B(r) \in Nat /\ R * B(q) \in Nat
    BY <1>1, <2>1
  <2>4. R * B(r) < R * B(q)
    BY <1>1, <2>1, <2>2, <2>3
  <2> QED BY <2>3, <2>4
<1>5. \A r \in VRing(c) : B(r) \in HStation(c)
  BY <1>1, <1>2, <1>3 DEF HStation, N
<1>6. \A r, q \in VRing(c) : B(r) = B(q) => r = q
  <2>1. \A r \in VRing(c) : r \in Nat
    BY <1>2
  <2>2. \A r, q \in VRing(c) : r < q \/ q < r \/ r = q
    BY <2>1
  <2> QED BY <1>4, <2>2
<1> QED BY <1>5, <1>6 DEF B

(* The bridges leave two stations for every target. *)
LEMMA TargetStationCount ==
  ASSUME NEW c, Accepted(c)
  PROVE  /\ TargetStations(c) \in SUBSET Nat /\ IsFiniteSet(TargetStations(c))
         /\ Cardinality(TargetStations(c)) = 2 * c.targets
<1> DEFINE B == {BridgeStation(c, r) : r \in VRing(c)}
           f == [r \in VRing(c) |-> BridgeStation(c, r)]
<1>1. f \in Bijection(VRing(c), B)
  <2>1. f \in Injection(VRing(c), B)
    BY BridgesApart DEF Injection, IsInjective
  <2> QED BY <2>1 DEF Bijection, Surjection
<1>2. /\ IsFiniteSet(VRing(c)) /\ Cardinality(VRing(c)) = VRings(c)
      /\ IsFiniteSet(HStation(c)) /\ Cardinality(HStation(c)) = HStations(c)
  <2>1. VRings(c) \in Nat \ {0} /\ HStations(c) \in Nat \ {0}
    BY Sizes
  <2>2. /\ IsFiniteSet(0 .. VRings(c) - 1)
        /\ Cardinality(0 .. VRings(c) - 1) = VRings(c)
    BY <2>1, FromZero
  <2>3. /\ IsFiniteSet(0 .. HStations(c) - 1)
        /\ Cardinality(0 .. HStations(c) - 1) = HStations(c)
    BY <2>1, FromZero
  <2> QED BY <2>2, <2>3 DEF VRing, HStation
<1>3. IsFiniteSet(B) /\ Cardinality(B) = VRings(c)
  BY <1>1, <1>2, FS_Bijection DEF ExistsBijection
<1>4. HStation(c) \cap B = B
  BY BridgesApart
<1>5. /\ IsFiniteSet(HStation(c) \ B)
      /\ Cardinality(HStation(c) \ B) = Cardinality(HStation(c)) - Cardinality(B)
  <2> HIDE DEF B
  <2> QED BY <1>2, <1>4, FS_Difference
<1> QED BY <1>2, <1>3, <1>5, Sizes DEF TargetStations, HStation

(* The stations left are numbered without a gap, each once. *)
LEMMA PlacesInOrder ==
  ASSUME NEW c, Accepted(c)
  PROVE  /\ \A i \in 0 .. 2 * c.targets - 1 :
              /\ TargetStation(c, i) \in TargetStations(c)
              /\ Place(c, TargetStation(c, i)) = i
         /\ \A s \in TargetStations(c) :
              \E i \in 0 .. 2 * c.targets - 1 : TargetStation(c, i) = s
<1> DEFINE T == TargetStations(c)
           K == 2 * c.targets
           Below(s) == {x \in T : x < s}
           f == [s \in T |-> Place(c, s)]
<1>1. /\ T \in SUBSET Nat /\ IsFiniteSet(T) /\ Cardinality(T) = K
      /\ K \in Nat
  BY TargetStationCount, Sizes
<1>2. ASSUME NEW s \in T
      PROVE  /\ IsFiniteSet(Below(s)) /\ Place(c, s) = Cardinality(Below(s))
             /\ Place(c, s) \in 0 .. K - 1
  <2>1. /\ IsFiniteSet(Below(s)) /\ Cardinality(Below(s)) <= Cardinality(T)
        /\ Cardinality(T) = Cardinality(Below(s)) => T = Below(s)
    <3>1. Below(s) \in SUBSET T
      OBVIOUS
    <3> QED BY <1>1, <3>1, FS_Subset
  <2>2. s \in T /\ s \notin Below(s)
    BY <1>1
  <2>3. Cardinality(Below(s)) \in Nat
    BY <2>1, FS_CardinalityType
  <2>4. Place(c, s) = Cardinality(Below(s))
    BY DEF Place
  <2> QED BY <1>1, <2>1, <2>2, <2>3, <2>4
<1>3. ASSUME NEW s \in T, NEW t \in T, s < t PROVE Place(c, s) # Place(c, t)
  <2>1. Below(s) \in SUBSET Below(t) /\ s \in Below(t) /\ s \notin Below(s)
    BY <1>1, <1>3
  <2>2. Cardinality(Below(s)) # Cardinality(Below(t))
    BY <1>2, <2>1, FS_Subset
  <2> QED BY <1>2, <2>2
<1>4. f \in Injection(T, 0 .. K - 1)
  <2>1. f \in [T -> 0 .. K - 1]
    BY <1>2
  <2>2. \A s, t \in T : f[s] = f[t] => s = t
    BY <1>1, <1>3
  <2> QED BY <2>1, <2>2 DEF Injection, IsInjective
<1>5. IsFiniteSet(0 .. K - 1) /\ Cardinality(0 .. K - 1) = K
  BY <1>1, FromZero
<1>6. f \in Surjection(T, 0 .. K - 1)
  BY <1>1, <1>4, <1>5, FS_Injection
<1>7. \A i \in 0 .. K - 1 : \E s \in T : Place(c, s) = i
  BY <1>6 DEF Surjection
<1>8. \A i \in 0 .. K - 1 :
        TargetStation(c, i) \in T /\ Place(c, TargetStation(c, i)) = i
  BY <1>7 DEF TargetStation
<1>9. \A s \in T : TargetStation(c, Place(c, s)) = s
  <2>1. \A s, t \in T : Place(c, s) = Place(c, t) => s = t
    BY <1>4 DEF Injection, IsInjective
  <2> QED BY <1>2, <1>8, <2>1
<1> QED BY <1>2, <1>8, <1>9

(* Home Agents and L2 Buffers, taken alternately, get different places. *)
LEMMA PlacesAlternate ==
  ASSUME NEW n \in Nat, NEW t \in 0 .. n - 1, NEW u \in 0 .. n - 1
  PROVE  /\ HAPlace(t) \in 0 .. 2 * n - 1 /\ L2Place(t) \in 0 .. 2 * n - 1
         /\ HAPlace(t) = HAPlace(u) => t = u
         /\ L2Place(t) = L2Place(u) => t = u
         /\ HAPlace(t) # L2Place(u)
BY DEF HAPlace, L2Place

(* Every place is taken by a Home Agent or an L2 Buffer. *)
LEMMA PlacesCovered ==
  ASSUME NEW n \in Nat, NEW i \in 0 .. 2 * n - 1
  PROVE  i \div 2 \in 0 .. n - 1 /\ (i = HAPlace(i \div 2) \/ i = L2Place(i \div 2))
BY DEF HAPlace, L2Place

(* The layout of an accepted configuration fills the H-Ring. *)
LEMMA LayoutFilled ==
  ASSUME NEW c, Accepted(c)
  PROVE  LET t == Topology(c)
         IN  /\ {At(t, x) : x \in HNodes(t)} = 0 .. t.hSize - 1
             /\ \A x, y \in HNodes(t) : At(t, x) = At(t, y) => x = y
<1> DEFINE t == Topology(c)
           K == 2 * c.targets
           I == 0 .. c.targets - 1
           S(i) == TargetStation(c, i)
<1>1. /\ t.hSize = HStations(c)
      /\ DOMAIN t.bridge = VRing(c) /\ DOMAIN t.ha = I /\ DOMAIN t.l2 = I
      /\ \A r \in VRing(c) : t.bridge[r] = BridgeStation(c, r)
      /\ \A k \in I : t.ha[k] = S(HAPlace(k)) /\ t.l2[k] = S(L2Place(k))
  BY DEF Topology
<1>2. c.targets \in Nat
  BY Sizes
<1>3. /\ \A i \in 0 .. K - 1 : S(i) \in TargetStations(c)
      /\ \A i, j \in 0 .. K - 1 : S(i) = S(j) => i = j
  BY PlacesInOrder
<1>4. \A s \in TargetStations(c) : \E i \in 0 .. K - 1 : S(i) = s
  BY PlacesInOrder
<1> HIDE DEF t, S
<1>5. /\ \A r \in VRing(c) : <<"bridge", r>> \in HNodes(t)
                              /\ At(t, <<"bridge", r>>) = BridgeStation(c, r)
      /\ \A k \in I : <<"ha", k>> \in HNodes(t)
                              /\ At(t, <<"ha", k>>) = S(HAPlace(k))
      /\ \A k \in I : <<"l2", k>> \in HNodes(t)
                              /\ At(t, <<"l2", k>>) = S(L2Place(k))
  BY <1>1 DEF HNodes, At
<1>6. ASSUME NEW x \in HNodes(t)
      PROVE  \/ x[1] = "bridge" /\ x[2] \in VRing(c) /\ x = <<"bridge", x[2]>>
             \/ x[1] = "ha" /\ x[2] \in I /\ x = <<"ha", x[2]>>
             \/ x[1] = "l2" /\ x[2] \in I /\ x = <<"l2", x[2]>>
  BY <1>1 DEF HNodes
<1>7. HStation(c) = 0 .. t.hSize - 1
  BY <1>1 DEF HStation
<1>8. ASSUME NEW x \in HNodes(t) PROVE At(t, x) \in HStation(c)
  <2>1. TargetStations(c) \subseteq HStation(c)
    BY DEF TargetStations
  <2>2. \A r \in VRing(c) : BridgeStation(c, r) \in HStation(c)
    BY BridgesApart
  <2>3. \A k \in I : HAPlace(k) \in 0 .. K - 1 /\ L2Place(k) \in 0 .. K - 1
    BY <1>2, PlacesAlternate
  <2> QED BY <1>3, <1>5, <1>6, <2>1, <2>2, <2>3
<1>9. ASSUME NEW s \in HStation(c) PROVE \E x \in HNodes(t) : At(t, x) = s
  <2>1. CASE s \in TargetStations(c)
    <3>1. PICK i \in 0 .. K - 1 : S(i) = s
      BY <1>4, <2>1
    <3>2. /\ i \div 2 \in I
          /\ i = HAPlace(i \div 2) \/ i = L2Place(i \div 2)
      BY <1>2, PlacesCovered
    <3> QED BY <1>5, <3>1, <3>2
  <2>2. CASE s \notin TargetStations(c)
    <3>1. PICK r \in VRing(c) : BridgeStation(c, r) = s
      BY <2>2 DEF TargetStations
    <3> QED BY <1>5, <3>1
  <2> QED BY <2>1, <2>2
<1>10. ASSUME NEW x \in HNodes(t), NEW y \in HNodes(t), At(t, x) = At(t, y)
       PROVE  x = y
  <2>1. \A k \in I : /\ HAPlace(k) \in 0 .. K - 1 /\ L2Place(k) \in 0 .. K - 1
                     /\ S(HAPlace(k)) \in TargetStations(c)
                     /\ S(L2Place(k)) \in TargetStations(c)
    BY <1>2, <1>3, PlacesAlternate
  <2>2. \A r \in VRing(c) : BridgeStation(c, r) \notin TargetStations(c)
    BY DEF TargetStations
  <2>3. \A k, l \in I : /\ S(HAPlace(k)) = S(HAPlace(l)) => k = l
                        /\ S(L2Place(k)) = S(L2Place(l)) => k = l
                        /\ S(HAPlace(k)) # S(L2Place(l))
    BY <1>2, <1>3, <2>1, PlacesAlternate
  <2>4. \A r, q \in VRing(c) : BridgeStation(c, r) = BridgeStation(c, q) => r = q
    BY BridgesApart
  <2>5. CASE x[1] = "bridge"
    BY <1>5, <1>6, <1>10, <2>1, <2>2, <2>4, <2>5
  <2>6. CASE x[1] = "ha"
    BY <1>5, <1>6, <1>10, <2>1, <2>2, <2>3, <2>6
  <2>7. CASE x[1] = "l2"
    BY <1>5, <1>6, <1>10, <2>1, <2>2, <2>3, <2>7
  <2> QED BY <1>6, <2>5, <2>6, <2>7
<1>11. {At(t, x) : x \in HNodes(t)} = 0 .. t.hSize - 1
  BY <1>7, <1>8, <1>9
<1> QED BY <1>10, <1>11 DEF t

(* The number of the first master of ring r, also of the ring after the    *)
(* last: as many as there are masters on the rings before.                 *)
LEMMA MastersInRow ==
  ASSUME NEW c, Accepted(c)
  PROVE  /\ \A r \in 0 .. VRings(c) : FirstMaster(c, r) \in Nat
         /\ \A r \in VRing(c) :
              /\ MastersOn(c, r) \in Nat
              /\ FirstMaster(c, r + 1) = FirstMaster(c, r) + MastersOn(c, r)
         /\ FirstMaster(c, 0) = 0
         /\ FirstMaster(c, VRings(c)) = c.masters
         /\ \A r \in VRing(c), q \in 0 .. VRings(c) :
              r < q => FirstMaster(c, r + 1) <= FirstMaster(c, q)
<1> DEFINE R == VRings(c)
           each == c.masters \div R
           rest == c.masters % R
<1>1. /\ R \in Nat \ {0} /\ each \in Nat /\ rest \in 0 .. R - 1
      /\ c.masters = R * each + rest
  <2>1. R \in Nat \ {0} /\ c.masters \in Nat
    BY Sizes DEF Accepted
  <2> HIDE DEF R
  <2> QED BY <2>1, Quotient, Rest
<1>2. /\ \A r : MastersOn(c, r) = each + (IF r < rest THEN 1 ELSE 0)
      /\ \A r : FirstMaster(c, r) = r * each + (IF r < rest THEN r ELSE rest)
  BY <1>1 DEF MastersOn, FirstMaster
<1>3. VRing(c) = 0 .. R - 1
  BY DEF VRing
<1> HIDE DEF R, each, rest
<1>4. \A r \in 0 .. R : r * each \in Nat /\ FirstMaster(c, r) \in Nat
  BY <1>1, <1>2
<1>5. ASSUME NEW r \in 0 .. R - 1
      PROVE  /\ MastersOn(c, r) \in Nat
             /\ FirstMaster(c, r + 1) = FirstMaster(c, r) + MastersOn(c, r)
  <2>1. (r + 1) * each = r * each + each /\ r * each \in Nat
    BY <1>1
  <2>2. /\ MastersOn(c, r) = each + (IF r < rest THEN 1 ELSE 0)
        /\ FirstMaster(c, r) = r * each + (IF r < rest THEN r ELSE rest)
        /\ FirstMaster(c, r + 1) =
             r * each + each + (IF r + 1 < rest THEN r + 1 ELSE rest)
    BY <1>2, <2>1
  <2>3. CASE r < rest
    BY <1>1, <2>1, <2>2, <2>3
  <2>4. CASE ~(r < rest)
    BY <1>1, <2>1, <2>2, <2>4
  <2> QED BY <2>3, <2>4
<1>6. FirstMaster(c, 0) = 0 /\ FirstMaster(c, R) = c.masters
  <2>1. 0 * each = 0 /\ R * each \in Nat
    BY <1>1
  <2> QED BY <1>1, <1>2, <2>1
<1>7. ASSUME NEW r \in 0 .. R - 1, NEW q \in 0 .. R, r < q
      PROVE  FirstMaster(c, r + 1) <= FirstMaster(c, q)
  <2>1. CASE q = r + 1
    BY <1>4, <2>1
  <2>2. CASE r + 1 < q
    <3>1. (r + 1) * each \in Nat /\ q * each \in Nat
          /\ (r + 1) * each + each <= q * each
      <4>1. r + 1 \in Nat /\ q \in Nat
        OBVIOUS
      <4> QED BY <1>1, <2>2, <4>1, Multiples
    <3> QED BY <1>1, <1>2, <2>2, <3>1
  <2> QED BY <1>7, <2>1, <2>2
<1> QED BY <1>3, <1>4, <1>5, <1>6, <1>7 DEF R

(* No ring gets more masters than it may have, and rings differ by one. *)
LEMMA MastersFit ==
  ASSUME NEW c, Accepted(c)
  PROVE  /\ \A r \in VRing(c) : MastersOn(c, r) \in 0 .. c.perRing
         /\ \A r, q \in VRing(c) : MastersOn(c, r) <= MastersOn(c, q) + 1
<1> DEFINE R == VRings(c)
           each == c.masters \div R
           rest == c.masters % R
           P == c.perRing
<1>1. R \in Nat \ {0} /\ c.masters \in Nat \ {0} /\ P \in Nat \ {0}
  BY Sizes DEF Accepted, Valid
<1>2. c.masters <= P * R
  <2>1. c.masters + P - 1 \in Nat
    BY <1>1
  <2>2. c.masters + P - 1 < P * R + P
    BY <1>1, <2>1, Quotient DEF VRings
  <2> HIDE DEF R, P
  <2>3. P * R \in Nat
    BY <1>1
  <2> QED BY <1>1, <2>2, <2>3
<1>3. \A r : MastersOn(c, r) = each + (IF r < rest THEN 1 ELSE 0)
  BY DEF MastersOn
<1> HIDE DEF R, P
<1>4. /\ each \in Nat /\ rest \in 0 .. R - 1
      /\ R * each \in Nat /\ c.masters = R * each + rest
  <2>1. each \in Nat /\ rest \in 0 .. R - 1 /\ c.masters = R * each + rest
    BY <1>1, Quotient, Rest
  <2> QED BY <1>1, <2>1
<1>5. P * R = R * P /\ P * R \in Nat
  BY <1>1
<1> HIDE DEF each, rest
<1>6. rest = 0 => each <= P
  <2> SUFFICES ASSUME rest = 0, P < each PROVE FALSE
    BY <1>1, <1>4
  <2>1. P * R + R <= each * R
    BY <1>1, <1>4, Multiples
  <2>2. each * R = R * each
    BY <1>1, <1>4
  <2> QED BY <1>1, <1>2, <1>4, <1>5, <2>1, <2>2
<1>7. rest # 0 => each < P
  <2> SUFFICES ASSUME rest # 0 PROVE each < P
    OBVIOUS
  <2>1. R * each < R * P
    BY <1>1, <1>2, <1>4, <1>5
  <2> QED BY <1>1, <1>4, <2>1, Smaller
<1>8. \A r \in VRing(c) : MastersOn(c, r) \in 0 .. P
  BY <1>1, <1>3, <1>4, <1>6, <1>7 DEF VRing
<1>9. \A r, q \in VRing(c) : MastersOn(c, r) <= MastersOn(c, q) + 1
  BY <1>3, <1>4
<1> QED BY <1>8, <1>9 DEF P

(* The location l is where the constructor puts master m. *)
Holds(c, l, m) == /\ l.station <= MastersOn(c, l.ring)
                  /\ FirstMaster(c, l.ring) + l.station - 1 = m

(* Every master has one location. *)
LEMMA OneLocation ==
  ASSUME NEW c, Accepted(c), NEW m \in 0 .. c.masters - 1
  PROVE  /\ MasterLocation(c, m) \in [ring : VRing(c), station : 1 .. c.perRing]
         /\ Holds(c, MasterLocation(c, m), m)
         /\ \A l \in [ring : VRing(c), station : 1 .. c.perRing] :
              Holds(c, l, m) => l = MasterLocation(c, m)
<1> DEFINE R == VRings(c)
           E(r) == FirstMaster(c, r)
           L == [ring : VRing(c), station : 1 .. c.perRing]
           T == {r \in 0 .. R : m < E(r)}
<1>1. /\ R \in Nat \ {0} /\ c.masters \in Nat /\ VRing(c) = 0 .. R - 1
      /\ c.perRing \in Nat
  BY Sizes DEF VRing, Accepted
<1>2. /\ \A r \in 0 .. R : E(r) \in Nat
      /\ \A r \in VRing(c) : /\ MastersOn(c, r) \in Nat
                             /\ E(r + 1) = E(r) + MastersOn(c, r)
      /\ E(0) = 0 /\ E(R) = c.masters
      /\ \A r \in VRing(c), q \in 0 .. R : r < q => E(r + 1) <= E(q)
  BY MastersInRow
<1>3. \A r \in VRing(c) : MastersOn(c, r) \in 0 .. c.perRing
  BY MastersFit
<1> HIDE DEF R, E
<1>4. \A r \in VRing(c) : r \in 0 .. R /\ r + 1 \in 0 .. R
  BY <1>1
<1>5. T \in SUBSET Nat /\ T # {}
  BY <1>1, <1>2
<1>6. PICK t \in T : \A u \in T : t <= u
  BY <1>5, LeastOf
<1>7. t \in 1 .. R /\ m < E(t)
  BY <1>1, <1>2, <1>6
<1>8. t - 1 \in VRing(c) /\ t - 1 \in 0 .. R
  BY <1>1, <1>7
<1>9. E(t - 1) <= m
  <2>1. t - 1 \notin T
    BY <1>6, <1>7
  <2> QED BY <1>2, <1>8, <2>1
<1>10. E(t) = E(t - 1) + MastersOn(c, t - 1)
  BY <1>2, <1>7, <1>8
<1>11. \E l \in L : Holds(c, l, m)
  <2> DEFINE l == [ring |-> t - 1, station |-> m - E(t - 1) + 1]
  <2>1. m - E(t - 1) + 1 \in 1 .. MastersOn(c, t - 1)
    BY <1>2, <1>7, <1>8, <1>9, <1>10
  <2>2. l \in L
    BY <1>3, <1>8, <2>1, <1>1
  <2>3. Holds(c, l, m)
    BY <1>2, <1>8, <2>1 DEF Holds, E
  <2> QED BY <2>2, <2>3
<1>12. /\ MasterLocation(c, m) \in L /\ Holds(c, MasterLocation(c, m), m)
  <2>1. MasterLocation(c, m) = CHOOSE l \in L : Holds(c, l, m)
    BY DEF MasterLocation, Holds
  <2> HIDE DEF L
  <2> QED BY <1>11, <2>1
<1>13. ASSUME NEW k \in L, Holds(c, k, m)
       PROVE  /\ k.ring \in VRing(c) /\ k.station \in Nat
              /\ E(k.ring) + k.station - 1 = m
              /\ E(k.ring) <= m /\ m < E(k.ring + 1)
  <2>1. k.ring \in VRing(c) /\ k.station \in 1 .. c.perRing
    OBVIOUS
  <2>2. /\ E(k.ring) \in Nat /\ MastersOn(c, k.ring) \in Nat
        /\ E(k.ring + 1) = E(k.ring) + MastersOn(c, k.ring)
    BY <1>1, <1>2, <2>1
  <2>3. k.station <= MastersOn(c, k.ring) /\ E(k.ring) + k.station - 1 = m
    BY <1>13 DEF Holds, E
  <2> QED BY <1>1, <2>1, <2>2, <2>3
<1>14. ASSUME NEW k \in L, NEW l \in L, Holds(c, k, m), Holds(c, l, m)
       PROVE  k = l
  <2>1. /\ k.ring \in VRing(c) /\ k.station \in Nat
        /\ E(k.ring) + k.station - 1 = m
        /\ E(k.ring) <= m /\ m < E(k.ring + 1)
        /\ l.ring \in VRing(c) /\ l.station \in Nat
        /\ E(l.ring) + l.station - 1 = m
        /\ E(l.ring) <= m /\ m < E(l.ring + 1)
    BY <1>13, <1>14
  <2>2. /\ k.ring \in 0 .. R /\ k.ring + 1 \in 0 .. R
        /\ l.ring \in 0 .. R /\ l.ring + 1 \in 0 .. R
    BY <1>4, <2>1, Zenon
  <2>3. /\ E(k.ring) \in Nat /\ E(l.ring) \in Nat
        /\ E(k.ring + 1) \in Nat /\ E(l.ring + 1) \in Nat
        /\ k.ring < l.ring => E(k.ring + 1) <= E(l.ring)
        /\ l.ring < k.ring => E(l.ring + 1) <= E(k.ring)
    BY <1>2, <2>1, <2>2
  <2>4. k.ring = l.ring
    BY <2>1, <2>2, <2>3
  <2>5. k.station = l.station
    BY <2>1, <2>3, <2>4
  <2> QED BY <2>4, <2>5
<1> QED BY <1>12, <1>14

(* The stations of a V-Ring behind the bridge have a master each. *)
LEMMA StationTaken ==
  ASSUME NEW c, Accepted(c), NEW r \in VRing(c), NEW s \in Nat \ {0}
  PROVE  Cardinality({m \in 0 .. c.masters - 1 :
                        MasterLocation(c, m) = [ring |-> r, station |-> s]}) =
           IF s < MastersOn(c, r) + 1 THEN 1 ELSE 0
<1> DEFINE l == [ring |-> r, station |-> s]
           S == {m \in 0 .. c.masters - 1 : MasterLocation(c, m) = l}
           n == FirstMaster(c, r) + s - 1
<1>1. MastersOn(c, r) \in 0 .. c.perRing /\ c.perRing \in Nat
  BY MastersFit DEF Accepted
<1>2. \A m \in S : s <= MastersOn(c, r) /\ m = n
  BY OneLocation DEF Holds
<1>3. CASE s < MastersOn(c, r) + 1
  <2>1. l \in [ring : VRing(c), station : 1 .. c.perRing]
    BY <1>1, <1>3
  <2>2. n \in 0 .. c.masters - 1
    <3>1. /\ r \in 0 .. VRings(c) - 1 /\ VRings(c) \in Nat \ {0}
          /\ c.masters \in Nat
      BY Sizes DEF VRing, Accepted
    <3>2. /\ FirstMaster(c, r) \in Nat /\ FirstMaster(c, r + 1) \in Nat
          /\ FirstMaster(c, r + 1) = FirstMaster(c, r) + MastersOn(c, r)
          /\ FirstMaster(c, r + 1) <= c.masters
      BY <3>1, MastersInRow
    <3> QED BY <1>1, <1>3, <3>1, <3>2
  <2>3. Holds(c, l, n)
    BY <1>1, <1>3 DEF Holds
  <2>4. n \in S
    BY <2>1, <2>2, <2>3, OneLocation
  <2>5. S = {n}
    BY <1>2, <2>4
  <2> QED BY <1>3, <2>5, FS_Singleton
<1>4. CASE ~(s < MastersOn(c, r) + 1)
  <2>1. S = {}
    BY <1>1, <1>2, <1>4
  <2> QED BY <1>4, <2>1, FS_EmptySet
<1> QED BY <1>3, <1>4

-----------------------------------------------------------------------------
(* Ways through a ring *)

(* The station i hops after s, without a remainder. *)
Hop(n, s, d, i) ==
  IF d = "CW" THEN (IF s + i < n THEN s + i ELSE s + i - n)
              ELSE (IF i <= s THEN s - i ELSE s + n - i)

(* A number that is less than twice around a ring. *)
LEMMA Around ==
  ASSUME NEW n \in Nat \ {0}, NEW x \in Nat, x < 2 * n
  PROVE  x % n = IF x < n THEN x ELSE x - n
<1> DEFINE q == x \div n
           r == x % n
<1>1. q \in Nat /\ n * q <= x
  BY Quotient
<1>2. r \in 0 .. n - 1 /\ x = n * q + r
  BY Rest
<1> HIDE DEF q, r
<1>3. q < 2
  <2>1. n * q < n * 2
    BY <1>1
  <2> QED BY <1>1, <2>1, Smaller
<1>4. q = 0 \/ q = 1
  BY <1>1, <1>3
<1>5. CASE q = 0
  <2>1. n * q = 0
    BY <1>5
  <2>2. x = r
    BY <1>2, <2>1
  <2> QED BY <1>2, <2>2 DEF r
<1>6. CASE q = 1
  <2>1. n * q = n
    BY <1>6
  <2>2. x = n + r
    BY <1>2, <2>1
  <2> QED BY <1>2, <2>2 DEF r
<1> QED BY <1>4, <1>5, <1>6

(* One link further is one hop further. *)
LEMMA NextHop ==
  ASSUME NEW n \in Nat \ {0}, NEW s \in 0 .. n - 1, NEW d \in Dirs,
         NEW i \in 0 .. n - 1
  PROVE  /\ Hop(n, s, d, i) \in 0 .. n - 1
         /\ Neighbor(n, Hop(n, s, d, i), d) = Hop(n, s, d, i + 1)
<1> DEFINE h == Hop(n, s, d, i)
<1>1. h \in 0 .. n - 1
  BY DEF Hop, Dirs
<1>2. CASE d = "CW"
  <2>1. /\ h = IF s + i < n THEN s + i ELSE s + i - n
        /\ Hop(n, s, d, i + 1) = IF s + (i + 1) < n THEN s + (i + 1)
                                 ELSE s + (i + 1) - n
        /\ Neighbor(n, h, d) = (h + 1) % n
    BY <1>2 DEF Hop, Neighbor
  <2> HIDE DEF h
  <2> DEFINE x == h + 1
  <2>2. x \in Nat /\ x < 2 * n
    BY <1>1
  <2>3. x = h + 1 /\ Neighbor(n, h, d) = x % n
    BY <2>1
  <2> HIDE DEF x
  <2>4. x % n = IF x < n THEN x ELSE x - n
    BY <2>2, Around
  <2>5. Neighbor(n, h, d) = Hop(n, s, d, i + 1)
    BY <1>1, <2>1, <2>3, <2>4
  <2> QED BY <1>1, <2>5 DEF h
<1>3. CASE d = "CCW"
  <2>1. /\ h = IF i <= s THEN s - i ELSE s + n - i
        /\ Hop(n, s, d, i + 1) = IF i + 1 <= s THEN s - (i + 1)
                                 ELSE s + n - (i + 1)
        /\ Neighbor(n, h, d) = (h + n - 1) % n
    BY <1>3 DEF Hop, Neighbor
  <2> HIDE DEF h
  <2> DEFINE x == h + n - 1
  <2>2. x \in Nat /\ x < 2 * n
    BY <1>1
  <2>3. x = h + n - 1 /\ Neighbor(n, h, d) = x % n
    BY <2>1
  <2> HIDE DEF x
  <2>4. x % n = IF x < n THEN x ELSE x - n
    BY <2>2, Around
  <2>5. Neighbor(n, h, d) = Hop(n, s, d, i + 1)
    BY <1>1, <2>1, <2>3, <2>4
  <2> QED BY <1>1, <2>5 DEF h
<1> QED BY <1>2, <1>3 DEF Dirs

(* Following the links counts the hops, once around a ring at most. *)
LEMMA WalkHops ==
  ASSUME NEW n \in Nat \ {0}, NEW s \in 0 .. n - 1, NEW d \in Dirs,
         NEW k \in 0 .. n
  PROVE  Walk(n, s, d, k) = Hop(n, s, d, k)
<1> DEFINE H == [i \in 0 .. k |-> Hop(n, s, d, i)]
           Step(f, i) == IF i = 0 THEN s ELSE Neighbor(n, f[i - 1], d)
<1>1. ASSUME NEW i \in 0 .. k
      PROVE  H[i] = Step(H, i)
  <2>1. CASE i = 0
    BY <2>1 DEF Hop, Dirs
  <2>2. CASE i # 0
    <3>1. i - 1 \in 0 .. k /\ i - 1 \in 0 .. n - 1 /\ (i - 1) + 1 = i
      BY <2>2
    <3>2. Neighbor(n, Hop(n, s, d, i - 1), d) = Hop(n, s, d, i)
      BY <3>1, NextHop
    <3>3. H[i - 1] = Hop(n, s, d, i - 1) /\ H[i] = Hop(n, s, d, i)
      BY <3>1
    <3> QED BY <2>2, <3>2, <3>3
  <2> QED BY <2>1, <2>2
<1>2. H = [i \in 0 .. k |-> H[i]]
  OBVIOUS
<1>3. k \in 0 .. k /\ H[k] = Hop(n, s, d, k)
  OBVIOUS
<1> HIDE DEF H
<1>4. H = [i \in 0 .. k |-> Step(H, i)]
  BY <1>1, <1>2
<1>5. PICK f : /\ f = [i \in 0 .. k |-> IF i = 0 THEN s
                                        ELSE Neighbor(n, f[i - 1], d)]
               /\ Walk(n, s, d, k) = f[k]
  BY <1>4, Zenon DEF Walk
<1> DEFINE T == {i \in 0 .. k : f[i] # H[i]}
<1>6. SUFFICES ASSUME T # {}
               PROVE  FALSE
  BY <1>3, <1>5
<1>7. PICK m \in T : \A i \in T : m <= i
  <2>1. T \in SUBSET Nat
    OBVIOUS
  <2> HIDE DEF T
  <2> QED BY <1>6, <2>1, LeastOf
<1>8. m \in 0 .. k /\ f[m] # H[m]
  OBVIOUS
<1>9. f[m] = Step(f, m) /\ H[m] = Step(H, m)
  BY <1>1, <1>5, <1>8
<1>10. m # 0
  BY <1>8, <1>9
<1>11. m - 1 \in 0 .. k /\ ~(m <= m - 1)
  BY <1>8, <1>10
<1>12. f[m - 1] = H[m - 1]
  BY <1>7, <1>11
<1> QED BY <1>8, <1>9, <1>10, <1>12

(* The distance in either direction, without a remainder. *)
LEMMA Distances ==
  ASSUME NEW n \in Nat \ {0}, NEW s \in 0 .. n - 1, NEW t \in 0 .. n - 1
  PROVE  /\ Distance(n, s, t, "CW") = IF s <= t THEN t - s ELSE t + n - s
         /\ Distance(n, s, t, "CCW") = IF t <= s THEN s - t ELSE s + n - t
<1> DEFINE x == t + n - s
           y == s + n - t
<1>1. x \in Nat /\ x < 2 * n /\ y \in Nat /\ y < 2 * n
  OBVIOUS
<1>2. Distance(n, s, t, "CW") = x % n /\ Distance(n, s, t, "CCW") = y % n
  BY DEF Distance
<1>3. /\ x < n <=> ~(s <= t)
      /\ y < n <=> ~(t <= s)
      /\ x - n = t - s /\ y - n = s - t
  OBVIOUS
<1> HIDE DEF x, y
<1>4. x % n = IF x < n THEN x ELSE x - n
  BY <1>1, Around
<1>5. y % n = IF y < n THEN y ELSE y - n
  BY <1>1, Around
<1>6. /\ Distance(n, s, t, "CW") = IF s <= t THEN t - s ELSE x
      /\ Distance(n, s, t, "CCW") = IF t <= s THEN s - t ELSE y
  BY <1>2, <1>3, <1>4, <1>5
<1> QED BY <1>6 DEF x, y

(* The hops that lead to a station are its distance. *)
LEMMA Reaches ==
  ASSUME NEW n \in Nat \ {0}, NEW s \in 0 .. n - 1, NEW t \in 0 .. n - 1,
         NEW d \in Dirs
  PROVE  /\ Distance(n, s, t, d) \in 0 .. n - 1
         /\ s # t => Distance(n, s, t, d) # 0
         /\ Walk(n, s, d, Distance(n, s, t, d)) = t
         /\ \A i \in 0 .. n - 1 :
              Walk(n, s, d, i) = t => i = Distance(n, s, t, d)
<1> DEFINE k == Distance(n, s, t, d)
<1>1. \/ d = "CW" /\ k = IF s <= t THEN t - s ELSE t + n - s
      \/ d = "CCW" /\ k = IF t <= s THEN s - t ELSE s + n - t
  BY Distances DEF Dirs
<1> HIDE DEF k
<1>2. k \in 0 .. n - 1 /\ (s # t => k # 0)
  BY <1>1
<1>3. Hop(n, s, d, k) = t
  BY <1>1 DEF Hop
<1>4. Walk(n, s, d, k) = t
  BY <1>2, <1>3, WalkHops
<1>5. ASSUME NEW i \in 0 .. n - 1, Walk(n, s, d, i) = t
      PROVE  i = k
  <2>1. Hop(n, s, d, i) = t
    BY <1>5, WalkHops
  <2> QED BY <1>1, <2>1 DEF Hop
<1> QED BY <1>2, <1>4, <1>5 DEF k

(* A route takes no more hops than one in the other direction. *)
LEMMA RouteIsShortest ==
  ASSUME NEW n \in Nat \ {0}, NEW s \in 0 .. n - 1, NEW t \in 0 .. n - 1,
         s # t
  PROVE  /\ RouteDirection(n, s, t) \in Dirs
         /\ \A e \in Dirs : Distance(n, s, t, RouteDirection(n, s, t))
                              <= Distance(n, s, t, e)
<1>1. Distance(n, s, t, "CW") \in Nat /\ Distance(n, s, t, "CCW") \in Nat
  BY Reaches DEF Dirs
<1> QED BY <1>1 DEF RouteDirection, Dirs

(* The span of a carrier is the distance of its furthest recipient. *)
LEMMA Spans ==
  ASSUME NEW n \in Nat \ {0}, NEW recipients \in SUBSET (1 .. n - 1),
         recipients # {}, NEW d \in Dirs
  PROVE  LET k == FanoutSpan(n, 0, recipients, d)
         IN  /\ k \in 1 .. n - 1
             /\ \E t \in recipients : Distance(n, 0, t, d) = k
             /\ \A t \in recipients : Distance(n, 0, t, d) <= k
<1> DEFINE D(t) == Distance(n, 0, t, d)
           P(span) == /\ \E t \in recipients : D(t) = span
                      /\ \A t \in recipients : D(t) <= span
           T == {x \in 0 .. n - 1 : \A t \in recipients : D(t) <= x}
<1>1. \A t \in recipients : D(t) \in 1 .. n - 1
  <2> TAKE t \in recipients
  <2>1. t \in 0 .. n - 1 /\ 0 \in 0 .. n - 1 /\ t # 0
    OBVIOUS
  <2>2. D(t) \in 0 .. n - 1 /\ D(t) # 0
    BY <2>1, Reaches
  <2> QED BY <2>2
<1> HIDE DEF D
<1>2. T \in SUBSET Nat /\ T # {}
  <2>1. n - 1 \in T
    BY <1>1
  <2> QED BY <2>1
<1>3. PICK x \in T : \A y \in T : x <= y
  <2> HIDE DEF T
  <2> QED BY <1>2, LeastOf
<1>4. x \in 0 .. n - 1 /\ \A t \in recipients : D(t) <= x
  OBVIOUS
<1>5. \E t \in recipients : D(t) = x
  <2> SUFFICES ASSUME \A t \in recipients : D(t) # x
               PROVE  FALSE
    OBVIOUS
  <2>0. \A t \in recipients : D(t) <= x - 1 /\ 1 <= x - 1
    <3> TAKE t \in recipients
    <3>1. D(t) \in 1 .. n - 1 /\ D(t) <= x /\ D(t) # x
      BY <1>1, <1>4
    <3> QED BY <1>4, <3>1
  <2>1. 1 <= x - 1
    BY <2>0
  <2>2. x - 1 \in T
    <3>1. x - 1 \in 0 .. n - 1
      BY <1>4, <2>1
    <3> QED BY <2>0, <3>1
  <2> QED BY <1>3, <1>4, <2>2
<1>6. FanoutSpan(n, 0, recipients, d) = CHOOSE span \in 0 .. n - 1 : P(span)
  BY DEF FanoutSpan, D
<1>7. \E span \in 0 .. n - 1 : P(span)
  BY <1>4, <1>5
<1> DEFINE k == FanoutSpan(n, 0, recipients, d)
<1>8. k \in 0 .. n - 1 /\ P(k)
  BY <1>6, <1>7, Zenon
<1> HIDE DEF k
<1>9. k \in 1 .. n - 1
  BY <1>1, <1>8
<1> QED BY <1>8, <1>9 DEF k, D

(* A bridge never prefers the direction with the longer span. *)
LEMMA CarrierIsShortest ==
  ASSUME NEW n \in Nat \ {0}, NEW recipients \in SUBSET (1 .. n - 1),
         recipients # {}, NEW d \in CarrierDirections(n, recipients)
  PROVE  /\ d \in Dirs
         /\ \A e \in Dirs : FanoutSpan(n, 0, recipients, d)
                              <= FanoutSpan(n, 0, recipients, e)
<1> DEFINE cw == FanoutSpan(n, 0, recipients, "CW")
           ccw == FanoutSpan(n, 0, recipients, "CCW")
           c == Cardinality(recipients)
<1>1. cw \in Nat /\ ccw \in Nat
  <2>1. "CW" \in Dirs /\ "CCW" \in Dirs
    BY DEF Dirs
  <2>2. cw \in 1 .. n - 1 /\ ccw \in 1 .. n - 1
    BY <2>1, Spans, Zenon
  <2> QED BY <2>2
<1>2. c \in Nat /\ c # 0 /\ (c = 1 => \E t : recipients = {t})
  <2>1. n - 1 \in Nat
    OBVIOUS
  <2>2. IsFiniteSet(1 .. n - 1)
    BY <2>1, FromOne
  <2>3. IsFiniteSet(recipients)
    BY <2>2, FS_Subset
  <2>4. c \in Nat /\ (c = 0 <=> recipients = {})
    BY <2>3, FS_CardinalityType, FS_EmptySet
  <2>5. c = 1 => \E t : recipients = {t}
    BY <2>3, FS_Singleton
  <2> QED BY <2>4, <2>5
<1>3. CarrierDirections(n, recipients) =
        CASE c = 1 -> {RouteDirection(n, 0, t) : t \in recipients}
          [] c > 1 /\ cw < ccw -> {"CW"}
          [] c > 1 /\ ccw < cw -> {"CCW"}
          [] OTHER -> Dirs
  BY DEF CarrierDirections
<1>4. CASE c = 1
  <2>1. PICK t : recipients = {t}
    BY <1>2, <1>4
  <2>2. t \in 0 .. n - 1 /\ 0 \in 0 .. n - 1 /\ 0 # t
    BY <2>1
  <2> HIDE DEF c
  <2>3. CarrierDirections(n, recipients) = {RouteDirection(n, 0, t)}
    BY <1>3, <1>4, <2>1
  <2>4. d = RouteDirection(n, 0, t)
    BY <2>3
  <2>5. \A e \in Dirs : FanoutSpan(n, 0, recipients, e) = Distance(n, 0, t, e)
    <3> TAKE e \in Dirs
    <3>1. \E x \in recipients : Distance(n, 0, x, e) = FanoutSpan(n, 0, recipients, e)
      BY Spans
    <3> QED BY <2>1, <3>1
  <2>6. /\ d \in Dirs
        /\ \A e \in Dirs : Distance(n, 0, t, d) <= Distance(n, 0, t, e)
    BY <2>2, <2>4, RouteIsShortest
  <2> QED BY <2>5, <2>6
<1>5. CASE c # 1
  <2>0. c > 1 /\ c # 1
    BY <1>2, <1>5
  <2> DEFINE F(e) == FanoutSpan(n, 0, recipients, e)
  <2>1. cw = F("CW") /\ ccw = F("CCW")
    OBVIOUS
  <2> HIDE DEF c, cw, ccw, F
  <2>2. \/ d = "CW" /\ cw <= ccw
        \/ d = "CCW" /\ ccw <= cw
    BY <1>1, <1>3, <2>0 DEF Dirs
  <2>3. d \in Dirs /\ \A e \in Dirs : F(d) <= F(e)
    BY <1>1, <2>1, <2>2 DEF Dirs
  <2> QED BY <2>3 DEF F
<1> QED BY <1>4, <1>5

-----------------------------------------------------------------------------
(* Bits *)

(* Powers of two double. *)
LEMMA Powers ==
  /\ Pow2[0] = 1
  /\ \A n \in Nat : Pow2[n] \in Nat \ {0} /\ Pow2[n + 1] = 2 * Pow2[n]
<1> DEFINE g == [p \in Nat \X Nat |-> 2 * p[2]]
<1>1. g \in [Nat \X Nat -> Nat]
  OBVIOUS
<1>2. \A n, x \in Nat : g[<<n, x>>] = 2 * x
  OBVIOUS
<1> HIDE DEF g
<1>3. PICK w \in [Nat -> Nat] :
        w[0] = 1 /\ \A n \in Nat : w[n + 1] = g[<<n, w[n]>>]
  <2>1. 1 \in Nat
    OBVIOUS
  <2>2. \E w \in [Nat -> Nat] : Follows(w, 1, g)
    BY <1>1, <2>1, Recursion
  <2> QED BY <2>2 DEF Follows
<1>4. ASSUME NEW n \in Nat
      PROVE  w[n] = IF n = 0 THEN 1 ELSE 2 * w[n - 1]
  <2>1. CASE n = 0
    BY <1>3, <2>1
  <2>2. CASE n # 0
    <3>1. n - 1 \in Nat /\ (n - 1) + 1 = n
      BY <2>2
    <3>2. w[n] = g[<<n - 1, w[n - 1]>>] /\ w[n - 1] \in Nat
      BY <1>3, <3>1
    <3> QED BY <1>2, <2>2, <3>1, <3>2
  <2> QED BY <2>1, <2>2
<1>5. w = [n \in Nat |-> IF n = 0 THEN 1 ELSE 2 * w[n - 1]]
  <2>1. w = [n \in Nat |-> w[n]]
    OBVIOUS
  <2> QED BY <1>4, <2>1
<1>6. Pow2 = [n \in Nat |-> IF n = 0 THEN 1 ELSE 2 * Pow2[n - 1]]
  BY <1>5, Zenon DEF Pow2
<1>7. \A n \in Nat : Pow2[n] = IF n = 0 THEN 1 ELSE 2 * Pow2[n - 1]
  BY <1>6
<1>8. Pow2[0] = 1
  BY <1>7
<1>9. ASSUME NEW n \in Nat PROVE Pow2[n + 1] = 2 * Pow2[n]
  <2>1. n + 1 \in Nat /\ n + 1 # 0 /\ (n + 1) - 1 = n
    OBVIOUS
  <2> QED BY <1>7, <2>1
<1> DEFINE P == {n \in Nat : Pow2[n] \in Nat \ {0}}
<1>10. 0 \in P
  BY <1>8
<1>11. ASSUME NEW n \in P PROVE n + 1 \in P
  BY <1>9
<1>12. P \in SUBSET Nat
  OBVIOUS
<1> HIDE DEF P
<1>13. P = Nat
  BY <1>10, <1>11, <1>12, Counting
<1>14. \A n \in Nat : Pow2[n] \in Nat \ {0}
  BY <1>13 DEF P
<1> QED BY <1>8, <1>9, <1>14

(* Halves and rests of two. *)
LEMMA Half ==
  ASSUME NEW x \in Nat
  PROVE  /\ x \div 2 \in Nat /\ x % 2 \in 0 .. 1
         /\ x = 2 * (x \div 2) + (x % 2)
OBVIOUS

LEMMA HalfIs ==
  ASSUME NEW h \in Nat, NEW b \in 0 .. 1
  PROVE  /\ 2 * h + b \in Nat
         /\ (2 * h + b) \div 2 = h /\ (2 * h + b) % 2 = b
OBVIOUS

(* To divide by 2p is to halve and divide by p, in either order. *)
LEMMA HalfFirst ==
  ASSUME NEW x \in Nat, NEW p \in Nat \ {0}
  PROVE  /\ x \div (2 * p) = (x \div 2) \div p
         /\ x \div (2 * p) = (x \div p) \div 2
         /\ x % (2 * p) = 2 * ((x \div 2) % p) + (x % 2)
<1> DEFINE d == 2 * p
           q == x \div d
           r == p * q
           h == x \div 2
           y == x \div p
<1>1. d \in Nat \ {0} /\ d = 2 * p
  OBVIOUS
<1>2. q \in Nat /\ d * q <= x /\ x < d * q + d
  <2> HIDE DEF d
  <2> QED BY <1>1, Quotient
<1>3. r \in Nat /\ d * q = 2 * r
  <2> HIDE DEF q
  <2> QED BY <1>1, <1>2
<1>4. h \in Nat /\ x % 2 \in 0 .. 1 /\ x = 2 * h + (x % 2)
  BY Half
<1>5. y \in Nat /\ p * y <= x /\ x < p * y + p
  BY Quotient
<1> HIDE DEF d, q, h, y
<1>6. p * q = r
  OBVIOUS
<1> HIDE DEF r
<1>7. h \div p = q
  <2>1. r <= h /\ h < r + p
    BY <1>1, <1>2, <1>3, <1>4
  <2> QED BY <1>2, <1>4, <1>6, <2>1, QuotientIs
<1>8. y \div 2 = q
  <2>1. p * (2 * q) = 2 * r /\ p * (y + 1) = p * y + p
        /\ p * (2 * q + 2) = 2 * r + d
    BY <1>1, <1>2, <1>5, <1>6
  <2>2. p * (2 * q) < p * (y + 1) /\ p * y < p * (2 * q + 2)
    BY <1>1, <1>2, <1>3, <1>5, <2>1
  <2>3. 2 * q \in Nat /\ y + 1 \in Nat /\ 2 * q + 2 \in Nat
    BY <1>2, <1>5
  <2>4. 2 * q < y + 1 /\ y < 2 * q + 2
    BY <1>5, <2>2, <2>3, Smaller
  <2> QED BY <1>2, <1>5, <2>4
<1>9. x % d = 2 * (h % p) + (x % 2)
  <2>1. x = d * q + (x % d) /\ x % d \in 0 .. d - 1
    BY <1>1, Rest DEF q
  <2>2. h = p * q + (h % p) /\ h % p \in 0 .. p - 1
    BY <1>4, <1>7, Rest
  <2> DEFINE u == x % d
             v == h % p
             b == x % 2
  <2>3. x = 2 * r + u /\ h = r + v /\ x = 2 * h + b
        /\ u \in Int /\ v \in Int /\ b \in Int
    BY <1>1, <1>3, <1>4, <1>6, <2>1, <2>2
  <2> HIDE DEF u, v, b
  <2>4. u = 2 * v + b
    BY <1>3, <1>4, <2>3
  <2> QED BY <2>4 DEF u, v, b
<1> QED BY <1>7, <1>8, <1>9 DEF d, q, h, y

(* The lowest bit is the rest, the others are those of the half. *)
LEMMA Bits ==
  ASSUME NEW x \in Nat
  PROVE  /\ Bit(x, 0) = x % 2
         /\ \A i \in Nat : /\ Bit(x, i) \in 0 .. 1
                           /\ Bit(x, i + 1) = Bit(x \div 2, i)
<1>1. Bit(x, 0) = x % 2
  <2>1. x \div 1 = x
    OBVIOUS
  <2> QED BY <2>1, Powers DEF Bit
<1>2. ASSUME NEW i \in Nat PROVE Bit(x, i) \in 0 .. 1
  <2> DEFINE p == Pow2[i]
  <2>1. p \in Nat \ {0}
    BY Powers
  <2> HIDE DEF p
  <2>2. x \div p \in Nat
    BY <2>1, Quotient
  <2>3. (x \div p) % 2 \in 0 .. 1
    BY <2>2, Half
  <2> QED BY <2>3 DEF Bit, p
<1>3. ASSUME NEW i \in Nat PROVE Bit(x, i + 1) = Bit(x \div 2, i)
  <2> DEFINE p == Pow2[i]
  <2>1. p \in Nat \ {0} /\ Pow2[i + 1] = 2 * p
    BY Powers
  <2> HIDE DEF p
  <2>2. x \div (2 * p) = (x \div 2) \div p
    BY <2>1, HalfFirst
  <2> QED BY <2>1, <2>2 DEF Bit, p
<1> QED BY <1>1, <1>2, <1>3

(* Numbers with the same low bits leave the same rest, and conversely. *)
SameBits(x, y, k) == \A i \in 0 .. k - 1 : Bit(x, i) = Bit(y, i)

LEMMA LowBits ==
  \A k \in Nat : \A x, y \in Nat :
    SameBits(x, y, k) <=> x % Pow2[k] = y % Pow2[k]
<1> DEFINE Q(k) == \A x, y \in Nat :
                     SameBits(x, y, k) <=> x % Pow2[k] = y % Pow2[k]
           P == {k \in Nat : Q(k)}
<1>1. Q(0)
  <2> SUFFICES ASSUME NEW x \in Nat, NEW y \in Nat
               PROVE  SameBits(x, y, 0) /\ x % Pow2[0] = y % Pow2[0]
    OBVIOUS
  <2>1. x % 1 = 0 /\ y % 1 = 0
    OBVIOUS
  <2>2. Pow2[0] = 1
    BY Powers
  <2> QED BY <2>1, <2>2 DEF SameBits
<1>2. ASSUME NEW k \in Nat, Q(k) PROVE Q(k + 1)
  <2> SUFFICES ASSUME NEW x \in Nat, NEW y \in Nat
               PROVE  SameBits(x, y, k + 1) <=>
                        x % Pow2[k + 1] = y % Pow2[k + 1]
    OBVIOUS
  <2> DEFINE p == Pow2[k]
             f == x \div 2
             g == y \div 2
             u == f % p
             v == g % p
             b == x % 2
             d == y % 2
  <2>1. p \in Nat \ {0} /\ Pow2[k + 1] = 2 * p
    BY Powers
  <2>2. /\ f \in Nat /\ g \in Nat /\ b \in 0 .. 1 /\ d \in 0 .. 1
    BY Half
  <2>3. SameBits(f, g, k) <=> u = v
    BY <1>2, <2>2
  <2>4. /\ Bit(x, 0) = b /\ Bit(y, 0) = d
        /\ \A i \in Nat : Bit(x, i + 1) = Bit(f, i) /\ Bit(y, i + 1) = Bit(g, i)
    BY Bits
  <2>5. x % (2 * p) = 2 * u + b /\ y % (2 * p) = 2 * v + d
    <3> HIDE DEF p
    <3> QED BY <2>1, HalfFirst DEF p
  <2>6. u \in Nat /\ v \in Nat
    <3> HIDE DEF p, f, g
    <3>1. u \in 0 .. p - 1 /\ v \in 0 .. p - 1
      BY <2>1, <2>2, Rest
    <3> QED BY <2>1, <3>1
  <2> HIDE DEF p, f, g, u, v, b, d
  <2>7. SameBits(x, y, k + 1) <=> b = d /\ SameBits(f, g, k)
    <3>1. ASSUME SameBits(x, y, k + 1) PROVE b = d /\ SameBits(f, g, k)
      <4>1. 0 \in 0 .. (k + 1) - 1
            /\ \A i \in 0 .. k - 1 : i \in Nat /\ i + 1 \in 0 .. (k + 1) - 1
        OBVIOUS
      <4> QED BY <2>4, <3>1, <4>1 DEF SameBits
    <3>2. ASSUME b = d, SameBits(f, g, k) PROVE SameBits(x, y, k + 1)
      <4> SUFFICES ASSUME NEW i \in 0 .. (k + 1) - 1 PROVE Bit(x, i) = Bit(y, i)
        BY DEF SameBits
      <4>1. CASE i = 0
        BY <2>4, <3>2, <4>1
      <4>2. CASE i # 0
        <5>1. i - 1 \in 0 .. k - 1 /\ i - 1 \in Nat /\ (i - 1) + 1 = i
          BY <4>2
        <5>2. Bit(f, i - 1) = Bit(g, i - 1)
          BY <3>2, <5>1 DEF SameBits
        <5> QED BY <2>4, <5>1, <5>2
      <4> QED BY <4>1, <4>2
    <3> QED BY <3>1, <3>2
  <2>8. u = v /\ b = d <=> 2 * u + b = 2 * v + d
    BY <2>2, <2>6
  <2> QED BY <2>1, <2>3, <2>5, <2>7, <2>8
<1>3. P \in SUBSET Nat
  OBVIOUS
<1>4. 0 \in P /\ \A k \in P : k + 1 \in P
  <2> HIDE DEF Q
  <2> QED BY <1>1, <1>2
<1> HIDE DEF P
<1>5. P = Nat
  BY <1>3, <1>4, Counting
<1> QED BY <1>5 DEF P

(* The bit in which two differ. *)
Differ(b, d) == IF b = d THEN 0 ELSE 1

(* An exclusive or has the bits in which the two numbers differ. *)
LEMMA XorBits ==
  ASSUME NEW x \in Nat, NEW y \in Nat
  PROVE  /\ BitXor(x, y) \in Nat
         /\ \A i \in 0 .. Width - 1 :
              Bit(BitXor(x, y), i) = Differ(Bit(x, i), Bit(y, i))
<1> DEFINE D(j) == Differ(Bit(x, j), Bit(y, j))
           g == [p \in Nat \X Nat |-> 2 * p[2] + D(Width - (p[1] + 1))]
<1>1. Width \in Nat
  BY AddressAssumption
<1>2. \A j : D(j) \in 0 .. 1
  BY DEF Differ
<1> HIDE DEF D
<1>3. g \in [Nat \X Nat -> Nat]
  <2>1. ASSUME NEW p \in Nat \X Nat
        PROVE  2 * p[2] + D(Width - (p[1] + 1)) \in Nat
    <3>1. p[2] \in Nat /\ D(Width - (p[1] + 1)) \in Nat
      BY <1>2
    <3> QED BY <3>1
  <2> QED BY <2>1
<1>4. \A n, z \in Nat : g[<<n, z>>] = 2 * z + D(Width - (n + 1))
  OBVIOUS
<1> HIDE DEF g
<1>5. PICK w \in [Nat -> Nat] : Follows(w, 0, g)
  <2>1. 0 \in Nat
    OBVIOUS
  <2> QED BY <1>3, <2>1, Recursion
<1> DEFINE Step(h, n) ==
             IF n = 0 THEN 0
             ELSE 2 * h[n - 1]
                    + (IF Bit(x, Width - n) = Bit(y, Width - n) THEN 0 ELSE 1)
           W == [n \in 0 .. Width |-> w[n]]
<1>6. ASSUME NEW n \in 0 .. Width PROVE W[n] = Step(W, n)
  <2>1. CASE n = 0
    BY <1>5, <2>1 DEF Follows
  <2>2. CASE n # 0
    <3>1. n - 1 \in Nat /\ (n - 1) + 1 = n /\ n - 1 \in 0 .. Width /\ n \in Nat
      BY <1>1, <2>2
    <3>2. w[n] = g[<<n - 1, w[n - 1]>>] /\ w[n - 1] \in Nat
      BY <1>5, <3>1 DEF Follows
    <3>3. w[n] = 2 * w[n - 1] + D(Width - n)
      BY <1>4, <3>1, <3>2
    <3>4. W[n] = w[n] /\ W[n - 1] = w[n - 1]
      BY <3>1
    <3> HIDE DEF W
    <3> QED BY <2>2, <3>3, <3>4 DEF D, Differ
  <2> QED BY <2>1, <2>2
<1>7. W = [n \in 0 .. Width |-> W[n]]
  OBVIOUS
<1> HIDE DEF W
<1>8. W = [n \in 0 .. Width |-> Step(W, n)]
  BY <1>6, <1>7
<1>9. PICK h : /\ h = [n \in 0 .. Width |->
                         IF n = 0 THEN 0
                         ELSE 2 * h[n - 1]
                                + (IF Bit(x, Width - n) = Bit(y, Width - n)
                                   THEN 0 ELSE 1)]
               /\ BitXor(x, y) = h[Width]
  BY <1>8, Zenon DEF BitXor
<1>10. /\ h[0] = 0
       /\ \A n \in 0 .. Width - 1 : h[n + 1] = 2 * h[n] + D(Width - (n + 1))
  <2>1. \A n \in 0 .. Width : h[n] = Step(h, n)
    BY <1>9
  <2>2. 0 \in 0 .. Width
    BY <1>1
  <2>3. ASSUME NEW n \in 0 .. Width - 1
        PROVE  h[n + 1] = 2 * h[n] + D(Width - (n + 1))
    <3>1. n + 1 \in 0 .. Width /\ n + 1 # 0 /\ (n + 1) - 1 = n
      BY <1>1
    <3> QED BY <2>1, <3>1 DEF D, Differ
  <2> QED BY <2>1, <2>2, <2>3
<1> DEFINE Top(n) == /\ h[n] \in Nat
                     /\ \A i \in 0 .. n - 1 : Bit(h[n], i) = D(Width - n + i)
           P == {n \in Nat : n <= Width => Top(n)}
<1>11. 0 \in P
  BY <1>10
<1>12. ASSUME NEW n \in P PROVE n + 1 \in P
  <2> SUFFICES ASSUME n + 1 <= Width PROVE Top(n + 1)
    OBVIOUS
  <2>1. n \in Nat /\ n <= Width /\ n \in 0 .. Width - 1
    BY <1>1
  <2>2. Top(n)
    BY <2>1
  <2> DEFINE z == h[n]
             b == D(Width - (n + 1))
  <2>3. h[n + 1] = 2 * z + b /\ z \in Nat /\ b \in 0 .. 1
    BY <1>2, <1>10, <2>1, <2>2
  <2> HIDE DEF z, b
  <2>4. /\ 2 * z + b \in Nat
        /\ (2 * z + b) \div 2 = z /\ (2 * z + b) % 2 = b
    BY <2>3, HalfIs
  <2> DEFINE t == 2 * z + b
  <2>5. t \in Nat /\ t \div 2 = z /\ t % 2 = b /\ h[n + 1] = t
    BY <2>3, <2>4
  <2> HIDE DEF t
  <2>6. /\ Bit(t, 0) = b
        /\ \A i \in Nat : Bit(t, i + 1) = Bit(z, i)
    BY <2>5, Bits
  <2>7. ASSUME NEW i \in 0 .. (n + 1) - 1
        PROVE  Bit(t, i) = D(Width - (n + 1) + i)
    <3>1. CASE i = 0
      <4>1. Width - (n + 1) + i = Width - (n + 1)
        BY <1>1, <2>1, <3>1
      <4> QED BY <2>6, <3>1, <4>1 DEF b
    <3>2. CASE i # 0
      <4>1. /\ i - 1 \in 0 .. n - 1 /\ i - 1 \in Nat /\ (i - 1) + 1 = i
            /\ Width - n + (i - 1) = Width - (n + 1) + i
        BY <1>1, <2>1, <3>2
      <4>2. Bit(z, i - 1) = D(Width - n + (i - 1))
        BY <2>2, <4>1 DEF z
      <4> QED BY <2>6, <4>1, <4>2
    <3> QED BY <3>1, <3>2
  <2> QED BY <2>5, <2>7
<1>13. P \in SUBSET Nat
  OBVIOUS
<1> HIDE DEF P
<1>14. P = Nat
  BY <1>11, <1>12, <1>13, Counting
<1>15. Top(Width)
  BY <1>1, <1>14 DEF P
<1>16. \A i \in 0 .. Width - 1 : Width - Width + i = i
  BY <1>1
<1> QED BY <1>9, <1>15, <1>16 DEF D

(* A larger power needs a larger exponent. *)
LEMMA PowersGrow ==
  ASSUME NEW k \in Nat, NEW n \in Nat, Pow2[k] <= Pow2[n]
  PROVE  k <= n
<1> DEFINE P == {j \in Nat : Pow2[n] <= Pow2[n + j]}
<1>1. \A j \in Nat : Pow2[j] \in Nat \ {0} /\ Pow2[j + 1] = 2 * Pow2[j]
  BY Powers
<1>2. 0 \in P
  <2>1. n + 0 = n /\ Pow2[n] \in Nat
    BY <1>1
  <2> QED BY <2>1
<1>3. ASSUME NEW j \in P PROVE j + 1 \in P
  <2>1. n + j \in Nat /\ n + (j + 1) = (n + j) + 1
    OBVIOUS
  <2>2. Pow2[n + (j + 1)] = 2 * Pow2[n + j] /\ Pow2[n + j] \in Nat
        /\ Pow2[n] \in Nat
    BY <1>1, <2>1
  <2> QED BY <2>2
<1>4. P \in SUBSET Nat
  OBVIOUS
<1> HIDE DEF P
<1>5. P = Nat
  BY <1>2, <1>3, <1>4, Counting
<1> SUFFICES ASSUME n < k PROVE FALSE
  OBVIOUS
<1>6. k - 1 - n \in Nat /\ n + (k - 1 - n) = k - 1 /\ (k - 1) + 1 = k
      /\ k - 1 \in Nat
  OBVIOUS
<1>7. Pow2[n] <= Pow2[k - 1]
  BY <1>5, <1>6 DEF P
<1>8. Pow2[k] = 2 * Pow2[k - 1] /\ Pow2[k - 1] \in Nat \ {0} /\ Pow2[n] \in Nat
  BY <1>1, <1>6
<1> QED BY <1>7, <1>8

(* Numbers that agree from bit k on agree from any later bit on. *)
LEMMA HighBits ==
  ASSUME NEW x \in Nat, NEW y \in Nat, NEW k \in Nat,
         x \div Pow2[k] = y \div Pow2[k]
  PROVE  \A s \in Nat : k <= s => x \div Pow2[s] = y \div Pow2[s]
<1> DEFINE P == {s \in Nat : k <= s => x \div Pow2[s] = y \div Pow2[s]}
<1>1. 0 \in P
  OBVIOUS
<1>2. ASSUME NEW s \in P PROVE s + 1 \in P
  <2> SUFFICES ASSUME k <= s + 1
               PROVE  x \div Pow2[s + 1] = y \div Pow2[s + 1]
    OBVIOUS
  <2>1. CASE k = s + 1
    BY <2>1
  <2>2. CASE k # s + 1
    <3> DEFINE p == Pow2[s]
    <3>1. k <= s
      BY <2>2
    <3>2. p \in Nat \ {0} /\ Pow2[s + 1] = 2 * p /\ x \div p = y \div p
      BY <3>1, Powers
    <3> HIDE DEF p
    <3>3. /\ x \div (2 * p) = (x \div p) \div 2
          /\ y \div (2 * p) = (y \div p) \div 2
      BY <3>2, HalfFirst
    <3> QED BY <3>2, <3>3
  <2> QED BY <2>1, <2>2
<1>3. P \in SUBSET Nat
  OBVIOUS
<1> HIDE DEF P
<1>4. P = Nat
  BY <1>1, <1>2, <1>3, Counting
<1> QED BY <1>4 DEF P

(* Each bit of a hash is that of the line, or its complement, as the seed  *)
(* and two higher bits of the line say.                                    *)
LEMMA HashBits ==
  ASSUME NEW l \in Nat
  PROVE  /\ Hash(l) \in Nat
         /\ \A i \in 0 .. Width - 1 :
              Bit(Hash(l), i) =
                Differ(Differ(Differ(Bit(l, i), Bit(HashSeed, i)),
                              Bit(l \div Pow2[HashShift], i)),
                       Bit(l \div Pow2[2 * HashShift], i))
<1> DEFINE f == l \div Pow2[HashShift]
           g == l \div Pow2[2 * HashShift]
           x == BitXor(l, HashSeed)
           y == BitXor(x, f)
<1>1. HashSeed \in Nat /\ HashShift \in Nat /\ 2 * HashShift \in Nat
  BY AddressAssumption
<1>2. Pow2[HashShift] \in Nat \ {0} /\ Pow2[2 * HashShift] \in Nat \ {0}
  BY <1>1, Powers
<1>3. f \in Nat /\ g \in Nat
  BY <1>2, Quotient
<1>4. Hash(l) = BitXor(y, g)
  BY DEF Hash
<1> HIDE DEF f, g
<1>5. /\ x \in Nat
      /\ \A i \in 0 .. Width - 1 :
           Bit(x, i) = Differ(Bit(l, i), Bit(HashSeed, i))
  BY <1>1, XorBits
<1> HIDE DEF x
<1>6. /\ y \in Nat
      /\ \A i \in 0 .. Width - 1 : Bit(y, i) = Differ(Bit(x, i), Bit(f, i))
  BY <1>3, <1>5, XorBits
<1> HIDE DEF y
<1>7. /\ BitXor(y, g) \in Nat
      /\ \A i \in 0 .. Width - 1 :
           Bit(BitXor(y, g), i) = Differ(Bit(y, i), Bit(g, i))
  BY <1>3, <1>6, XorBits
<1> QED BY <1>4, <1>5, <1>6, <1>7 DEF f, g

(* Lines of one stretch have different hashes. *)
LEMMA HashTellsApart ==
  ASSUME NEW k \in Nat, k <= HashShift, k <= Width,
         NEW l \in Nat, NEW m \in Nat,
         l \div Pow2[k] = m \div Pow2[k],
         Hash(l) % Pow2[k] = Hash(m) % Pow2[k]
  PROVE  l = m
<1>1. HashSeed \in Nat /\ HashShift \in Nat /\ 2 * HashShift \in Nat
      /\ Width \in Nat
  BY AddressAssumption
<1>2. /\ l \div Pow2[HashShift] = m \div Pow2[HashShift]
      /\ l \div Pow2[2 * HashShift] = m \div Pow2[2 * HashShift]
  <2>1. k <= 2 * HashShift
    BY <1>1
  <2> QED BY <1>1, <2>1, HighBits
<1>3. SameBits(Hash(l), Hash(m), k)
  BY HashBits, LowBits
<1>4. SameBits(l, m, k)
  <2> SUFFICES ASSUME NEW i \in 0 .. k - 1 PROVE Bit(l, i) = Bit(m, i)
    BY DEF SameBits
  <2> DEFINE b == Bit(l, i)
             d == Bit(m, i)
             u == Bit(HashSeed, i)
             v == Bit(l \div Pow2[HashShift], i)
             w == Bit(l \div Pow2[2 * HashShift], i)
  <2>1. i \in 0 .. Width - 1 /\ i \in Nat
    BY <1>1
  <2>2. Differ(Differ(Differ(b, u), v), w) = Differ(Differ(Differ(d, u), v), w)
    BY <1>2, <1>3, <2>1, HashBits DEF SameBits
  <2>3. b \in 0 .. 1 /\ d \in 0 .. 1 /\ u \in 0 .. 1 /\ v \in 0 .. 1 /\ w \in 0 .. 1
    <3>1. Pow2[HashShift] \in Nat \ {0} /\ Pow2[2 * HashShift] \in Nat \ {0}
      BY <1>1, Powers
    <3>2. l \div Pow2[HashShift] \in Nat /\ l \div Pow2[2 * HashShift] \in Nat
      BY <3>1, Quotient
    <3> QED BY <1>1, <2>1, <3>2, Bits
  <2> HIDE DEF b, d, u, v, w
  <2>4. \A e, c, a \in 0 .. 1 : Differ(e, c) = Differ(a, c) => e = a
    BY DEF Differ
  <2>5. \A e, c : Differ(e, c) \in 0 .. 1
    BY DEF Differ
  <2>6. b = d
    BY <2>2, <2>3, <2>4, <2>5
  <2> QED BY <2>6 DEF b, d
<1>5. l % Pow2[k] = m % Pow2[k]
  BY <1>4, LowBits
<1> DEFINE p == Pow2[k]
<1>6. p \in Nat \ {0}
  BY Powers
<1> HIDE DEF p
<1>7. l = p * (l \div p) + (l % p) /\ m = p * (m \div p) + (m % p)
  BY <1>6, Rest
<1> QED BY <1>5, <1>7 DEF p

-----------------------------------------------------------------------------
(* The decoder *)

(* What the configurations of the fabric are. *)
Known(c) == Accepted(c) /\ c.interleave \in Interleaving

(* The slice that has a line, when lines are spread. *)
Share(c, l) == (IF c.interleave = "XOR_HASH" THEN Hash(l) ELSE l) % c.targets

LEMMA ShareInRange ==
  ASSUME NEW c, Known(c), NEW l \in Nat
  PROVE  Share(c, l) \in 0 .. c.targets - 1
<1>1. c.targets \in Nat \ {0}
  BY Sizes DEF Known
<1>2. (IF c.interleave = "XOR_HASH" THEN Hash(l) ELSE l) \in Nat
  BY HashBits
<1> QED BY <1>1, <1>2, Rest DEF Share

(* What the targets of the configuration helper look like. *)
LEMMA Targets ==
  ASSUME NEW c, NEW t
  PROVE  /\ Target(c, t).begin = 0
         /\ c.interleave # "NONE" =>
              /\ Target(c, t).size = Limit /\ ~Target(c, t).default
              /\ Target(c, t).unit = LineSize /\ Target(c, t).num = c.targets
              /\ Target(c, t).idx = t
         /\ c.interleave = "NONE" =>
              /\ Target(c, t).size = IF t = 0 THEN Limit ELSE 0
              /\ Target(c, t).default <=> t = 0
              /\ Target(c, t).num = 1
BY DEF Target

(* Without interleaving the default target has every address. *)
LEMMA AllToOne ==
  ASSUME NEW c, Known(c), c.interleave = "NONE", NEW a \in Nat
  PROVE  DecodeTarget(c, a) = 0 /\ TargetForAddress(c, a) = 0
<1>1. c.targets \in Nat \ {0}
  BY Sizes DEF Known
<1>2. DefaultTarget(c) = 0
  <2> DEFINE D == {t \in 0 .. c.targets - 1 : Target(c, t).default}
  <2>1. D = {0}
    BY <1>1, Targets
  <2>2. (CHOOSE t \in {0} : \A u \in {0} : u <= t) = 0
    OBVIOUS
  <2> HIDE DEF D
  <2> QED BY <2>1, <2>2 DEF DefaultTarget, D
<1>3. \A t \in 0 .. c.targets - 1 :
        Target(c, t).default \/ ~Contains(Target(c, t), a)
  BY Targets DEF Contains
<1> QED BY <1>2, <1>3 DEF DecodeTarget, TargetForAddress, Matches

(* Beyond the limit no target matches, and the first one has the address.  *)
LEMMA Beyond ==
  ASSUME NEW c, Known(c), c.interleave # "NONE", NEW a \in Nat, Limit <= a
  PROVE  DecodeTarget(c, a) = 0 /\ TargetForAddress(c, a) = 0
<1>1. \A t : ~Contains(Target(c, t), a) /\ ~Target(c, t).default
  BY Targets, AddressAssumption DEF Contains
<1>2. DefaultTarget(c) = 0
  BY <1>1 DEF DefaultTarget
<1> QED BY <1>1, <1>2 DEF DecodeTarget, TargetForAddress, Matches

(* Below it exactly the target with its share has it. *)
LEMMA Spread ==
  ASSUME NEW c, Known(c), c.interleave # "NONE", NEW a \in Nat, a < Limit
  PROVE  /\ \A t \in 0 .. c.targets - 1 :
              Matches(c, Target(c, t), a) <=> t = Share(c, a \div LineSize)
         /\ DecodeTarget(c, a) = Share(c, a \div LineSize)
         /\ TargetForAddress(c, a) = Share(c, a \div LineSize)
<1> DEFINE l == a \div LineSize
           s == Share(c, l)
           I == 0 .. c.targets - 1
<1>1. c.targets \in Nat \ {0}
  BY Sizes DEF Known
<1>2. l \in Nat /\ LineSize # 0
  BY AddressAssumption, Quotient
<1>3. ASSUME NEW t \in I
      PROVE  /\ Contains(Target(c, t), a) /\ ~Target(c, t).default
             /\ Slice(c, Target(c, t), a) = s
             /\ Target(c, t).num = c.targets /\ Target(c, t).idx = t
             /\ Target(c, t).unit # 0
  <2>1. /\ Target(c, t).begin = 0 /\ Target(c, t).size = Limit
        /\ ~Target(c, t).default /\ Target(c, t).unit = LineSize
        /\ Target(c, t).num = c.targets /\ Target(c, t).idx = t
    BY Targets
  <2>2. a - 0 = a /\ a >= 0 /\ a < 0 + Limit
    BY AddressAssumption
  <2>3. HomeLine(Target(c, t), a) = l
    BY <2>1, <2>2 DEF HomeLine
  <2> HIDE DEF l
  <2>4. Slice(c, Target(c, t), a) = s
    BY <2>1, <2>3 DEF Slice, XorHashSlice, LinearSlice, Share
  <2> QED BY <1>2, <2>1, <2>2, <2>4 DEF Contains
<1>4. s \in I
  <2> HIDE DEF l
  <2> QED BY <1>2, ShareInRange
<1>5. c.targets <= 1 => I = {0}
  BY <1>1
<1> HIDE DEF s, l
<1>6. \A t \in I : Matches(c, Target(c, t), a) <=> t = s
  BY <1>1, <1>3, <1>4, <1>5 DEF Matches
<1>7. \A t \in I : ~InterleaveEnabled(Target(c, t)) <=> c.targets <= 1
  BY <1>1, <1>3 DEF InterleaveEnabled
<1>8. First({s}) = s
  <2>1. (CHOOSE t \in {s} : \A u \in {s} : t <= u) = s
    BY <1>1, <1>4
  <2> QED BY <2>1 DEF First
<1>9. {t \in I : ~Target(c, t).default /\ Matches(c, Target(c, t), a)} = {s}
  BY <1>3, <1>4, <1>6
<1>10. {t \in I : /\ ~Target(c, t).default
                  /\ Contains(Target(c, t), a)
                  /\ \/ ~InterleaveEnabled(Target(c, t))
                     \/ Slice(c, Target(c, t), a) = Target(c, t).idx} = {s}
  BY <1>3, <1>4, <1>5, <1>7
<1>11. DecodeTarget(c, a) = s
  BY <1>8, <1>9 DEF DecodeTarget
<1>12. TargetForAddress(c, a) = s
  BY <1>8, <1>10 DEF TargetForAddress
<1> QED BY <1>6, <1>11, <1>12 DEF s, l

(* All sectors of a line are on one side of the limit. *)
LEMMA SectorsTogether ==
  ASSUME NEW a \in Nat
  PROVE  LET b == a - (a % LineSize)
         IN  /\ b \in Nat /\ b \div LineSize = a \div LineSize
             /\ b < Limit <=> a < Limit
<1> DEFINE n == LineSize
           q == a \div n
           r == a % n
           b == a - r
           d == Limit \div n
<1>1. n \in Nat \ {0} /\ Limit \in Nat /\ Limit % n = 0
  BY AddressAssumption
<1> HIDE DEF n
<1>2. q \in Nat /\ r \in 0 .. n - 1 /\ a = n * q + r
  BY <1>1, Quotient, Rest
<1>3. d \in Nat /\ Limit = n * d
  <2>1. d \in Nat /\ Limit = n * d + (Limit % n)
    BY <1>1, Quotient, Rest
  <2>2. n * d \in Nat
    BY <1>1, <2>1
  <2> QED BY <1>1, <2>1, <2>2
<1> HIDE DEF q, r, d
<1>4. b = n * q /\ b \in Nat
  BY <1>1, <1>2
<1> HIDE DEF b
<1>5. b \div n = q
  BY <1>1, <1>2, <1>4, QuotientIs
<1>6. b < Limit <=> a < Limit
  <2>1. b <= a
    BY <1>1, <1>2, <1>4
  <2>2. ASSUME b < Limit PROVE a < Limit
    <3>1. q < d
      BY <1>1, <1>2, <1>3, <1>4, <2>2, Smaller
    <3>2. n * q + n <= n * d
      BY <1>1, <1>2, <1>3, <3>1, Multiples
    <3> QED BY <1>1, <1>2, <1>3, <1>4, <3>2
  <2> QED BY <1>1, <1>2, <1>4, <2>1, <2>2
<1> QED BY <1>4, <1>5, <1>6 DEF b, r, q, n

(* The i-th line of the k-th stretch of t lines is below the limit. *)
LEMMA Stretch ==
  ASSUME NEW t \in Nat \ {0}, NEW k \in 0 .. Limit \div (LineSize * t) - 1,
         NEW i \in 0 .. t - 1
  PROVE  LET l == k * t + i
         IN  /\ l \in Nat /\ l * LineSize \in Nat /\ l * LineSize < Limit
             /\ (l * LineSize) \div LineSize = l
             /\ l \div t = k /\ l % t = i
<1> DEFINE n == LineSize
           m == n * t
           l == k * t + i
           d == Limit \div m
<1>1. n \in Nat \ {0} /\ Limit \in Nat
  BY AddressAssumption
<1> HIDE DEF n
<1>2. m \in Nat \ {0}
  BY <1>1
<1>3. d \in Nat /\ m * d <= Limit
  <2> HIDE DEF m
  <2> QED BY <1>1, <1>2, Quotient
<1>4. k \in Nat /\ k < d
  <2>1. k \in 0 .. d - 1
    BY DEF n
  <2> HIDE DEF d
  <2> QED BY <1>3, <2>1
<1>5. k * t \in Nat /\ t * k = k * t /\ l \in Nat
  BY <1>4
<1>6. l \div t = k
  <2>1. t * k <= l /\ l < t * k + t
    BY <1>5
  <2> HIDE DEF l
  <2> QED BY <1>4, <1>5, <2>1, QuotientIs
<1>7. l % t = i
  <2>1. l = t * (l \div t) + (l % t) /\ l % t \in 0 .. t - 1
    <3> HIDE DEF l
    <3> QED BY <1>5, Rest
  <2> HIDE DEF l
  <2>2. l = t * k + (l % t)
    BY <1>6, <2>1
  <2> QED BY <1>5, <2>1, <2>2 DEF l
<1>8. (l * n) \div n = l /\ l * n \in Nat
  <2> HIDE DEF l
  <2>1. l * n \in Nat /\ n * l <= l * n /\ l * n < n * l + n
    BY <1>1, <1>5
  <2> QED BY <1>1, <1>5, <2>1, QuotientIs
<1>9. l * n < Limit
  <2> DEFINE e == k * t + t
  <2>1. e \in Nat /\ l < e
    BY <1>5
  <2>2. e * n = k * m + m
    <3>1. k * m = (k * t) * n /\ m = t * n
      BY <1>1, <1>4
    <3> QED BY <1>1, <1>5, <3>1
  <2> HIDE DEF e, l
  <2>3. l * n + n <= e * n
    BY <1>1, <1>5, <2>1, Multiples
  <2> HIDE DEF m, d
  <2>4. k * m + m <= d * m /\ d * m = m * d /\ k * m \in Nat
    BY <1>2, <1>3, <1>4, Multiples
  <2>5. l * n \in Nat /\ e * n \in Nat
    BY <1>8, <1>1, <2>1
  <2> QED BY <1>1, <1>2, <1>3, <2>2, <2>3, <2>4, <2>5
<1> QED BY <1>5, <1>6, <1>7, <1>8, <1>9 DEF n, l

(* Each stretch of as many lines as targets has a line for each of them. *)
LEMMA StretchesCover ==
  ASSUME NEW c, Known(c), Even(c),
         NEW k \in 0 .. Limit \div (LineSize * c.targets) - 1
  PROVE  {DecodeTarget(c, (k * c.targets + i) * LineSize) :
            i \in 0 .. c.targets - 1} = 0 .. c.targets - 1
<1> DEFINE T == c.targets
           I == 0 .. T - 1
           L(i) == k * T + i
           f == [i \in I |-> DecodeTarget(c, L(i) * LineSize)]
<1>1. T \in Nat \ {0}
  BY Sizes DEF Known
<1> HIDE DEF T
<1>2. ASSUME NEW i \in I
      PROVE  /\ L(i) \in Nat /\ L(i) * LineSize \in Nat
             /\ L(i) * LineSize < Limit
             /\ (L(i) * LineSize) \div LineSize = L(i)
             /\ L(i) \div T = k /\ L(i) % T = i
  <2>1. k \in 0 .. Limit \div (LineSize * T) - 1
    BY DEF T
  <2> QED BY <1>1, <2>1, Stretch
<1> HIDE DEF L
<1>3. c.interleave # "NONE"
  BY DEF Even
<1>4. ASSUME NEW i \in I
      PROVE  f[i] = Share(c, L(i)) /\ f[i] \in I
  <2>1. DecodeTarget(c, L(i) * LineSize) = Share(c, L(i))
    BY <1>2, <1>3, Spread
  <2>2. Share(c, L(i)) \in I
    BY <1>2, ShareInRange DEF T
  <2> QED BY <2>1, <2>2
<1> HIDE DEF f
<1>5. ASSUME NEW i \in I, NEW j \in I, f[i] = f[j] PROVE i = j
  <2>1. Share(c, L(i)) = Share(c, L(j))
    BY <1>4, <1>5
  <2>2. CASE c.interleave = "LINEAR"
    <3>1. Share(c, L(i)) = L(i) % T /\ Share(c, L(j)) = L(j) % T
      BY <2>2 DEF Share, T
    <3> QED BY <1>2, <2>1, <3>1
  <2>3. CASE c.interleave = "XOR_HASH"
    <3>1. PICK n \in 0 .. HashShift : T = Pow2[n]
      BY <2>3 DEF Even, T
    <3>2. n \in Nat /\ n <= HashShift
      BY AddressAssumption
    <3>3. n <= Width
      <4>1. Width \in Nat /\ Limit <= Pow2[Width] /\ Limit \in Nat
            /\ LineSize \in Nat \ {0}
        BY AddressAssumption
      <4>2. T <= Limit
        <5> DEFINE m == LineSize * T
                   d == Limit \div m
        <5>1. m \in Nat \ {0} /\ T <= m
          BY <1>1, <4>1
        <5>2. d \in Nat /\ m * d <= Limit
          <6> HIDE DEF m
          <6> QED BY <4>1, <5>1, Quotient
        <5>3. 1 <= d
          <6>1. k \in 0 .. d - 1
            BY DEF T
          <6> HIDE DEF d
          <6> QED BY <5>2, <6>1
        <5> HIDE DEF d, m
        <5>4. m <= m * d
          <6>1. m * d = m + m * (d - 1) /\ m * (d - 1) \in Nat
            BY <5>1, <5>2, <5>3
          <6> QED BY <5>1, <6>1
        <5> QED BY <1>1, <4>1, <5>1, <5>2, <5>4
      <4>3. Pow2[n] <= Pow2[Width]
        <5>1. Pow2[Width] \in Nat
          BY <4>1, Powers
        <5> QED BY <1>1, <3>1, <4>1, <4>2, <5>1
      <4> QED BY <3>2, <4>1, <4>3, PowersGrow
    <3>4. Hash(L(i)) % Pow2[n] = Hash(L(j)) % Pow2[n]
      BY <2>1, <2>3, <3>1 DEF Share, T
    <3>5. L(i) \div Pow2[n] = L(j) \div Pow2[n]
      BY <1>2, <3>1
    <3>6. L(i) = L(j)
      BY <1>2, <3>2, <3>3, <3>4, <3>5, HashTellsApart
    <3> QED BY <1>2, <3>6
  <2> QED BY <1>3, <2>2, <2>3 DEF Known, Interleaving
<1>6. f \in Surjection(I, I)
  <2>1. f = [i \in I |-> f[i]]
    BY DEF f
  <2>2. f \in Injection(I, I)
    BY <1>4, <1>5, <2>1 DEF Injection, IsInjective
  <2>3. IsFiniteSet(I)
    BY <1>1, FromZero
  <2> HIDE DEF I
  <2> QED BY <2>2, <2>3, FS_Injection
<1>7. {f[i] : i \in I} = I
  BY <1>4, <1>6 DEF Surjection
<1>8. \A i \in I : f[i] = DecodeTarget(c, (k * c.targets + i) * LineSize)
  BY DEF f, L, T
<1>9. {DecodeTarget(c, (k * c.targets + i) * LineSize) : i \in I} =
        {f[i] : i \in I}
  BY <1>8
<1> QED BY <1>7, <1>9 DEF T

-----------------------------------------------------------------------------
(* The theorems *)

(* The topology in use is the one of an accepted configuration. *)
TopologyInv ==
  /\ cfg \in Configs
  /\ topo = NoTopology \/ (Valid(cfg) /\ topo = Topology(cfg))

(* The fabric is only ever constructed from such a configuration. *)
LEMMA TopologyInvariant == Spec => []TopologyInv
<1>1. Init => TopologyInv
  BY DEF Init, TopologyInv
<1>2. TopologyInv /\ [Next]_topologyVars => TopologyInv'
  BY DEF TopologyInv, Next, Config, topologyVars
<1> QED BY <1>1, <1>2, PTL DEF Spec

(* For every configuration that is accepted, of any size, the stations of *)
(* the H-Ring and its nodes are one to one; the constructor               *)
(* (tm_ring_topology.cc) never runs out of stations to hand out.          *)
THEOREM HRingFilled == Spec => []HRingIsFilled
<1>1. TopologyInv => HRingIsFilled
  <2> SUFFICES ASSUME TopologyInv, Configured PROVE HRingIsFilled
    BY DEF HRingIsFilled
  <2>1. Accepted(cfg) /\ topo = Topology(cfg)
    BY TopologyAssumption
       DEF TopologyInv, Configured, Accepted, TopologyAssumption
  <2> QED BY <2>1, LayoutFilled DEF HRingIsFilled
<1> QED BY <1>1, TopologyInvariant, PTL

(* For every configuration that is accepted, every V-Ring station behind  *)
(* the bridge has one master, and the rings differ by one master at most. *)
THEOREM VRingsFilled == Spec => []VRingsAreFilled
<1>1. TopologyInv => VRingsAreFilled
  <2> SUFFICES ASSUME TopologyInv, Configured PROVE VRingsAreFilled
    BY DEF VRingsAreFilled
  <2>1. Accepted(cfg) /\ topo = Topology(cfg)
    BY TopologyAssumption
       DEF TopologyInv, Configured, Accepted, TopologyAssumption
  <2>2. /\ DOMAIN topo.vSize = VRing(cfg)
        /\ \A r \in VRing(cfg) : topo.vSize[r] = MastersOn(cfg, r) + 1
        /\ topo.master = [m \in 0 .. cfg.masters - 1 |-> MasterLocation(cfg, m)]
    BY <2>1 DEF Topology
  <2>3. ASSUME NEW r \in VRing(cfg), NEW s \in 1 .. MaxStations
        PROVE  Cardinality({m \in DOMAIN topo.master :
                              topo.master[m] = [ring |-> r, station |-> s]}) =
                 IF s < topo.vSize[r] THEN 1 ELSE 0
    <3>1. {m \in DOMAIN topo.master :
             topo.master[m] = [ring |-> r, station |-> s]} =
          {m \in 0 .. cfg.masters - 1 :
             MasterLocation(cfg, m) = [ring |-> r, station |-> s]}
      BY <2>2
    <3>2. s \in Nat \ {0}
      BY TopologyAssumption DEF TopologyAssumption
    <3>3. Cardinality({m \in 0 .. cfg.masters - 1 :
             MasterLocation(cfg, m) = [ring |-> r, station |-> s]}) =
            IF s < MastersOn(cfg, r) + 1 THEN 1 ELSE 0
      BY <2>1, <3>2, StationTaken
    <3> QED BY <2>2, <3>1, <3>3
  <2>4. /\ \A r, q \in VRing(cfg) : topo.vSize[r] <= topo.vSize[q] + 1
        /\ \A r \in VRing(cfg) : topo.vSize[r] <= cfg.perRing + 1
    <3>1. /\ \A r \in VRing(cfg) : MastersOn(cfg, r) \in 0 .. cfg.perRing
          /\ \A r, q \in VRing(cfg) : MastersOn(cfg, r) <= MastersOn(cfg, q) + 1
      BY <2>1, MastersFit
    <3>2. cfg.perRing \in Nat
      BY <2>1 DEF Accepted
    <3> QED BY <2>2, <3>1, <3>2
  <2> QED BY <2>2, <2>3, <2>4 DEF VRingsAreFilled
<1> QED BY <1>1, TopologyInvariant, PTL

(* Both together: every node has a station of its own, on every ring. *)
THEOREM RingsFilled == Spec => []RingsAreFilled
<1>1. HRingIsFilled /\ VRingsAreFilled => RingsAreFilled
  BY DEF RingsAreFilled
<1> QED BY <1>1, HRingFilled, VRingsFilled, PTL

(* For every configuration that is accepted and every ring of it, a route  *)
(* reaches its station in the fewest hops, and a carrier passes all its    *)
(* recipients within its span, with no shorter way in either direction     *)
(* (distance, route_direction and fanout_span of tm_ring_topology.cc,      *)
(* preferred_direction of tm_ring_rbrg_l1.cc).                             *)
THEOREM WaysShortest == Spec => []WaysAreShortest
<1>1. TopologyInv => WaysAreShortest
  <2> SUFFICES ASSUME TopologyInv, Configured PROVE WaysAreShortest
    BY DEF WaysAreShortest
  <2>1. Accepted(cfg) /\ topo = Topology(cfg)
    BY TopologyAssumption
       DEF TopologyInv, Configured, Accepted, TopologyAssumption
  <2> DEFINE V == {topo.vSize[r] : r \in DOMAIN topo.vSize}
  <2>2. topo.hSize \in Nat \ {0} /\ V \subseteq Nat \ {0}
    <3>1. /\ topo.hSize = HStations(cfg) /\ DOMAIN topo.vSize = VRing(cfg)
          /\ \A r \in VRing(cfg) : topo.vSize[r] = MastersOn(cfg, r) + 1
      BY <2>1 DEF Topology
    <3>2. \A r \in VRing(cfg) : MastersOn(cfg, r) \in Nat
      BY <2>1, MastersFit
    <3>3. HStations(cfg) \in Nat \ {0}
      BY <2>1, Sizes
    <3>4. \A r \in VRing(cfg) : MastersOn(cfg, r) + 1 \in Nat \ {0}
      BY <3>2
    <3> QED BY <3>1, <3>3, <3>4
  <2> HIDE DEF V
  <2>3. ASSUME NEW n \in {topo.hSize} \cup V,
               NEW s \in 0 .. n - 1, NEW t \in 0 .. n - 1, s # t
        PROVE  LET d == RouteDirection(n, s, t)
                   k == Distance(n, s, t, d)
               IN  /\ Walk(n, s, d, k) = t
                   /\ \A e \in Dirs, i \in 1 .. k - 1 : Walk(n, s, e, i) # t
    <3> DEFINE d == RouteDirection(n, s, t)
               k == Distance(n, s, t, d)
    <3>1. n \in Nat \ {0}
      BY <2>2
    <3>2. d \in Dirs /\ \A e \in Dirs : k <= Distance(n, s, t, e)
      BY <2>3, <3>1, RouteIsShortest
    <3>3. Walk(n, s, d, k) = t /\ k \in 0 .. n - 1
      BY <3>1, <3>2, Reaches
    <3>4. ASSUME NEW e \in Dirs, NEW i \in 1 .. k - 1, Walk(n, s, e, i) = t
          PROVE  FALSE
      <4> HIDE DEF d, k
      <4>1. i \in 0 .. n - 1 /\ i < k
        BY <3>1, <3>3
      <4>2. i = Distance(n, s, t, e)
        BY <3>1, <3>4, <4>1, Reaches
      <4>3. k <= i
        BY <3>2, <4>2
      <4> QED BY <3>3, <4>1, <4>3
    <3> QED BY <3>3, <3>4
  <2>4. ASSUME NEW n \in V, NEW recipients \in (SUBSET (1 .. n - 1)) \ {{}},
               NEW d \in CarrierDirections(n, recipients)
        PROVE  LET k == FanoutSpan(n, 0, recipients, d)
               IN  /\ recipients \subseteq Passed(n, 0, d, k)
                   /\ \A e \in Dirs : ~(recipients \subseteq Passed(n, 0, e, k - 1))
    <3> DEFINE F(e) == FanoutSpan(n, 0, recipients, e)
               k == F(d)
    <3>1. /\ n \in Nat \ {0} /\ recipients \in SUBSET (1 .. n - 1)
          /\ recipients # {}
      <4>1. n \in Nat \ {0}
        BY <2>2
      <4>2. recipients \in SUBSET (1 .. n - 1)
        OBVIOUS
      <4>3. recipients # {}
        OBVIOUS
      <4> QED BY <4>1, <4>2, <4>3
    <3>2. d \in Dirs /\ \A e \in Dirs : k <= F(e)
      BY <3>1, CarrierIsShortest
    <3>3. ASSUME NEW e \in Dirs
          PROVE  /\ F(e) \in 1 .. n - 1
                 /\ \E t \in recipients : Distance(n, 0, t, e) = F(e)
                 /\ \A t \in recipients : Distance(n, 0, t, e) <= F(e)
      BY <3>1, Spans
    <3> HIDE DEF F
    <3>4. k \in 1 .. n - 1
      BY <3>2, <3>3
    <3>5. ASSUME NEW t \in recipients
          PROVE  t \in Passed(n, 0, d, k)
      <4> DEFINE i == Distance(n, 0, t, d)
      <4>1. 0 \in 0 .. n - 1 /\ t \in 0 .. n - 1 /\ 0 # t
        BY <3>1
      <4>2. i \in 0 .. n - 1 /\ i # 0 /\ Walk(n, 0, d, i) = t
        BY <3>1, <3>2, <4>1, Reaches
      <4>3. i <= k
        BY <3>2, <3>3
      <4>4. i \in 1 .. k
        BY <3>4, <4>2, <4>3
      <4> QED BY <4>2, <4>4 DEF Passed
    <3>6. ASSUME NEW e \in Dirs, recipients \subseteq Passed(n, 0, e, k - 1)
          PROVE  FALSE
      <4>1. PICK t \in recipients : Distance(n, 0, t, e) = F(e)
        BY <3>3
      <4>2. PICK i \in 1 .. k - 1 : t = Walk(n, 0, e, i)
        BY <3>6 DEF Passed
      <4>3. 0 \in 0 .. n - 1 /\ t \in 0 .. n - 1 /\ i \in 0 .. n - 1 /\ i < k
        BY <3>1, <3>4
      <4>4. i = F(e)
        BY <3>1, <4>1, <4>2, <4>3, Reaches
      <4>5. k <= i
        BY <3>2, <4>4
      <4> QED BY <3>4, <4>3, <4>5
    <3> QED BY <3>5, <3>6 DEF F
  <2> QED BY <2>3, <2>4 DEF WaysAreShortest, V
<1> QED BY <1>1, TopologyInvariant, PTL

(* For every configuration that is accepted, and every hash, an address    *)
(* has one home: decode_target gives all sectors of a line to the only     *)
(* target that matches, every stretch of lines is spread over all targets, *)
(* and the decoder of the reports agrees with that of the fabric.          *)
THEOREM OneHome == Spec => []LinesHaveOneHome
<1>1. TopologyInv => LinesHaveOneHome
  <2> SUFFICES ASSUME TopologyInv, Configured PROVE LinesHaveOneHome
    BY DEF LinesHaveOneHome
  <2>1. Known(cfg)
    BY TopologyAssumption
       DEF TopologyInv, Configured, Accepted, TopologyAssumption, Known
  <2>2. cfg.targets \in Nat \ {0} /\ 0 \in 0 .. cfg.targets - 1
    BY <2>1, Sizes DEF Known
  <2>3. ASSUME NEW a \in 0 .. 2 * Limit - 1
        PROVE  /\ DecodeTarget(cfg, a) \in 0 .. cfg.targets - 1
               /\ DecodeTarget(cfg, a) = TargetForAddress(cfg, a)
               /\ DecodeTarget(cfg, a) = DecodeTarget(cfg, a - (a % LineSize))
               /\ cfg.interleave # "NONE" /\ a < Limit =>
                    \A t \in 0 .. cfg.targets - 1 :
                      Matches(cfg, Target(cfg, t), a) => t = DecodeTarget(cfg, a)
    <3> DEFINE b == a - (a % LineSize)
    <3>1. a \in Nat /\ Limit \in Nat
      BY AddressAssumption
    <3>2. /\ b \in Nat /\ b \div LineSize = a \div LineSize
          /\ b < Limit <=> a < Limit
      BY <3>1, SectorsTogether
    <3> HIDE DEF b
    <3>3. CASE cfg.interleave = "NONE"
      BY <2>1, <2>2, <3>1, <3>2, <3>3, AllToOne DEF b
    <3>4. CASE cfg.interleave # "NONE" /\ ~(a < Limit)
      <4>1. Limit <= a /\ Limit <= b
        BY <3>1, <3>2, <3>4
      <4> QED BY <2>1, <2>2, <3>1, <3>2, <3>4, <4>1, Beyond DEF b
    <3>5. CASE cfg.interleave # "NONE" /\ a < Limit
      <4>1. /\ \A t \in 0 .. cfg.targets - 1 :
                 Matches(cfg, Target(cfg, t), a) <=> t = Share(cfg, a \div LineSize)
            /\ DecodeTarget(cfg, a) = Share(cfg, a \div LineSize)
            /\ TargetForAddress(cfg, a) = Share(cfg, a \div LineSize)
        BY <2>1, <3>1, <3>5, Spread
      <4>2. DecodeTarget(cfg, b) = Share(cfg, b \div LineSize)
        BY <2>1, <3>2, <3>5, Spread
      <4>3. Share(cfg, a \div LineSize) \in 0 .. cfg.targets - 1
        <5>1. a \div LineSize \in Nat
          BY <3>1, AddressAssumption, Quotient
        <5> QED BY <2>1, <5>1, ShareInRange
      <4> QED BY <3>2, <4>1, <4>2, <4>3 DEF b
    <3> QED BY <3>3, <3>4, <3>5
  <2>4. ASSUME Even(cfg),
               NEW k \in 0 .. Limit \div (LineSize * cfg.targets) - 1
        PROVE  {DecodeTarget(cfg, (k * cfg.targets + i) * LineSize) :
                  i \in 0 .. cfg.targets - 1} = 0 .. cfg.targets - 1
    BY <2>1, <2>4, StretchesCover
  <2> QED BY <2>3, <2>4 DEF LinesHaveOneHome
<1> QED BY <1>1, TopologyInvariant, PTL
=============================================================================
