---------------------------- MODULE RingTopology ----------------------------
(***************************************************************************)
(* The layout of a fabric and the ways through its rings                   *)
(* (tm_ring_topology.cc, validate_ring_config and create_domain of         *)
(* tm_ring_core.cc, preferred_direction of tm_ring_rbrg_l1.cc).            *)
(*                                                                         *)
(* Masters are spread over as many V-Rings as are needed, each with the    *)
(* V side of its bridge at station 0.  The H sides of the bridges are      *)
(* spread over the one H-Ring, and the targets, a Home Agent and an L2     *)
(* Buffer each, take the stations that are left.  A configuration is fixed *)
(* before the fabric is constructed; one that is not valid is refused.     *)
(***************************************************************************)
EXTENDS Naturals, FiniteSets

CONSTANTS
  Configs,      \* configurations that may be asked for
  MaxStations,  \* stations of a ring at most: the width of a station bitmap
  NoTopology    \* before the fabric is constructed

Interleaving == {"NONE", "LINEAR", "XOR_HASH"}

ASSUME TopologyAssumption ==
  /\ Configs \subseteq [masters : Nat, perRing : Nat, targets : Nat,
                        interleave : Interleaving]
  /\ MaxStations \in Nat \ {0}

VARIABLES cfg, topo

topologyVars == <<cfg, topo>>

-----------------------------------------------------------------------------
(* The layout *)

VRings(c) == (c.masters + c.perRing - 1) \div c.perRing

VRing(c) == 0 .. VRings(c) - 1

(* Mutant: one ring more takes an extra master. *)
MastersOnMore(c, r) ==
  c.masters \div VRings(c) + (IF r <= c.masters % VRings(c) THEN 1 ELSE 0)

(* The first rings take one master more when the division leaves a rest. *)
MastersOn(c, r) ==
  c.masters \div VRings(c) + (IF r < c.masters % VRings(c) THEN 1 ELSE 0)

FirstMaster(c, r) ==
  LET extra == c.masters % VRings(c)
  IN  r * (c.masters \div VRings(c)) + (IF r < extra THEN r ELSE extra)

HStations(c) == VRings(c) + 2 * c.targets

HStation(c) == 0 .. HStations(c) - 1

Valid(c) ==
  /\ c.masters > 0 /\ c.perRing > 0 /\ c.targets > 0
  /\ \A r \in VRing(c) : MastersOn(c, r) + 1 <= MaxStations
  /\ HStations(c) <= MaxStations

BridgeStation(c, r) == (r * HStations(c)) \div VRings(c)

(* The stations left for targets, and the i-th of them in ring order. *)
TargetStations(c) == HStation(c) \ {BridgeStation(c, r) : r \in VRing(c)}

Place(c, s) == Cardinality({x \in TargetStations(c) : x < s})

TargetStation(c, i) == CHOOSE s \in TargetStations(c) : Place(c, s) = i

(* Mutant: the Home Agent of every target comes first. *)
HAPlaceFirst(t) == 2 * t

(* Targets alternate: Home Agent and L2 Buffer, then L2 Buffer and Home    *)
(* Agent, so that neighbouring targets put like nodes side by side.        *)
HAPlace(t) == IF t % 2 = 0 THEN 2 * t ELSE 2 * t + 1

L2Place(t) == IF t % 2 = 0 THEN 2 * t + 1 ELSE 2 * t

MasterLocation(c, m) ==
  CHOOSE l \in [ring : VRing(c), station : 1 .. c.perRing] :
    /\ l.station <= MastersOn(c, l.ring)
    /\ FirstMaster(c, l.ring) + l.station - 1 = m

Topology(c) ==
  [vSize  |-> [r \in VRing(c) |-> MastersOn(c, r) + 1],
   hSize  |-> HStations(c),
   master |-> [m \in 0 .. c.masters - 1 |-> MasterLocation(c, m)],
   bridge |-> [r \in VRing(c) |-> BridgeStation(c, r)],
   ha     |-> [t \in 0 .. c.targets - 1 |-> TargetStation(c, HAPlace(t))],
   l2     |-> [t \in 0 .. c.targets - 1 |-> TargetStation(c, L2Place(t))]]

-----------------------------------------------------------------------------
(* Ways through a ring of n stations *)

Dirs == {"CW", "CCW"}

Neighbor(n, s, d) == IF d = "CW" THEN (s + 1) % n ELSE (s + n - 1) % n

Distance(n, s, t, d) == IF d = "CW" THEN (t + n - s) % n ELSE (s + n - t) % n

RouteDirection(n, s, t) ==
  IF s = t THEN "LOCAL"
  ELSE IF Distance(n, s, t, "CW") <= Distance(n, s, t, "CCW") THEN "CW" ELSE "CCW"

(* Mutant: the span is that of the nearest recipient. *)
FanoutSpanNearest(n, s, recipients, d) ==
  CHOOSE span \in 0 .. n - 1 :
    /\ \E t \in recipients : Distance(n, s, t, d) = span
    /\ \A t \in recipients : span <= Distance(n, s, t, d)

(* How far a carrier from s goes in direction d until all have their copy. *)
FanoutSpan(n, s, recipients, d) ==
  CHOOSE span \in 0 .. n - 1 :
    /\ \E t \in recipients : Distance(n, s, t, d) = span
    /\ \A t \in recipients : Distance(n, s, t, d) <= span

(* The directions a bridge may prefer for a carrier; when the spans are    *)
(* equal it takes them in turn.                                            *)
CarrierDirections(n, recipients) ==
  LET cw == FanoutSpan(n, 0, recipients, "CW")
      ccw == FanoutSpan(n, 0, recipients, "CCW")
  IN  CASE Cardinality(recipients) = 1 ->
             {RouteDirection(n, 0, t) : t \in recipients}
        [] Cardinality(recipients) > 1 /\ cw < ccw -> {"CW"}
        [] Cardinality(recipients) > 1 /\ ccw < cw -> {"CCW"}
        [] OTHER -> Dirs

-----------------------------------------------------------------------------
(* The fabric is constructed once, from a configuration that is valid. *)

Init == cfg \in Configs /\ topo = NoTopology

Config ==
  /\ topo = NoTopology
  /\ Valid(cfg)
  /\ topo' = Topology(cfg)
  /\ UNCHANGED cfg

Next == Config

Spec == Init /\ [][Next]_topologyVars

-----------------------------------------------------------------------------
(* Properties *)

Configured == topo # NoTopology

(* The nodes of the H-Ring, and the station of each. *)
HNodes(t) == ({"bridge"} \X DOMAIN t.bridge) \cup ({"ha"} \X DOMAIN t.ha)
               \cup ({"l2"} \X DOMAIN t.l2)

At(t, x) == CASE x[1] = "bridge" -> t.bridge[x[2]]
              [] x[1] = "ha" -> t.ha[x[2]]
              [] x[1] = "l2" -> t.l2[x[2]]

(* No two nodes share a station of the H-Ring, and none is left without    *)
(* one: the constructor hands the stations between the bridges to the      *)
(* targets without asking whether there are enough of them.                *)
HRingIsFilled ==
  Configured =>
    /\ {At(topo, x) : x \in HNodes(topo)} = 0 .. topo.hSize - 1
    /\ \A x, y \in HNodes(topo) : At(topo, x) = At(topo, y) => x = y

(* Every station of a V-Ring behind the bridge has one master, rings       *)
(* differ by one master at most, and none has more than it may.            *)
VRingsAreFilled ==
  Configured =>
    /\ \A r \in DOMAIN topo.vSize, s \in 1 .. MaxStations :
         Cardinality({m \in DOMAIN topo.master :
                        topo.master[m] = [ring |-> r, station |-> s]}) =
           IF s < topo.vSize[r] THEN 1 ELSE 0
    /\ \A r, q \in DOMAIN topo.vSize : topo.vSize[r] <= topo.vSize[q] + 1
    /\ \A r \in DOMAIN topo.vSize : topo.vSize[r] <= cfg.perRing + 1

(* Both: the constructor finds a station for each node on every ring, and  *)
(* no second node for a station (tm_ring_topology.cc).                     *)
RingsAreFilled == HRingIsFilled /\ VRingsAreFilled

(* The station k hops after s. *)
Walk(n, s, d, k) ==
  LET after[i \in 0 .. k] == IF i = 0 THEN s ELSE Neighbor(n, after[i - 1], d)
  IN  after[k]

(* The stations a slot passes in its first k hops. *)
Passed(n, s, d, k) == {Walk(n, s, d, i) : i \in 1 .. k}

(* Following the links in the direction of a route reaches the destination *)
(* in the fewest hops there are; a carrier that follows the links for the  *)
(* span of its direction, and for no less, passes every recipient, and no  *)
(* other way is shorter.                                                   *)
WaysAreShortest ==
  Configured =>
    /\ \A n \in {topo.hSize} \cup {topo.vSize[r] : r \in DOMAIN topo.vSize} :
         \A s, t \in 0 .. n - 1 :
           s # t => LET d == RouteDirection(n, s, t)
                        k == Distance(n, s, t, d)
                    IN  /\ Walk(n, s, d, k) = t
                        /\ \A e \in Dirs, i \in 1 .. k - 1 : Walk(n, s, e, i) # t
    /\ \A n \in {topo.vSize[r] : r \in DOMAIN topo.vSize} :
         \A recipients \in (SUBSET (1 .. n - 1)) \ {{}} :
           \A d \in CarrierDirections(n, recipients) :
             LET k == FanoutSpan(n, 0, recipients, d)
             IN  /\ recipients \subseteq Passed(n, 0, d, k)
                 /\ \A e \in Dirs : ~(recipients \subseteq Passed(n, 0, e, k - 1))
=============================================================================
