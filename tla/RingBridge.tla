----------------------------- MODULE RingBridge -----------------------------
(***************************************************************************)
(* One path of TmRingRbrgL1 (tm_ring_rbrg_l1.cc), the bridge between a     *)
(* V-Ring and the H-Ring: packets that leave one ring in two eject queues, *)
(* one per direction they came from, enter the other by two inject banks,  *)
(* one per direction they leave in.  Each output has a serializer; room in *)
(* its bank is made sure of when a packet enters the serializer and used   *)
(* when the packet is handed off.  The four paths of a bridge share only   *)
(* the tie flag, which one of them uses.                                   *)
(*                                                                         *)
(* Time and events are those of RingConn: a set of the cycles still to go  *)
(* until each notification, which a reset cannot cancel.                   *)
(***************************************************************************)
EXTENDS Integers, Sequences, FiniteSets

CONSTANTS
  Packets,
  Preference,  \* direction of each packet's route, or "TIE" for a carrier of
               \* which both directions reach the last recipient equally far
  Cycles,      \* serialization cycles of each packet on the bridge
  EjectDepth,  \* entries of an eject queue of the source ring
  SplitDepth,  \* entries of an inject bank of the destination ring
  NoPkt        \* an empty serializer

Dirs == {"CW", "CCW"}

ASSUME BridgeAssumption ==
  /\ Preference \in [Packets -> Dirs \cup {"TIE"}]
  /\ Cycles \in [Packets -> Nat \ {0}]
  /\ EjectDepth \in Nat \ {0} /\ SplitDepth \in Nat \ {0}
  /\ NoPkt \notin Packets

VARIABLE path

Opposite(d) == IF d = "CW" THEN "CCW" ELSE "CW"

Everywhere(v) == [d \in Dirs |-> v]

InitPath ==
  [source |-> Everywhere(<<>>),         \* eject queues, by arrival direction
   bank |-> Everywhere(<<>>),           \* inject banks, by output direction
   serializer |-> Everywhere(NoPkt),    \* serializer_slot
   available |-> Everywhere(TRUE),      \* bandwidth_available
   bandwidth |-> Everywhere(FALSE),     \* bandwidth_event_pending
   handoff |-> Everywhere(FALSE),       \* serializer_handoff_event_pending
   retiredBandwidth |-> Everywhere(FALSE),
   retiredHandoff |-> Everywhere(FALSE),
   bandwidthDue |-> Everywhere({}),     \* cycles until each outstanding event
   handoffDue |-> Everywhere({}),
   next |-> "CW",                       \* next_input
   tie |-> "CW",                        \* fanout_tie_next_direction_
   fault |-> FALSE,                     \* a logic_error has been thrown
   hold |-> Everywhere(0),    \* history: cycles the last packet still needs
   passed |-> Everywhere(0)]  \* history: times the head's output went to the
                              \* other input

-----------------------------------------------------------------------------
(* Operators on a path state p, and the effects of the handlers on it *)

Waits(p, i) == p.source[i] # <<>>

HasCapacity(p, d) == Len(p.bank[d]) < SplitDepth

Preferred(p, i) ==
  LET way == Preference[Head(p.source[i])]
  IN  IF way = "TIE" THEN p.tie ELSE way

Wants(p, i) == IF Waits(p, i) THEN Preferred(p, i) ELSE "NONE"

(* Mutants: the bank is not asked for room; a retired release is ignored.  *)
OpenWithoutRoom(p, d) ==
  /\ p.available[d] /\ ~p.bandwidth[d] /\ ~p.retiredBandwidth[d]
  /\ ~p.handoff[d] /\ ~p.retiredHandoff[d]

OpenTooEarly(p, d) ==
  /\ p.available[d] /\ ~p.bandwidth[d]
  /\ ~p.handoff[d] /\ ~p.retiredHandoff[d]
  /\ HasCapacity(p, d)

(* An output that may take a packet. *)
Open(p, d) ==
  /\ p.available[d] /\ ~p.bandwidth[d] /\ ~p.retiredBandwidth[d]
  /\ ~p.handoff[d] /\ ~p.retiredHandoff[d]
  /\ HasCapacity(p, d)

(* The ways to give open outputs to the inputs: wants[i] is the output that *)
(* the head of input i prefers, "NONE" when nothing waits there.           *)
Assignments(wants, open) ==
  {a \in [Dirs -> Dirs \cup {"NONE"}] :
     /\ \A i \in Dirs : a[i] # "NONE" => wants[i] # "NONE" /\ open[a[i]]
     /\ a["CW"] = "NONE" \/ a["CW"] # a["CCW"]}

Served(a) == {i \in Dirs : a[i] # "NONE"}

One(b) == IF b THEN 1 ELSE 0

(* Mutant: input CW comes first, whosever turn it is. *)
RankInputCW(wants, next, a) ==
  32 * Cardinality(Served(a))
    + 8 * Cardinality({i \in Served(a) : a[i] = wants[i]})
    + 2 * One("CW" \in Served(a)) + One(a["CW"] = "CW")

(* More transfers win, then more of them in the preferred direction, then  *)
(* the input whose turn it is, then input CW, then the first one tried.    *)
Rank(wants, next, a) ==
  32 * Cardinality(Served(a))
    + 8 * Cardinality({i \in Served(a) : a[i] = wants[i]})
    + 4 * One(next \in Served(a))
    + 2 * One("CW" \in Served(a)) + One(a["CW"] = "CW")

Best ==
  [wants \in [Dirs -> Dirs \cup {"NONE"}] |->
    [open \in [Dirs -> BOOLEAN] |->
      [next \in Dirs |->
        CHOOSE a \in Assignments(wants, open) :
          \A b \in Assignments(wants, open) :
            Rank(wants, next, b) <= Rank(wants, next, a)]]]

(* start_serializer *)
Start(p, i, d) ==
  LET x == Head(p.source[i])
  IN  [p EXCEPT !.source[i] = Tail(@), !.serializer[d] = x,
                !.tie = IF Preference[x] = "TIE" THEN Opposite(@) ELSE @,
                !.available[d] = FALSE, !.bandwidth[d] = TRUE,
                !.handoff[d] = TRUE,
                !.handoffDue[d] = @ \cup {Cycles[x] - 1},
                !.bandwidthDue[d] = @ \cup {Cycles[x]},
                !.hold[d] = Cycles[x]]

Passed(p, a) ==
  [i \in Dirs |->
     CASE a[i] # "NONE" -> 0
       [] a[i] = "NONE" /\ Waits(p, i) /\ a[Opposite(i)] = Preferred(p, i) ->
            p.passed[i] + 1
       [] OTHER -> p.passed[i]]

Rivals(p) ==
  /\ \A i \in Dirs : Waits(p, i)
  /\ Preferred(p, "CW") = Preferred(p, "CCW")

Serve(p, i, a) == IF a[i] = "NONE" THEN p ELSE Start(p, i, a[i])

Chosen(p) ==
  Best[[i \in Dirs |-> Wants(p, i)]][[d \in Dirs |-> Open(p, d)]][p.next]

(* schedule_path *)
Scheduled(p) ==
  LET a == Chosen(p)
  IN  IF Served(a) = {} THEN p
      ELSE [Serve(Serve(p, "CW", a), "CCW", a)
              EXCEPT !.next = IF Rivals(p) THEN Opposite(@) ELSE @,
                     !.passed = Passed(p, a)]

-----------------------------------------------------------------------------
(* The processes *)

Init == path = InitPath

Places(p) ==
  (UNION {{p.source[d][k] : k \in DOMAIN p.source[d]} : d \in Dirs}) \cup
  (UNION {{p.bank[d][k] : k \in DOMAIN p.bank[d]} : d \in Dirs}) \cup
  ({p.serializer[d] : d \in Dirs} \ {NoPkt})

(* The Cross Station of the source ring ejects a packet to the bridge. *)
Arrive(x, i) ==
  /\ x \notin Places(path)
  /\ Len(path.source[i]) < EjectDepth
  /\ path' = [path EXCEPT !.source[i] = Append(@, x)]

(* recv_v_req, recv_v_dat, recv_h_rsp, recv_h_dat *)
Schedule ==
  \E p \in {Scheduled(path)} : p # path /\ path' = p

(* release_bandwidth, when the event of an output is due *)
ReleaseBandwidth(d) ==
  LET fired == [path EXCEPT !.bandwidthDue[d] = @ \ {0}]
  IN  /\ 0 \in path.bandwidthDue[d]
      /\ path' =
           CASE path.retiredBandwidth[d] ->
                  Scheduled([fired EXCEPT !.retiredBandwidth[d] = FALSE])
             [] ~path.retiredBandwidth[d] /\ path.bandwidth[d] ->
                  Scheduled([fired EXCEPT !.bandwidth[d] = FALSE,
                                          !.available[d] = TRUE])
             [] OTHER -> fired

(* handoff_serializer, when the event of an output is due *)
HandOff(d) ==
  LET fired == [path EXCEPT !.handoffDue[d] = @ \ {0}]
  IN  /\ 0 \in path.handoffDue[d]
      /\ path' =
           CASE path.retiredHandoff[d] ->
                  Scheduled([fired EXCEPT !.retiredHandoff[d] = FALSE])
             [] ~path.retiredHandoff[d] /\ path.handoff[d] ->
                  IF path.serializer[d] = NoPkt \/ ~HasCapacity(path, d)
                  THEN [fired EXCEPT !.fault = TRUE]
                  ELSE [fired EXCEPT !.bank[d] = Append(@, path.serializer[d]),
                                     !.serializer[d] = NoPkt,
                                     !.handoff[d] = FALSE]
             [] OTHER -> fired

(* The Cross Station of the destination ring takes the head of a bank. *)
Inject(d) ==
  /\ path.bank[d] # <<>>
  /\ path' = [path EXCEPT !.bank[d] = Tail(@)]

(* Mutant: a reset forgets the events that are pending. *)
ResetForgetsEvents ==
  path' = [InitPath EXCEPT !.bandwidthDue = path.bandwidthDue,
                           !.handoffDue = path.handoffDue,
                           !.hold = path.hold, !.fault = path.fault]

(* Mutant: a reset does not make the outputs available again. *)
ResetKeepsBusy ==
  path' = [InitPath EXCEPT
    !.available = path.available,
    !.retiredBandwidth =
       [d \in Dirs |-> path.retiredBandwidth[d] \/ path.bandwidth[d]],
    !.retiredHandoff =
       [d \in Dirs |-> path.retiredHandoff[d] \/ path.handoff[d]],
    !.bandwidthDue = path.bandwidthDue, !.handoffDue = path.handoffDue,
    !.hold = path.hold, !.fault = path.fault]

(* The fabric resets rings and bridges together. *)
Reset ==
  path' = [InitPath EXCEPT
    !.retiredBandwidth =
       [d \in Dirs |-> path.retiredBandwidth[d] \/ path.bandwidth[d]],
    !.retiredHandoff =
       [d \in Dirs |-> path.retiredHandoff[d] \/ path.handoff[d]],
    !.bandwidthDue = path.bandwidthDue, !.handoffDue = path.handoffDue,
    !.hold = path.hold, !.fault = path.fault]

Earlier(n) == IF n = 0 THEN 0 ELSE n - 1

Tick ==
  /\ \A d \in Dirs : 0 \notin path.bandwidthDue[d] \cup path.handoffDue[d]
  /\ path' = [path EXCEPT
       !.bandwidthDue = [d \in Dirs |-> {n - 1 : n \in path.bandwidthDue[d]}],
       !.handoffDue = [d \in Dirs |-> {n - 1 : n \in path.handoffDue[d]}],
       !.hold = [d \in Dirs |-> Earlier(path.hold[d])]]

Next ==
  \/ \E x \in Packets, i \in Dirs : Arrive(x, i)
  \/ Schedule
  \/ \E d \in Dirs : ReleaseBandwidth(d)
  \/ \E d \in Dirs : HandOff(d)
  \/ \E d \in Dirs : Inject(d)
  \/ Reset
  \/ Tick

(* A process runs again while its eject queue holds something, due events  *)
(* fire, time passes, and the Cross Station keeps injecting.               *)
Fairness ==
  /\ WF_path(Schedule)
  /\ WF_path(Tick)
  /\ \A d \in Dirs : WF_path(ReleaseBandwidth(d))
  /\ \A d \in Dirs : WF_path(HandOff(d))
  /\ \A d \in Dirs : WF_path(Inject(d))

Spec == Init /\ [][Next]_path

FairSpec == Spec /\ Fairness

-----------------------------------------------------------------------------
(* Properties *)

(* The type invariant. *)
PathType ==
  [source : [Dirs -> Seq(Packets)], bank : [Dirs -> Seq(Packets)],
   serializer : [Dirs -> Packets \cup {NoPkt}],
   available : [Dirs -> BOOLEAN],
   bandwidth : [Dirs -> BOOLEAN], handoff : [Dirs -> BOOLEAN],
   retiredBandwidth : [Dirs -> BOOLEAN], retiredHandoff : [Dirs -> BOOLEAN],
   bandwidthDue : [Dirs -> SUBSET Nat], handoffDue : [Dirs -> SUBSET Nat],
   next : Dirs, tie : Dirs, fault : BOOLEAN,
   hold : [Dirs -> Nat], passed : [Dirs -> Nat]]

TypeOK == path \in PathType

(* What Split capacity was promised for is still there at the handoff: the *)
(* packet in its serializer and the room in its bank, many cycles later.   *)
SplitRoomKept ==
  /\ ~path.fault
  /\ \A d \in Dirs :
       /\ path.handoff[d] <=> path.serializer[d] # NoPkt
       /\ path.handoff[d] => HasCapacity(path, d)

(* An event that is outstanding for this run or the one before, not both,  *)
(* is outstanding once.                                                    *)
Outstanding(due, live, retired) ==
  /\ ~(live /\ retired)
  /\ live \/ retired => \E n \in due : due = {n}
  /\ ~live /\ ~retired => due = {}

(* At most one release and one handoff of an output are outstanding, and   *)
(* the flags say of which run they are; the handoff comes first.           *)
EventsMatchFlags ==
  \A d \in Dirs :
    /\ Outstanding(path.bandwidthDue[d], path.bandwidth[d],
                   path.retiredBandwidth[d])
    /\ Outstanding(path.handoffDue[d], path.handoff[d], path.retiredHandoff[d])
    /\ \A m \in path.handoffDue[d], n \in path.bandwidthDue[d] : m < n

(* An output starts a packet only when the one before has paid its cycles, *)
(* also over a reset.                                                      *)
BandwidthIsPaid ==
  [][\A d \in Dirs :
       path'.serializer[d] # NoPkt /\ path.serializer[d] = NoPkt
         => path.hold[d] = 0]_path

(* While the head of an eject queue waits, the output it prefers is given  *)
(* to the other input at most once, however packets and carriers with      *)
(* equal spans follow each other.                                          *)
OvertakenOnce == \A i \in Dirs : path.passed[i] <= 1

(* The head of an eject queue gets over the bridge, whatever the other     *)
(* input keeps bringing.                                                   *)
HeadGetsOver ==
  \A x \in Packets, i \in Dirs :
    Waits(path, i) /\ Head(path.source[i]) = x ~>
      ~(Waits(path, i) /\ Head(path.source[i]) = x)
=============================================================================
