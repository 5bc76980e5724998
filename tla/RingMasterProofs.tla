-------------------------- MODULE RingMasterProofs ---------------------------
(***************************************************************************)
(* Proofs about RingMaster: reads and writes take turns at the NIU, and    *)
(* what is outstanding is in flight once, for every trace and all depths.  *)
(***************************************************************************)
EXTENDS RingMaster, SequenceTheorems, SharedLemmas

-----------------------------------------------------------------------------
(* Turns *)

MasterType ==
  [next : [Cmds -> Nat \ {0}], open : SUBSET Txns,
   chan : [Cmds \cup {"WR_DAT"} -> Seq(Txns)], owed : Seq(Txns)]

NiuType == [turn : Cmds, reserved : Cmds \cup {"NONE"}]

(* What the NIU has chosen is still offered, and the turn has moved on; a  *)
(* command passed over once is chosen or has the turn.                     *)
TurnInv ==
  /\ master \in MasterType
  /\ niu \in NiuType
  /\ passed \in [Cmds -> Nat]
  /\ niu.reserved # "NONE" =>
       niu.reserved \in Offered /\ niu.turn = Other(niu.reserved)
  /\ \A k \in Cmds : passed[k] # 0 =>
       /\ passed[k] = 1
       /\ k \in Offered
       /\ niu.reserved = k \/ (niu.reserved = "NONE" /\ niu.turn = k)

(* There are two commands. *)
LEMMA TwoCommands ==
  \A k \in Cmds : /\ Other(k) \in Cmds /\ Other(k) # k /\ Other(Other(k)) = k
                  /\ Cmds = {k, Other(k)} /\ k # "NONE" /\ k # "WR_DAT"
BY DEF Cmds, Other

(* The trace consists of the transactions. *)
LEMMA TraceType ==
  ASSUME NEW k \in Cmds, NEW i \in 1 .. Len(Trace[k])
  PROVE  Trace[k][i] \in Txns
<1>1. CASE k = "RD"
  <2>1. Trace[k] = Reads
    BY <1>1 DEF Trace
  <2>2. Reads[i] \in Entries(Reads)
    BY <2>1, MasterAssumption, ElementOfSeq DEF MasterAssumption
  <2> QED BY <2>1, <2>2 DEF Txns
<1>2. CASE k = "WR"
  <2>1. Trace[k] = Writes
    BY <1>2 DEF Trace
  <2>2. Writes[i] \in Entries(Writes)
    BY <2>1, MasterAssumption, ElementOfSeq DEF MasterAssumption
  <2> QED BY <2>1, <2>2 DEF Txns
<1> QED BY <1>1, <1>2 DEF Cmds

(* A channel that offers something does so after an issue. *)
LEMMA IssueOneType ==
  ASSUME NEW m \in MasterType, NEW k \in Cmds
  PROVE  /\ IssueOne(m, k) \in MasterType
         /\ \A j \in Cmds : m.chan[j] # <<>> => IssueOne(m, k).chan[j] # <<>>
<1> DEFINE t == Trace[k][m.next[k]]
           n == [m EXCEPT !.next[k] = @ + 1, !.open = @ \cup {t},
                          !.chan[k] = Append(@, t),
                          !.owed = IF k = "WR" THEN Append(@, t) ELSE @]
<1>1. CASE ~MayIssue(m, k)
  BY <1>1 DEF IssueOne
<1>2. CASE MayIssue(m, k)
  <2>1. IssueOne(m, k) = n
    BY <1>2 DEF IssueOne
  <2>2. /\ m.chan[k] \in Seq(Txns) /\ m.owed \in Seq(Txns)
        /\ m.next[k] \in Nat \ {0}
    BY DEF MasterType
  <2>3. t \in Txns
    <3>1. m.next[k] <= Len(Trace[k])
      BY <1>2 DEF MayIssue
    <3>2. Len(Trace[k]) \in Nat
      BY MasterAssumption, LenProperties DEF Trace, Cmds, MasterAssumption
    <3> QED BY <2>2, <3>1, <3>2, TraceType
  <2> HIDE DEF t
  <2>4. /\ Append(m.chan[k], t) \in Seq(Txns) /\ Append(m.chan[k], t) # <<>>
        /\ Append(m.owed, t) \in Seq(Txns)
    BY <2>2, <2>3, AppendProperties
  <2> DEFINE owed == IF k = "WR" THEN Append(m.owed, t) ELSE m.owed
  <2>5. n \in MasterType
    <3>1. owed \in Seq(Txns)
      BY <2>2, <2>4
    <3>2. n = [m EXCEPT !.next = [m.next EXCEPT ![k] = m.next[k] + 1],
                        !.open = m.open \cup {t},
                        !.chan = [m.chan EXCEPT ![k] = Append(m.chan[k], t)],
                        !.owed = owed]
      BY DEF MasterType
    <3> HIDE DEF owed, n
    <3>3. [m.next EXCEPT ![k] = m.next[k] + 1] \in [Cmds -> Nat \ {0}]
      BY <2>2 DEF MasterType
    <3>4. [m.chan EXCEPT ![k] = Append(m.chan[k], t)]
            \in [Cmds \cup {"WR_DAT"} -> Seq(Txns)]
      BY <2>4 DEF MasterType
    <3>5. m.open \cup {t} \in SUBSET Txns
      BY <2>3 DEF MasterType
    <3> QED BY <3>1, <3>2, <3>3, <3>4, <3>5 DEF MasterType
  <2>6. n.chan = [m.chan EXCEPT ![k] = Append(m.chan[k], t)]
    BY DEF MasterType
  <2>7. \A j \in Cmds : m.chan[j] # <<>> => n.chan[j] # <<>>
    BY <2>4, <2>6 DEF MasterType
  <2> QED BY <2>1, <2>5, <2>7
<1> QED BY <1>1, <1>2

(* A step that leaves the NIU alone and takes nothing from the channels. *)
LEMMA ElsewhereStep ==
  ASSUME TurnInv, UNCHANGED <<niu, passed>>, master' \in MasterType,
         \A k \in Cmds : master.chan[k] # <<>> => master'.chan[k] # <<>>
  PROVE  TurnInv'
<1>1. Offered \subseteq Offered'
  BY DEF Offered
<1> QED BY <1>1 DEF TurnInv

(* An issue only fills the channels. *)
LEMMA IssueStep ==
  ASSUME TurnInv, Issue
  PROVE  TurnInv'
<1>1. master \in MasterType
  BY DEF TurnInv
<1>2. "RD" \in Cmds /\ "WR" \in Cmds
  BY DEF Cmds
<1>3. /\ IssueOne(master, "RD") \in MasterType
      /\ \A j \in Cmds : master.chan[j] # <<>> =>
           IssueOne(master, "RD").chan[j] # <<>>
  BY <1>1, <1>2, IssueOneType
<1>4. /\ master' \in MasterType
      /\ \A j \in Cmds : IssueOne(master, "RD").chan[j] # <<>> =>
           master'.chan[j] # <<>>
  BY <1>2, <1>3, IssueOneType DEF Issue
<1> QED BY <1>3, <1>4, ElsewhereStep DEF Issue

(* Write data has a channel of its own. *)
LEMMA DataStep ==
  ASSUME TurnInv, SendData \/ RecvBiuData
  PROVE  TurnInv'
<1>1. master \in MasterType
  BY DEF TurnInv
<1>2. CASE SendData
  <2>1. /\ Head(master.owed) \in Txns /\ Tail(master.owed) \in Seq(Txns)
        /\ Append(master.chan["WR_DAT"], Head(master.owed)) \in Seq(Txns)
    BY <1>1, <1>2, HeadTailProperties, AppendProperties DEF SendData, MasterType
  <2>2. master' \in MasterType
    BY <1>1, <1>2, <2>1 DEF SendData, MasterType
  <2>3. \A k \in Cmds : master'.chan[k] = master.chan[k]
    BY <1>1, <1>2, TwoCommands DEF SendData, MasterType
  <2> QED BY <1>2, <2>2, <2>3, ElsewhereStep DEF SendData
<1>3. CASE RecvBiuData
  <2>1. Tail(master.chan["WR_DAT"]) \in Seq(Txns)
    BY <1>1, <1>3, HeadTailProperties DEF RecvBiuData, MasterType
  <2>2. master' \in MasterType
    BY <1>1, <1>3, <2>1 DEF RecvBiuData, Pop, MasterType
  <2>3. \A k \in Cmds : master'.chan[k] = master.chan[k]
    BY <1>1, <1>3, TwoCommands DEF RecvBiuData, Pop, MasterType
  <2> QED BY <1>3, <2>2, <2>3, ElsewhereStep DEF RecvBiuData
<1> QED BY <1>2, <1>3

(* The NIU passes over a command only when it had no claim. *)
LEMMA RequestStep ==
  ASSUME TurnInv, RecvBiuRequest
  PROVE  TurnInv'
<1> DEFINE k == IF niu.reserved = "NONE" THEN Winner ELSE niu.reserved
           o == Other(k)
<1>1. /\ master \in MasterType /\ niu \in NiuType /\ passed \in [Cmds -> Nat]
      /\ Offered # {} /\ Offered \subseteq Cmds
  BY DEF TurnInv, RecvBiuRequest, Offered
<1>2. k \in Offered
  <2>1. niu.turn \in Cmds
    BY <1>1 DEF NiuType
  <2>2. Winner \in Offered
    BY <1>1, <2>1, TwoCommands DEF Winner
  <2> QED BY <2>2 DEF TurnInv
<1>3. k \in Cmds /\ o \in Cmds /\ o # k /\ Cmds = {k, o} /\ o # "NONE" /\ k # "NONE"
  BY <1>1, <1>2, TwoCommands
<1>4. (IF niu.reserved = "NONE" THEN o ELSE niu.turn) = o
  BY <1>2, TwoCommands DEF TurnInv
<1>5. passed[o] = 0
  <2> SUFFICES ASSUME passed[o] # 0 PROVE FALSE
    OBVIOUS
  <2>1. o \in Offered
        /\ (niu.reserved = o \/ (niu.reserved = "NONE" /\ niu.turn = o))
    BY <1>3 DEF TurnInv
  <2> QED BY <1>3, <2>1 DEF Winner
<1>6. \/ Forward(k) /\ niu' = [turn |-> o, reserved |-> "NONE"]
      \/ niu' = [turn |-> o, reserved |-> k] /\ UNCHANGED <<master, passed>>
  BY <1>4 DEF RecvBiuRequest
<1> HIDE DEF k, o
<1>7. CASE Forward(k) /\ niu' = [turn |-> o, reserved |-> "NONE"]
  <2>1. master.chan[k] # <<>> /\ master.chan[k] \in Seq(Txns)
    BY <1>1, <1>2, <1>3 DEF Offered, MasterType
  <2>2. Tail(master.chan[k]) \in Seq(Txns)
    BY <2>1, HeadTailProperties
  <2>3. master' \in MasterType
    BY <1>1, <1>3, <1>7, <2>2 DEF Forward, Pop, MasterType
  <2>4. master'.chan[o] = master.chan[o]
    BY <1>1, <1>3, <1>7 DEF Forward, Pop, MasterType
  <2>5. /\ passed' \in [Cmds -> Nat] /\ passed'[k] = 0
        /\ passed'[o] = IF o \in Offered THEN 1 ELSE 0
    BY <1>1, <1>3, <1>5, <1>7 DEF Forward, o
  <2>6. o \in Offered => o \in Offered'
    BY <1>3, <2>4 DEF Offered
  <2>7. niu' \in NiuType /\ niu'.turn = o /\ niu'.reserved = "NONE"
    BY <1>3, <1>7 DEF NiuType
  <2> QED BY <1>3, <2>3, <2>5, <2>6, <2>7 DEF TurnInv
<1>8. CASE niu' = [turn |-> o, reserved |-> k] /\ UNCHANGED <<master, passed>>
  <2>1. niu' \in NiuType /\ niu'.turn = o /\ niu'.reserved = k
    BY <1>3, <1>8 DEF NiuType
  <2>2. Offered' = Offered
    BY <1>8 DEF Offered
  <2> QED BY <1>1, <1>2, <1>3, <1>5, <1>8, <2>1, <2>2 DEF TurnInv, o
<1> QED BY <1>6, <1>7, <1>8

(* The answers concern neither the channels nor the NIU's choice. *)
LEMMA AnswerStep ==
  ASSUME TurnInv,
         \/ RecvRsp \/ RecvDat
         \/ \E q \in {"REQ", "DAT"} : Take(q)
         \/ \E t \in Txns : Answer(t)
         \/ \E k \in Cmds : Receive(k)
  PROVE  TurnInv'
<1>1. master \in MasterType
  BY DEF TurnInv
<1>2. CASE \E k \in Cmds : Receive(k)
  <2>1. PICK k \in Cmds : Receive(k)
    BY <1>2
  <2> DEFINE open == master.open \ {Head(back[k])}
  <2>2. \/ master' = master
        \/ master' = [master EXCEPT !.open = open]
    BY <2>1 DEF Receive
  <2>3. open \in SUBSET Txns
    BY <1>1 DEF MasterType
  <2> HIDE DEF open
  <2>4. master' \in MasterType /\ master'.chan = master.chan
    BY <1>1, <2>2, <2>3 DEF MasterType
  <2>5. UNCHANGED <<niu, passed>>
    BY <2>1 DEF Receive
  <2> QED BY <2>4, <2>5, ElsewhereStep
<1>3. CASE ~\E k \in Cmds : Receive(k)
  <2>1. UNCHANGED <<master, niu, passed>>
    BY <1>3 DEF RecvRsp, RecvDat, Return, Take, Answer
  <2> QED BY <1>1, <2>1, ElsewhereStep
<1> QED BY <1>2, <1>3

(* A new master is in order, whoever has the turn. *)
LEMMA NewMaster ==
  InitMaster \in MasterType
<1>1. <<>> \in Seq(Txns)
  BY EmptySeq
<1> QED BY <1>1 DEF InitMaster, MasterType

(* No command lets two requests of the other one go first. *)
THEOREM TurnsTaken == Spec => []CommandsTakeTurns
<1>1. Init => TurnInv
  BY NewMaster DEF Init, InitNiu, TurnInv, NiuType, Cmds
<1>2. TurnInv /\ [Next]_vars => TurnInv'
  <2> SUFFICES ASSUME TurnInv, [Next]_vars PROVE TurnInv'
    OBVIOUS
  <2>1. CASE UNCHANGED vars
    <3>1. Offered' = Offered
      BY <2>1 DEF vars, Offered
    <3> QED BY <2>1, <3>1 DEF vars, TurnInv
  <2>2. CASE Reset
    <3>1. /\ master' \in MasterType /\ niu' \in NiuType
          /\ niu'.reserved = "NONE" /\ passed' = [k \in Cmds |-> 0]
      BY <2>2, NewMaster DEF Reset, TurnInv, NiuType
    <3> QED BY <3>1 DEF TurnInv
  <2>3. CASE Next /\ ~Reset
    BY <2>3, IssueStep, DataStep, RequestStep, AnswerStep DEF Next, NiuStep
  <2> QED BY <2>1, <2>2, <2>3
<1>3. TurnInv => CommandsTakeTurns
  BY DEF TurnInv, CommandsTakeTurns
<1> QED BY <1>1, <1>2, <1>3, PTL DEF Spec

-----------------------------------------------------------------------------
(* Flights *)

(* Where a request or its answer can be. *)
Spots ==
  {<<"channel", k>> : k \in Cmds} \cup {<<"bank", "REQ">>, <<"fabric", "REQ">>}
    \cup {<<"eject", q>> : q \in {"RSP", "DAT"}} \cup {<<"back", k>> : k \in Cmds}

(* The transactions at spot p when the master is m. *)
At(m, p) ==
  CASE p[1] = "channel" -> Entries(m.chan[p[2]])
    [] p[1] = "bank" -> Entries(bank["REQ"])
    [] p[1] = "fabric" -> taken["REQ"]
    [] p[1] = "eject" -> Entries(eject[p[2]])
    [] OTHER -> Entries(back[p[2]])

Where(m) == [p \in Spots |-> At(m, p)]

(* The transactions O, each of them in one place. *)
Placed(F, O) ==
  /\ \A p, q \in Spots : p # q => F[p] \cap F[q] = {}
  /\ \A t : t \in O <=> \E p \in Spots : t \in F[p]

(* What a master has issued. *)
Issued(m) ==
  {t \in Txns : \E k \in Cmds : \E i \in 1 .. (m.next[k] - 1) : t = Trace[k][i]}

Flight(m) ==
  /\ m \in MasterType
  /\ \A k \in Cmds : m.next[k] <= Len(Trace[k]) + 1 /\ Once(m.chan[k], Txns)
  /\ Placed(Where(m), m.open)
  /\ Issued(m) = m.open \cup answers.done /\ m.open \cap answers.done = {}
  /\ MaxOutstanding = 0 \/ Cardinality(m.open) <= MaxOutstanding

Queued ==
  /\ bank \in [{"REQ", "DAT"} -> Seq(Txns)] /\ Once(bank["REQ"], Txns)
  /\ taken \in [{"REQ", "DAT"} -> SUBSET Txns]
  /\ eject \in [{"RSP", "DAT"} -> Seq(Txns)]
  /\ \A q \in {"RSP", "DAT"} : Once(eject[q], Txns)
  /\ back \in [Cmds -> Seq(Txns)]
  /\ \A k \in Cmds : Once(back[k], Txns)
  /\ answers \in [done : SUBSET Txns, stray : {0}]

FlightInv == Flight(master) /\ Queued

(* A transaction is once in the trace, and they are finitely many. *)
LEMMA TraceOnce ==
  /\ IsFiniteSet(Txns)
  /\ \A k \in Cmds : Len(Trace[k]) \in Nat /\ Trace[k] \in Seq(Txns)
  /\ \A k, l \in Cmds : \A i \in 1 .. Len(Trace[k]), j \in 1 .. Len(Trace[l]) :
       Trace[k][i] = Trace[l][j] => k = l /\ i = j
  /\ \A t \in Txns : \E k \in Cmds : \E i \in 1 .. Len(Trace[k]) : t = Trace[k][i]
<1> DEFINE a == Len(Reads)
           b == Len(Writes)
           f == [i \in 1 .. a + b |-> IF i <= a THEN Reads[i] ELSE Writes[i - a]]
<1>1. /\ a \in Nat /\ b \in Nat /\ DOMAIN Reads = 1 .. a /\ DOMAIN Writes = 1 .. b
      /\ \A i \in 1 .. a : Reads[i] \in Entries(Reads)
      /\ \A i \in 1 .. b : Writes[i] \in Entries(Writes)
  <2>1. Reads \in Seq(Entries(Reads)) /\ Writes \in Seq(Entries(Writes))
    BY MasterAssumption DEF MasterAssumption
  <2>2. a \in Nat /\ b \in Nat /\ DOMAIN Reads = 1 .. a /\ DOMAIN Writes = 1 .. b
    BY <2>1, LenProperties
  <2> QED BY <2>2 DEF Entries
<1>2. Trace["RD"] = Reads /\ Trace["WR"] = Writes
  BY DEF Trace, Cmds
<1>3. \A t \in Txns : \/ \E i \in 1 .. a : t = Reads[i]
                      \/ \E i \in 1 .. b : t = Writes[i]
  <2>1. DOMAIN Reads = 1 .. a /\ DOMAIN Writes = 1 .. b
    BY <1>1
  <2> HIDE DEF a, b
  <2> QED BY <2>1 DEF Txns, Entries
<1>4. Cardinality(Txns) = a + b
  BY MasterAssumption DEF MasterAssumption
<1>5. Reads \in Seq(Txns) /\ Writes \in Seq(Txns)
  BY MasterAssumption DEF MasterAssumption, Txns
<1> HIDE DEF a, b
<1>6. /\ \A i \in 1 .. a : i \in 1 .. a + b /\ f[i] = Reads[i]
      /\ \A i \in 1 .. b : a + i \in 1 .. a + b /\ f[a + i] = Writes[i]
  BY <1>1
<1>7. f \in Surjection(1 .. a + b, Txns)
  <2>1. f \in [1 .. a + b -> Txns]
    BY <1>1 DEF Txns
  <2> HIDE DEF f
  <2>2. \A t \in Txns : \E i \in 1 .. a + b : f[i] = t
    BY <1>3, <1>6
  <2> QED BY <2>1, <2>2, Zenon DEF Surjection
<1> HIDE DEF f
<1>8. a + b \in Nat
  BY <1>1
<1>9. IsFiniteSet(1 .. a + b) /\ Cardinality(1 .. a + b) = a + b
  BY <1>8, FromOne
<1>10. IsFiniteSet(Txns) /\ f \in Injection(1 .. a + b, Txns)
  <2> DEFINE D == 1 .. a + b
  <2>1. f \in Surjection(D, Txns) /\ IsFiniteSet(D) /\ Cardinality(Txns) = Cardinality(D)
    BY <1>4, <1>7, <1>9
  <2> HIDE DEF D
  <2>2. IsFiniteSet(Txns) /\ f \in Injection(D, Txns)
    BY <2>1, FS_Surjection, Zenon
  <2> QED BY <2>2 DEF D
<1>11. \A i, j \in 1 .. a + b : f[i] = f[j] => i = j
  BY <1>10 DEF Injection, IsInjective
<1>12. \A k, l \in Cmds : \A i \in 1 .. Len(Trace[k]), j \in 1 .. Len(Trace[l]) :
         Trace[k][i] = Trace[l][j] => k = l /\ i = j
  <2>1. \A i, j \in 1 .. a : Reads[i] = Reads[j] => i = j
    BY <1>6, <1>11
  <2>2. \A i, j \in 1 .. b : Writes[i] = Writes[j] => i = j
    <3>1. \A i, j \in 1 .. b : Writes[i] = Writes[j] => a + i = a + j
      BY <1>6, <1>11
    <3> QED BY <1>1, <3>1
  <2>3. \A i \in 1 .. a, j \in 1 .. b : Reads[i] # Writes[j]
    <3>1. \A i \in 1 .. a, j \in 1 .. b : Reads[i] = Writes[j] => i = a + j
      BY <1>6, <1>11
    <3> QED BY <1>1, <3>1
  <2> QED BY <1>2, <2>1, <2>2, <2>3 DEF a, b, Cmds
<1>13. \A t \in Txns : \E k \in Cmds : \E i \in 1 .. Len(Trace[k]) : t = Trace[k][i]
  BY <1>2, <1>3 DEF a, b, Cmds
<1>14. \A k \in Cmds : Len(Trace[k]) \in Nat /\ Trace[k] \in Seq(Txns)
  BY <1>1, <1>2, <1>5 DEF a, b, Cmds
<1> QED BY <1>10, <1>12, <1>13, <1>14

(* The spots, and what is at each of them. *)
LEMMA SpotFacts ==
  /\ \A k \in Cmds : <<"channel", k>> \in Spots /\ <<"back", k>> \in Spots
  /\ <<"bank", "REQ">> \in Spots /\ <<"fabric", "REQ">> \in Spots
  /\ \A q \in {"RSP", "DAT"} : <<"eject", q>> \in Spots
  /\ \A p \in Spots : \/ \E k \in Cmds : p = <<"channel", k>> \/ p = <<"back", k>>
                      \/ p = <<"bank", "REQ">> \/ p = <<"fabric", "REQ">>
                      \/ \E q \in {"RSP", "DAT"} : p = <<"eject", q>>
BY DEF Spots

LEMMA WhereFacts ==
  ASSUME NEW m
  PROVE  /\ \A k \in Cmds : Where(m)[<<"channel", k>>] = Entries(m.chan[k])
         /\ \A k \in Cmds : Where(m)[<<"back", k>>] = Entries(back[k])
         /\ Where(m)[<<"bank", "REQ">>] = Entries(bank["REQ"])
         /\ Where(m)[<<"fabric", "REQ">>] = taken["REQ"]
         /\ \A q \in {"RSP", "DAT"} : Where(m)[<<"eject", q>>] = Entries(eject[q])
<1> DEFINE W == Where(m)
<1>1. \A p \in Spots : W[p] = At(m, p)
  BY DEF Where
<1> HIDE DEF W
<1>2. \A k \in Cmds : /\ At(m, <<"channel", k>>) = Entries(m.chan[k])
                      /\ At(m, <<"back", k>>) = Entries(back[k])
  BY DEF At
<1>3. /\ At(m, <<"bank", "REQ">>) = Entries(bank["REQ"])
      /\ At(m, <<"fabric", "REQ">>) = taken["REQ"]
      /\ \A q \in {"RSP", "DAT"} : At(m, <<"eject", q>>) = Entries(eject[q])
  BY DEF At
<1>4. /\ \A k \in Cmds : W[<<"channel", k>>] = Entries(m.chan[k])
      /\ \A k \in Cmds : W[<<"back", k>>] = Entries(back[k])
      /\ W[<<"bank", "REQ">>] = Entries(bank["REQ"])
      /\ W[<<"fabric", "REQ">>] = taken["REQ"]
      /\ \A q \in {"RSP", "DAT"} : W[<<"eject", q>>] = Entries(eject[q])
  BY <1>1, <1>2, <1>3, SpotFacts
<1> QED BY <1>4 DEF W

(* The spots after a step. *)
LEMMA WhereNext ==
  /\ \A k \in Cmds : Where(master)'[<<"channel", k>>] = Entries(master'.chan[k])
  /\ \A k \in Cmds : Where(master)'[<<"back", k>>] = Entries(back'[k])
  /\ Where(master)'[<<"bank", "REQ">>] = Entries(bank'["REQ"])
  /\ Where(master)'[<<"fabric", "REQ">>] = taken'["REQ"]
  /\ \A q \in {"RSP", "DAT"} : Where(master)'[<<"eject", q>>] = Entries(eject'[q])
<1> DEFINE W == Where(master)'
<1>1. \A p \in Spots : W[p] = At(master, p)'
  BY DEF Where, Spots
<1> HIDE DEF W
<1>2. \A k \in Cmds : /\ At(master, <<"channel", k>>)' = Entries(master'.chan[k])
                      /\ At(master, <<"back", k>>)' = Entries(back'[k])
  BY DEF At, Entries
<1>3. /\ At(master, <<"bank", "REQ">>)' = Entries(bank'["REQ"])
      /\ At(master, <<"fabric", "REQ">>)' = taken'["REQ"]
      /\ \A q \in {"RSP", "DAT"} : At(master, <<"eject", q>>)' = Entries(eject'[q])
  BY DEF At, Entries
<1>4. /\ \A k \in Cmds : W[<<"channel", k>>] = Entries(master'.chan[k])
      /\ \A k \in Cmds : W[<<"back", k>>] = Entries(back'[k])
      /\ W[<<"bank", "REQ">>] = Entries(bank'["REQ"])
      /\ W[<<"fabric", "REQ">>] = taken'["REQ"]
      /\ \A q \in {"RSP", "DAT"} : W[<<"eject", q>>] = Entries(eject'[q])
  BY <1>1, <1>2, <1>3, SpotFacts
<1> QED BY <1>4 DEF W

(* A spot where nothing has happened. *)
LEMMA SameSpots ==
  /\ \A k \in Cmds : master'.chan[k] = master.chan[k] =>
       Where(master)'[<<"channel", k>>] = Where(master)[<<"channel", k>>]
  /\ \A k \in Cmds : back'[k] = back[k] =>
       Where(master)'[<<"back", k>>] = Where(master)[<<"back", k>>]
  /\ bank'["REQ"] = bank["REQ"] =>
       Where(master)'[<<"bank", "REQ">>] = Where(master)[<<"bank", "REQ">>]
  /\ taken'["REQ"] = taken["REQ"] =>
       Where(master)'[<<"fabric", "REQ">>] = Where(master)[<<"fabric", "REQ">>]
  /\ \A q \in {"RSP", "DAT"} : eject'[q] = eject[q] =>
       Where(master)'[<<"eject", q>>] = Where(master)[<<"eject", q>>]
<1> DEFINE F == Where(master)
           G == Where(master)'
<1>1. /\ \A k \in Cmds : F[<<"channel", k>>] = Entries(master.chan[k])
      /\ \A k \in Cmds : F[<<"back", k>>] = Entries(back[k])
      /\ F[<<"bank", "REQ">>] = Entries(bank["REQ"])
      /\ F[<<"fabric", "REQ">>] = taken["REQ"]
      /\ \A q \in {"RSP", "DAT"} : F[<<"eject", q>>] = Entries(eject[q])
  BY WhereFacts
<1>2. /\ \A k \in Cmds : G[<<"channel", k>>] = Entries(master'.chan[k])
      /\ \A k \in Cmds : G[<<"back", k>>] = Entries(back'[k])
      /\ G[<<"bank", "REQ">>] = Entries(bank'["REQ"])
      /\ G[<<"fabric", "REQ">>] = taken'["REQ"]
      /\ \A q \in {"RSP", "DAT"} : G[<<"eject", q>>] = Entries(eject'[q])
  BY WhereNext
<1> HIDE DEF F, G
<1>3. /\ \A k \in Cmds : master'.chan[k] = master.chan[k] =>
           G[<<"channel", k>>] = F[<<"channel", k>>]
      /\ \A k \in Cmds : back'[k] = back[k] => G[<<"back", k>>] = F[<<"back", k>>]
      /\ bank'["REQ"] = bank["REQ"] => G[<<"bank", "REQ">>] = F[<<"bank", "REQ">>]
      /\ taken'["REQ"] = taken["REQ"] =>
           G[<<"fabric", "REQ">>] = F[<<"fabric", "REQ">>]
      /\ \A q \in {"RSP", "DAT"} : eject'[q] = eject[q] =>
           G[<<"eject", q>>] = F[<<"eject", q>>]
  BY <1>1, <1>2
<1> QED BY <1>3 DEF F, G

(* A transaction begins at a spot, moves to another one, ends. *)
LEMMA PlacedBegins ==
  ASSUME NEW F, NEW G, NEW O, Placed(F, O), NEW q \in Spots, NEW x, x \notin O,
         G[q] = F[q] \cup {x}, \A p \in Spots \ {q} : G[p] = F[p]
  PROVE  Placed(G, O \cup {x})
BY DEF Placed

LEMMA PlacedMoves ==
  ASSUME NEW F, NEW G, NEW O, Placed(F, O), NEW p \in Spots, NEW q \in Spots,
         p # q, NEW x \in F[p], G[p] = F[p] \ {x}, G[q] = F[q] \cup {x},
         \A s \in Spots \ {p, q} : G[s] = F[s]
  PROVE  Placed(G, O)
<1>1. \A s \in Spots : G[s] \subseteq F[s] \cup {x} /\ (x \in G[s] => s = q)
  BY DEF Placed
<1>2. \A s, r \in Spots : s # r => G[s] \cap G[r] = {}
  BY <1>1 DEF Placed
<1>3. \A t : (\E s \in Spots : t \in G[s]) <=> \E s \in Spots : t \in F[s]
  OBVIOUS
<1> QED BY <1>2, <1>3 DEF Placed

LEMMA PlacedEnds ==
  ASSUME NEW F, NEW G, NEW O, Placed(F, O), NEW p \in Spots, NEW x \in F[p],
         G[p] = F[p] \ {x}, \A s \in Spots \ {p} : G[s] = F[s]
  PROVE  Placed(G, O \ {x})
<1>1. \A s \in Spots : G[s] = F[s] \ {x}
  BY DEF Placed
<1> QED BY <1>1 DEF Placed

(* A queue of transactions that is popped, and one that is pushed. *)
LEMMA Popped ==
  ASSUME NEW s \in Seq(Txns), s # <<>>, Once(s, Txns)
  PROVE  /\ Head(s) \in Txns /\ Head(s) \in Entries(s)
         /\ Tail(s) \in Seq(Txns) /\ Once(Tail(s), Txns)
         /\ Entries(Tail(s)) = Entries(s) \ {Head(s)}
<1>1. \A r \in Seq(Txns) : In(r, Txns) = Entries(r)
  BY DEF In, Entries
<1>2. /\ Head(s) \in Txns /\ Tail(s) \in Seq(Txns) /\ Once(Tail(s), Txns)
      /\ In(Tail(s), Txns) = In(s, Txns) \ {Head(s)}
      /\ Head(s) \in In(s, Txns)
  BY TailOnce
<1> QED BY <1>1, <1>2

LEMMA Pushed ==
  ASSUME NEW s \in Seq(Txns), Once(s, Txns), NEW x \in Txns, x \notin Entries(s)
  PROVE  /\ Append(s, x) \in Seq(Txns) /\ Once(Append(s, x), Txns)
         /\ Entries(Append(s, x)) = Entries(s) \cup {x}
<1>1. \A r \in Seq(Txns) : In(r, Txns) = Entries(r)
  BY DEF In, Entries
<1>2. {x} \cap Txns = {x} /\ x \notin In(s, Txns)
  BY <1>1
<1>3. /\ Append(s, x) \in Seq(Txns) /\ Once(Append(s, x), Txns)
      /\ In(Append(s, x), Txns) = In(s, Txns) \cup ({x} \cap Txns)
  BY <1>2, AppendOnce
<1> QED BY <1>1, <1>2, <1>3

(* What is at a spot is outstanding. *)
LEMMA FoundOpen ==
  ASSUME FlightInv, NEW p \in Spots, NEW t \in Where(master)[p]
  PROVE  t \in master.open
BY DEF FlightInv, Flight, Placed

(* A transaction that is issued is new. *)
LEMMA IssueOneFlight ==
  ASSUME Queued, NEW m, Flight(m), NEW k \in Cmds
  PROVE  Flight(IssueOne(m, k))
<1> DEFINE i == m.next[k]
           t == Trace[k][i]
           n == IssueOne(m, k)
<1>1. m \in MasterType /\ n \in MasterType
  BY IssueOneType DEF Flight
<1>2. CASE ~MayIssue(m, k)
  BY <1>2 DEF IssueOne
<1>3. CASE MayIssue(m, k)
  <2>1. /\ n.next = [m.next EXCEPT ![k] = i + 1]
        /\ n.open = m.open \cup {t}
        /\ n.chan = [m.chan EXCEPT ![k] = Append(m.chan[k], t)]
    BY <1>1, <1>3 DEF IssueOne, MasterType
  <2>2. /\ i \in Nat \ {0} /\ i <= Len(Trace[k]) /\ Len(Trace[k]) \in Nat
        /\ MaxOutstanding = 0 \/ Cardinality(m.open) < MaxOutstanding
        /\ m.chan \in [Cmds \cup {"WR_DAT"} -> Seq(Txns)]
        /\ m.next \in [Cmds -> Nat \ {0}] /\ m.open \in SUBSET Txns
    BY <1>1, <1>3, TraceOnce DEF MayIssue, MasterType
  <2>3. i \in 1 .. Len(Trace[k]) /\ t \in Txns
    BY <2>2, TraceType
  <2>4. t \notin Issued(m)
    <3> SUFFICES ASSUME NEW l \in Cmds, NEW j \in 1 .. (m.next[l] - 1),
                        t = Trace[l][j]
                 PROVE  FALSE
      BY DEF Issued
    <3>1. j \in 1 .. Len(Trace[l])
      BY <2>2, TraceOnce DEF Flight
    <3>2. l = k /\ j = i
      BY <2>3, <3>1, TraceOnce
    <3> QED BY <2>2, <3>2
  <2> HIDE DEF i, t, n
  <2>5. t \notin m.open /\ t \notin answers.done
    BY <2>4 DEF Flight
  <2>6. Issued(n) = Issued(m) \cup {t}
    <3>1. ASSUME NEW y \in Issued(n), y # t
          PROVE  y \in Issued(m)
      <4>1. y \in Txns /\ \E l \in Cmds : \E j \in 1 .. (n.next[l] - 1) : y = Trace[l][j]
        BY DEF Issued
      <4> PICK l \in Cmds : \E j \in 1 .. (n.next[l] - 1) : y = Trace[l][j]
        BY <4>1
      <4> PICK j \in 1 .. (n.next[l] - 1) : y = Trace[l][j]
        OBVIOUS
      <4>2. l # k => j \in 1 .. (m.next[l] - 1)
        BY <2>1, <2>2
      <4>3. l = k => j \in 1 .. i
        BY <2>1, <2>2
      <4>4. l = k => j # i
        BY <3>1, <4>1 DEF t
      <4>5. l = k => j \in 1 .. (m.next[l] - 1)
        BY <2>2, <4>3, <4>4 DEF i
      <4> QED BY <4>1, <4>2, <4>5 DEF Issued
    <3>2. ASSUME NEW y \in Issued(m)
          PROVE  y \in Issued(n)
      <4>1. y \in Txns /\ \E l \in Cmds : \E j \in 1 .. (m.next[l] - 1) : y = Trace[l][j]
        BY DEF Issued
      <4> PICK l \in Cmds : \E j \in 1 .. (m.next[l] - 1) : y = Trace[l][j]
        BY <4>1
      <4> PICK j \in 1 .. (m.next[l] - 1) : y = Trace[l][j]
        OBVIOUS
      <4>2. n.next[l] \in Nat /\ m.next[l] \in Nat /\ m.next[l] <= n.next[l]
        BY <2>1, <2>2 DEF i
      <4>3. j \in 1 .. (n.next[l] - 1)
        BY <4>2
      <4> QED BY <4>1, <4>3 DEF Issued
    <3>3. t \in Issued(n)
      <4>1. n.next[k] = i + 1 /\ i \in 1 .. (n.next[k] - 1)
        BY <2>1, <2>2
      <4> QED BY <2>3, <4>1 DEF Issued, t
    <3> QED BY <3>1, <3>2, <3>3
  <2>7. /\ n.chan[k] = Append(m.chan[k], t) /\ m.chan[k] \in Seq(Txns)
        /\ \A j \in Cmds \ {k} : n.chan[j] = m.chan[j]
    BY <2>1, <2>2
  <2>8. t \notin Entries(m.chan[k])
    <3>1. <<"channel", k>> \in Spots
          /\ Where(m)[<<"channel", k>>] = Entries(m.chan[k])
      BY SpotFacts, WhereFacts
    <3> QED BY <2>5, <3>1 DEF Flight, Placed
  <2>9. /\ Once(n.chan[k], Txns) /\ Entries(n.chan[k]) = Entries(m.chan[k]) \cup {t}
    BY <2>3, <2>7, <2>8, Pushed DEF Flight
  <2>10. Placed(Where(n), m.open \cup {t})
    <3> DEFINE F == Where(m)
               G == Where(n)
               q == <<"channel", k>>
    <3>1. G[q] = F[q] \cup {t}
      BY <2>9, WhereFacts
    <3>2. \A p \in Spots \ {q} : G[p] = F[p]
      <4> TAKE p \in Spots \ {q}
      <4>1. \A j \in Cmds : p = <<"channel", j>> => j # k
        OBVIOUS
      <4>2. \A j \in Cmds \ {k} : G[<<"channel", j>>] = F[<<"channel", j>>]
        <5>1. \A j \in Cmds : G[<<"channel", j>>] = Entries(n.chan[j])
          BY WhereFacts
        <5>2. \A j \in Cmds : F[<<"channel", j>>] = Entries(m.chan[j])
          BY WhereFacts
        <5> HIDE DEF F, G
        <5> QED BY <2>7, <5>1, <5>2
      <4>3. /\ \A j \in Cmds : G[<<"back", j>>] = F[<<"back", j>>]
            /\ G[<<"bank", "REQ">>] = F[<<"bank", "REQ">>]
            /\ G[<<"fabric", "REQ">>] = F[<<"fabric", "REQ">>]
            /\ \A j \in {"RSP", "DAT"} : G[<<"eject", j>>] = F[<<"eject", j>>]
        BY WhereFacts
      <4> QED BY <4>1, <4>2, <4>3, SpotFacts
    <3>3. q \in Spots /\ Placed(F, m.open)
      BY SpotFacts DEF Flight
    <3> HIDE DEF F, G, q
    <3>4. Placed(G, m.open \cup {t})
      BY <2>5, <3>1, <3>2, <3>3, PlacedBegins
    <3> QED BY <3>4 DEF G
  <2>11. MaxOutstanding = 0 \/ Cardinality(m.open \cup {t}) <= MaxOutstanding
    <3>1. IsFiniteSet(m.open)
      BY <2>2, TraceOnce, FS_Subset
    <3>2. /\ Cardinality(m.open \cup {t}) = Cardinality(m.open) + 1
          /\ Cardinality(m.open) \in Nat
      BY <2>5, <3>1, FS_AddElement, FS_CardinalityType
    <3>3. MaxOutstanding \in Nat
      BY MasterAssumption DEF MasterAssumption
    <3> QED BY <2>2, <3>2, <3>3
  <2>12. \A j \in Cmds : n.next[j] <= Len(Trace[j]) + 1 /\ Once(n.chan[j], Txns)
    <3>1. n.next[k] <= Len(Trace[k]) + 1
      BY <2>1, <2>2
    <3>2. \A j \in Cmds \ {k} : n.next[j] = m.next[j]
      BY <2>1, <2>2
    <3> QED BY <2>7, <2>9, <3>1, <3>2 DEF Flight
  <2>13. n \in MasterType
    BY <1>1 DEF n
  <2>14. Issued(n) = n.open \cup answers.done /\ n.open \cap answers.done = {}
    BY <2>1, <2>5, <2>6 DEF Flight
  <2> QED BY <2>1, <2>10, <2>11, <2>12, <2>13, <2>14 DEF Flight, n
<1> QED BY <1>2, <1>3

(* An issue: one transaction of each command at most. *)
LEMMA IssueFlight ==
  ASSUME FlightInv, Issue
  PROVE  FlightInv'
<1> DEFINE n == IssueOne(IssueOne(master, "RD"), "WR")
<1>1. UNCHANGED <<answers, bank, taken, eject, back>> /\ master' = n
  BY DEF Issue
<1>2. Flight(n)
  BY IssueOneFlight DEF FlightInv, Cmds
<1> HIDE DEF n
<1>3. Queued'
  BY <1>1 DEF FlightInv, Queued
<1>4. \A p \in Spots : At(master, p)' = At(n, p)
  BY <1>1 DEF At, Entries
<1>5. Where(master)' = Where(n)
  BY <1>4 DEF Where, Spots
<1>6. Issued(master)' = Issued(n)
  BY <1>1 DEF Issued, Trace
<1>7. Placed(Where(master)', master'.open)
  BY <1>1, <1>2, <1>5 DEF Flight
<1>8. Placed(Where(master), master.open)'
  BY <1>7 DEF Placed, Spots
<1>9. Flight(master)'
  BY <1>1, <1>2, <1>6, <1>8 DEF Flight
<1> QED BY <1>3, <1>9 DEF FlightInv

(* A step that issues nothing. *)
LEMMA Flown ==
  ASSUME FlightInv, Queued', master' \in MasterType, master'.next = master.next,
         \A k \in Cmds : Once(master'.chan[k], Txns),
         Placed(Where(master)', master'.open), master'.open \subseteq master.open,
         answers'.done = answers.done \cup (master.open \ master'.open)
  PROVE  FlightInv'
<1>1. Flight(master)
  BY DEF FlightInv
<1>2. Issued(master)' = Issued(master)
  BY DEF Issued
<1>3. Placed(Where(master), master.open)'
  BY DEF Placed, Spots
<1>4. MaxOutstanding = 0 \/ Cardinality(master'.open) <= MaxOutstanding
  <2>1. master.open \in SUBSET Txns
    BY <1>1 DEF Flight, MasterType
  <2>2. IsFiniteSet(master.open)
    BY <2>1, TraceOnce, FS_Subset
  <2>3. IsFiniteSet(master'.open) /\ Cardinality(master'.open) <= Cardinality(master.open)
    BY <2>2, FS_Subset
  <2>4. Cardinality(master'.open) \in Nat /\ Cardinality(master.open) \in Nat
    BY <2>2, <2>3, FS_CardinalityType
  <2>5. MaxOutstanding \in Nat
    BY MasterAssumption DEF MasterAssumption
  <2> QED BY <1>1, <2>3, <2>4, <2>5 DEF Flight
<1>5. \A k \in Cmds : master'.next[k] <= Len(Trace[k]) + 1 /\ Once(master'.chan[k], Txns)
  BY <1>1 DEF Flight
<1>6. /\ Issued(master)' = master'.open \cup answers'.done
      /\ master'.open \cap answers'.done = {}
  BY <1>1, <1>2 DEF Flight
<1>7. Flight(master)'
  BY <1>3, <1>4, <1>5, <1>6 DEF Flight
<1> QED BY <1>7 DEF FlightInv

(* A step that moves nothing from spot to spot. *)
LEMMA Unmoved ==
  ASSUME FlightInv, Queued', master' \in MasterType, master'.next = master.next,
         \A k \in Cmds : master'.chan[k] = master.chan[k], master'.open = master.open,
         bank'["REQ"] = bank["REQ"], taken'["REQ"] = taken["REQ"],
         UNCHANGED <<answers, eject, back>>
  PROVE  FlightInv'
<1>1. Placed(Where(master)', master'.open)
  <2>1. \A p \in Spots : Where(master)'[p] = Where(master)[p]
    BY SpotFacts, SameSpots
  <2>2. Placed(Where(master), master.open)
    BY DEF FlightInv, Flight
  <2> QED BY <2>1, <2>2 DEF Placed
<1>2. \A k \in Cmds : Once(master'.chan[k], Txns)
  BY DEF FlightInv, Flight
<1>3. answers'.done = answers.done \cup (master.open \ master'.open)
  OBVIOUS
<1> QED BY <1>1, <1>2, <1>3, Flown

(* Write data goes its own way. *)
LEMMA DataFlight ==
  ASSUME FlightInv, SendData \/ RecvBiuData \/ Take("DAT")
  PROVE  FlightInv'
<1>1. Queued /\ master \in MasterType
  BY DEF FlightInv, Flight
<1>2. CASE SendData
  <2>1. /\ Head(master.owed) \in Txns /\ Tail(master.owed) \in Seq(Txns)
        /\ Append(master.chan["WR_DAT"], Head(master.owed)) \in Seq(Txns)
    BY <1>1, <1>2, HeadTailProperties, AppendProperties DEF SendData, MasterType
  <2>2. master' \in MasterType
    BY <1>1, <1>2, <2>1 DEF SendData, MasterType
  <2>3. \A k \in Cmds : master'.chan[k] = master.chan[k]
    BY <1>1, <1>2, TwoCommands DEF SendData, MasterType
  <2>4. /\ master'.open = master.open /\ master'.next = master.next
        /\ UNCHANGED <<answers, bank, taken, eject, back>>
    BY <1>1, <1>2 DEF SendData, MasterType
  <2>5. Queued'
    BY <1>1, <2>4 DEF Queued
  <2> QED BY <2>2, <2>3, <2>4, <2>5, Unmoved
<1>3. CASE RecvBiuData
  <2> DEFINE x == Head(master.chan["WR_DAT"])
  <2>1. /\ Tail(master.chan["WR_DAT"]) \in Seq(Txns) /\ x \in Txns
    BY <1>1, <1>3, HeadTailProperties DEF RecvBiuData, MasterType
  <2>2. master' \in MasterType
    BY <1>1, <1>3, <2>1 DEF RecvBiuData, Pop, MasterType
  <2>3. \A k \in Cmds : master'.chan[k] = master.chan[k]
    BY <1>1, <1>3, TwoCommands DEF RecvBiuData, Pop, MasterType
  <2>4. /\ master'.open = master.open /\ master'.next = master.next
        /\ UNCHANGED <<answers, taken, eject, back>>
    BY <1>1, <1>3 DEF RecvBiuData, Pop, MasterType
  <2>5. bank' = [bank EXCEPT !["DAT"] = Append(bank["DAT"], x)]
    BY <1>3 DEF RecvBiuData
  <2> HIDE DEF x
  <2>6. /\ bank' \in [{"REQ", "DAT"} -> Seq(Txns)] /\ bank'["REQ"] = bank["REQ"]
    <3>1. bank \in [{"REQ", "DAT"} -> Seq(Txns)]
      BY <1>1 DEF Queued
    <3>2. Append(bank["DAT"], x) \in Seq(Txns)
      BY <2>1, <3>1, AppendProperties
    <3> QED BY <2>5, <3>1, <3>2
  <2>7. Queued'
    BY <1>1, <2>4, <2>6 DEF Queued
  <2> QED BY <2>2, <2>3, <2>4, <2>6, <2>7, Unmoved
<1>4. CASE Take("DAT")
  <2>1. bank \in [{"REQ", "DAT"} -> Seq(Txns)] /\ taken \in [{"REQ", "DAT"} -> SUBSET Txns]
    BY <1>1 DEF Queued
  <2>2. Head(bank["DAT"]) \in Txns /\ Tail(bank["DAT"]) \in Seq(Txns)
    BY <1>4, <2>1, HeadTailProperties DEF Take
  <2>3. /\ bank' \in [{"REQ", "DAT"} -> Seq(Txns)] /\ bank'["REQ"] = bank["REQ"]
        /\ taken' \in [{"REQ", "DAT"} -> SUBSET Txns] /\ taken'["REQ"] = taken["REQ"]
    BY <1>4, <2>1, <2>2 DEF Take
  <2>4. UNCHANGED <<master, answers, eject, back>>
    BY <1>4 DEF Take
  <2>5. Queued'
    BY <1>1, <2>3, <2>4 DEF Queued
  <2> QED BY <1>1, <2>3, <2>4, <2>5, Unmoved
<1> QED BY <1>2, <1>3, <1>4

(* A step that moves a transaction from spot to spot. *)
LEMMA Travels ==
  ASSUME FlightInv, Queued', master' \in MasterType, master'.next = master.next,
         master'.open = master.open, answers' = answers,
         \A k \in Cmds : Once(master'.chan[k], Txns),
         NEW p \in Spots, NEW q \in Spots, p # q, NEW x \in Where(master)[p],
         Where(master)'[p] = Where(master)[p] \ {x},
         Where(master)'[q] = Where(master)[q] \cup {x},
         \A s \in Spots \ {p, q} : Where(master)'[s] = Where(master)[s]
  PROVE  FlightInv'
<1> DEFINE F == Where(master)
           G == Where(master)'
<1>1. Placed(G, master.open)
  <2>1. Placed(F, master.open)
    BY DEF FlightInv, Flight
  <2> HIDE DEF F, G
  <2>2. /\ x \in F[p] /\ G[p] = F[p] \ {x} /\ G[q] = F[q] \cup {x}
        /\ \A s \in Spots \ {p, q} : G[s] = F[s]
    BY DEF F, G
  <2> QED BY <2>1, <2>2, PlacedMoves
<1>2. Placed(Where(master)', master'.open)
  BY <1>1
<1>3. answers'.done = answers.done \cup (master.open \ master'.open)
  OBVIOUS
<1> QED BY <1>2, <1>3, Flown

(* A spot that a transaction may go to does not have it. *)
LEMMA NotThere ==
  ASSUME FlightInv, NEW p \in Spots, NEW q \in Spots, p # q,
         NEW x \in Where(master)[p]
  PROVE  x \notin Where(master)[q]
BY DEF FlightInv, Flight, Placed

(* The NIU puts a request into its bank. *)
LEMMA ForwardFlight ==
  ASSUME FlightInv, NEW k \in Offered, Forward(k),
         UNCHANGED <<answers, taken, eject, back>>
  PROVE  FlightInv'
<1> DEFINE s == master.chan[k]
           b == bank["REQ"]
           x == Head(s)
           p == <<"channel", k>>
           q == <<"bank", "REQ">>
<1>1. /\ Queued /\ master \in MasterType /\ k \in Cmds /\ s # <<>>
      /\ \A j \in Cmds : Once(master.chan[j], Txns)
  BY DEF FlightInv, Flight, Offered
<1>2. /\ master.chan \in [Cmds \cup {"WR_DAT"} -> Seq(Txns)] /\ s \in Seq(Txns)
      /\ bank \in [{"REQ", "DAT"} -> Seq(Txns)] /\ b \in Seq(Txns) /\ Once(b, Txns)
  BY <1>1 DEF Queued, MasterType
<1>3. /\ master' = [master EXCEPT !.chan = [master.chan EXCEPT ![k] = Tail(s)]]
      /\ bank' = [bank EXCEPT !["REQ"] = Append(b, x)]
  BY <1>1 DEF Forward, Pop, MasterType
<1>4. /\ Where(master)[p] = Entries(s) /\ Where(master)[q] = Entries(b)
      /\ p \in Spots /\ q \in Spots /\ p # q
  BY <1>1, WhereFacts, SpotFacts
<1> HIDE DEF s, b, p, q
<1>5. /\ x \in Txns /\ x \in Entries(s) /\ Tail(s) \in Seq(Txns)
      /\ Once(Tail(s), Txns) /\ Entries(Tail(s)) = Entries(s) \ {x}
  BY <1>1, <1>2, Popped DEF s
<1> HIDE DEF x
<1>6. x \notin Entries(b)
  BY <1>4, <1>5, NotThere
<1>7. /\ Append(b, x) \in Seq(Txns) /\ Once(Append(b, x), Txns)
      /\ Entries(Append(b, x)) = Entries(b) \cup {x}
  BY <1>2, <1>5, <1>6, Pushed
<1>8. /\ master' \in MasterType /\ master'.next = master.next
      /\ master'.open = master.open /\ master'.chan[k] = Tail(s)
      /\ \A j \in Cmds \ {k} : master'.chan[j] = master.chan[j]
  <2>1. [master.chan EXCEPT ![k] = Tail(s)] \in [Cmds \cup {"WR_DAT"} -> Seq(Txns)]
    BY <1>2, <1>5
  <2> QED BY <1>1, <1>2, <1>3, <2>1 DEF MasterType
<1>9. bank' \in [{"REQ", "DAT"} -> Seq(Txns)] /\ bank'["REQ"] = Append(b, x)
  BY <1>2, <1>3, <1>7
<1>10. Queued'
  BY <1>1, <1>7, <1>9 DEF Queued
<1>11. /\ Where(master)'[p] = Where(master)[p] \ {x}
       /\ Where(master)'[q] = Where(master)[q] \cup {x}
  <2>1. Where(master)'[p] = Entries(Tail(s)) /\ Where(master)'[q] = Entries(Append(b, x))
    BY <1>1, <1>8, <1>9, WhereNext DEF p, q
  <2> QED BY <1>4, <1>5, <1>7, <2>1
<1>12. \A r \in Spots \ {p, q} : Where(master)'[r] = Where(master)[r]
  <2>1. \A j \in Cmds : <<"channel", j>> # p => j # k
    BY DEF p
  <2> QED BY <1>8, <2>1, SpotFacts, SameSpots DEF q
<1>13. \A j \in Cmds : Once(master'.chan[j], Txns)
  BY <1>1, <1>5, <1>8
<1>14. x \in Where(master)[p]
  BY <1>4, <1>5
<1> QED BY <1>4, <1>8, <1>10, <1>11, <1>12, <1>13, <1>14, Travels

(* The NIU arbitrates, and forwards a request if it can. *)
LEMMA RequestFlight ==
  ASSUME FlightInv, RecvBiuRequest
  PROVE  FlightInv'
<1>1. UNCHANGED <<answers, taken, eject, back>>
  BY DEF RecvBiuRequest
<1>2. \/ \E k \in Offered : Forward(k)
      \/ UNCHANGED <<bank, master>>
  BY DEF RecvBiuRequest
<1>3. CASE UNCHANGED <<bank, master>>
  <2>1. Queued' /\ master' \in MasterType
    BY <1>1, <1>3 DEF FlightInv, Flight, Queued
  <2> QED BY <1>1, <1>3, <2>1, Unmoved
<1> QED BY <1>1, <1>2, <1>3, ForwardFlight

(* The fabric takes a request. *)
LEMMA TakeFlight ==
  ASSUME FlightInv, Take("REQ")
  PROVE  FlightInv'
<1> DEFINE b == bank["REQ"]
           x == Head(b)
           p == <<"bank", "REQ">>
           q == <<"fabric", "REQ">>
<1>1. /\ Queued /\ master \in MasterType
      /\ \A j \in Cmds : Once(master.chan[j], Txns)
  BY DEF FlightInv, Flight
<1>2. /\ bank \in [{"REQ", "DAT"} -> Seq(Txns)] /\ b \in Seq(Txns) /\ Once(b, Txns)
      /\ taken \in [{"REQ", "DAT"} -> SUBSET Txns]
  BY <1>1 DEF Queued
<1>3. /\ b # <<>> /\ UNCHANGED <<master, answers, eject, back>>
      /\ bank' = [bank EXCEPT !["REQ"] = Tail(b)]
      /\ taken' = [taken EXCEPT !["REQ"] = taken["REQ"] \cup {x}]
  BY DEF Take
<1>4. /\ Where(master)[p] = Entries(b) /\ Where(master)[q] = taken["REQ"]
      /\ p \in Spots /\ q \in Spots /\ p # q
  BY WhereFacts, SpotFacts
<1>5. /\ x \in Txns /\ x \in Entries(b) /\ Tail(b) \in Seq(Txns)
      /\ Once(Tail(b), Txns) /\ Entries(Tail(b)) = Entries(b) \ {x}
  BY <1>2, <1>3, Popped
<1> HIDE DEF b, x, p, q
<1>6. /\ bank' \in [{"REQ", "DAT"} -> Seq(Txns)] /\ bank'["REQ"] = Tail(b)
      /\ taken' \in [{"REQ", "DAT"} -> SUBSET Txns]
      /\ taken'["REQ"] = taken["REQ"] \cup {x}
  BY <1>2, <1>3, <1>5
<1>7. Queued'
  BY <1>1, <1>3, <1>5, <1>6 DEF Queued
<1>8. /\ Where(master)'[p] = Where(master)[p] \ {x}
      /\ Where(master)'[q] = Where(master)[q] \cup {x}
  <2>1. Where(master)'[p] = Entries(Tail(b)) /\ Where(master)'[q] = taken["REQ"] \cup {x}
    BY <1>6, WhereNext DEF p, q
  <2> QED BY <1>4, <1>5, <2>1
<1>9. \A r \in Spots \ {p, q} : Where(master)'[r] = Where(master)[r]
  BY <1>3, SpotFacts, SameSpots DEF p, q
<1>10. x \in Where(master)[p]
  BY <1>4, <1>5
<1> QED BY <1>1, <1>3, <1>4, <1>7, <1>8, <1>9, <1>10, Travels

(* The fabric answers. *)
LEMMA AnswerFlight ==
  ASSUME FlightInv, NEW x \in Txns, Answer(x)
  PROVE  FlightInv'
<1> DEFINE k == IF x \in Entries(Reads) THEN "DAT" ELSE "RSP"
           e == eject[k]
           p == <<"fabric", "REQ">>
           q == <<"eject", k>>
<1>1. /\ Queued /\ master \in MasterType
      /\ \A j \in Cmds : Once(master.chan[j], Txns)
  BY DEF FlightInv, Flight
<1>2. /\ eject \in [{"RSP", "DAT"} -> Seq(Txns)] /\ e \in Seq(Txns) /\ Once(e, Txns)
      /\ taken \in [{"REQ", "DAT"} -> SUBSET Txns] /\ k \in {"RSP", "DAT"}
  BY <1>1 DEF Queued
<1>3. /\ x \in taken["REQ"] /\ UNCHANGED <<master, answers, bank, back>>
      /\ eject' = [eject EXCEPT ![k] = Append(e, x)]
      /\ taken' = [j \in DOMAIN taken |-> taken[j] \ {x}]
  BY DEF Answer
<1> HIDE DEF k
<1>4. /\ Where(master)[p] = taken["REQ"] /\ Where(master)[q] = Entries(e)
      /\ p \in Spots /\ q \in Spots /\ p # q
  BY <1>2, WhereFacts, SpotFacts
<1> HIDE DEF e, p, q
<1>5. x \notin Entries(e)
  BY <1>3, <1>4, NotThere
<1>6. /\ Append(e, x) \in Seq(Txns) /\ Once(Append(e, x), Txns)
      /\ Entries(Append(e, x)) = Entries(e) \cup {x}
  BY <1>2, <1>5, Pushed
<1>7. /\ eject' \in [{"RSP", "DAT"} -> Seq(Txns)] /\ eject'[k] = Append(e, x)
      /\ \A j \in {"RSP", "DAT"} \ {k} : eject'[j] = eject[j]
      /\ taken' \in [{"REQ", "DAT"} -> SUBSET Txns]
      /\ taken'["REQ"] = taken["REQ"] \ {x}
  BY <1>2, <1>3, <1>6
<1>8. Queued'
  BY <1>1, <1>3, <1>6, <1>7 DEF Queued
<1>9. /\ Where(master)'[p] = Where(master)[p] \ {x}
      /\ Where(master)'[q] = Where(master)[q] \cup {x}
  <2>1. /\ Where(master)'[p] = taken["REQ"] \ {x}
        /\ Where(master)'[q] = Entries(Append(e, x))
    BY <1>2, <1>7, WhereNext DEF p, q
  <2> QED BY <1>4, <1>6, <2>1
<1>10. \A r \in Spots \ {p, q} : Where(master)'[r] = Where(master)[r]
  <2>1. \A j \in {"RSP", "DAT"} : <<"eject", j>> # q => j # k
    BY DEF q
  <2>2. \A j \in {"RSP", "DAT"} \ {k} :
          Where(master)'[<<"eject", j>>] = Where(master)[<<"eject", j>>]
    BY <1>7, SameSpots
  <2>3. /\ \A j \in Cmds :
             /\ Where(master)'[<<"channel", j>>] = Where(master)[<<"channel", j>>]
             /\ Where(master)'[<<"back", j>>] = Where(master)[<<"back", j>>]
        /\ Where(master)'[<<"bank", "REQ">>] = Where(master)[<<"bank", "REQ">>]
    BY <1>3, SameSpots
  <2> QED BY <2>1, <2>2, <2>3, SpotFacts DEF p
<1>11. x \in Where(master)[p]
  BY <1>3, <1>4
<1> QED BY <1>1, <1>3, <1>4, <1>8, <1>9, <1>10, <1>11, Travels

(* The NIU returns an answer. *)
LEMMA ReturnFlight ==
  ASSUME FlightInv, NEW i \in {"RSP", "DAT"}, NEW k \in Cmds, Return(i, k)
  PROVE  FlightInv'
<1> DEFINE e == eject[i]
           b == back[k]
           x == Head(e)
           p == <<"eject", i>>
           q == <<"back", k>>
<1>1. /\ Queued /\ master \in MasterType
      /\ \A j \in Cmds : Once(master.chan[j], Txns)
  BY DEF FlightInv, Flight
<1>2. /\ eject \in [{"RSP", "DAT"} -> Seq(Txns)] /\ e \in Seq(Txns) /\ Once(e, Txns)
      /\ back \in [Cmds -> Seq(Txns)] /\ b \in Seq(Txns) /\ Once(b, Txns)
  BY <1>1 DEF Queued
<1>3. /\ e # <<>> /\ UNCHANGED <<master, answers, bank, taken>>
      /\ back' = [back EXCEPT ![k] = Append(b, x)]
      /\ eject' = [eject EXCEPT ![i] = Tail(e)]
  BY DEF Return
<1>4. /\ Where(master)[p] = Entries(e) /\ Where(master)[q] = Entries(b)
      /\ p \in Spots /\ q \in Spots /\ p # q
  BY WhereFacts, SpotFacts
<1>5. /\ x \in Txns /\ x \in Entries(e) /\ Tail(e) \in Seq(Txns)
      /\ Once(Tail(e), Txns) /\ Entries(Tail(e)) = Entries(e) \ {x}
  BY <1>2, <1>3, Popped
<1> HIDE DEF e, b, x, p, q
<1>6. x \notin Entries(b)
  BY <1>4, <1>5, NotThere
<1>7. /\ Append(b, x) \in Seq(Txns) /\ Once(Append(b, x), Txns)
      /\ Entries(Append(b, x)) = Entries(b) \cup {x}
  BY <1>2, <1>5, <1>6, Pushed
<1>8. /\ eject' \in [{"RSP", "DAT"} -> Seq(Txns)] /\ eject'[i] = Tail(e)
      /\ \A j \in {"RSP", "DAT"} \ {i} : eject'[j] = eject[j]
      /\ back' \in [Cmds -> Seq(Txns)] /\ back'[k] = Append(b, x)
      /\ \A j \in Cmds \ {k} : back'[j] = back[j]
  BY <1>2, <1>3, <1>5, <1>7
<1>9. Queued'
  BY <1>1, <1>3, <1>5, <1>7, <1>8 DEF Queued
<1>10. /\ Where(master)'[p] = Where(master)[p] \ {x}
       /\ Where(master)'[q] = Where(master)[q] \cup {x}
  <2>1. Where(master)'[p] = Entries(Tail(e)) /\ Where(master)'[q] = Entries(Append(b, x))
    BY <1>8, WhereNext DEF p, q
  <2> QED BY <1>4, <1>5, <1>7, <2>1
<1>11. \A r \in Spots \ {p, q} : Where(master)'[r] = Where(master)[r]
  <2>1. /\ \A j \in {"RSP", "DAT"} : <<"eject", j>> # p => j # i
        /\ \A j \in Cmds : <<"back", j>> # q => j # k
    BY DEF p, q
  <2>2. \A j \in {"RSP", "DAT"} \ {i} :
          Where(master)'[<<"eject", j>>] = Where(master)[<<"eject", j>>]
    BY <1>8, SameSpots
  <2>3. \A j \in Cmds \ {k} :
          Where(master)'[<<"back", j>>] = Where(master)[<<"back", j>>]
    BY <1>8, SameSpots
  <2>4. /\ \A j \in Cmds :
             Where(master)'[<<"channel", j>>] = Where(master)[<<"channel", j>>]
        /\ Where(master)'[<<"bank", "REQ">>] = Where(master)[<<"bank", "REQ">>]
        /\ Where(master)'[<<"fabric", "REQ">>] = Where(master)[<<"fabric", "REQ">>]
    BY <1>3, SameSpots
  <2> QED BY <2>1, <2>2, <2>3, <2>4, SpotFacts
<1>12. x \in Where(master)[p]
  BY <1>4, <1>5
<1> QED BY <1>1, <1>3, <1>4, <1>9, <1>10, <1>11, <1>12, Travels

(* The master gets an answer, which is to something outstanding. *)
LEMMA ReceiveFlight ==
  ASSUME FlightInv, NEW k \in Cmds, Receive(k)
  PROVE  FlightInv'
<1> DEFINE b == back[k]
           x == Head(b)
           p == <<"back", k>>
<1>1. /\ Queued /\ master \in MasterType
      /\ \A j \in Cmds : Once(master.chan[j], Txns)
  BY DEF FlightInv, Flight
<1>2. back \in [Cmds -> Seq(Txns)] /\ b \in Seq(Txns) /\ Once(b, Txns) /\ b # <<>>
  BY <1>1 DEF Queued, Receive
<1>3. Where(master)[p] = Entries(b) /\ p \in Spots
  BY WhereFacts, SpotFacts
<1>4. /\ x \in Txns /\ x \in Entries(b) /\ Tail(b) \in Seq(Txns)
      /\ Once(Tail(b), Txns) /\ Entries(Tail(b)) = Entries(b) \ {x}
  BY <1>2, Popped
<1>5. x \in master.open
  BY <1>3, <1>4, FoundOpen
<1>6. /\ UNCHANGED <<bank, taken, eject>>
      /\ master' = [master EXCEPT !.open = master.open \ {x}]
      /\ answers' = [answers EXCEPT !.done = answers.done \cup {x}]
      /\ back' = [back EXCEPT ![k] = Tail(b)]
  BY <1>5 DEF Receive
<1> HIDE DEF b, x, p
<1>7. /\ back' \in [Cmds -> Seq(Txns)] /\ back'[k] = Tail(b)
      /\ \A j \in Cmds \ {k} : back'[j] = back[j]
  BY <1>2, <1>4, <1>6
<1>8. /\ answers' \in [done : SUBSET Txns, stray : {0}]
      /\ answers'.done = answers.done \cup {x}
  BY <1>1, <1>4, <1>6 DEF Queued
<1>9. Queued'
  BY <1>1, <1>4, <1>6, <1>7, <1>8 DEF Queued
<1>10. /\ master' \in MasterType /\ master'.next = master.next
       /\ master'.chan = master.chan /\ master'.open = master.open \ {x}
  <2>1. master.open \ {x} \in SUBSET Txns
    BY <1>1 DEF MasterType
  <2> QED BY <1>1, <1>6, <2>1 DEF MasterType
<1>11. Where(master)'[p] = Where(master)[p] \ {x}
  <2>1. Where(master)'[p] = Entries(Tail(b))
    BY <1>7, WhereNext DEF p
  <2> QED BY <1>3, <1>4, <2>1
<1>12. \A r \in Spots \ {p} : Where(master)'[r] = Where(master)[r]
  <2>1. \A j \in Cmds : <<"back", j>> # p => j # k
    BY DEF p
  <2>2. \A j \in Cmds \ {k} :
          Where(master)'[<<"back", j>>] = Where(master)[<<"back", j>>]
    BY <1>7, SameSpots
  <2>3. /\ \A j \in Cmds :
             Where(master)'[<<"channel", j>>] = Where(master)[<<"channel", j>>]
        /\ \A j \in {"RSP", "DAT"} :
             Where(master)'[<<"eject", j>>] = Where(master)[<<"eject", j>>]
        /\ Where(master)'[<<"bank", "REQ">>] = Where(master)[<<"bank", "REQ">>]
        /\ Where(master)'[<<"fabric", "REQ">>] = Where(master)[<<"fabric", "REQ">>]
    BY <1>6, <1>10, SameSpots
  <2> QED BY <2>1, <2>2, <2>3, SpotFacts
<1>13. Placed(Where(master)', master'.open)
  <2> DEFINE F == Where(master)
             G == Where(master)'
  <2>1. Placed(F, master.open) /\ x \in F[p]
    BY <1>3, <1>4 DEF FlightInv, Flight
  <2>2. G[p] = F[p] \ {x} /\ \A r \in Spots \ {p} : G[r] = F[r]
    BY <1>11, <1>12
  <2> HIDE DEF F, G
  <2>3. Placed(G, master.open \ {x})
    BY <1>3, <2>1, <2>2, PlacedEnds
  <2> QED BY <1>10, <2>3 DEF G
<1>14. answers'.done = answers.done \cup (master.open \ master'.open)
  BY <1>5, <1>8, <1>10
<1>15. \A j \in Cmds : Once(master'.chan[j], Txns)
  BY <1>1, <1>10
<1> QED BY <1>9, <1>10, <1>13, <1>14, <1>15, Flown

(* Nothing has been issued yet. *)
Begun ==
  /\ master = InitMaster
  /\ answers = [done |-> {}, stray |-> 0]
  /\ bank = [q \in {"REQ", "DAT"} |-> <<>>]
  /\ taken = [q \in {"REQ", "DAT"} |-> {}]
  /\ eject = [q \in {"RSP", "DAT"} |-> <<>>]
  /\ back = [k \in Cmds |-> <<>>]

LEMMA NothingYet == Begun => FlightInv
<1> SUFFICES ASSUME Begun PROVE FlightInv
  OBVIOUS
<1> USE DEF Begun
<1>1. <<>> \in Seq(Txns) /\ Once(<<>>, Txns) /\ Entries(<<>>) = {}
  BY EmptySeq DEF Once, Entries
<1>2. Queued
  BY <1>1 DEF Queued
<1>3. /\ master \in MasterType /\ master.open = {}
      /\ \A k \in Cmds : master.next[k] = 1 /\ master.chan[k] = <<>>
  BY NewMaster DEF InitMaster
<1>4. Placed(Where(master), {})
  <2> DEFINE F == Where(master)
  <2>1. /\ \A k \in Cmds : F[<<"channel", k>>] = Entries(master.chan[k])
        /\ \A k \in Cmds : F[<<"back", k>>] = Entries(back[k])
        /\ F[<<"bank", "REQ">>] = Entries(bank["REQ"])
        /\ F[<<"fabric", "REQ">>] = taken["REQ"]
        /\ \A q \in {"RSP", "DAT"} : F[<<"eject", q>>] = Entries(eject[q])
    BY WhereFacts
  <2> HIDE DEF F
  <2>2. \A p \in Spots : F[p] = {}
    BY <1>1, <1>3, <2>1, SpotFacts
  <2>3. Placed(F, {})
    BY <2>2 DEF Placed
  <2> QED BY <2>3 DEF F
<1>5. Issued(master) = {}
  BY <1>3 DEF Issued
<1>6. MaxOutstanding = 0 \/ Cardinality({}) <= MaxOutstanding
  BY MasterAssumption, FS_EmptySet DEF MasterAssumption
<1>7. \A k \in Cmds : master.next[k] <= Len(Trace[k]) + 1 /\ Once(master.chan[k], Txns)
  BY <1>1, <1>3, TraceOnce
<1>8. Issued(master) = master.open \cup answers.done
      /\ master.open \cap answers.done = {}
  BY <1>3, <1>5
<1>9. Flight(master)
  BY <1>3, <1>4, <1>6, <1>7, <1>8 DEF Flight
<1> QED BY <1>2, <1>9 DEF FlightInv

(* The same after a reset. *)
LEMMA BeginsAnew == Begun' => FlightInv'
BY NothingYet, PTL

LEMMA ResetFlight ==
  ASSUME FlightInv, Reset
  PROVE  FlightInv'
<1>1. /\ DOMAIN bank = {"REQ", "DAT"} /\ DOMAIN taken = {"REQ", "DAT"}
      /\ DOMAIN eject = {"RSP", "DAT"}
  BY DEF FlightInv, Queued
<1>2. Begun'
  BY <1>1 DEF Reset, Begun, InitMaster
<1> QED BY <1>2, BeginsAnew

LEMMA FlightHolds == Spec => []FlightInv
<1>1. Init => FlightInv
  BY NothingYet DEF Init, Begun
<1>2. FlightInv /\ [Next]_vars => FlightInv'
  <2> SUFFICES ASSUME FlightInv, [Next]_vars PROVE FlightInv'
    OBVIOUS
  <2>1. CASE UNCHANGED vars
    <3>1. /\ Queued' /\ master' \in MasterType /\ master' = master
          /\ UNCHANGED <<answers, bank, taken, eject, back>>
      BY <2>1 DEF vars, FlightInv, Flight, Queued
    <3> QED BY <3>1, Unmoved
  <2>2. CASE Issue \/ RecvBiuRequest \/ Reset
    BY <2>2, IssueFlight, RequestFlight, ResetFlight
  <2>3. CASE SendData \/ RecvBiuData \/ Take("DAT") \/ Take("REQ")
    BY <2>3, DataFlight, TakeFlight
  <2>4. CASE RecvRsp \/ RecvDat
    BY <2>4, ReturnFlight DEF RecvRsp, RecvDat, Cmds
  <2>5. CASE \/ \E t \in Txns : Answer(t)
             \/ \E k \in Cmds : Receive(k)
    BY <2>5, AnswerFlight, ReceiveFlight
  <2> QED BY <2>1, <2>2, <2>3, <2>4, <2>5 DEF Next, NiuStep
<1> QED BY <1>1, <1>2, PTL DEF Spec

(* The places of a transaction are the spots where it is. *)
LEMMA PlacesAreSpots ==
  ASSUME FlightInv, NEW t
  PROVE  Places(t) = {p \in Spots : t \in Where(master)[p]}
<1> DEFINE F == Where(master)
<1>1. /\ \A k \in Cmds : F[<<"channel", k>>] = Entries(master.chan[k])
      /\ \A k \in Cmds : F[<<"back", k>>] = Entries(back[k])
      /\ F[<<"bank", "REQ">>] = Entries(bank["REQ"])
      /\ F[<<"fabric", "REQ">>] = taken["REQ"]
      /\ \A q \in {"RSP", "DAT"} : F[<<"eject", q>>] = Entries(eject[q])
  BY WhereFacts
<1>2. DOMAIN eject = {"RSP", "DAT"}
  BY DEF FlightInv, Queued
<1> HIDE DEF F
<1>3. ASSUME NEW p \in Places(t)
      PROVE  p \in Spots /\ t \in F[p]
  <2>1. \/ \E k \in Cmds : p = <<"channel", k>> /\ t \in Entries(master.chan[k])
        \/ p = <<"bank", "REQ">> /\ t \in Entries(bank["REQ"])
        \/ p = <<"fabric", "REQ">> /\ t \in taken["REQ"]
        \/ \E q \in {"RSP", "DAT"} : p = <<"eject", q>> /\ t \in Entries(eject[q])
        \/ \E k \in Cmds : p = <<"back", k>> /\ t \in Entries(back[k])
    BY <1>2 DEF Places
  <2> QED BY <1>1, <2>1, SpotFacts
<1>4. ASSUME NEW p \in Spots, t \in F[p]
      PROVE  p \in Places(t)
  <2>1. CASE \E k \in Cmds : p = <<"channel", k>> \/ p = <<"back", k>>
    BY <1>1, <1>4, <2>1 DEF Places
  <2>2. CASE p = <<"bank", "REQ">> \/ p = <<"fabric", "REQ">>
    BY <1>1, <1>4, <2>2 DEF Places
  <2>3. CASE \E q \in {"RSP", "DAT"} : p = <<"eject", q>>
    BY <1>1, <1>2, <1>4, <2>3 DEF Places
  <2> QED BY <2>1, <2>2, <2>3, SpotFacts
<1>5. Places(t) = {p \in Spots : t \in F[p]}
  BY <1>3, <1>4
<1> QED BY <1>5 DEF F

(* What is outstanding is in flight, in one place, as a request or as its  *)
(* answer; what is not is nowhere: so issue_read and issue_write count     *)
(* what is in flight against the limit, receive_response meets neither a   *)
(* duplicate nor an unknown answer, and idle() waits for every answer.     *)
THEOREM OutstandingFlies == Spec => []OutstandingIsInFlight
<1>1. ASSUME FlightInv PROVE OutstandingIsInFlight
  <2>1. Flight(master) /\ Queued
    BY <1>1 DEF FlightInv
  <2>2. ASSUME NEW t \in Txns
        PROVE  Cardinality(Places(t)) = IF t \in master.open THEN 1 ELSE 0
    <3> DEFINE P == {p \in Spots : t \in Where(master)[p]}
    <3>1. Places(t) = P
      BY <1>1, PlacesAreSpots
    <3>2. \A p, q \in P : p = q
      BY <2>1 DEF Flight, Placed
    <3>3. t \in master.open <=> P # {}
      BY <2>1 DEF Flight, Placed
    <3> HIDE DEF P
    <3>4. CASE t \in master.open
      <4>1. PICK p : P = {p}
        BY <3>2, <3>3, <3>4
      <4> QED BY <3>1, <3>4, <4>1, FS_Singleton
    <3>5. CASE t \notin master.open
      BY <3>1, <3>3, <3>5, FS_EmptySet
    <3> QED BY <3>4, <3>5
  <2>3. ASSUME Idle PROVE answers.done = Txns
    <3>1. /\ \A k \in Cmds : master.next[k] = Len(Trace[k]) + 1
          /\ master.open = {}
      BY <2>3 DEF Idle
    <3>2. \A k \in Cmds : master.next[k] - 1 = Len(Trace[k])
      BY <3>1, TraceOnce
    <3>3. Issued(master) = Txns
      BY <3>2, TraceOnce DEF Issued
    <3> QED BY <2>1, <3>1, <3>3 DEF Flight
  <2>4. answers.stray = 0
    BY <2>1 DEF Queued
  <2> QED BY <2>1, <2>2, <2>3, <2>4 DEF OutstandingIsInFlight, Flight
<1>2. FlightInv => OutstandingIsInFlight
  BY <1>1
<1> QED BY <1>2, FlightHolds, PTL
=============================================================================
