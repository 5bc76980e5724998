----------------------------- MODULE RingMaster -----------------------------
(***************************************************************************)
(* A master at work: the traffic generator (tm_ring_perf_master.cc), its   *)
(* bus interface, and the NIU that puts its requests and write data on the *)
(* ring and takes the answers off it (tm_ring_master_niu.cc).  The fabric  *)
(* behind the NIU is reduced to what a master may rely on: requests and    *)
(* data are taken from the banks in order, and every read whose request    *)
(* and every write whose address and data have been taken is answered      *)
(* once, in any order.                                                     *)
(*                                                                         *)
(* A transaction stands for all packets that carry its gid.  The bus       *)
(* interface (pem_biu, outside the repository) hands a write on as an      *)
(* address and, some time later, its data.                                 *)
(***************************************************************************)
EXTENDS Naturals, Sequences, FiniteSets

CONSTANTS
  Reads, Writes,   \* the trace, one sequence of transactions per command
  MaxOutstanding,  \* transactions in flight at most, 0 for any number
  ChannelDepth,    \* entries of a channel of the bus interface
  BankDepth,       \* entries of an inject bank of the NIU
  EjectDepth       \* entries of an eject queue of the NIU

Cmds == {"RD", "WR"}

Other(k) == IF k = "RD" THEN "WR" ELSE "RD"

(* config sorts the trace by command and refuses any other command. *)
Trace == [k \in Cmds |-> IF k = "RD" THEN Reads ELSE Writes]

Entries(q) == {q[i] : i \in DOMAIN q}

Txns == Entries(Reads) \cup Entries(Writes)

ASSUME MasterAssumption ==
  /\ Reads \in Seq(Entries(Reads)) /\ Writes \in Seq(Entries(Writes))
  /\ Cardinality(Txns) = Len(Reads) + Len(Writes)
  /\ MaxOutstanding \in Nat
  /\ ChannelDepth \in Nat \ {0}
  /\ BankDepth \in Nat \ {0}
  /\ EjectDepth \in Nat \ {0}

VARIABLES
  master,   \* the generator and the request side of its bus interface
  answers,  \* what it has got: outstanding done, and anything unexpected
  niu,      \* the arbiter of the NIU and the request it has committed to
  bank,     \* inject banks of the REQ and DAT subnet
  taken,    \* what the fabric has taken and not answered
  eject,    \* eject queues of the RSP and DAT subnet
  back,     \* response channels of the bus interface
  passed    \* history: how often the head of a channel was passed over

vars == <<master, answers, niu, bank, taken, eject, back, passed>>

-----------------------------------------------------------------------------
InitMaster ==
  [next |-> [k \in Cmds |-> 1], open |-> {},
   chan |-> [k \in Cmds \cup {"WR_DAT"} |-> <<>>], owed |-> <<>>]

InitNiu == [turn |-> "RD", reserved |-> "NONE"]

Init ==
  /\ master = InitMaster
  /\ answers = [done |-> {}, stray |-> 0]
  /\ niu = InitNiu
  /\ bank = [q \in {"REQ", "DAT"} |-> <<>>]
  /\ taken = [q \in {"REQ", "DAT"} |-> {}]
  /\ eject = [q \in {"RSP", "DAT"} |-> <<>>]
  /\ back = [k \in Cmds |-> <<>>]
  /\ passed = [k \in Cmds |-> 0]

(* issue_read, issue_write: a candidate that the port refuses is kept and  *)
(* offered again, so it is the next transaction of the trace either way.   *)
MayIssue(m, k) ==
  /\ m.next[k] <= Len(Trace[k])
  /\ MaxOutstanding = 0 \/ Cardinality(m.open) < MaxOutstanding
  /\ Len(m.chan[k]) < ChannelDepth

IssueOne(m, k) ==
  LET t == Trace[k][m.next[k]]
  IN  IF ~MayIssue(m, k) THEN m
      ELSE [m EXCEPT !.next[k] = @ + 1,
                     !.open = @ \cup {t},
                     !.chan[k] = Append(@, t),
                     !.owed = IF k = "WR" THEN Append(@, t) ELSE @]

(* Reads first, then writes, in one activation. *)
Issue ==
  /\ \E k \in Cmds : MayIssue(master, k)
  /\ master' = IssueOne(IssueOne(master, "RD"), "WR")
  /\ UNCHANGED <<answers, niu, bank, taken, eject, back, passed>>

(* The bus interface follows an address with its data. *)
SendData ==
  /\ master.owed # <<>>
  /\ Len(master.chan["WR_DAT"]) < ChannelDepth
  /\ master' = [master EXCEPT !.chan["WR_DAT"] = Append(@, Head(master.owed)),
                              !.owed = Tail(@)]
  /\ UNCHANGED <<answers, niu, bank, taken, eject, back, passed>>

-----------------------------------------------------------------------------
(* The NIU *)

Offered == {k \in Cmds : master.chan[k] # <<>>}

(* The round-robin arbiter grants the turn to a command that is offered.   *)
Winner == IF niu.turn \in Offered THEN niu.turn ELSE Other(niu.turn)

Pop(k) == [master EXCEPT !.chan[k] = Tail(@)]

(* forward_biu_request, with the history of who was passed over. *)
Forward(k) ==
  /\ bank' = [bank EXCEPT !["REQ"] = Append(@, Head(master.chan[k]))]
  /\ master' = Pop(k)
  /\ passed' = [passed EXCEPT ![k] = 0,
                              ![Other(k)] = IF Other(k) \in Offered THEN @ + 1
                                                                    ELSE 0]

(* Mutants: the choice is forgotten when the bank is full; it is kept      *)
(* after the request has gone.                                             *)
RecvBiuRequestForgetting ==
  /\ Offered # {}
  /\ niu' = [turn |-> Other(Winner), reserved |-> "NONE"]
  /\ IF Len(bank["REQ"]) < BankDepth THEN Forward(Winner)
                                     ELSE UNCHANGED <<bank, master, passed>>
  /\ UNCHANGED <<answers, taken, eject, back>>

RecvBiuRequestSticking ==
  /\ Offered # {}
  /\ LET k == IF niu.reserved = "NONE" THEN Winner ELSE niu.reserved
     IN  /\ niu' = [turn |-> IF niu.reserved = "NONE" THEN Other(k) ELSE niu.turn,
                    reserved |-> k]
         /\ IF k \in Offered /\ Len(bank["REQ"]) < BankDepth
            THEN Forward(k) ELSE UNCHANGED <<bank, master, passed>>
  /\ UNCHANGED <<answers, taken, eject, back>>

(* recv_biu_request: a command is chosen once and stays chosen until its   *)
(* request is in the bank.                                                 *)
RecvBiuRequest ==
  /\ Offered # {}
  /\ LET k == IF niu.reserved = "NONE" THEN Winner ELSE niu.reserved
         turn == IF niu.reserved = "NONE" THEN Other(k) ELSE niu.turn
     IN  IF k \in Offered /\ Len(bank["REQ"]) < BankDepth
         THEN Forward(k) /\ niu' = [turn |-> turn, reserved |-> "NONE"]
         ELSE /\ niu' = [turn |-> turn, reserved |-> k]
              /\ UNCHANGED <<bank, master, passed>>
  /\ UNCHANGED <<answers, taken, eject, back>>

RecvBiuData ==
  /\ master.chan["WR_DAT"] # <<>>
  /\ Len(bank["DAT"]) < BankDepth
  /\ bank' = [bank EXCEPT !["DAT"] = Append(@, Head(master.chan["WR_DAT"]))]
  /\ master' = Pop("WR_DAT")
  /\ UNCHANGED <<answers, niu, taken, eject, back, passed>>

(* Mutant: an answer the bus interface refuses is popped all the same. *)
ReturnDropping(q, k) ==
  /\ eject[q] # <<>>
  /\ back' = [back EXCEPT ![k] = IF Len(@) < ChannelDepth
                                 THEN Append(@, Head(eject[q])) ELSE @]
  /\ eject' = [eject EXCEPT ![q] = Tail(@)]
  /\ UNCHANGED <<master, answers, niu, bank, taken, passed>>

(* recv_rsp and recv_dat: an answer leaves its queue when the bus          *)
(* interface has taken it.                                                 *)
Return(q, k) ==
  /\ eject[q] # <<>>
  /\ Len(back[k]) < ChannelDepth
  /\ back' = [back EXCEPT ![k] = Append(@, Head(eject[q]))]
  /\ eject' = [eject EXCEPT ![q] = Tail(@)]
  /\ UNCHANGED <<master, answers, niu, bank, taken, passed>>

RecvRsp == Return("RSP", "WR")

RecvDat == Return("DAT", "RD")

-----------------------------------------------------------------------------
(* The fabric *)

Take(q) ==
  /\ bank[q] # <<>>
  /\ taken' = [taken EXCEPT ![q] = @ \cup {Head(bank[q])}]
  /\ bank' = [bank EXCEPT ![q] = Tail(@)]
  /\ UNCHANGED <<master, answers, niu, eject, back, passed>>

Answer(t) ==
  LET q == IF t \in Entries(Reads) THEN "DAT" ELSE "RSP"
  IN  /\ t \in taken["REQ"]
      /\ t \in Entries(Writes) => t \in taken["DAT"]
      /\ Len(eject[q]) < EjectDepth
      /\ eject' = [eject EXCEPT ![q] = Append(@, t)]
      /\ taken' = [p \in DOMAIN taken |-> taken[p] \ {t}]
      /\ UNCHANGED <<master, answers, niu, bank, back, passed>>

-----------------------------------------------------------------------------
(* receive_response: an answer to what is not outstanding is counted as    *)
(* a duplicate or as unknown.                                              *)
Receive(k) ==
  /\ back[k] # <<>>
  /\ LET t == Head(back[k])
     IN  IF t \in master.open
         THEN /\ master' = [master EXCEPT !.open = @ \ {t}]
              /\ answers' = [answers EXCEPT !.done = @ \cup {t}]
         ELSE /\ answers' = [answers EXCEPT !.stray = @ + 1]
              /\ UNCHANGED master
  /\ back' = [back EXCEPT ![k] = Tail(@)]
  /\ UNCHANGED <<niu, bank, taken, eject, passed>>

(* Masters, bus interfaces and fabric are reset together.  The NIU forgets *)
(* its choice, the turn of its arbiter stays.                              *)
Reset ==
  /\ master' = InitMaster
  /\ answers' = [done |-> {}, stray |-> 0]
  /\ niu' = [niu EXCEPT !.reserved = "NONE"]
  /\ bank' = [q \in DOMAIN bank |-> <<>>]
  /\ taken' = [q \in DOMAIN taken |-> {}]
  /\ eject' = [q \in DOMAIN eject |-> <<>>]
  /\ back' = [k \in Cmds |-> <<>>]
  /\ passed' = [k \in Cmds |-> 0]

Idle ==
  /\ \A k \in Cmds : master.next[k] = Len(Trace[k]) + 1
  /\ master.open = {}
  /\ \A k \in Cmds : master.chan[k] = <<>> /\ back[k] = <<>>

NiuStep == RecvBiuRequest \/ RecvBiuData \/ RecvRsp \/ RecvDat

Next ==
  \/ Issue \/ SendData
  \/ NiuStep
  \/ \E q \in {"REQ", "DAT"} : Take(q)
  \/ \E t \in Txns : Answer(t)
  \/ \E k \in Cmds : Receive(k)
  \/ Reset

Spec == Init /\ [][Next]_vars

(* issue runs on every clock edge, the other processes again and again     *)
(* while their channel or queue holds something; the bus interface and the *)
(* fabric are assumed to go on.                                            *)
Fairness ==
  /\ WF_vars(Issue) /\ WF_vars(SendData)
  /\ WF_vars(RecvBiuRequest) /\ WF_vars(RecvBiuData)
  /\ WF_vars(RecvRsp) /\ WF_vars(RecvDat)
  /\ \A q \in {"REQ", "DAT"} : WF_vars(Take(q))
  /\ \A t \in Txns : WF_vars(Answer(t))
  /\ \A k \in Cmds : WF_vars(Receive(k))

FairSpec == Spec /\ Fairness

-----------------------------------------------------------------------------
(* Properties *)

(* Where the request of t, or the answer to it, is. *)
Places(t) ==
  {<<"channel", i>> : i \in {k \in Cmds : t \in Entries(master.chan[k])}} \cup
  {<<"bank", i>> : i \in {q \in {"REQ"} : t \in Entries(bank[q])}} \cup
  {<<"fabric", i>> : i \in {q \in {"REQ"} : t \in taken[q]}} \cup
  {<<"eject", i>> : i \in {q \in DOMAIN eject : t \in Entries(eject[q])}} \cup
  {<<"back", i>> : i \in {k \in Cmds : t \in Entries(back[k])}}

(* Every outstanding transaction is in one place, as a request or as its   *)
(* answer, and one that is done, or not begun, is nowhere: so the limit of *)
(* outstanding transactions counts what is in flight, no answer is counted *)
(* as a duplicate or as unknown, and an idle master has left nothing in    *)
(* the fabric.                                                             *)
OutstandingIsInFlight ==
  /\ \A t \in Txns : Cardinality(Places(t)) = IF t \in master.open THEN 1 ELSE 0
  /\ MaxOutstanding = 0 \/ Cardinality(master.open) <= MaxOutstanding
  /\ answers.stray = 0
  /\ Idle => answers.done = Txns

(* A request at the head of its channel lets at most one request of the    *)
(* other command go before it.  The arbiter alone does not ensure that:    *)
(* its turn moves with every choice, also when the bank then refuses the   *)
(* request, so the choice must be kept until the request has gone.         *)
CommandsTakeTurns == \A k \in Cmds : passed[k] <= 1

(* Every transaction of the trace is answered and the master becomes idle, *)
(* unless resets never end.                                                *)
TraceCompletes ==
  <>[][~Reset]_vars => <>[](Idle /\ answers.done = Txns)
=============================================================================
