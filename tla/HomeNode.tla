------------------------------ MODULE HomeNode ------------------------------
(***************************************************************************)
(* The target side of the ring: TmRingMemPort with its Home Agent, write   *)
(* tracker and L2 Buffer (tm_ring_mem_port.cc, tm_ring_home_agent.cc,      *)
(* tm_ring_write_tracker.h, tm_ring_l2_buffer_node.cc), between the eject  *)
(* queues of the H-Ring and the memory.  Reads of one line are merged into *)
(* one transaction whose data all of them share; a write reserves the line *)
(* it begins in until its final response, so that reads and writes of that *)
(* line are done one after the other.                                      *)
(*                                                                         *)
(* Both may run on into the next lines.  Such a read bypasses the agent.   *)
(* Such a write does not: it is accepted like any other, and changes lines *)
(* it has not reserved.                                                    *)
(*                                                                         *)
(* A packet is its transaction: a read, or a write, which arrives twice,   *)
(* as an address on the REQ subnet and as data on the DAT subnet, in any   *)
(* order.  Processes run atomically and in any order.  Time is abstracted: *)
(* the latency and issue interval of the L2 Buffer are any delay.  The     *)
(* memory (TmMem, not in the repository) serves a request in one step and  *)
(* keeps the last write of a line; data is what the first line of a read   *)
(* holds, as the others come from memory in the same step.                 *)
(* A reset takes the memory and its channels with it, not what it holds.   *)
(*                                                                         *)
(* All of it together is to be an atomic memory (AtomicMemory), for lines  *)
(* that no write runs on into.                                             *)
(***************************************************************************)
EXTENDS Naturals, Sequences, FiniteSets, SequencesExt

CONSTANTS
  Reads, Writes, \* the transactions masters may start
  Lines,
  LineOf,        \* line_base of a transaction, the line it begins in
  Span,          \* all lines that a transaction covers
  MasterOf,      \* master of a transaction
  VRingOf,       \* ring of a master, a number
  Hits,          \* reads that classify a transaction they start as L2 hit
  Sectored,      \* reads whose shape allows them to join a fan-out
  EntryLimit, WaitersPerEntry,        \* of the Home Agent
  EjectDepth, FifoDepth, MemDepth,    \* of queues
  L2Depth,                            \* buffer_depth of the L2 Buffer
  MaxResets,     \* bound: resets while the target runs
  RdPorts,       \* read response channels of the memory: 0 .. RdPorts - 1
  NoLine,        \* entries_.end()
  NoWrite        \* a line that was never written

Ports == 0 .. RdPorts - 1

ASSUME HomeAssumption ==
  /\ Reads \cap Writes = {}
  /\ LineOf \in [Reads \cup Writes -> Lines]
  /\ Span \in [Reads \cup Writes -> SUBSET Lines]
  /\ \A t \in Reads \cup Writes : LineOf[t] \in Span[t]
  /\ (Reads \cup Writes) \cap Lines = {}
  /\ DOMAIN MasterOf = Reads \cup Writes
  /\ \A t \in Reads \cup Writes : VRingOf[MasterOf[t]] \in Nat
  /\ Hits \subseteq Reads /\ Sectored \subseteq Reads
  /\ {EntryLimit, WaitersPerEntry, EjectDepth, FifoDepth, MemDepth, L2Depth,
      RdPorts} \subseteq Nat \ {0}
  /\ MaxResets \in Nat
  /\ NoLine \notin Lines
  /\ NoWrite \notin Writes

VARIABLES
  sent,        \* addresses and reads that have come out of the ring
  sentData,    \* writes whose data has come out of the ring
  reqIn, datIn,\* eject queues of the node interface
  wrQ, datQ,   \* wr_req_q_ and wr_dat_q_
  tracked,     \* addresses_ of the write tracker
  reserved,    \* write_txn_lines_ of the Home Agent
  writeLines,  \* write_lines_
  toWr, wrRsp, \* WR_DAT channels of the memory interface
  version,     \* last write of each line in memory
  done,        \* writes and reads whose response has been injected
  home         \* the read side, see InitHome

writeVars == <<wrQ, datQ, tracked, reserved, writeLines, toWr, wrRsp, version>>
ringVars == <<sent, sentData, reqIn, datIn>>
vars == <<ringVars, writeVars, done, home>>

(* What service_home_agent, one step with several stages, reads and        *)
(* writes.  Entries are named by their line: no two have the same.         *)
InitHome ==
  [rdQ |-> <<>>,             \* rd_req_q_
   entries |-> <<>>,         \* entries_
   backendCursor |-> NoLine, backendCandidate |-> NoLine,
   responseCursor |-> NoLine, responseCandidate |-> NoLine,
   pending |-> 0,            \* pending_rd_rsp_
   toRd |-> <<>>,            \* RD channel of the memory interface
   rdRsp |-> [c \in Ports |-> <<>>],  \* its response channels
   port |-> 0,               \* next_rd_rsp_lane_
   l2 |-> <<>>,              \* response_q_, envelopes [group, reads, data]
   ready |-> 0,              \* ready_response_count_
   open |-> {},              \* open_groups_
   frozen |-> FALSE,         \* frozen_summary_response_ is the front
   summaries |-> <<>>,       \* frozen_summaries_
   token |-> 0,              \* next_group_token_
   fault |-> FALSE,          \* a logic_error has been thrown
   resets |-> 0]             \* bound: resets so far

Init ==
  /\ sent = {} /\ sentData = {}
  /\ reqIn = <<>> /\ datIn = <<>>
  /\ wrQ = <<>> /\ datQ = <<>>
  /\ tracked = {} /\ reserved = {} /\ writeLines = {}
  /\ toWr = <<>> /\ wrRsp = <<>>
  /\ version = [x \in Lines |-> NoWrite]
  /\ done = {}
  /\ home = InitHome

-----------------------------------------------------------------------------
(* The table of the Home Agent.  Operators of this and the next section    *)
(* take the state h of the read side.                                      *)

NoCandidate == [eligible |-> FALSE, group |-> 0, cached |-> FALSE]

InOneLine(r) == Span[r] = {LineOf[r]}

NewEntry(r) ==
  [line |-> LineOf[r], state |-> IF r \in Hits THEN "HIT" ELSE "MISS",
   open |-> TRUE, waiters |-> <<r>>, data |-> NoWrite, group |-> 0, next |-> 0,
   candidate |-> NoCandidate]

HasEntry(h, x) == \E i \in DOMAIN h.entries : h.entries[i].line = x

Index(h, x) == CHOOSE i \in DOMAIN h.entries : h.entries[i].line = x

Entry(h, x) == h.entries[Index(h, x)]

(* The entry a cursor moves to when it leaves that of line x. *)
After(h, x) == h.entries[(Index(h, x) % Len(h.entries)) + 1].line

(* The first entry from the cursor on, all the way round, that is in S. *)
FirstFrom(h, cursor, S) ==
  LET n == Len(h.entries)
      start == IF cursor = NoLine THEN 0 ELSE Index(h, cursor) - 1
      at(k) == h.entries[((start + k) % n) + 1].line
      found == {k \in 0 .. n - 1 : at(k) \in S}
  IN  IF found = {} THEN NoLine
      ELSE at(CHOOSE k \in found : \A j \in found : k <= j)

InState(h, st) ==
  {h.entries[i].line : i \in {j \in DOMAIN h.entries : h.entries[j].state = st}}

Erase(h, x) ==
  LET successor == IF Len(h.entries) = 1 THEN NoLine ELSE After(h, x)
      moved(c) == IF c = x THEN successor ELSE c
      dropped(c) == IF c = x THEN NoLine ELSE c
  IN  [h EXCEPT !.entries = RemoveAt(@, Index(h, x)),
                !.backendCursor = moved(@),
                !.backendCandidate = dropped(@),
                !.responseCursor = moved(@),
                !.responseCandidate = dropped(@)]

Throw(h) == [h EXCEPT !.fault = TRUE]

(* retire_pending_read *)
Retire(h) == IF h.pending = 0 THEN Throw(h) ELSE [h EXCEPT !.pending = @ - 1]

-----------------------------------------------------------------------------
(* The L2 Buffer *)

HasCapacity(h) == Len(h.l2) < L2Depth

(* fanout_candidate_valid: whole sectors of a line, a power of two of them. *)
FanoutValid(r) == r \in Sectored

Unicast(r, data) == [group |-> 0, reads |-> <<r>>, data |-> data]

Enqueue(h, envelope) == [h EXCEPT !.l2 = Append(@, envelope)]

(* A recipient joins the open group: it must still be open, hold the same  *)
(* data of the same line, and no other recipient be at its station.        *)
JoinGroup(h, group, r, data) ==
  LET i == CHOOSE j \in DOMAIN h.l2 : h.l2[j].group = group
      others == ToSet(h.l2[i].reads)
      fits(q) == LineOf[q] = LineOf[r] /\ MasterOf[q] # MasterOf[r]
  IN  IF \/ group \notin h.open \/ h.l2[i].data # data
         \/ \E q \in others : ~fits(q)
      THEN Throw(h)
      ELSE [h EXCEPT !.l2[i].reads = Append(@, r)]

OpenGroup(h, r, data) ==
  [Enqueue(h, [group |-> h.token + 1, reads |-> <<r>>, data |-> data])
     EXCEPT !.token = @ + 1, !.open = @ \cup {h.token + 1}]

(* Mutant: the Home Agent is not told that the group is closed. *)
FreezeSilently(h) ==
  IF Head(h.l2).group = 0 \/ h.frozen THEN h
  ELSE [h EXCEPT !.frozen = TRUE, !.open = @ \ {Head(h.l2).group}]

(* freeze_fanout_group on the front: its recipients are final, which the   *)
(* Home Agent learns from the summary.                                     *)
FreezeFront(h) ==
  IF Head(h.l2).group = 0 \/ h.frozen THEN h
  ELSE IF Head(h.l2).group \notin h.open THEN Throw(h)
  ELSE [h EXCEPT !.frozen = TRUE,
                 !.summaries = Append(@, Head(h.l2).group),
                 !.open = @ \ {Head(h.l2).group}]

(* The reads of the front that leave in the next carrier: those of one     *)
(* V-Ring at a time, the lowest first.                                     *)
CarrierReads(h) ==
  LET reads == ToSet(Head(h.l2).reads)
      ring(r) == VRingOf[MasterOf[r]]
  IN  {r \in reads : \A q \in reads : ring(r) <= ring(q)}

(* The elements of s that do not leave, in their order. *)
Without(s, leaving) ==
  LET left[k \in 0 .. Len(s)] ==
        IF k = 0 THEN <<>>
        ELSE IF s[k] \in leaving THEN left[k - 1] ELSE Append(left[k - 1], s[k])
  IN  left[Len(s)]

SendCarrier(h) ==
  LET left == Without(Head(h.l2).reads, CarrierReads(h))
  IN  IF left # <<>> THEN [h EXCEPT !.l2[1].reads = left]
      ELSE [h EXCEPT !.l2 = Tail(@), !.ready = @ - 1, !.frozen = FALSE]

-----------------------------------------------------------------------------
(* The stages of service_home_agent, in their order *)

(* Mutant: an entry that was fully answered before its group closed stays. *)
ConsumeOnly(h, group) ==
  LET i == CHOOSE j \in DOMAIN h.entries : h.entries[j].group = group
  IN  [h EXCEPT !.entries[i].group = 0, !.entries[i].open = FALSE]

(* consume_l2_group_summary *)
ConsumeSummary(h, group) ==
  LET owners == {i \in DOMAIN h.entries : h.entries[i].group = group}
      i == CHOOSE j \in owners : \A k \in owners : j <= k
      closed == [h EXCEPT !.entries[i].group = 0, !.entries[i].open = FALSE]
  IN  IF owners = {} THEN Throw(h)
      ELSE IF h.entries[i].next = Len(h.entries[i].waiters)
      THEN Erase(closed, h.entries[i].line)
      ELSE closed

(* All that have been queued, in their order. *)
ConsumeSummaries(h) ==
  LET consumed[k \in 0 .. Len(h.summaries)] ==
        IF k = 0 THEN [h EXCEPT !.summaries = <<>>]
        ELSE ConsumeSummary(consumed[k - 1], h.summaries[k])
  IN  consumed[Len(h.summaries)]

Respond(h, x, data) ==
  LET i == Index(h, x)
  IN  [h EXCEPT !.entries[i].state = "RESPONDING", !.entries[i].data = data,
                !.entries[i].next = 0]

CommitFunctional(h, x, data) ==
  [Respond(h, x, data) EXCEPT !.backendCursor = After(h, x)]

(* service_home_agent_hit: the private L2 port reads without delay. *)
ReadHit(h, memory) ==
  LET x == FirstFrom(h, h.backendCursor, InState(h, "HIT"))
  IN  IF x = NoLine THEN h ELSE CommitFunctional(h, x, memory[x])

(* Mutant: the read is not counted. *)
AdmitUncounted(h) == [h EXCEPT !.rdQ = Tail(@)]

Admit(h) == [h EXCEPT !.rdQ = Tail(@), !.pending = @ + 1]

(* accept_rd_into_home_agent, accept_read: a stalled read stays the head. *)
AcceptRead(h) ==
  LET r == Head(h.rdQ)
      x == LineOf[r]
      i == Index(h, x)
      free == h.rdQ # <<>> /\ x \notin writeLines
      single == free /\ InOneLine(r)
  IN  CASE free /\ ~InOneLine(r)
             /\ Len(h.toRd) < MemDepth ->
             [Admit(h) EXCEPT !.toRd = Append(@, r)]
        [] single /\ HasEntry(h, x) /\ h.entries[i].open
             /\ Len(h.entries[i].waiters) < WaitersPerEntry ->
             [Admit(h) EXCEPT !.entries[i].waiters = Append(@, r)]
        [] single /\ ~HasEntry(h, x) /\ Len(h.entries) < EntryLimit ->
             [Admit(h) EXCEPT !.entries = Append(@, NewEntry(r))]
        [] OTHER -> h

(* The line read that is offered to memory, the same until it is taken. *)
BackendLine(h) ==
  IF h.backendCandidate # NoLine THEN h.backendCandidate
  ELSE FirstFrom(h, h.backendCursor, InState(h, "MISS"))

CommitBackend(h, x) ==
  [h EXCEPT !.entries[Index(h, x)].state = "INFLIGHT",
            !.backendCursor = After(h, x),
            !.backendCandidate = NoLine]

(* issue_home_agent_backend_read *)
IssueBackend(h) ==
  LET x == BackendLine(h)
  IN  CASE x = NoLine -> h
        [] x # NoLine /\ Len(h.toRd) >= MemDepth ->
             [h EXCEPT !.backendCandidate = x]
        [] OTHER ->
             CommitBackend([h EXCEPT !.toRd = Append(@, x)], x)

(* The first response channel from next_rd_rsp_lane_ on whose head is in S. *)
PortFrom(h, S) ==
  LET at(k) == (h.port + k) % RdPorts
      found == {k \in Ports : h.rdRsp[at(k)] # <<>>
                              /\ Head(h.rdRsp[at(k)]).what \in S}
  IN  IF found = {} THEN RdPorts
      ELSE at(CHOOSE k \in found : \A j \in found : k <= j)

(* Mutant: the channel number is not wrapped. *)
PopWithoutWrap(h, c) == [h EXCEPT !.rdRsp[c] = Tail(@), !.port = c + 1]

PopResponse(h, c) ==
  [h EXCEPT !.rdRsp[c] = Tail(@), !.port = (c + 1) % RdPorts]

(* capture_home_agent_backend_rsp *)
Capture(h) ==
  LET c == PortFrom(h, InState(h, "INFLIGHT"))
      rsp == Head(h.rdRsp[c])
  IN  IF c = RdPorts THEN h ELSE PopResponse(Respond(h, rsp.what, rsp.data), c)

(* fanout_waiter_set_supported *)
DistinctMasters(waiters) ==
  Cardinality({MasterOf[waiters[k]] : k \in DOMAIN waiters}) = Len(waiters)

(* make_l2_candidate: made once for a waiter and kept until it is taken. *)
Candidate(e) ==
  LET eligible == e.open /\ DistinctMasters(e.waiters)
  IN  IF e.candidate.cached THEN e.candidate
      ELSE [eligible |-> eligible, cached |-> TRUE,
            group |-> IF eligible THEN e.group ELSE 0]

HasResponse(h) ==
  h.responseCandidate # NoLine \/
  \E i \in DOMAIN h.entries : /\ h.entries[i].state = "RESPONDING"
                              /\ h.entries[i].next < Len(h.entries[i].waiters)

ResponseLine(h) ==
  IF h.responseCandidate # NoLine THEN h.responseCandidate
  ELSE FirstFrom(h, h.responseCursor,
         {x \in InState(h, "RESPONDING") :
            Entry(h, x).next < Len(Entry(h, x).waiters)})

(* Mutant: the entry goes with its last waiter although its group is open. *)
CommitAndErase(h, x, group) ==
  LET i == Index(h, x)
      more == h.entries[i].next + 1 < Len(h.entries[i].waiters)
      stepped ==
        [h EXCEPT !.entries[i].next = @ + 1,
                  !.entries[i].group = IF group = 0 THEN @ ELSE group,
                  !.entries[i].candidate = NoCandidate,
                  !.responseCandidate = NoLine]
  IN  Retire(IF more THEN stepped ELSE Erase(stepped, x))

(* commit_l2_response: h already holds what the L2 Buffer did; the cursor  *)
(* stays while a group has more recipients to come.                        *)
CommitResponse(h, x, group) ==
  LET i == Index(h, x)
      more == h.entries[i].next + 1 < Len(h.entries[i].waiters)
      stepped ==
        [h EXCEPT !.entries[i].next = @ + 1,
                  !.entries[i].group = IF group = 0 THEN @ ELSE group,
                  !.entries[i].candidate = NoCandidate,
                  !.responseCursor = IF group # 0 /\ more THEN x
                                     ELSE After(h, x),
                  !.responseCandidate = NoLine]
  IN  Retire(IF ~more /\ stepped.entries[i].group = 0 THEN Erase(stepped, x)
             ELSE stepped)

(* send_home_agent_l2_rsp with accept_response; the L2 Buffer refuses when *)
(* it is full, but never a recipient of a group that is open.              *)
Offered(h) ==
  LET e == Entry(h, ResponseLine(h))
      c == Candidate(e)
      r == e.waiters[e.next + 1]
  IN  [line |-> e.line, read |-> r, data |-> e.data, candidate |-> c,
       fanout |-> c.eligible /\ FanoutValid(r)]

Refuses(h, o) == ~HasCapacity(h) /\ ~(o.fanout /\ o.candidate.group # 0)

HandOver(h, o) ==
  LET group == IF ~o.fanout THEN 0
               ELSE IF o.candidate.group # 0 THEN o.candidate.group
               ELSE h.token + 1
      buffered ==
        IF ~o.fanout THEN Enqueue(h, Unicast(o.read, o.data))
        ELSE IF o.candidate.group # 0 THEN JoinGroup(h, group, o.read, o.data)
        ELSE OpenGroup(h, o.read, o.data)
  IN  CommitResponse(buffered, o.line, group)

KeepCandidate(h, o) ==
  [h EXCEPT !.responseCandidate = o.line,
            !.entries[Index(h, o.line)].candidate = o.candidate]

(* recv_rd_cmd_rsp: a response at the head of any channel, whosever it is. *)
DirectResponse(h) ==
  LET c == PortFrom(h, Reads \cup Lines)
      rsp == Head(h.rdRsp[c])
  IN  IF c = RdPorts \/ ~HasCapacity(h) THEN h
      ELSE Retire(PopResponse(Enqueue(h, Unicast(rsp.what, rsp.data)), c))

(* Mutant: the direct path comes first. *)
AnswerDirectFirst(h) ==
  LET direct == DirectResponse(h)
  IN  IF direct = h /\ HasResponse(h) /\ ~Refuses(h, Offered(h))
      THEN HandOver(h, Offered(h)) ELSE direct

(* The direct path runs only when no response of an entry was handed over. *)
Answer(h) ==
  LET o == Offered(h)
  IN  CASE ~HasResponse(h) -> DirectResponse(h)
        [] HasResponse(h) /\ Refuses(h, o) -> DirectResponse(KeepCandidate(h, o))
        [] HasResponse(h) /\ ~Refuses(h, o) -> HandOver(h, o)

-----------------------------------------------------------------------------
(* The processes *)

(* The ring brings a read or a write address to the REQ eject queue, and   *)
(* the data of a write to the DAT eject queue.                             *)
DeliverRequest(t) ==
  /\ t \notin sent
  /\ Len(reqIn) < EjectDepth
  /\ sent' = sent \cup {t}
  /\ reqIn' = Append(reqIn, t)
  /\ UNCHANGED <<sentData, datIn, writeVars, done, home>>

DeliverData(w) ==
  /\ w \notin sentData
  /\ Len(datIn) < EjectDepth
  /\ sentData' = sentData \cup {w}
  /\ datIn' = Append(datIn, w)
  /\ UNCHANGED <<sent, reqIn, writeVars, done, home>>

RecvRingReq ==
  /\ reqIn # <<>>
  /\ \/ /\ Head(reqIn) \in Reads
        /\ Len(home.rdQ) < FifoDepth
        /\ home' = [home EXCEPT !.rdQ = Append(@, Head(reqIn))]
        /\ UNCHANGED wrQ
     \/ /\ Head(reqIn) \in Writes
        /\ Len(wrQ) < FifoDepth
        /\ wrQ' = Append(wrQ, Head(reqIn))
        /\ UNCHANGED home
  /\ reqIn' = Tail(reqIn)
  /\ UNCHANGED <<sent, sentData, datIn, datQ, tracked, reserved, writeLines,
                 toWr, wrRsp, version, done>>

RecvRingDat ==
  /\ datIn # <<>>
  /\ Len(datQ) < FifoDepth
  /\ datQ' = Append(datQ, Head(datIn))
  /\ datIn' = Tail(datIn)
  /\ UNCHANGED <<sent, sentData, reqIn, wrQ, tracked, reserved, writeLines,
                 toWr, wrRsp, version, done, home>>

(* The write tracker: one address per transaction, matched by transaction. *)
CanAcceptAddress(w) == w \notin tracked

HasMatchingAddress(w, addresses) == w \in addresses

(* Mutant: the line may be reserved already. *)
ReservesAnyLine == wrQ # <<>> /\ CanAcceptAddress(Head(wrQ))

(* reserve_write for the oldest address: the line is reserved before the   *)
(* reads that still use it are looked at, so later reads of it wait.  Only *)
(* the first line of a write is reserved and looked at.                    *)
Reserves == /\ wrQ # <<>> /\ CanAcceptAddress(Head(wrQ))
            /\ \/ Head(wrQ) \in reserved
               \/ LineOf[Head(wrQ)] \notin writeLines

(* Mutants: the write passes the reads of its line, or those whose data    *)
(* has been captured.                                                      *)
AcceptsPastReads == Reserves

AcceptsPastResponses ==
  Reserves /\ (HasEntry(home, LineOf[Head(wrQ)]) =>
                 Entry(home, LineOf[Head(wrQ)]).state = "RESPONDING")

HasBlockingRead(x) == HasEntry(home, x)

Accepts == Reserves /\ ~HasBlockingRead(LineOf[Head(wrQ)])

(* send_write_data goes on with the head of the data queue. *)
Sends(addresses) ==
  /\ datQ # <<>> /\ HasMatchingAddress(Head(datQ), addresses)
  /\ Len(toWr) < MemDepth

(* service_write: accept_write_address, then send_write_data. *)
ServiceWrite ==
  LET accepted == IF Accepts THEN {Head(wrQ)} ELSE {}
      sends == Sends(tracked \cup accepted)
      sentOn == IF sends THEN {Head(datQ)} ELSE {}
  IN  /\ reserved' = IF Reserves THEN reserved \cup {Head(wrQ)} ELSE reserved
      /\ writeLines' = IF Reserves THEN writeLines \cup {LineOf[Head(wrQ)]}
                                   ELSE writeLines
      /\ wrQ' = IF Accepts THEN Tail(wrQ) ELSE wrQ
      /\ tracked' = (tracked \cup accepted) \ sentOn
      /\ toWr' = IF sends THEN Append(toWr, Head(datQ)) ELSE toWr
      /\ datQ' = IF sends THEN Tail(datQ) ELSE datQ
      /\ UNCHANGED <<ringVars, wrRsp, version, done, home>>

(* Mutant: the line stays reserved after the response. *)
RecvWriteKeepingLine ==
  /\ wrRsp # <<>>
  /\ wrRsp' = Tail(wrRsp)
  /\ done' = done \cup {Head(wrRsp)}
  /\ reserved' = reserved \ {Head(wrRsp)}
  /\ UNCHANGED <<ringVars, wrQ, datQ, tracked, writeLines, toWr, version, home>>

(* complete_write *)
CompleteWrite(w) ==
  /\ reserved' = reserved \ {w}
  /\ writeLines' = IF w \in reserved THEN writeLines \ {LineOf[w]}
                                     ELSE writeLines

(* recv_wr_dat_rsp, when the RSP inject bank has room for the response. *)
RecvWriteResponse ==
  /\ wrRsp # <<>>
  /\ wrRsp' = Tail(wrRsp)
  /\ done' = done \cup {Head(wrRsp)}
  /\ CompleteWrite(Head(wrRsp))
  /\ UNCHANGED <<ringVars, wrQ, datQ, tracked, toWr, version, home>>

ServiceHomeAgent ==
  /\ \E told \in {ConsumeSummaries(home)} :
     \E hit \in {ReadHit(told, version)} :
     \E admitted \in {AcceptRead(hit)} :
     \E issued \in {IssueBackend(admitted)} :
     \E captured \in {Capture(issued)} :
       home' = Answer(captured)
  /\ UNCHANGED <<ringVars, writeVars, done>>

(* service of the L2 Buffer with the inject bank full, or without a token. *)
L2Blocked(h) ==
  /\ home' = FreezeFront(h)
  /\ UNCHANGED <<ringVars, writeVars, done>>

L2Sends(h) ==
  /\ home' = SendCarrier(FreezeFront(h))
  /\ done' = done \cup CarrierReads(h)
  /\ UNCHANGED <<ringVars, writeVars>>

L2Service ==
  /\ home.ready # 0
  /\ L2Blocked(home) \/ L2Sends(home)

(* service_ready_response: one more response has waited out the latency. *)
L2Ready ==
  LET h == [home EXCEPT !.ready = @ + 1]
  IN  /\ home.ready < Len(home.l2)
      /\ L2Blocked(h) \/ L2Sends(h)

(* TmMem takes requests in order and answers on some channel. *)
MemRead(c) ==
  LET what == Head(home.toRd)
      line == IF what \in Reads THEN LineOf[what] ELSE what
  IN  /\ home.toRd # <<>>
      /\ Len(home.rdRsp[c]) < MemDepth
      /\ home' = [home EXCEPT !.toRd = Tail(@),
                    !.rdRsp[c] = Append(@, [what |-> what,
                                            data |-> version[line]])]
      /\ UNCHANGED <<ringVars, writeVars, done>>

MemWrite ==
  /\ toWr # <<>>
  /\ Len(wrRsp) < MemDepth
  /\ version' = [x \in Lines |-> IF x \in Span[Head(toWr)] THEN Head(toWr)
                                 ELSE version[x]]
  /\ wrRsp' = Append(wrRsp, Head(toWr))
  /\ toWr' = Tail(toWr)
  /\ UNCHANGED <<ringVars, wrQ, datQ, tracked, reserved, writeLines, done, home>>

(* Queues and tables of port, agent, tracker and buffer are cleared; the   *)
(* numbers of groups go on.  The masters, reset too, may start anew.       *)
Reset ==
  /\ home.resets < MaxResets
  /\ sent' = {} /\ sentData' = {}
  /\ reqIn' = <<>> /\ datIn' = <<>>
  /\ wrQ' = <<>> /\ datQ' = <<>>
  /\ tracked' = {} /\ reserved' = {} /\ writeLines' = {}
  /\ toWr' = <<>> /\ wrRsp' = <<>>
  /\ done' = {}
  /\ home' = [InitHome EXCEPT !.token = home.token, !.fault = home.fault,
                              !.resets = home.resets + 1]
  /\ UNCHANGED version

(* A process of the target or of the memory acts. *)
Process ==
  \/ RecvRingReq
  \/ RecvRingDat
  \/ RecvWriteResponse
  \/ MemWrite
  \/ \E c \in Ports : MemRead(c)
  \/ L2Ready
  \/ L2Service
  \/ ServiceWrite
  \/ ServiceHomeAgent

Next ==
  \/ \E t \in Reads \cup Writes : DeliverRequest(t)
  \/ \E w \in Writes : DeliverData(w)
  \/ Process
  \/ Reset

Spec == Init /\ [][Next]_vars

(* While a process has something to do, or half of a write is still to      *)
(* come out of the ring, one of these steps is taken (each transaction is  *)
(* sent once between resets, so that is all their progress needs): the     *)
(* inject banks of the RSP and DAT subnets and the memory take what they   *)
(* are given in the end.                                                   *)
Fairness ==
  WF_vars((\E w \in Writes : DeliverRequest(w) \/ DeliverData(w)) \/ Process)

FairSpec == Spec /\ Fairness

-----------------------------------------------------------------------------
(* Properties *)

Versions == Writes \cup {NoWrite}

(* What a line may hold: a write that covers it. *)
VersionsOf(x) == {w \in Writes : x \in Span[w]} \cup {NoWrite}

(* Lines that every write which changes them reserves, since it begins in  *)
(* them.  Without writes that lie in several lines these are all lines.    *)
Guarded == {x \in Lines : \A w \in Writes : x \in Span[w] => x = LineOf[w]}

EntryType ==
  [line : Lines, state : {"HIT", "MISS", "INFLIGHT", "RESPONDING"},
   open : BOOLEAN, waiters : Seq(Reads), data : Versions,
   group : Nat, next : Nat,
   candidate : [eligible : BOOLEAN, group : Nat, cached : BOOLEAN]]

ReadSideType ==
  [rdQ : Seq(Reads), entries : Seq(EntryType),
   backendCursor : Lines \cup {NoLine}, backendCandidate : Lines \cup {NoLine},
   responseCursor : Lines \cup {NoLine}, responseCandidate : Lines \cup {NoLine},
   pending : Nat, toRd : Seq(Lines \cup Reads),
   rdRsp : [Ports -> Seq([what : Lines \cup Reads, data : Versions])],
   port : Ports, ready : Nat,
   l2 : Seq([group : Nat, reads : Seq(Lines \cup Reads), data : Versions]),
   open : SUBSET Nat, frozen : BOOLEAN, summaries : Seq(Nat), token : Nat,
   fault : BOOLEAN, resets : Nat]

(* The type invariant. *)
TypeOK ==
  /\ sent \subseteq Reads \cup Writes /\ sentData \subseteq Writes
  /\ reqIn \in Seq(Reads \cup Writes) /\ datIn \in Seq(Writes)
  /\ wrQ \in Seq(Writes) /\ datQ \in Seq(Writes)
  /\ tracked \subseteq Writes /\ reserved \subseteq Writes
  /\ writeLines \subseteq Lines
  /\ toWr \in Seq(Writes) /\ wrRsp \in Seq(Writes)
  /\ version \in [Lines -> Versions]
  /\ done \subseteq Reads \cup Writes
  /\ home \in ReadSideType

(* No process ever throws: groups that are joined are open, a summary has  *)
(* an owner, no read is retired twice.                                     *)
NoFault == ~home.fault

(* A line is reserved by one write that begins in it at a time, and        *)
(* write_lines_ and write_txn_lines_ agree about which lines these are.    *)
OneWriterPerLine ==
  /\ writeLines = {LineOf[w] : w \in reserved}
  /\ \A v, w \in reserved : LineOf[v] = LineOf[w] => v = w

(* Writes the target has accepted and not yet answered. *)
Accepted == tracked \cup ToSet(toWr) \cup ToSet(wrRsp)

(* Reads and writes of a line take turns: while the Home Agent has a       *)
(* transaction for a line no write that begins in it is past the write     *)
(* queue, not even when the data of the read has been captured.            *)
ReadersExcludeWriters ==
  /\ Accepted \subseteq reserved
  /\ \A w \in Accepted : ~HasEntry(home, LineOf[w])

(* The data an entry shares with all its waiters, those too that joined    *)
(* after it was read, is what memory holds when they are answered, in      *)
(* every line that no write runs on into; in others it is some write of    *)
(* the line.                                                               *)
Current(data, x, memory) ==
  data \in VersionsOf(x) /\ (x \in Guarded => data = memory[x])

SharedDataIsCurrent ==
  \A i \in DOMAIN home.entries :
    home.entries[i].state = "RESPONDING" =>
      Current(home.entries[i].data, home.entries[i].line, version)

(* Where each read is that the target owes an answer. *)
WaitingReads ==
  UNION {{home.entries[i].waiters[k] :
            k \in home.entries[i].next + 1 .. Len(home.entries[i].waiters)} :
          i \in DOMAIN home.entries}

DirectReads ==
  Reads \cap (ToSet(home.toRd) \cup
    UNION {{home.rdRsp[c][k].what : k \in DOMAIN home.rdRsp[c]} : c \in Ports})

BufferedReads == UNION {ToSet(home.l2[i].reads) : i \in DOMAIN home.l2}

(* pending_rd_rsp_ counts the reads accepted and not yet handed to the L2  *)
(* Buffer, and each read is in one place: none is lost or answered twice.  *)
ReadsAccounted ==
  /\ home.pending = Cardinality(WaitingReads) + Cardinality(DirectReads)
  /\ WaitingReads \cap DirectReads = {}
  /\ BufferedReads \cap (WaitingReads \cup DirectReads) = {}
  /\ done \cap (WaitingReads \cup DirectReads \cup BufferedReads) = {}
  /\ sent \cap Reads = (ToSet(reqIn) \cap Reads) \cup ToSet(home.rdQ)
       \cup WaitingReads \cup DirectReads \cup BufferedReads \cup (done \cap Reads)

(* The line response of an entry in flight stays on its channel until it   *)
(* is captured.  The direct path looks at all channels and takes what it   *)
(* finds there, while capture takes one response per cycle.                *)
CompletionsAreCaptured ==
  \A x \in Lines :
    LET asked == {k \in DOMAIN home.toRd : home.toRd[k] = x}
        answered(c) == {k \in DOMAIN home.rdRsp[c] : home.rdRsp[c][k].what = x}
        places == {<<RdPorts, k>> : k \in asked}
                    \cup UNION {{<<c, k>> : k \in answered(c)} : c \in Ports}
    IN  Cardinality(places) = IF x \in InState(home, "INFLIGHT") THEN 1 ELSE 0

(* An open group of the L2 Buffer, or the summary of a closed one, belongs *)
(* to one entry, which remembers it until it has seen the summary.         *)
GroupsHaveOwners ==
  LET known == home.open \cup ToSet(home.summaries)
  IN  /\ \A g \in known :
           Cardinality({i \in DOMAIN home.entries : home.entries[i].group = g}) = 1
      /\ \A i \in DOMAIN home.entries :
           home.entries[i].group # 0 => home.entries[i].group \in known

(* The reads that have data, each with its own: in the L2 Buffer, or       *)
(* bypassing the agent on their way back from memory.                      *)
Pairs(envelope) == {<<r, envelope.data>> : r \in ToSet(envelope.reads)}

Stored(l2) == UNION {Pairs(l2[i]) : i \in DOMAIN l2}

Carried(channel) ==
  {<<rsp.what, rsp.data>> : rsp \in {m \in ToSet(channel) : m.what \in Reads}}

Returning(rdRsp) == UNION {Carried(rdRsp[c]) : c \in Ports}

HeldIn(h) == Stored(h.l2) \cup Returning(h.rdRsp)

Memory == INSTANCE AtomicMemory WITH
  asked <- sent, taken <- HeldIn(home), written <- ToSet(wrRsp),
  memory <- version, answered <- done

(* The target is an atomic memory: whatever reads share, wherever they     *)
(* wait and whatever is reordered, each is answered with what its line     *)
(* held at one moment after its request, and each write takes effect once. *)
(* Reads shared in a line that a write runs on into are excepted.          *)
ImplementsMemory == Memory!MemorySpec

(* The data at the head of wr_dat_q_ waits for an address that has not     *)
(* been accepted, while the data of one that has been is behind it or      *)
(* still to come.                                                          *)
Coupled == datQ # <<>> /\ Head(datQ) \notin tracked /\ tracked # {}

(* Every write whose address and data have come is answered, unless a      *)
(* reset takes it.                                                         *)
WritesComplete ==
  \A w \in Writes :
    w \in sent /\ w \in sentData ~> w \in done \/ w \notin sent

(* Nothing but this coupling of addresses and data can stop a write: in    *)
(* whatever order reads, addresses and data come, of one line or several,  *)
(* the writes are answered, unless a reset takes them.                     *)
OnlyCouplingStopsWrites == []<>~Coupled => WritesComplete

(* Nor can anything else stop a read, however reads and writes of its line *)
(* follow each other; what was under way before a reset holds back nothing *)
(* after it.                                                               *)
OnlyCouplingStopsReads ==
  []<>~Coupled =>
    \A r \in Reads : r \in sent ~> r \in done \/ r \notin sent

(* A read that is requested after a write of its line has been answered    *)
(* does not get what the line held before any write.                       *)
LaterReadsSeeWrites ==
  \A w \in Writes, r \in Reads :
    LineOf[r] \in Span[w] =>
      []((w \in done /\ r \notin sent) => [](<<r, NoWrite>> \notin HeldIn(home)))
=============================================================================
