--------------------------- MODULE HomeNodeProofs ---------------------------
(***************************************************************************)
(* The target side of the ring, for all transactions, lines and bounds.    *)
(*                                                                         *)
(* The write reservations come first: write_lines_ and write_txn_lines_    *)
(* agree, and no line has two writers that begin in it.  The rest is one   *)
(* inductive invariant, TargetInv, of both sides.  Its read side,          *)
(* ReadHolds, says of the Home Agent what the stages of service_home_agent *)
(* rely on: entries have lines of their own, cursors and candidates are    *)
(* entries, the line of an entry in flight is asked for or answered in one *)
(* place, and what is answered is current: what memory holds, if every     *)
(* write that covers the line begins in it (Guarded), else some write of   *)
(* the line.  Each stage keeps it (the lemmas ...Holds), in the order of   *)
(* the code.  Its write side, WritesApart and TurnsTaken, says that a      *)
(* write address is in one place at a time, and that the line it begins in *)
(* stays reserved and without entry while it is past the write queue.      *)
(* Entries of the lines it runs on into do not hold it up, which is why    *)
(* Current promises no more of these (VersionChanges).                     *)
(*                                                                         *)
(* A second one, BooksBalance, is about the reads: each is queued, waits   *)
(* at an entry, is with the memory or in the L2 Buffer, or is done, and in *)
(* one of these places only; each group has one entry and one envelope.    *)
(* The lemmas ...Booked follow the stages once more: what a stage takes    *)
(* from one place it puts in another, so that no process throws.           *)
(*                                                                         *)
(* From both follows that the target implements AtomicMemory: the lemmas   *)
(* ...Answered and Memory... map each step to a step of it or a stutter.   *)
(***************************************************************************)
EXTENDS HomeNode, SharedLemmas

(* The write reservations *)

(* What the argument needs to know about types: the write side alone. *)
WriteTypes ==
  /\ wrQ \in Seq(Writes)
  /\ reqIn \in Seq(Reads \cup Writes)
  /\ reserved \subseteq Writes

WriteInv == WriteTypes /\ OneWriterPerLine

(* No line is reserved at first. *)
LEMMA WriteInvInit == Init => WriteInv
  BY DEF Init, WriteInv, WriteTypes, OneWriterPerLine

(* Popping a queue that is not empty. *)
LEMMA TailIsSeq ==
  ASSUME NEW S, NEW s \in Seq(S), s # <<>>
  PROVE  Tail(s) \in Seq(S) /\ Head(s) \in S
  OBVIOUS

(* Pushing to a queue. *)
LEMMA AppendIsSeq ==
  ASSUME NEW S, NEW s \in Seq(S), NEW e \in S
  PROVE  Append(s, e) \in Seq(S)
  OBVIOUS

(* A line becomes reserved only when it is free, and free only with the     *)
(* write that reserved it: the write side alone decides, the processes of  *)
(* the read side change none of its variables.                             *)
LEMMA WriteInvStep == WriteInv /\ [Next]_vars => WriteInv'
<1> SUFFICES ASSUME WriteInv, [Next]_vars PROVE WriteInv'
  OBVIOUS
<1> USE DEF WriteInv, WriteTypes
<1>1. ASSUME UNCHANGED <<wrQ, reqIn, reserved, writeLines>>
      PROVE  WriteInv'
  BY <1>1 DEF OneWriterPerLine
<1>2. ASSUME NEW t \in Reads \cup Writes, DeliverRequest(t)
      PROVE  WriteInv'
  <2>1. reqIn' \in Seq(Reads \cup Writes)
    BY <1>2, AppendIsSeq DEF DeliverRequest
  <2>2. QED
    BY <1>2, <2>1 DEF DeliverRequest, writeVars, OneWriterPerLine
<1>3. ASSUME RecvRingReq
      PROVE  WriteInv'
  <2>1. reqIn' \in Seq(Reads \cup Writes)
    BY <1>3, TailIsSeq DEF RecvRingReq
  <2>2. wrQ' \in Seq(Writes)
    <3>1. CASE wrQ' = Append(wrQ, Head(reqIn)) /\ Head(reqIn) \in Writes
      BY <3>1, AppendIsSeq
    <3>2. CASE wrQ' = wrQ
      BY <3>2
    <3>3. QED
      BY <1>3, <3>1, <3>2 DEF RecvRingReq
  <2>3. UNCHANGED <<reserved, writeLines>>
    BY <1>3 DEF RecvRingReq
  <2>4. QED
    BY <2>1, <2>2, <2>3 DEF OneWriterPerLine
<1>4. ASSUME ServiceWrite
      PROVE  WriteInv'
  <2>1. UNCHANGED reqIn
    BY <1>4 DEF ServiceWrite, ringVars
  <2>2. wrQ' \in Seq(Writes)
    <3>1. CASE Accepts
      <4>1. wrQ' = Tail(wrQ) /\ wrQ # <<>>
        BY <1>4, <3>1 DEF ServiceWrite, Accepts, Reserves
      <4>2. QED
        BY <4>1, TailIsSeq
    <3>2. CASE ~Accepts
      BY <1>4, <3>2 DEF ServiceWrite
    <3>3. QED
      BY <3>1, <3>2
  <2>3. CASE ~Reserves
    <3>1. UNCHANGED <<reserved, writeLines>>
      BY <1>4, <2>3 DEF ServiceWrite
    <3>2. QED
      BY <2>1, <2>2, <3>1 DEF OneWriterPerLine
  <2>4. CASE Reserves
    <3> DEFINE w == Head(wrQ)
    <3>1. w \in Writes
      BY <2>4, TailIsSeq DEF Reserves
    <3>2. /\ reserved' = reserved \cup {w}
          /\ writeLines' = writeLines \cup {LineOf[w]}
      BY <1>4, <2>4 DEF ServiceWrite
    <3>3. w \in reserved \/ LineOf[w] \notin writeLines
      BY <2>4 DEF Reserves
    <3>4. OneWriterPerLine'
      BY <3>2, <3>3 DEF OneWriterPerLine
    <3>5. QED
      BY <2>1, <2>2, <3>1, <3>2, <3>4
  <2>5. QED
    BY <2>3, <2>4
<1>5. ASSUME RecvWriteResponse
      PROVE  WriteInv'
  <2> DEFINE w == Head(wrRsp)
  <2>1. /\ reserved' = reserved \ {w}
        /\ writeLines' = IF w \in reserved THEN writeLines \ {LineOf[w]}
                                           ELSE writeLines
        /\ UNCHANGED <<wrQ, reqIn>>
    BY <1>5 DEF RecvWriteResponse, CompleteWrite, ringVars
  <2>2. OneWriterPerLine'
    BY <2>1 DEF OneWriterPerLine
  <2>3. QED
    BY <2>1, <2>2
<1>6. ASSUME NEW w \in Writes, DeliverData(w)
      PROVE  WriteInv'
  BY <1>1, <1>6 DEF DeliverData, writeVars
<1>7. CASE RecvRingDat \/ MemWrite \/ L2Ready \/ L2Service \/ ServiceHomeAgent
           \/ \E c \in Ports : MemRead(c)
  <2>1. UNCHANGED <<wrQ, reqIn, reserved, writeLines>>
    BY <1>7 DEF RecvRingDat, MemWrite, L2Ready, L2Service, L2Blocked, L2Sends,
                ServiceHomeAgent, MemRead, ringVars, writeVars
  <2>2. QED
    BY <1>1, <2>1
<1>8. CASE UNCHANGED vars
  BY <1>1, <1>8 DEF vars, ringVars, writeVars
<1>9. CASE Reset
  BY <1>9 DEF Reset, OneWriterPerLine
<1>10. QED
  BY <1>2, <1>3, <1>4, <1>5, <1>6, <1>7, <1>8, <1>9 DEF Next, Process

(* A line is reserved by one write that begins in it at a time, and the    *)
(* two tables of the Home Agent agree about which lines are: whatever the  *)
(* order in which addresses, data and responses come.                      *)
THEOREM OneWriter == Spec => []OneWriterPerLine
<1>1. WriteInv => OneWriterPerLine
  BY DEF WriteInv
<1>2. QED
  BY WriteInvInit, WriteInvStep, <1>1, PTL DEF Spec

-----------------------------------------------------------------------------
(* Queues *)

(* What is appended follows. *)
LEMMA ConcatAt ==
  ASSUME NEW S, NEW a \in Seq(S), NEW b \in Seq(S), NEW n \in 1 .. Len(b)
  PROVE  (a \o b)[Len(a) + n] = b[n]
OBVIOUS

(* The entry at i is taken out of a sequence. *)
LEMMA RemoveAtParts ==
  ASSUME NEW S, NEW s \in Seq(S), NEW i \in DOMAIN s
  PROVE  /\ RemoveAt(s, i) \in Seq(S)
         /\ DOMAIN RemoveAt(s, i) = 1 .. Len(s) - 1
         /\ Len(RemoveAt(s, i)) = Len(s) - 1
         /\ \A j \in 1 .. Len(s) - 1 :
              RemoveAt(s, i)[j] = IF j < i THEN s[j] ELSE s[j + 1]
<1> DEFINE a == SubSeq(s, 1, i - 1)
           b == SubSeq(s, i + 1, Len(s))
<1>1. /\ i \in Nat /\ 1 <= i /\ i <= Len(s) /\ Len(s) \in Nat
  OBVIOUS
<1>2. /\ a \in Seq(S) /\ Len(a) = i - 1
      /\ \A j \in 1 .. i - 1 : a[j] = s[j]
  BY <1>1
<1>3. /\ b \in Seq(S) /\ Len(b) = Len(s) - i
      /\ \A j \in 1 .. Len(s) - i : b[j] = s[j + i]
  BY <1>1
<1>4. RemoveAt(s, i) = a \o b
  BY DEF RemoveAt
<1> HIDE DEF a, b
<1>5. a \o b \in Seq(S) /\ Len(a \o b) = Len(s) - 1
  BY <1>1, <1>2, <1>3
<1>6. ASSUME NEW j \in 1 .. Len(s) - 1
      PROVE  (a \o b)[j] = IF j < i THEN s[j] ELSE s[j + 1]
  <2>1. CASE j < i
    <3>1. j \in 1 .. Len(a)
      BY <1>1, <1>2, <2>1
    <3>2. (a \o b)[j] = a[j]
      BY <1>2, <1>3, <3>1
    <3> QED BY <1>1, <1>2, <2>1, <3>1, <3>2
  <2>2. CASE ~(j < i)
    <3> DEFINE n == j - Len(a)
    <3>1. n \in 1 .. Len(b) /\ j = Len(a) + n
      <4>1. Len(a) \in Nat /\ Len(b) \in Nat /\ Len(a) + Len(b) = Len(s) - 1
        BY <1>1, <1>2, <1>3
      <4>2. Len(a) < j /\ j <= Len(s) - 1 /\ j \in Nat
        BY <1>1, <1>2, <2>2
      <4> QED BY <4>1, <4>2
    <3>2. (a \o b)[j] = b[n]
      <4> HIDE DEF n
      <4>1. (a \o b)[Len(a) + n] = b[n]
        <5>1. a \in Seq(S) /\ b \in Seq(S) /\ n \in 1 .. Len(b)
          BY <1>2, <1>3, <3>1
        <5> QED BY <5>1, ConcatAt, SMTT(20)
      <4> QED BY <3>1, <4>1
    <3>3. (j - Len(a)) + i = j + 1
      BY <1>1, <1>2
    <3> QED BY <1>3, <2>2, <3>1, <3>2, <3>3
  <2> QED BY <2>1, <2>2
<1> QED BY <1>4, <1>5, <1>6

-----------------------------------------------------------------------------
(* The read side of the invariant *)

LinesOf(table) == {table[i].line : i \in DOMAIN table}

(* What memory may hold: of each line a write that covers it. *)
Contents == {v \in [Lines -> Versions] : \A x \in Lines : Current(v[x], x, v)}

(* An entry answers its waiters in order, with data that is current, and   *)
(* all of them read its line and no other.                                 *)
Sound(e, v) ==
  /\ e.next <= Len(e.waiters) /\ e.waiters # <<>>
  /\ e.state # "RESPONDING" => e.next = 0
  /\ e.state = "RESPONDING" => Current(e.data, e.line, v)
  /\ \A k \in DOMAIN e.waiters :
       LineOf[e.waiters[k]] = e.line /\ InOneLine(e.waiters[k])

TableHolds(table, v) ==
  /\ table \in Seq(EntryType)
  /\ \A i \in DOMAIN table : Sound(table[i], v)
  /\ \A i, j \in DOMAIN table : table[i].line = table[j].line => i = j

(* Cursors and candidates are entries; the candidates are still the ones   *)
(* that were chosen.                                                       *)
CursorHolds(table, c) == c = NoLine \/ c \in LinesOf(table)

BackendHolds(table, c) ==
  c = NoLine \/ \E i \in DOMAIN table : /\ table[i].line = c
                                        /\ table[i].state = "MISS"

ResponseHolds(table, c) ==
  c = NoLine \/ \E i \in DOMAIN table :
                  /\ table[i].line = c /\ table[i].state = "RESPONDING"
                  /\ table[i].next < Len(table[i].waiters)

(* The lines that have been asked of the memory. *)
FlyingOf(table) ==
  {table[i].line : i \in {j \in DOMAIN table : table[j].state = "INFLIGHT"}}

What(channel) == [k \in DOMAIN channel |-> channel[k].what]

(* Each of them is on its way to the memory or on one response channel,    *)
(* and the data there is current.                                          *)
FlightsHold(table, toRd, rdRsp, v) ==
  /\ Once(toRd, Lines)
  /\ \A c \in Ports : /\ Once(What(rdRsp[c]), Lines)
                      /\ In(toRd, Lines) \cap In(What(rdRsp[c]), Lines) = {}
  /\ \A c, d \in Ports :
       In(What(rdRsp[c]), Lines) \cap In(What(rdRsp[d]), Lines) # {} => c = d
  /\ \A x : x \in FlyingOf(table) <=>
              \/ x \in In(toRd, Lines)
              \/ \E c \in Ports : x \in In(What(rdRsp[c]), Lines)
  /\ \A c \in Ports : \A k \in DOMAIN rdRsp[c] :
       rdRsp[c][k].what \in Lines => Current(rdRsp[c][k].data, rdRsp[c][k].what, v)

BufferHolds(l2, ready) ==
  /\ ready <= Len(l2)
  /\ \A i \in DOMAIN l2 : l2[i].reads \in Seq(Reads)

(* The read side. *)
ReadHolds(h, v) ==
  /\ h \in ReadSideType
  /\ TableHolds(h.entries, v)
  /\ CursorHolds(h.entries, h.backendCursor)
  /\ CursorHolds(h.entries, h.responseCursor)
  /\ BackendHolds(h.entries, h.backendCandidate)
  /\ ResponseHolds(h.entries, h.responseCandidate)
  /\ FlightsHold(h.entries, h.toRd, h.rdRsp, v)
  /\ BufferHolds(h.l2, h.ready)

-----------------------------------------------------------------------------
(* The table *)

(* The entry of a line. *)
LEMMA IndexOf ==
  ASSUME NEW h, NEW x, x \in LinesOf(h.entries)
  PROVE  /\ Index(h, x) \in DOMAIN h.entries
         /\ h.entries[Index(h, x)].line = x
         /\ Entry(h, x) = h.entries[Index(h, x)]
<1>1. \E i \in DOMAIN h.entries : h.entries[i].line = x
  BY DEF LinesOf
<1> QED BY <1>1 DEF Index, Entry

LEMMA HasEntryOf ==
  ASSUME NEW h, NEW x
  PROVE  HasEntry(h, x) <=> x \in LinesOf(h.entries)
BY DEF HasEntry, LinesOf

(* An entry is written. *)
Put(table, i, e) == [table EXCEPT ![i] = e]

LEMMA PutParts ==
  ASSUME NEW table \in Seq(EntryType), NEW i \in DOMAIN table, NEW e \in EntryType
  PROVE  /\ Put(table, i, e) \in Seq(EntryType)
         /\ DOMAIN Put(table, i, e) = DOMAIN table
         /\ Put(table, i, e)[i] = e
         /\ \A j \in DOMAIN table : j # i => Put(table, i, e)[j] = table[j]
BY DEF Put

(* An entry is written, for the same line. *)
LEMMA PutHolds ==
  ASSUME NEW table, NEW v, TableHolds(table, v), NEW i \in DOMAIN table,
         NEW e \in EntryType, e.line = table[i].line, Sound(e, v)
  PROVE  /\ TableHolds(Put(table, i, e), v)
         /\ LinesOf(Put(table, i, e)) = LinesOf(table)
         /\ FlyingOf(Put(table, i, e)) =
              (FlyingOf(table) \ {e.line})
                \cup (IF e.state = "INFLIGHT" THEN {e.line} ELSE {})
         /\ \A c : BackendHolds(table, c) /\ (c = e.line => e.state = "MISS")
                     => BackendHolds(Put(table, i, e), c)
         /\ \A c : ResponseHolds(table, c)
                     /\ (c = e.line => /\ e.state = "RESPONDING"
                                       /\ e.next < Len(e.waiters))
                     => ResponseHolds(Put(table, i, e), c)
<1> DEFINE t == Put(table, i, e)
<1>1. /\ t \in Seq(EntryType) /\ DOMAIN t = DOMAIN table /\ t[i] = e
      /\ \A j \in DOMAIN table : j # i => t[j] = table[j]
  BY PutParts DEF TableHolds
<1> HIDE DEF t
<1>2. \A j \in DOMAIN table : t[j].line = table[j].line
  BY <1>1
<1>3. TableHolds(t, v)
  BY <1>1, <1>2 DEF TableHolds
<1>4. LinesOf(t) = LinesOf(table)
  BY <1>1, <1>2 DEF LinesOf
<1>5. FlyingOf(t) = (FlyingOf(table) \ {e.line})
                      \cup (IF e.state = "INFLIGHT" THEN {e.line} ELSE {})
  <2>1. \A x : x \in FlyingOf(t) <=>
               \E j \in DOMAIN table : t[j].state = "INFLIGHT" /\ t[j].line = x
    BY <1>1 DEF FlyingOf
  <2>2. \A x : x \in FlyingOf(table) <=>
               \E j \in DOMAIN table : table[j].state = "INFLIGHT" /\ table[j].line = x
    BY DEF FlyingOf
  <2>3. \A j \in DOMAIN table : table[j].line = e.line => j = i
    BY DEF TableHolds
  <2>4. ASSUME NEW x
        PROVE  x \in FlyingOf(t) <=>
                 x \in (FlyingOf(table) \ {e.line})
                         \cup (IF e.state = "INFLIGHT" THEN {e.line} ELSE {})
    BY <1>1, <1>2, <2>1, <2>2, <2>3
  <2> QED BY <2>4
<1>6. ASSUME NEW c, BackendHolds(table, c), c = e.line => e.state = "MISS"
      PROVE  BackendHolds(t, c)
  BY <1>1, <1>6 DEF BackendHolds
<1>7. ASSUME NEW c, ResponseHolds(table, c),
             c = e.line => e.state = "RESPONDING" /\ e.next < Len(e.waiters)
      PROVE  ResponseHolds(t, c)
  BY <1>1, <1>7 DEF ResponseHolds
<1> QED BY <1>3, <1>4, <1>5, <1>6, <1>7 DEF t

(* A new entry at the end, for a line that has none. *)
LEMMA AddHolds ==
  ASSUME NEW table, NEW v, TableHolds(table, v),
         NEW e \in EntryType, Sound(e, v), e.line \notin LinesOf(table),
         e.state # "INFLIGHT"
  PROVE  /\ TableHolds(Append(table, e), v)
         /\ LinesOf(Append(table, e)) = LinesOf(table) \cup {e.line}
         /\ FlyingOf(Append(table, e)) = FlyingOf(table)
         /\ \A c : BackendHolds(table, c) => BackendHolds(Append(table, e), c)
         /\ \A c : ResponseHolds(table, c) => ResponseHolds(Append(table, e), c)
<1> DEFINE t == Append(table, e)
           n == Len(table) + 1
<1>1. table \in Seq(EntryType)
  BY DEF TableHolds
<1>2. /\ t \in Seq(EntryType) /\ n \in DOMAIN t /\ t[n] = e
      /\ \A i \in DOMAIN t : i = n \/ (i \in DOMAIN table /\ t[i] = table[i])
      /\ \A i \in DOMAIN table : i \in DOMAIN t /\ t[i] = table[i]
  BY <1>1
<1> HIDE DEF t, n
<1>3. \A i \in DOMAIN table : table[i].line # e.line
  BY DEF LinesOf
<1>4. TableHolds(t, v)
  BY <1>2, <1>3 DEF TableHolds
<1>5. LinesOf(t) = LinesOf(table) \cup {e.line}
  BY <1>2 DEF LinesOf
<1>6. FlyingOf(t) = FlyingOf(table)
  BY <1>2 DEF FlyingOf
<1>7. ASSUME NEW c, BackendHolds(table, c)
      PROVE  BackendHolds(t, c)
  BY <1>2, <1>7 DEF BackendHolds
<1>8. ASSUME NEW c, ResponseHolds(table, c)
      PROVE  ResponseHolds(t, c)
  BY <1>2, <1>8 DEF ResponseHolds
<1> QED BY <1>4, <1>5, <1>6, <1>7, <1>8 DEF t

(* An entry goes. *)
LEMMA RemoveHolds ==
  ASSUME NEW table, NEW v, TableHolds(table, v), NEW i \in DOMAIN table,
         table[i].state # "INFLIGHT"
  PROVE  /\ TableHolds(RemoveAt(table, i), v)
         /\ LinesOf(RemoveAt(table, i)) = LinesOf(table) \ {table[i].line}
         /\ FlyingOf(RemoveAt(table, i)) = FlyingOf(table)
         /\ \A c : BackendHolds(table, c) /\ c # table[i].line
                     => BackendHolds(RemoveAt(table, i), c)
         /\ \A c : ResponseHolds(table, c) /\ c # table[i].line
                     => ResponseHolds(RemoveAt(table, i), c)
<1> DEFINE t == RemoveAt(table, i)
           from(j) == IF j < i THEN j ELSE j + 1
<1>1. table \in Seq(EntryType)
  BY DEF TableHolds
<1>2. /\ t \in Seq(EntryType) /\ DOMAIN t = 1 .. Len(table) - 1
      /\ \A j \in 1 .. Len(table) - 1 :
           t[j] = IF j < i THEN table[j] ELSE table[j + 1]
      /\ i \in Nat /\ Len(table) \in Nat /\ DOMAIN table = 1 .. Len(table)
  BY <1>1, RemoveAtParts
<1> HIDE DEF t
<1>3. \A j \in DOMAIN t : /\ from(j) \in DOMAIN table /\ from(j) # i
                           /\ t[j] = table[from(j)] /\ from(j) \in Int /\ j \in Int
  BY <1>2
<1>4. \A j, k \in DOMAIN t : from(j) = from(k) => j = k
  BY <1>2
<1>5. ASSUME NEW k \in DOMAIN table, k # i
      PROVE  \E j \in DOMAIN t : t[j] = table[k]
  <2>1. CASE k < i
    BY <1>2, <1>5, <2>1
  <2>2. CASE ~(k < i)
    <3>1. k - 1 \in DOMAIN t /\ ~(k - 1 < i) /\ (k - 1) + 1 = k
      BY <1>2, <1>5, <2>2
    <3> QED BY <1>2, <3>1
  <2> QED BY <2>1, <2>2
<1> HIDE DEF from
<1>6. \A k \in DOMAIN table : table[k].line = table[i].line => k = i
  BY DEF TableHolds
<1>7. TableHolds(t, v)
  BY <1>2, <1>3, <1>4 DEF TableHolds
<1>8. LinesOf(t) = LinesOf(table) \ {table[i].line}
  BY <1>3, <1>5, <1>6 DEF LinesOf
<1>9. FlyingOf(t) = FlyingOf(table)
  BY <1>3, <1>5, <1>6 DEF FlyingOf
<1>10. ASSUME NEW c, BackendHolds(table, c), c # table[i].line
      PROVE  BackendHolds(t, c)
  BY <1>3, <1>5, <1>10 DEF BackendHolds
<1>11. ASSUME NEW c, ResponseHolds(table, c), c # table[i].line
      PROVE  ResponseHolds(t, c)
  BY <1>3, <1>5, <1>11 DEF ResponseHolds
<1> QED BY <1>7, <1>8, <1>9, <1>10, <1>11 DEF t

(* A cursor goes to the next entry, all the way round. *)
LEMMA AfterHolds ==
  ASSUME NEW h, NEW v, TableHolds(h.entries, v), NEW x, x \in LinesOf(h.entries)
  PROVE  /\ After(h, x) \in LinesOf(h.entries)
         /\ Len(h.entries) # 1 => After(h, x) # x
<1> DEFINE i == Index(h, x)
           n == Len(h.entries)
           j == (i % n) + 1
<1>1. i \in DOMAIN h.entries /\ h.entries[i].line = x
  BY IndexOf
<1>2. n \in Nat /\ n > 0 /\ i \in 1 .. n /\ DOMAIN h.entries = 1 .. n
  BY <1>1 DEF TableHolds
<1> HIDE DEF i, n
<1>3. j \in 1 .. n /\ (n # 1 => j # i)
  <2>1. CASE i = n
    <3>1. n % n = 0
      BY <1>2
    <3> QED BY <1>2, <2>1, <3>1
  <2>2. CASE i < n
    <3>1. i % n = i
      BY <1>2, <2>2
    <3> QED BY <1>2, <2>2, <3>1
  <2> QED BY <1>2, <2>1, <2>2
<1>4. After(h, x) = h.entries[j].line
  BY DEF After, i, n
<1> HIDE DEF j
<1> QED BY <1>1, <1>2, <1>3, <1>4 DEF LinesOf, TableHolds, n

(* The lines of entries are lines. *)
LEMMA LinesOfTable ==
  ASSUME NEW table, table \in Seq(EntryType)
  PROVE  LinesOf(table) \subseteq Lines
<1>1. \A i \in DOMAIN table : table[i] \in EntryType
  OBVIOUS
<1>2. \A e \in EntryType : e.line \in Lines
  BY DEF EntryType
<1> QED BY <1>1, <1>2 DEF LinesOf

(* Flights depend on which lines are in flight. *)
LEMMA FlightsSame ==
  ASSUME NEW table, NEW t, FlyingOf(t) = FlyingOf(table),
         NEW toRd, NEW rdRsp, NEW v, FlightsHold(table, toRd, rdRsp, v)
  PROVE  FlightsHold(t, toRd, rdRsp, v)
BY DEF FlightsHold

(* An entry is erased: cursors on it move to the next one. *)
LEMMA EraseHolds ==
  ASSUME NEW h, NEW v, ReadHolds(h, v), NEW x, x \in LinesOf(h.entries),
         Entry(h, x).state # "INFLIGHT"
  PROVE  /\ ReadHolds(Erase(h, x), v)
         /\ LinesOf(Erase(h, x).entries) = LinesOf(h.entries) \ {x}
<1> DEFINE i == Index(h, x)
           g == Erase(h, x)
           successor == IF Len(h.entries) = 1 THEN NoLine ELSE After(h, x)
           moved(c) == IF c = x THEN successor ELSE c
           dropped(c) == IF c = x THEN NoLine ELSE c
           table == RemoveAt(h.entries, i)
<1>1. /\ i \in DOMAIN h.entries /\ h.entries[i].line = x
      /\ h.entries[i].state # "INFLIGHT"
  BY IndexOf
<1>2. /\ TableHolds(table, v)
      /\ LinesOf(table) = LinesOf(h.entries) \ {x}
      /\ FlyingOf(table) = FlyingOf(h.entries)
      /\ \A c : BackendHolds(h.entries, c) /\ c # x => BackendHolds(table, c)
      /\ \A c : ResponseHolds(h.entries, c) /\ c # x => ResponseHolds(table, c)
  BY <1>1, RemoveHolds DEF ReadHolds
<1>3. /\ x \in Lines /\ LinesOf(h.entries) \subseteq Lines
  BY LinesOfTable DEF ReadHolds, TableHolds
<1>4. successor \in (LinesOf(h.entries) \ {x}) \cup {NoLine}
  BY AfterHolds DEF ReadHolds
<1> HIDE DEF successor, table, i
<1>5. /\ g = [h EXCEPT !.entries = table,
                       !.backendCursor = moved(@),
                       !.backendCandidate = dropped(@),
                       !.responseCursor = moved(@),
                       !.responseCandidate = dropped(@)]
  BY DEF Erase, successor, table, i
<1> HIDE DEF g
<1>6. h \in ReadSideType /\ table \in Seq(EntryType)
  BY <1>2 DEF ReadHolds, TableHolds
<1>7. /\ moved(h.backendCursor) \in Lines \cup {NoLine}
      /\ dropped(h.backendCandidate) \in Lines \cup {NoLine}
      /\ moved(h.responseCursor) \in Lines \cup {NoLine}
      /\ dropped(h.responseCandidate) \in Lines \cup {NoLine}
  BY <1>3, <1>4, <1>6 DEF ReadSideType
<1>8. g \in ReadSideType
  <2> HIDE DEF moved, dropped
  <2> QED BY <1>5, <1>6, <1>7 DEF ReadSideType
<1>9. /\ g.entries = table
      /\ g.backendCursor = moved(h.backendCursor)
      /\ g.backendCandidate = dropped(h.backendCandidate)
      /\ g.responseCursor = moved(h.responseCursor)
      /\ g.responseCandidate = dropped(h.responseCandidate)
      /\ g.toRd = h.toRd /\ g.rdRsp = h.rdRsp
      /\ g.l2 = h.l2 /\ g.ready = h.ready
  BY <1>5, <1>6 DEF ReadSideType
<1>10. /\ CursorHolds(table, g.backendCursor)
       /\ CursorHolds(table, g.responseCursor)
  BY <1>2, <1>4, <1>9 DEF ReadHolds, CursorHolds
<1>11. /\ BackendHolds(table, g.backendCandidate)
       /\ ResponseHolds(table, g.responseCandidate)
  <2>1. BackendHolds(table, NoLine) /\ ResponseHolds(table, NoLine)
    BY DEF BackendHolds, ResponseHolds
  <2>2. /\ BackendHolds(h.entries, h.backendCandidate)
        /\ ResponseHolds(h.entries, h.responseCandidate)
    BY DEF ReadHolds
  <2> QED BY <1>2, <1>9, <2>1, <2>2
<1>12. FlightsHold(table, g.toRd, g.rdRsp, v)
  BY <1>2, <1>9, FlightsSame DEF ReadHolds
<1>13. BufferHolds(g.l2, g.ready)
  BY <1>9 DEF ReadHolds
<1> QED BY <1>2, <1>8, <1>9, <1>10, <1>11, <1>12, <1>13 DEF ReadHolds, g

(* The entries of a table are entries. *)
LEMMA EntryOf ==
  ASSUME NEW table, NEW v, TableHolds(table, v), NEW i \in DOMAIN table
  PROVE  /\ table[i] \in EntryType /\ Sound(table[i], v)
         /\ table[i].line \in Lines /\ table[i].line \in LinesOf(table)
         /\ \A j \in DOMAIN table : table[j].line = table[i].line => j = i
<1>1. table[i] \in EntryType /\ table \in Seq(EntryType)
  BY DEF TableHolds
<1>2. table[i].line \in Lines
  BY <1>1 DEF EntryType
<1> QED BY <1>1, <1>2 DEF TableHolds, LinesOf

(* Something of an entry changes that is not its progress. *)
LEMMA AmendHolds ==
  ASSUME NEW h, NEW v, ReadHolds(h, v), NEW i \in DOMAIN h.entries,
         NEW e \in EntryType, Sound(e, v), e.line = h.entries[i].line,
         e.state = h.entries[i].state, e.next = h.entries[i].next,
         Len(e.waiters) >= Len(h.entries[i].waiters)
  PROVE  /\ ReadHolds([h EXCEPT !.entries = Put(@, i, e)], v)
         /\ LinesOf(Put(h.entries, i, e)) = LinesOf(h.entries)
<1> DEFINE table == Put(h.entries, i, e)
           g == [h EXCEPT !.entries = table]
           old == h.entries[i]
<1>1. TableHolds(h.entries, v) /\ h \in ReadSideType
  BY DEF ReadHolds
<1>2. /\ TableHolds(table, v)
      /\ LinesOf(table) = LinesOf(h.entries)
      /\ FlyingOf(table) = (FlyingOf(h.entries) \ {e.line})
                             \cup (IF e.state = "INFLIGHT" THEN {e.line} ELSE {})
      /\ \A c : BackendHolds(h.entries, c) /\ (c = e.line => e.state = "MISS")
                  => BackendHolds(table, c)
      /\ \A c : ResponseHolds(h.entries, c)
                  /\ (c = e.line => /\ e.state = "RESPONDING"
                                    /\ e.next < Len(e.waiters))
                  => ResponseHolds(table, c)
  BY <1>1, PutHolds
<1>3. old \in EntryType /\ \A j \in DOMAIN h.entries : h.entries[j].line = e.line => j = i
  BY <1>1, EntryOf
<1>4. FlyingOf(table) = FlyingOf(h.entries)
  <2>1. e.line \in FlyingOf(h.entries) <=> e.state = "INFLIGHT"
    BY <1>3 DEF FlyingOf
  <2> QED BY <1>2, <2>1
<1>5. BackendHolds(table, h.backendCandidate)
  <2>1. BackendHolds(h.entries, h.backendCandidate)
    BY DEF ReadHolds
  <2>2. h.backendCandidate = NoLine => BackendHolds(table, h.backendCandidate)
    BY DEF BackendHolds
  <2>3. h.backendCandidate # NoLine /\ h.backendCandidate = e.line
          => e.state = "MISS"
    BY <1>3, <2>1 DEF BackendHolds
  <2> QED BY <1>2, <2>1, <2>2, <2>3
<1>6. ResponseHolds(table, h.responseCandidate)
  <2>1. ResponseHolds(h.entries, h.responseCandidate)
    BY DEF ReadHolds
  <2>2. h.responseCandidate = NoLine => ResponseHolds(table, h.responseCandidate)
    BY DEF ResponseHolds
  <2>3. Len(e.waiters) \in Nat /\ Len(old.waiters) \in Nat /\ e.next \in Nat
    BY <1>3 DEF EntryType
  <2>4. h.responseCandidate # NoLine /\ h.responseCandidate = e.line
          => e.state = "RESPONDING" /\ e.next < Len(e.waiters)
    <3>1. h.responseCandidate # NoLine /\ h.responseCandidate = e.line
            => old.state = "RESPONDING" /\ old.next < Len(old.waiters)
      BY <1>3, <2>1 DEF ResponseHolds
    <3> QED BY <2>3, <3>1
  <2> QED BY <1>2, <2>1, <2>2, <2>4
<1> HIDE DEF table
<1>7. table \in Seq(EntryType)
  BY <1>2 DEF TableHolds
<1>8. g \in ReadSideType /\ g.entries = table
      /\ g.backendCursor = h.backendCursor
      /\ g.backendCandidate = h.backendCandidate
      /\ g.responseCursor = h.responseCursor
      /\ g.responseCandidate = h.responseCandidate
      /\ g.toRd = h.toRd /\ g.rdRsp = h.rdRsp /\ g.l2 = h.l2 /\ g.ready = h.ready
  BY <1>1, <1>7 DEF ReadSideType
<1> HIDE DEF g
<1>9. /\ CursorHolds(table, g.backendCursor) /\ CursorHolds(table, g.responseCursor)
  BY <1>2, <1>8 DEF ReadHolds, CursorHolds
<1>10. FlightsHold(table, g.toRd, g.rdRsp, v)
  BY <1>4, <1>8, FlightsSame DEF ReadHolds
<1>11. BufferHolds(g.l2, g.ready)
  BY <1>8 DEF ReadHolds
<1>12. ReadHolds(g, v)
  BY <1>2, <1>5, <1>6, <1>8, <1>9, <1>10, <1>11 DEF ReadHolds
<1> QED BY <1>2, <1>12 DEF g, table

(* What no part of the invariant is about. *)
Same(h, g) ==
  /\ g \in ReadSideType
  /\ g.entries = h.entries
  /\ g.backendCursor = h.backendCursor
  /\ g.backendCandidate = h.backendCandidate
  /\ g.responseCursor = h.responseCursor
  /\ g.responseCandidate = h.responseCandidate
  /\ g.toRd = h.toRd /\ g.rdRsp = h.rdRsp
  /\ g.l2 = h.l2 /\ g.ready = h.ready

LEMMA SameHolds ==
  ASSUME NEW h, NEW v, ReadHolds(h, v), NEW g, Same(h, g)
  PROVE  ReadHolds(g, v)
BY DEF ReadHolds, Same

LEMMA ThrowHolds ==
  ASSUME NEW h, NEW v, ReadHolds(h, v)
  PROVE  ReadHolds(Throw(h), v) /\ Throw(h).entries = h.entries
<1>1. Same(h, Throw(h))
  BY DEF Throw, Same, ReadHolds, ReadSideType
<1> QED BY <1>1, SameHolds DEF Same

LEMMA RetireHolds ==
  ASSUME NEW h, NEW v, ReadHolds(h, v)
  PROVE  ReadHolds(Retire(h), v) /\ Retire(h).entries = h.entries
<1>1. CASE h.pending = 0
  BY <1>1, ThrowHolds DEF Retire
<1>2. CASE h.pending # 0
  <2> DEFINE g == [h EXCEPT !.pending = @ - 1]
  <2>1. h \in ReadSideType /\ h.pending \in Nat
    BY DEF ReadHolds, ReadSideType
  <2>2. h.pending - 1 \in Nat
    BY <1>2, <2>1
  <2>3. Same(h, g)
    BY <2>1, <2>2 DEF Same, ReadSideType
  <2> QED BY <1>2, <2>3, SameHolds DEF Same, Retire
<1> QED BY <1>1, <1>2

(* One summary is consumed. *)
LEMMA ConsumeSummaryHolds ==
  ASSUME NEW h, NEW v, ReadHolds(h, v), NEW group
  PROVE  /\ ReadHolds(ConsumeSummary(h, group), v)
         /\ LinesOf(ConsumeSummary(h, group).entries) \subseteq LinesOf(h.entries)
<1> DEFINE owners == {i \in DOMAIN h.entries : h.entries[i].group = group}
           i == CHOOSE j \in owners : \A k \in owners : j <= k
           closed == [h EXCEPT !.entries[i].group = 0, !.entries[i].open = FALSE]
           old == h.entries[i]
           e == [old EXCEPT !.group = 0, !.open = FALSE]
<1>1. CASE owners = {}
  BY <1>1, ThrowHolds DEF ConsumeSummary
<1>2. CASE owners # {}
  <2>1. TableHolds(h.entries, v) /\ h \in ReadSideType /\ h.entries \in Seq(EntryType)
    BY DEF ReadHolds, TableHolds
  <2>2. i \in owners
    <3>1. owners \in SUBSET Nat
      BY <2>1
    <3>2. \E j \in owners : \A k \in owners : j <= k
      BY <1>2, <3>1, LeastOf
    <3> HIDE DEF owners
    <3> QED BY <3>2
  <2>3. i \in DOMAIN h.entries
    BY <2>2
  <2> HIDE DEF i
  <2>4. /\ old \in EntryType /\ Sound(old, v)
    BY <2>1, <2>3, EntryOf
  <2>5. /\ e \in EntryType /\ e.line = old.line /\ e.state = old.state
        /\ e.next = old.next /\ e.waiters = old.waiters /\ e.data = old.data
    BY <2>4 DEF EntryType
  <2>6. Sound(e, v)
    BY <2>4, <2>5 DEF Sound
  <2>7. Len(e.waiters) >= Len(old.waiters)
    BY <2>4, <2>5 DEF EntryType
  <2>8. closed = [h EXCEPT !.entries = Put(@, i, e)]
    BY <2>1, <2>3 DEF Put, ReadSideType
  <2>9. e.line = h.entries[i].line /\ e.state = h.entries[i].state
          /\ e.next = h.entries[i].next
          /\ Len(e.waiters) >= Len(h.entries[i].waiters)
    BY <2>5, <2>7
  <2>10. closed.entries = Put(h.entries, i, e)
    <3> DEFINE p == Put(h.entries, i, e)
    <3>1. "entries" \in DOMAIN h
      BY <2>1 DEF ReadSideType
    <3>2. closed = [h EXCEPT !.entries = p]
      BY <2>8
    <3> HIDE DEF p, closed
    <3>3. closed.entries = p
      BY <3>1, <3>2
    <3> QED BY <3>3 DEF p
  <2>11. h.entries[i].next = Len(h.entries[i].waiters) =>
           closed.entries[i].state = "RESPONDING"
    <3>1. old.next # 0 \/ old.next # Len(old.waiters)
      BY <2>4 DEF EntryType, Sound
    <3>2. old.next = Len(old.waiters) => e.state = "RESPONDING"
      BY <2>4, <2>5, <3>1 DEF Sound
    <3>3. closed.entries[i] = e
      BY <2>3, <2>10 DEF Put
    <3> QED BY <3>2, <3>3
  <2> HIDE DEF closed, e, old
  <2>12. /\ ReadHolds(closed, v)
         /\ LinesOf(closed.entries) = LinesOf(h.entries)
    BY <2>3, <2>5, <2>6, <2>8, <2>9, <2>10, AmendHolds
  <2>13. ConsumeSummary(h, group) =
           IF h.entries[i].next = Len(h.entries[i].waiters)
           THEN Erase(closed, h.entries[i].line) ELSE closed
    BY <1>2 DEF ConsumeSummary, closed, i
  <2>14. CASE h.entries[i].next = Len(h.entries[i].waiters)
    <3> DEFINE x == h.entries[i].line
    <3>1. x \in LinesOf(closed.entries) /\ x \in LinesOf(h.entries)
      BY <2>3, <2>12 DEF LinesOf
    <3>2. Entry(closed, x) = closed.entries[i]
      <4>1. /\ Index(closed, x) \in DOMAIN closed.entries
            /\ closed.entries[Index(closed, x)].line = x
            /\ Entry(closed, x) = closed.entries[Index(closed, x)]
        BY <3>1, IndexOf
      <4>2. i \in DOMAIN closed.entries /\ closed.entries[i].line = x
        BY <2>3, <2>9, <2>10 DEF Put
      <4>3. TableHolds(closed.entries, v)
        BY <2>12 DEF ReadHolds
      <4> QED BY <4>1, <4>2, <4>3 DEF TableHolds
    <3>3. /\ ReadHolds(Erase(closed, x), v)
          /\ LinesOf(Erase(closed, x).entries) = LinesOf(closed.entries) \ {x}
      BY <2>11, <2>12, <2>14, <3>1, <3>2, EraseHolds
    <3> QED BY <2>12, <2>13, <2>14, <3>3
  <2>15. CASE h.entries[i].next # Len(h.entries[i].waiters)
    BY <2>12, <2>13, <2>15
  <2> QED BY <2>14, <2>15
<1> QED BY <1>1, <1>2

(* Summaries consumed one after the other: base before the first, f[k]     *)
(* after k of them.                                                        *)
IsRun(f, n, base, summaries) ==
  f = [k \in 0 .. n |-> IF k = 0 THEN base
                        ELSE ConsumeSummary(f[k - 1], summaries[k])]

(* There is such a run, however many they are. *)
LEMMA RunExists ==
  ASSUME NEW base, NEW summaries, NEW n \in Nat
  PROVE  \E f : IsRun(f, n, base, summaries)
<1> DEFINE T == {m \in Nat : ~\E f : IsRun(f, m, base, summaries)}
<1>1. SUFFICES ASSUME T # {}
               PROVE  FALSE
  OBVIOUS
<1>2. PICK m \in T : \A k \in T : m <= k
  BY <1>1, LeastOf
<1>3. m \in Nat /\ ~\E f : IsRun(f, m, base, summaries)
  OBVIOUS
<1>4. CASE m = 0
  <2> DEFINE f == [k \in 0 .. 0 |-> base]
  <2>1. \A k \in 0 .. 0 : k = 0
    OBVIOUS
  <2>2. IsRun(f, 0, base, summaries)
    BY <2>1 DEF IsRun
  <2> QED BY <1>3, <1>4, <2>2
<1>5. CASE m # 0
  <2>1. m - 1 \in Nat /\ ~(m <= m - 1)
    BY <1>3, <1>5
  <2>2. m - 1 \notin T
    BY <1>2, <2>1
  <2>3. PICK f : IsRun(f, m - 1, base, summaries)
    BY <2>1, <2>2
  <2> DEFINE g == [k \in 0 .. m |-> IF k = m
                                    THEN ConsumeSummary(f[m - 1], summaries[m])
                                    ELSE f[k]]
             G(k) == IF k = 0 THEN base ELSE ConsumeSummary(g[k - 1], summaries[k])
  <2>4. ASSUME NEW k \in 0 .. m
        PROVE  g[k] = G(k)
    <3>1. CASE k = m
      <4>1. m - 1 \in 0 .. m /\ m - 1 # m /\ m # 0
        BY <1>3, <1>5
      <4>2. g[m - 1] = f[m - 1]
        BY <4>1
      <4> QED BY <3>1, <4>1, <4>2
    <3>2. CASE k # m
      <4>1. k \in 0 .. m - 1
        BY <1>3, <3>2
      <4>2. g[k] = f[k]
        BY <3>2
      <4>3. f[k] = IF k = 0 THEN base ELSE ConsumeSummary(f[k - 1], summaries[k])
        BY <2>3, <4>1 DEF IsRun
      <4>4. k # 0 => g[k - 1] = f[k - 1]
        BY <1>3, <4>1
      <4> QED BY <4>2, <4>3, <4>4
    <3> QED BY <3>1, <3>2
  <2>5. g = [k \in 0 .. m |-> g[k]]
    OBVIOUS
  <2> HIDE DEF g
  <2>6. IsRun(g, m, base, summaries)
    BY <2>4, <2>5 DEF IsRun
  <2> QED BY <1>3, <2>6
<1> QED BY <1>4, <1>5

(* ConsumeSummaries is the end of a run. *)
LEMMA RunsConsume ==
  ASSUME NEW h, Len(h.summaries) \in Nat
  PROVE  \E f : /\ IsRun(f, Len(h.summaries), [h EXCEPT !.summaries = <<>>],
                         h.summaries)
                /\ ConsumeSummaries(h) = f[Len(h.summaries)]
<1> DEFINE n == Len(h.summaries)
           base == [h EXCEPT !.summaries = <<>>]
           s == h.summaries
<1>1. PICK g : IsRun(g, n, base, s)
  BY RunExists
<1>2. g = [k \in 0 .. n |-> IF k = 0 THEN base ELSE ConsumeSummary(g[k - 1], s[k])]
  BY <1>1 DEF IsRun
<1>3. \E f : /\ f = [k \in 0 .. n |-> IF k = 0 THEN base
                                      ELSE ConsumeSummary(f[k - 1], s[k])]
             /\ ConsumeSummaries(h) = f[n]
  BY <1>2, Zenon DEF ConsumeSummaries
<1> QED BY <1>3 DEF IsRun

LEMMA ConsumeSummariesHolds ==
  ASSUME NEW h, NEW v, ReadHolds(h, v)
  PROVE  /\ ReadHolds(ConsumeSummaries(h), v)
         /\ LinesOf(ConsumeSummaries(h).entries) \subseteq LinesOf(h.entries)
<1> DEFINE n == Len(h.summaries)
           base == [h EXCEPT !.summaries = <<>>]
<1>1. h \in ReadSideType
  BY DEF ReadHolds
<1>2. n \in Nat /\ Same(h, base)
  <2>1. h.summaries \in Seq(Nat) /\ <<>> \in Seq(Nat)
    BY <1>1 DEF ReadSideType
  <2>2. base \in ReadSideType
    BY <1>1, <2>1 DEF ReadSideType
  <2>3. Same(h, base)
    BY <1>1, <2>2 DEF ReadSideType, Same
  <2> QED BY <2>1, <2>3
<1>3. ReadHolds(base, v) /\ base.entries = h.entries
  BY <1>2, SameHolds DEF Same
<1> HIDE DEF base, n
<1>4. PICK f : IsRun(f, n, base, h.summaries) /\ ConsumeSummaries(h) = f[n]
  BY <1>2, RunsConsume DEF base, n
<1> DEFINE Good(k) == /\ ReadHolds(f[k], v)
                      /\ LinesOf(f[k].entries) \subseteq LinesOf(h.entries)
           T == {k \in 0 .. n : ~Good(k)}
<1>5. SUFFICES ASSUME T # {}
               PROVE  FALSE
  BY <1>2, <1>4
<1>6. PICK m \in T : \A k \in T : m <= k
  <2>1. T \in SUBSET Nat
    BY <1>2
  <2> HIDE DEF T
  <2> QED BY <1>5, <2>1, LeastOf
<1>7. m \in 0 .. n /\ ~Good(m)
  BY <1>6
<1>8. f[m] = IF m = 0 THEN base ELSE ConsumeSummary(f[m - 1], h.summaries[m])
  BY <1>4, <1>7 DEF IsRun
<1>9. m # 0
  BY <1>3, <1>7, <1>8
<1>10. m - 1 \in 0 .. n /\ ~(m <= m - 1)
  BY <1>2, <1>7, <1>9
<1>11. Good(m - 1)
  BY <1>6, <1>10
<1>12. Good(m)
  BY <1>8, <1>9, <1>11, ConsumeSummaryHolds
<1> QED BY <1>7, <1>12

-----------------------------------------------------------------------------
(* Searches *)

(* What the search from a cursor finds. *)
LEMMA FirstFromFinds ==
  ASSUME NEW h, NEW v, TableHolds(h.entries, v), NEW c, CursorHolds(h.entries, c),
         NEW S
  PROVE  FirstFrom(h, c, S) \in (S \cap LinesOf(h.entries)) \cup {NoLine}
<1> DEFINE n == Len(h.entries)
           start == IF c = NoLine THEN 0 ELSE Index(h, c) - 1
           at(k) == h.entries[((start + k) % n) + 1].line
           found == {k \in 0 .. n - 1 : at(k) \in S}
           first == CHOOSE k \in found : \A j \in found : k <= j
<1>1. CASE found = {}
  BY <1>1 DEF FirstFrom
<1>2. CASE found # {}
  <2>1. FirstFrom(h, c, S) = at(first)
    BY <1>2 DEF FirstFrom
  <2>2. n \in Nat /\ DOMAIN h.entries = 1 .. n
    BY DEF TableHolds
  <2>3. start \in Nat
    BY <2>2, IndexOf DEF CursorHolds
  <2>4. first \in found
    <3>1. found \in SUBSET Nat
      BY <2>2
    <3>2. \E k \in found : \A j \in found : k <= j
      BY <1>2, <3>1, LeastOf
    <3> HIDE DEF found
    <3> QED BY <3>2
  <2> HIDE DEF first, n, start
  <2>5. first \in 0 .. n - 1 /\ at(first) \in S
    BY <2>4
  <2>6. ((start + first) % n) + 1 \in 1 .. n
    <3>1. n \in Nat \ {0} /\ start + first \in Nat
      BY <2>2, <2>3, <2>5
    <3>2. (start + first) % n \in 0 .. n - 1
      BY <3>1, Rest
    <3> QED BY <2>2, <3>2
  <2> QED BY <2>1, <2>2, <2>5, <2>6 DEF LinesOf
<1> QED BY <1>1, <1>2

(* The lines of entries in a state. *)
LEMMA InStateOf ==
  ASSUME NEW h, NEW v, TableHolds(h.entries, v), NEW st, NEW x
  PROVE  x \in InState(h, st) <=>
           x \in LinesOf(h.entries) /\ Entry(h, x).state = st
<1>1. ASSUME x \in InState(h, st)
      PROVE  x \in LinesOf(h.entries) /\ Entry(h, x).state = st
  <2>1. PICK i \in DOMAIN h.entries : h.entries[i].line = x /\ h.entries[i].state = st
    BY <1>1 DEF InState
  <2>2. x \in LinesOf(h.entries)
    BY <2>1 DEF LinesOf
  <2>3. Entry(h, x) = h.entries[i]
    BY <2>1, <2>2, IndexOf DEF TableHolds
  <2> QED BY <2>1, <2>2, <2>3
<1>2. ASSUME x \in LinesOf(h.entries), Entry(h, x).state = st
      PROVE  x \in InState(h, st)
  BY <1>2, IndexOf DEF InState
<1> QED BY <1>1, <1>2

-----------------------------------------------------------------------------
(* Responses of the memory and hits *)

(* The fields that hold the table of the Home Agent. *)
TableSide(h, v) ==
  /\ h \in ReadSideType
  /\ TableHolds(h.entries, v)
  /\ CursorHolds(h.entries, h.backendCursor)
  /\ CursorHolds(h.entries, h.responseCursor)
  /\ BackendHolds(h.entries, h.backendCandidate)
  /\ ResponseHolds(h.entries, h.responseCandidate)

(* Those that hold its channels and the L2 Buffer. *)
SameChannels(h, g) == g.toRd = h.toRd /\ g.rdRsp = h.rdRsp

SameBuffer(h, g) == g.l2 = h.l2 /\ g.ready = h.ready

(* The entry of line x has a waiter to answer. *)
Answering(g, x) ==
  \E i \in DOMAIN g.entries : /\ g.entries[i].line = x
                              /\ g.entries[i].state = "RESPONDING"
                              /\ g.entries[i].next < Len(g.entries[i].waiters)

(* An entry gets its data, and starts to answer its waiters. *)
LEMMA RespondHolds ==
  ASSUME NEW h, NEW v, ReadHolds(h, v), NEW x, x \in LinesOf(h.entries),
         NEW d \in Versions, Current(d, x, v), Entry(h, x).state \in {"HIT", "INFLIGHT"}
  PROVE  /\ TableSide(Respond(h, x, d), v)
         /\ SameChannels(h, Respond(h, x, d)) /\ SameBuffer(h, Respond(h, x, d))
         /\ Respond(h, x, d).port = h.port
         /\ LinesOf(Respond(h, x, d).entries) = LinesOf(h.entries)
         /\ FlyingOf(Respond(h, x, d).entries) = FlyingOf(h.entries) \ {x}
         /\ Respond(h, x, d).backendCursor = h.backendCursor
         /\ Answering(Respond(h, x, d), x)
<1> DEFINE i == Index(h, x)
           old == h.entries[i]
           e == [old EXCEPT !.state = "RESPONDING", !.data = d, !.next = 0]
           g == Respond(h, x, d)
           table == Put(h.entries, i, e)
<1>1. /\ i \in DOMAIN h.entries /\ old.line = x
      /\ old.state \in {"HIT", "INFLIGHT"}
  BY IndexOf
<1>2. h \in ReadSideType /\ TableHolds(h.entries, v) /\ h.entries \in Seq(EntryType)
  BY DEF ReadHolds, TableHolds
<1>3. /\ old \in EntryType /\ Sound(old, v) /\ x \in Lines
      /\ \A j \in DOMAIN h.entries : h.entries[j].line = x => j = i
  BY <1>1, <1>2, EntryOf
<1>4. /\ e \in EntryType /\ e.line = x /\ e.state = "RESPONDING" /\ e.next = 0
      /\ e.waiters = old.waiters /\ e.data = d
  BY <1>1, <1>3 DEF EntryType
<1>5. old.waiters \in Seq(Reads) /\ old.waiters # <<>>
  BY <1>3 DEF EntryType, Sound
<1>6. Len(old.waiters) \in Nat /\ 0 < Len(old.waiters) /\ 0 <= Len(old.waiters)
  BY <1>5
<1>7. Sound(e, v)
  <2>1. \A k \in DOMAIN e.waiters :
          LineOf[e.waiters[k]] = e.line /\ InOneLine(e.waiters[k])
    BY <1>1, <1>3, <1>4 DEF Sound
  <2> QED BY <1>4, <1>5, <1>6, <2>1 DEF Sound
<1>8. g = [h EXCEPT !.entries = Put(@, i, e)]
  <2>1. DOMAIN old = DOMAIN e /\ "entries" \in DOMAIN h
    BY <1>2, <1>3 DEF EntryType, ReadSideType
  <2>2. /\ "state" \in DOMAIN old /\ "data" \in DOMAIN old /\ "next" \in DOMAIN old
    BY <1>3 DEF EntryType
  <2>3. g = [h EXCEPT !.entries[i].state = "RESPONDING", !.entries[i].data = d,
                      !.entries[i].next = 0]
    BY DEF Respond
  <2> HIDE DEF i, g
  <2> QED BY <1>1, <2>1, <2>2, <2>3 DEF Put
<1> HIDE DEF e, g, i
<1>9. /\ TableHolds(table, v)
      /\ LinesOf(table) = LinesOf(h.entries)
      /\ FlyingOf(table) = FlyingOf(h.entries) \ {x}
      /\ \A c : BackendHolds(h.entries, c) /\ c # x => BackendHolds(table, c)
      /\ \A c : ResponseHolds(h.entries, c) /\ c # x => ResponseHolds(table, c)
      /\ i \in DOMAIN table /\ table[i] = e
  <2>1. /\ i \in DOMAIN h.entries /\ e \in EntryType /\ e.line = h.entries[i].line
        /\ TableHolds(h.entries, v) /\ Sound(e, v)
    BY <1>1, <1>2, <1>4, <1>7
  <2>2. /\ TableHolds(table, v)
        /\ LinesOf(table) = LinesOf(h.entries)
        /\ FlyingOf(table) = (FlyingOf(h.entries) \ {e.line})
                               \cup (IF e.state = "INFLIGHT" THEN {e.line} ELSE {})
        /\ \A c : BackendHolds(h.entries, c) /\ (c = e.line => e.state = "MISS")
                    => BackendHolds(table, c)
        /\ \A c : ResponseHolds(h.entries, c)
                    /\ (c = e.line => /\ e.state = "RESPONDING"
                                      /\ e.next < Len(e.waiters))
                    => ResponseHolds(table, c)
    BY <2>1, PutHolds
  <2>3. i \in DOMAIN table /\ table[i] = e
    BY <1>2, <2>1, PutParts
  <2> HIDE DEF table
  <2>4. FlyingOf(table) = FlyingOf(h.entries) \ {x}
    BY <1>4, <2>2
  <2> QED BY <1>4, <2>2, <2>3, <2>4
<1> HIDE DEF table
<1>10. g = [h EXCEPT !.entries = table]
  BY <1>8 DEF table
<1>11. table \in Seq(EntryType)
  BY <1>9 DEF TableHolds
<1>12. /\ g \in ReadSideType /\ g.entries = table
       /\ g.backendCursor = h.backendCursor
       /\ g.backendCandidate = h.backendCandidate
       /\ g.responseCursor = h.responseCursor
       /\ g.responseCandidate = h.responseCandidate
       /\ SameChannels(h, g) /\ SameBuffer(h, g) /\ g.port = h.port
  BY <1>2, <1>10, <1>11 DEF ReadSideType, SameChannels, SameBuffer
<1>13. /\ CursorHolds(table, g.backendCursor) /\ CursorHolds(table, g.responseCursor)
  BY <1>9, <1>12 DEF ReadHolds, CursorHolds
<1>14. BackendHolds(table, g.backendCandidate)
  <2>1. BackendHolds(h.entries, h.backendCandidate)
    BY DEF ReadHolds
  <2>2. h.backendCandidate = NoLine => BackendHolds(table, h.backendCandidate)
    BY DEF BackendHolds
  <2>3. h.backendCandidate = x => h.backendCandidate = NoLine
    BY <1>1, <1>3, <2>1 DEF BackendHolds
  <2> QED BY <1>9, <1>12, <2>1, <2>2, <2>3
<1>15. ResponseHolds(table, g.responseCandidate)
  <2>1. ResponseHolds(h.entries, h.responseCandidate)
    BY DEF ReadHolds
  <2>2. h.responseCandidate = NoLine => ResponseHolds(table, h.responseCandidate)
    BY DEF ResponseHolds
  <2>3. h.responseCandidate = x => h.responseCandidate = NoLine
    BY <1>1, <1>3, <2>1 DEF ResponseHolds
  <2> QED BY <1>9, <1>12, <2>1, <2>2, <2>3
<1>16. TableSide(g, v)
  BY <1>9, <1>12, <1>13, <1>14, <1>15 DEF TableSide
<1>17. Answering(g, x)
  BY <1>4, <1>6, <1>9, <1>12 DEF Answering
<1> QED BY <1>9, <1>12, <1>16, <1>17 DEF g

(* service_home_agent_hit *)
LEMMA ReadHitHolds ==
  ASSUME NEW h, NEW v \in Contents, ReadHolds(h, v)
  PROVE  /\ ReadHolds(ReadHit(h, v), v)
         /\ LinesOf(ReadHit(h, v).entries) = LinesOf(h.entries)
<1> DEFINE x == FirstFrom(h, h.backendCursor, InState(h, "HIT"))
           r == Respond(h, x, v[x])
           g == [r EXCEPT !.backendCursor = After(h, x)]
<1>1. CASE x = NoLine
  BY <1>1 DEF ReadHit
<1>2. CASE x # NoLine
  <2>1. ReadHit(h, v) = g
    BY <1>2 DEF ReadHit, CommitFunctional
  <2>2. TableHolds(h.entries, v) /\ CursorHolds(h.entries, h.backendCursor)
    BY DEF ReadHolds
  <2>3. x \in InState(h, "HIT") \cap LinesOf(h.entries)
    BY <1>2, <2>2, FirstFromFinds
  <2> HIDE DEF x
  <2>4. x \in LinesOf(h.entries) /\ Entry(h, x).state = "HIT" /\ x \in Lines
    BY <2>2, <2>3, InStateOf, LinesOfTable DEF TableHolds
  <2>5. v[x] \in Versions /\ Current(v[x], x, v)
    BY <2>4 DEF Contents
  <2>6. /\ TableSide(r, v) /\ SameChannels(h, r) /\ SameBuffer(h, r)
        /\ LinesOf(r.entries) = LinesOf(h.entries)
        /\ FlyingOf(r.entries) = FlyingOf(h.entries) \ {x}
    <3> DEFINE d == v[x]
    <3>1. d \in Versions /\ Current(d, x, v)
      BY <2>5
    <3> HIDE DEF d
    <3>2. LET q == Respond(h, x, d)
          IN  /\ TableSide(q, v) /\ SameChannels(h, q) /\ SameBuffer(h, q)
              /\ LinesOf(q.entries) = LinesOf(h.entries)
              /\ FlyingOf(q.entries) = FlyingOf(h.entries) \ {x}
      BY <2>4, <3>1, RespondHolds
    <3> QED BY <3>2 DEF d
  <2>7. x \notin FlyingOf(h.entries)
    BY <2>4, <2>2, IndexOf DEF FlyingOf, TableHolds
  <2>8. After(h, x) \in LinesOf(h.entries) /\ After(h, x) \in Lines
    BY <2>2, <2>4, AfterHolds, LinesOfTable DEF TableHolds
  <2> HIDE DEF r
  <2>9. r \in ReadSideType
    BY <2>6 DEF TableSide
  <2> DEFINE a == After(h, x)
  <2> HIDE DEF a
  <2>10. a \in Lines /\ g = [r EXCEPT !.backendCursor = a]
    BY <2>8 DEF a
  <2>11. /\ g \in ReadSideType /\ g.entries = r.entries
         /\ g.backendCursor = a
         /\ g.backendCandidate = r.backendCandidate
         /\ g.responseCursor = r.responseCursor
         /\ g.responseCandidate = r.responseCandidate
         /\ g.toRd = r.toRd /\ g.rdRsp = r.rdRsp
         /\ g.l2 = r.l2 /\ g.ready = r.ready
    BY <2>9, <2>10 DEF ReadSideType
  <2> HIDE DEF g
  <2>12. CursorHolds(g.entries, g.backendCursor)
    BY <2>6, <2>8, <2>11 DEF CursorHolds, a
  <2>13. FlightsHold(g.entries, g.toRd, g.rdRsp, v)
    <3>1. FlightsHold(h.entries, h.toRd, h.rdRsp, v)
      BY DEF ReadHolds
    <3>2. FlyingOf(g.entries) = FlyingOf(h.entries)
      BY <2>6, <2>7, <2>11
    <3> QED BY <2>6, <2>11, <3>1, <3>2, FlightsSame DEF SameChannels
  <2>14. BufferHolds(g.l2, g.ready)
    BY <2>6, <2>11 DEF SameBuffer, ReadHolds
  <2> QED BY <2>1, <2>6, <2>11, <2>12, <2>13, <2>14 DEF ReadHolds, TableSide
<1> QED BY <1>1, <1>2

-----------------------------------------------------------------------------
(* Reads are accepted *)

(* A read that bypasses the Home Agent is asked for. *)
LEMMA FlightsBypass ==
  ASSUME NEW table, NEW v, NEW rdRsp, NEW toRd \in Seq(Lines \cup Reads),
         FlightsHold(table, toRd, rdRsp, v), NEW r \in Reads
  PROVE  /\ Append(toRd, r) \in Seq(Lines \cup Reads)
         /\ FlightsHold(table, Append(toRd, r), rdRsp, v)
<1>1. r \notin Lines /\ r \notin In(toRd, Lines) /\ r \in Lines \cup Reads
  BY HomeAssumption DEF In
<1>2. Once(toRd, Lines)
  BY DEF FlightsHold
<1>3. /\ Append(toRd, r) \in Seq(Lines \cup Reads)
      /\ Once(Append(toRd, r), Lines)
      /\ In(Append(toRd, r), Lines) = In(toRd, Lines) \cup ({r} \cap Lines)
  BY <1>1, <1>2, AppendOnce
<1>4. In(Append(toRd, r), Lines) = In(toRd, Lines)
  BY <1>1, <1>3
<1> QED BY <1>3, <1>4 DEF FlightsHold

(* A line is asked for: no request or response of it is under way. *)
LEMMA FlightsAsk ==
  ASSUME NEW table, NEW v, NEW rdRsp, NEW toRd \in Seq(Lines \cup Reads),
         FlightsHold(table, toRd, rdRsp, v), NEW x \in Lines,
         x \notin FlyingOf(table), NEW t, FlyingOf(t) = FlyingOf(table) \cup {x}
  PROVE  /\ Append(toRd, x) \in Seq(Lines \cup Reads)
         /\ FlightsHold(t, Append(toRd, x), rdRsp, v)
<1> DEFINE asked == Append(toRd, x)
<1>1. /\ x \in Lines \cup Reads /\ x \notin In(toRd, Lines)
      /\ \A c \in Ports : x \notin In(What(rdRsp[c]), Lines)
  BY DEF FlightsHold
<1>2. Once(toRd, Lines)
  BY DEF FlightsHold
<1>3. /\ asked \in Seq(Lines \cup Reads)
      /\ Once(asked, Lines)
      /\ In(asked, Lines) = In(toRd, Lines) \cup ({x} \cap Lines)
  BY <1>1, <1>2, AppendOnce
<1> HIDE DEF asked
<1>4. In(asked, Lines) = In(toRd, Lines) \cup {x}
  BY <1>3
<1>5. \A c \in Ports : /\ Once(What(rdRsp[c]), Lines)
                       /\ In(asked, Lines) \cap In(What(rdRsp[c]), Lines) = {}
  BY <1>1, <1>4 DEF FlightsHold
<1>6. \A y : y \in FlyingOf(t) <=>
               \/ y \in In(asked, Lines)
               \/ \E c \in Ports : y \in In(What(rdRsp[c]), Lines)
  BY <1>4 DEF FlightsHold
<1>7. FlightsHold(t, asked, rdRsp, v)
  BY <1>3, <1>5, <1>6 DEF FlightsHold
<1> QED BY <1>3, <1>7 DEF asked

(* A read leaves the queue. *)
LEMMA AdmitHolds ==
  ASSUME NEW h, NEW v, ReadHolds(h, v), h.rdQ # <<>>
  PROVE  Same(h, Admit(h)) /\ ReadHolds(Admit(h), v) /\ Head(h.rdQ) \in Reads
<1>1. h \in ReadSideType
  BY DEF ReadHolds
<1>2. h.rdQ \in Seq(Reads) /\ h.pending \in Nat
  BY <1>1 DEF ReadSideType
<1>3. Tail(h.rdQ) \in Seq(Reads) /\ Head(h.rdQ) \in Reads /\ h.pending + 1 \in Nat
  BY <1>2
<1>4. Admit(h) \in ReadSideType
  BY <1>1, <1>3 DEF ReadSideType, Admit
<1>5. Same(h, Admit(h))
  BY <1>1, <1>4 DEF Same, ReadSideType, Admit
<1> QED BY <1>3, <1>5, SameHolds

(* A read joins an entry. *)
LEMMA JoinHolds ==
  ASSUME NEW h, NEW v, ReadHolds(h, v), NEW i \in DOMAIN h.entries, NEW r \in Reads,
         LineOf[r] = h.entries[i].line, InOneLine(r)
  PROVE  LET g == [h EXCEPT !.entries[i].waiters = Append(@, r)]
         IN  ReadHolds(g, v) /\ LinesOf(g.entries) = LinesOf(h.entries)
<1> DEFINE g == [h EXCEPT !.entries[i].waiters = Append(@, r)]
           old == h.entries[i]
           e == [old EXCEPT !.waiters = Append(@, r)]
<1>1. TableHolds(h.entries, v) /\ h \in ReadSideType
  BY DEF ReadHolds
<1>2. old \in EntryType /\ Sound(old, v)
  BY <1>1, EntryOf
<1>3. old.waiters \in Seq(Reads) /\ old.next \in Nat
  BY <1>2 DEF EntryType
<1>4. /\ Append(old.waiters, r) \in Seq(Reads) /\ Append(old.waiters, r) # <<>>
      /\ Len(Append(old.waiters, r)) = Len(old.waiters) + 1
      /\ Len(old.waiters) \in Nat
  BY <1>3
<1>12. \A k \in DOMAIN Append(old.waiters, r) :
         \/ k \in DOMAIN old.waiters /\ Append(old.waiters, r)[k] = old.waiters[k]
         \/ Append(old.waiters, r)[k] = r
  <2> DEFINE w == old.waiters
  <2>1. w \in Seq(Reads)
    BY <1>3
  <2> HIDE DEF w
  <2>2. \A k \in DOMAIN Append(w, r) : \/ k \in DOMAIN w /\ Append(w, r)[k] = w[k]
                                      \/ Append(w, r)[k] = r
    BY <2>1
  <2> QED BY <2>2 DEF w
<1>5. e \in EntryType /\ e.line = old.line /\ e.state = old.state
      /\ e.next = old.next /\ e.data = old.data
      /\ e.waiters = Append(old.waiters, r)
  BY <1>2, <1>4 DEF EntryType
<1>6. Sound(e, v) /\ Len(e.waiters) >= Len(old.waiters)
  <2>1. \A k \in DOMAIN old.waiters :
          LineOf[old.waiters[k]] = old.line /\ InOneLine(old.waiters[k])
    BY <1>2 DEF Sound
  <2>2. \A k \in DOMAIN e.waiters :
          LineOf[e.waiters[k]] = e.line /\ InOneLine(e.waiters[k])
    BY <1>5, <1>12, <2>1
  <2>3. /\ e.next <= Len(e.waiters) /\ e.waiters # <<>>
        /\ e.state # "RESPONDING" => e.next = 0
        /\ e.state = "RESPONDING" => Current(e.data, e.line, v)
        /\ Len(e.waiters) >= Len(old.waiters)
    BY <1>2, <1>3, <1>4, <1>5 DEF Sound
  <2> QED BY <2>2, <2>3 DEF Sound
<1>7. g = [h EXCEPT !.entries = Put(@, i, e)]
  BY <1>1 DEF Put, ReadSideType
<1>8. e.line = h.entries[i].line /\ e.state = h.entries[i].state
      /\ e.next = h.entries[i].next /\ Len(e.waiters) >= Len(h.entries[i].waiters)
  BY <1>5, <1>6
<1> HIDE DEF e
<1>9. /\ ReadHolds([h EXCEPT !.entries = Put(@, i, e)], v)
      /\ LinesOf(Put(h.entries, i, e)) = LinesOf(h.entries)
  BY <1>5, <1>6, <1>8, AmendHolds
<1>10. [h EXCEPT !.entries = Put(@, i, e)].entries = Put(h.entries, i, e)
  BY <1>1 DEF ReadSideType
<1> HIDE DEF g
<1>11. ReadHolds(g, v) /\ LinesOf(g.entries) = LinesOf(h.entries)
  BY <1>7, <1>9, <1>10
<1> QED BY <1>11 DEF g

(* A read gets an entry of its own. *)
LEMMA OpenEntryHolds ==
  ASSUME NEW h, NEW v, ReadHolds(h, v), NEW r \in Reads,
         LineOf[r] \notin LinesOf(h.entries), InOneLine(r)
  PROVE  LET g == [h EXCEPT !.entries = Append(@, NewEntry(r))]
         IN  /\ ReadHolds(g, v)
             /\ LinesOf(g.entries) = LinesOf(h.entries) \cup {LineOf[r]}
<1> DEFINE e == NewEntry(r)
           table == Append(h.entries, e)
           g == [h EXCEPT !.entries = table]
<1>1. TableHolds(h.entries, v) /\ h \in ReadSideType
  BY DEF ReadHolds
<1>2. LineOf[r] \in Lines /\ <<r>> \in Seq(Reads) /\ <<r>> # <<>> /\ Len(<<r>>) = 1
  BY HomeAssumption
<1>3. /\ e \in EntryType /\ e.line = LineOf[r] /\ e.state \in {"HIT", "MISS"}
      /\ e.waiters = <<r>> /\ e.next = 0
  BY <1>2 DEF EntryType, NewEntry, NoCandidate, Versions
<1>4. Sound(e, v)
  BY <1>2, <1>3 DEF Sound
<1>5. e.line \notin LinesOf(h.entries) /\ e.state # "INFLIGHT"
  BY <1>3
<1> HIDE DEF e
<1>6. /\ TableHolds(table, v)
      /\ LinesOf(table) = LinesOf(h.entries) \cup {e.line}
      /\ FlyingOf(table) = FlyingOf(h.entries)
      /\ \A c : BackendHolds(h.entries, c) => BackendHolds(table, c)
      /\ \A c : ResponseHolds(h.entries, c) => ResponseHolds(table, c)
  BY <1>1, <1>3, <1>4, <1>5, AddHolds
<1> HIDE DEF table
<1>7. table \in Seq(EntryType)
  BY <1>6 DEF TableHolds
<1>8. /\ g \in ReadSideType /\ g.entries = table
      /\ g.backendCursor = h.backendCursor
      /\ g.backendCandidate = h.backendCandidate
      /\ g.responseCursor = h.responseCursor
      /\ g.responseCandidate = h.responseCandidate
      /\ g.toRd = h.toRd /\ g.rdRsp = h.rdRsp /\ g.l2 = h.l2 /\ g.ready = h.ready
  BY <1>1, <1>7 DEF ReadSideType
<1> HIDE DEF g
<1>9. CursorHolds(table, g.backendCursor) /\ CursorHolds(table, g.responseCursor)
  BY <1>6, <1>8 DEF ReadHolds, CursorHolds
<1>10. /\ BackendHolds(table, g.backendCandidate)
       /\ ResponseHolds(table, g.responseCandidate)
  BY <1>6, <1>8 DEF ReadHolds
<1>11. FlightsHold(table, g.toRd, g.rdRsp, v)
  BY <1>6, <1>8, FlightsSame DEF ReadHolds
<1>12. ReadHolds(g, v)
  BY <1>6, <1>8, <1>9, <1>10, <1>11 DEF ReadHolds
<1>13. LinesOf(g.entries) = LinesOf(h.entries) \cup {LineOf[r]}
  BY <1>3, <1>6, <1>8
<1> QED BY <1>12, <1>13 DEF g, table, e

(* A read bypasses the Home Agent. *)
LEMMA BypassHolds ==
  ASSUME NEW h, NEW v, ReadHolds(h, v), NEW r \in Reads
  PROVE  LET g == [h EXCEPT !.toRd = Append(@, r)]
         IN  ReadHolds(g, v) /\ g.entries = h.entries
<1> DEFINE asked == Append(h.toRd, r)
           g == [h EXCEPT !.toRd = asked]
<1>1. h \in ReadSideType /\ h.toRd \in Seq(Lines \cup Reads)
  BY DEF ReadHolds, ReadSideType
<1>2. FlightsHold(h.entries, h.toRd, h.rdRsp, v)
  BY DEF ReadHolds
<1>3. /\ asked \in Seq(Lines \cup Reads)
      /\ FlightsHold(h.entries, asked, h.rdRsp, v)
  BY <1>1, <1>2, FlightsBypass
<1> HIDE DEF asked
<1>4. /\ g \in ReadSideType /\ g.entries = h.entries
      /\ g.backendCursor = h.backendCursor
      /\ g.backendCandidate = h.backendCandidate
      /\ g.responseCursor = h.responseCursor
      /\ g.responseCandidate = h.responseCandidate
      /\ g.toRd = asked /\ g.rdRsp = h.rdRsp /\ g.l2 = h.l2 /\ g.ready = h.ready
  BY <1>1, <1>3 DEF ReadSideType
<1> HIDE DEF g
<1>5. ReadHolds(g, v)
  BY <1>3, <1>4 DEF ReadHolds
<1> QED BY <1>4, <1>5 DEF g, asked

(* accept_rd_into_home_agent: a line that gets an entry is not reserved. *)
LEMMA AcceptReadHolds ==
  ASSUME NEW h, NEW v, ReadHolds(h, v)
  PROVE  /\ ReadHolds(AcceptRead(h), v)
         /\ LinesOf(AcceptRead(h).entries) \subseteq LinesOf(h.entries) \cup (Lines \ writeLines)
<1> DEFINE r == Head(h.rdQ)
           x == LineOf[r]
           i == Index(h, x)
           free == h.rdQ # <<>> /\ x \notin writeLines
           bypass == free /\ ~InOneLine(r) /\ Len(h.toRd) < MemDepth
           joins == /\ free /\ InOneLine(r) /\ HasEntry(h, x) /\ h.entries[i].open
                    /\ Len(h.entries[i].waiters) < WaitersPerEntry
           opens == /\ free /\ InOneLine(r) /\ ~HasEntry(h, x)
                    /\ Len(h.entries) < EntryLimit
           a == Admit(h)
<1>1. ASSUME free
      PROVE  Same(h, a) /\ ReadHolds(a, v) /\ r \in Reads /\ x \in Lines
    BY <1>1, AdmitHolds, HomeAssumption
<1> HIDE DEF a, r
<1>2. CASE bypass
  <2>1. AcceptRead(h) = [a EXCEPT !.toRd = Append(@, r)]
    BY <1>2 DEF AcceptRead, a, r
  <2>2. ReadHolds(a, v) /\ r \in Reads /\ a.entries = h.entries
    BY <1>1, <1>2 DEF Same
  <2>3. ReadHolds(AcceptRead(h), v) /\ AcceptRead(h).entries = a.entries
    BY <2>1, <2>2, BypassHolds
  <2> QED BY <2>2, <2>3
<1>3. CASE joins
  <2>1. AcceptRead(h) = [a EXCEPT !.entries[i].waiters = Append(@, r)]
    BY <1>3 DEF AcceptRead, a, r
  <2>2. ReadHolds(a, v) /\ r \in Reads /\ a.entries = h.entries
    BY <1>1, <1>3 DEF Same
  <2>3. i \in DOMAIN a.entries /\ a.entries[i].line = x /\ InOneLine(r)
    BY <1>3, <2>2, IndexOf, HasEntryOf
  <2> HIDE DEF i
  <2>4. ReadHolds(AcceptRead(h), v) /\ LinesOf(AcceptRead(h).entries) = LinesOf(a.entries)
    <3>1. LET g == [a EXCEPT !.entries[i].waiters = Append(@, r)]
          IN  ReadHolds(g, v) /\ LinesOf(g.entries) = LinesOf(a.entries)
      BY <2>2, <2>3, JoinHolds
    <3> QED BY <2>1, <3>1, Zenon
  <2> QED BY <2>2, <2>4
<1>4. CASE opens
  <2>1. AcceptRead(h) = [a EXCEPT !.entries = Append(@, NewEntry(r))]
    BY <1>4 DEF AcceptRead, a, r
  <2>2. ReadHolds(a, v) /\ r \in Reads /\ a.entries = h.entries
    BY <1>1, <1>4 DEF Same
  <2>3. x \notin LinesOf(a.entries) /\ InOneLine(r)
    BY <1>4, <2>2, HasEntryOf
  <2>4. /\ ReadHolds(AcceptRead(h), v)
        /\ LinesOf(AcceptRead(h).entries) = LinesOf(a.entries) \cup {x}
    <3>1. LET g == [a EXCEPT !.entries = Append(@, NewEntry(r))]
          IN  ReadHolds(g, v) /\ LinesOf(g.entries) = LinesOf(a.entries) \cup {x}
      BY <2>2, <2>3, OpenEntryHolds
    <3> QED BY <2>1, <3>1, Zenon
  <2> QED BY <1>1, <1>4, <2>2, <2>4
<1>5. CASE ~bypass /\ ~joins /\ ~opens
  <2>1. AcceptRead(h) = h
    BY <1>5 DEF AcceptRead, a, r
  <2> QED BY <2>1
<1> QED BY <1>2, <1>3, <1>4, <1>5

(* Among the MISS entries, the one that is offered or the next. *)
LEMMA BackendLineOf ==
  ASSUME NEW h, NEW v, ReadHolds(h, v), BackendLine(h) # NoLine
  PROVE  /\ BackendLine(h) \in LinesOf(h.entries) /\ BackendLine(h) \in Lines
         /\ Entry(h, BackendLine(h)).state = "MISS"
<1>1. /\ TableHolds(h.entries, v) /\ CursorHolds(h.entries, h.backendCursor)
      /\ BackendHolds(h.entries, h.backendCandidate)
      /\ LinesOf(h.entries) \subseteq Lines
  BY LinesOfTable DEF ReadHolds, TableHolds
<1>2. CASE h.backendCandidate = NoLine
  <2>1. BackendLine(h) = FirstFrom(h, h.backendCursor, InState(h, "MISS"))
    BY <1>2 DEF BackendLine
  <2>2. BackendLine(h) \in InState(h, "MISS")
    BY <1>1, <2>1, FirstFromFinds
  <2> QED BY <1>1, <2>2, InStateOf
<1>3. CASE h.backendCandidate # NoLine
  <2>1. BackendLine(h) = h.backendCandidate
    BY <1>3 DEF BackendLine
  <2>2. BackendLine(h) \in InState(h, "MISS")
    BY <1>1, <1>3, <2>1 DEF BackendHolds, InState
  <2> QED BY <1>1, <2>2, InStateOf
<1> QED BY <1>2, <1>3

-----------------------------------------------------------------------------
(* Lines are asked of the memory *)

(* issue_home_agent_backend_read with room at the memory: the line is      *)
(* asked for as its entry leaves MISS.                                     *)
LEMMA CommitBackendHolds ==
  ASSUME NEW h, NEW v, ReadHolds(h, v), NEW x \in Lines, x \in LinesOf(h.entries),
         Entry(h, x).state = "MISS"
  PROVE  LET g == CommitBackend([h EXCEPT !.toRd = Append(@, x)], x)
         IN  ReadHolds(g, v) /\ LinesOf(g.entries) = LinesOf(h.entries)
<1> DEFINE i == Index(h, x)
           old == h.entries[i]
           e == [old EXCEPT !.state = "INFLIGHT"]
           table == Put(h.entries, i, e)
           asked == Append(h.toRd, x)
           next == After(h, x)
           m == [h EXCEPT !.toRd = asked]
           g == CommitBackend(m, x)
<1>1. /\ h \in ReadSideType /\ TableHolds(h.entries, v)
      /\ FlightsHold(h.entries, h.toRd, h.rdRsp, v)
  BY DEF ReadHolds
<1>2. i \in DOMAIN h.entries /\ old.line = x /\ old.state = "MISS"
  BY IndexOf
<1>3. /\ old \in EntryType /\ Sound(old, v)
      /\ \A j \in DOMAIN h.entries : h.entries[j].line = x => j = i
  BY <1>1, <1>2, EntryOf
<1>4. /\ e \in EntryType /\ e.line = x /\ e.state = "INFLIGHT"
      /\ e.next = old.next /\ e.waiters = old.waiters
  BY <1>2, <1>3 DEF EntryType
<1>5. Sound(e, v)
  BY <1>2, <1>3, <1>4 DEF Sound
<1>6. x \notin FlyingOf(h.entries)
  BY <1>2, <1>3 DEF FlyingOf
<1>7. next \in LinesOf(h.entries) /\ next \in Lines
  BY <1>1, AfterHolds, LinesOfTable DEF TableHolds
<1>8. g = [h EXCEPT !.entries = table, !.backendCursor = next,
                    !.backendCandidate = NoLine, !.toRd = asked]
  <2>1. /\ "entries" \in DOMAIN m /\ "toRd" \in DOMAIN h /\ "state" \in DOMAIN old
        /\ m.entries = h.entries
    BY <1>1, <1>3 DEF ReadSideType, EntryType
  <2>2. Index(m, x) = i /\ After(m, x) = next
    BY <2>1 DEF Index, After
  <2>3. g = [m EXCEPT !.entries[i].state = "INFLIGHT", !.backendCursor = next,
                      !.backendCandidate = NoLine]
    BY <2>2 DEF CommitBackend
  <2> HIDE DEF i, next, asked, g
  <2> QED BY <1>1, <1>2, <2>1, <2>3 DEF Put
<1>9. e.line = h.entries[i].line
  BY <1>2, <1>4
<1> HIDE DEF e, g, next, m
<1>10. /\ TableHolds(table, v)
       /\ LinesOf(table) = LinesOf(h.entries)
       /\ FlyingOf(table) = (FlyingOf(h.entries) \ {e.line})
                              \cup (IF e.state = "INFLIGHT" THEN {e.line} ELSE {})
       /\ \A c : ResponseHolds(h.entries, c)
                   /\ (c = e.line => /\ e.state = "RESPONDING"
                                     /\ e.next < Len(e.waiters))
                   => ResponseHolds(table, c)
  BY <1>1, <1>2, <1>4, <1>5, <1>9, PutHolds
<1> HIDE DEF table, i
<1>11. FlyingOf(table) = FlyingOf(h.entries) \cup {x}
  BY <1>4, <1>6, <1>10
<1>12. h.toRd \in Seq(Lines \cup Reads) /\ table \in Seq(EntryType)
  BY <1>1, <1>10 DEF ReadSideType, TableHolds
<1>13. /\ asked \in Seq(Lines \cup Reads)
       /\ FlightsHold(table, asked, h.rdRsp, v)
  BY <1>1, <1>6, <1>11, <1>12, FlightsAsk
<1> HIDE DEF asked
<1>14. /\ g \in ReadSideType /\ g.entries = table
       /\ g.backendCursor = next /\ g.backendCandidate = NoLine
       /\ g.responseCursor = h.responseCursor
       /\ g.responseCandidate = h.responseCandidate
       /\ g.toRd = asked /\ g.rdRsp = h.rdRsp /\ g.l2 = h.l2 /\ g.ready = h.ready
  BY <1>1, <1>7, <1>8, <1>12, <1>13 DEF ReadSideType
<1>15. CursorHolds(table, g.backendCursor) /\ CursorHolds(table, g.responseCursor)
  BY <1>7, <1>10, <1>14 DEF ReadHolds, CursorHolds
<1>16. BackendHolds(table, g.backendCandidate)
  BY <1>14 DEF BackendHolds
<1>17. ResponseHolds(table, g.responseCandidate)
  <2>1. ResponseHolds(h.entries, h.responseCandidate)
    BY DEF ReadHolds
  <2>2. h.responseCandidate = NoLine => ResponseHolds(table, h.responseCandidate)
    BY DEF ResponseHolds
  <2>3. h.responseCandidate = x => h.responseCandidate = NoLine
    BY <1>2, <1>3, <2>1 DEF ResponseHolds
  <2> QED BY <1>4, <1>10, <1>14, <2>1, <2>2, <2>3
<1>18. ReadHolds(g, v)
  BY <1>10, <1>13, <1>14, <1>15, <1>16, <1>17 DEF ReadHolds
<1>19. LinesOf(g.entries) = LinesOf(h.entries)
  BY <1>10, <1>14
<1> QED BY <1>18, <1>19 DEF g, m, asked

LEMMA IssueBackendHolds ==
  ASSUME NEW h, NEW v, ReadHolds(h, v)
  PROVE  /\ ReadHolds(IssueBackend(h), v)
         /\ LinesOf(IssueBackend(h).entries) = LinesOf(h.entries)
<1> DEFINE x == BackendLine(h)
           g == CommitBackend([h EXCEPT !.toRd = Append(@, x)], x)
           k == [h EXCEPT !.backendCandidate = x]
<1>1. CASE x = NoLine
  BY <1>1 DEF IssueBackend
<1>2. CASE x # NoLine /\ Len(h.toRd) >= MemDepth
  <2>1. IssueBackend(h) = k
    BY <1>2 DEF IssueBackend
  <2>2. x \in Lines /\ x \in LinesOf(h.entries) /\ Entry(h, x).state = "MISS"
    BY <1>2, BackendLineOf
  <2> HIDE DEF x
  <2>3. h \in ReadSideType
    BY DEF ReadHolds
  <2>4. /\ k \in ReadSideType /\ k.entries = h.entries
        /\ k.backendCursor = h.backendCursor /\ k.backendCandidate = x
        /\ k.responseCursor = h.responseCursor
        /\ k.responseCandidate = h.responseCandidate
        /\ k.toRd = h.toRd /\ k.rdRsp = h.rdRsp /\ k.l2 = h.l2 /\ k.ready = h.ready
    BY <2>2, <2>3 DEF ReadSideType
  <2>5. BackendHolds(h.entries, x)
    BY <2>2, IndexOf DEF BackendHolds
  <2> HIDE DEF k
  <2>6. ReadHolds(k, v)
    BY <2>4, <2>5 DEF ReadHolds
  <2> QED BY <2>1, <2>4, <2>6
<1>3. CASE x # NoLine /\ ~(Len(h.toRd) >= MemDepth)
  <2>1. IssueBackend(h) = g
    BY <1>3 DEF IssueBackend
  <2>2. x \in Lines /\ x \in LinesOf(h.entries) /\ Entry(h, x).state = "MISS"
    BY <1>3, BackendLineOf
  <2> HIDE DEF x
  <2>3. ReadHolds(g, v) /\ LinesOf(g.entries) = LinesOf(h.entries)
    BY <2>2, CommitBackendHolds
  <2> QED BY <2>1, <2>3
<1> QED BY <1>1, <1>2, <1>3

-----------------------------------------------------------------------------
(* The channels of the memory *)

(* A number that is wrapped once at most. *)
LEMMA Wrap ==
  ASSUME NEW n \in Nat \ {0}, NEW a \in 0 .. n - 1
  PROVE  a % n = a /\ (a + n) % n = a
<1>1. ASSUME NEW b \in Nat, NEW q \in Nat, NEW r \in 0 .. n - 1,
             NEW p \in Nat, NEW s \in 0 .. n - 1, b = n * q + r, b = n * p + s
      PROVE  r = s
  <2>1. ~(q < p)
    <3>1. ASSUME q < p PROVE n * q + n <= n * p
      BY <3>1, Multiples
    <3> QED BY <1>1, <3>1
  <2>2. ~(p < q)
    <3>1. ASSUME p < q PROVE n * p + n <= n * q
      BY <3>1, Multiples
    <3> QED BY <1>1, <3>1
  <2>3. p = q
    BY <2>1, <2>2
  <2> QED BY <1>1, <2>3
<1>2. /\ a \in Nat /\ a + n \in Nat /\ a \in 0 .. n - 1
      /\ a = n * 0 + a /\ a + n = n * 1 + a
  OBVIOUS
<1>3. /\ a % n \in 0 .. n - 1 /\ a = n * (a \div n) + (a % n)
      /\ a \div n \in Nat
  BY <1>2, Rest, Quotient
<1>4. /\ (a + n) % n \in 0 .. n - 1
      /\ a + n = n * ((a + n) \div n) + ((a + n) % n)
      /\ (a + n) \div n \in Nat
  BY <1>2, Rest, Quotient
<1> QED BY <1>1, <1>2, <1>3, <1>4

Rsp == [what : Lines \cup Reads, data : Versions]

(* What the responses of a channel answer. *)
LEMMA WhatParts ==
  ASSUME NEW s \in Seq(Rsp)
  PROVE  /\ What(s) \in Seq(Lines \cup Reads) /\ Len(What(s)) = Len(s)
         /\ DOMAIN What(s) = DOMAIN s
         /\ \A k \in DOMAIN s : What(s)[k] = s[k].what
<1>1. DOMAIN s = 1 .. Len(s) /\ Len(s) \in Nat
  OBVIOUS
<1>2. \A k \in DOMAIN s : s[k].what \in Lines \cup Reads
  <2>1. \A k \in DOMAIN s : s[k] \in Rsp
    OBVIOUS
  <2>2. \A e \in Rsp : e.what \in Lines \cup Reads
    BY DEF Rsp
  <2> QED BY <2>1, <2>2
<1> QED BY <1>1, <1>2 DEF What

LEMMA WhatTail ==
  ASSUME NEW s \in Seq(Rsp), s # <<>>
  PROVE  /\ What(s) # <<>> /\ Head(What(s)) = Head(s).what
         /\ What(Tail(s)) = Tail(What(s))
         /\ Tail(s) \in Seq(Rsp) /\ Head(s) \in Rsp
<1>1. /\ What(s) \in Seq(Lines \cup Reads) /\ Len(What(s)) = Len(s)
      /\ \A k \in DOMAIN s : What(s)[k] = s[k].what
  BY WhatParts
<1>2. /\ Tail(s) \in Seq(Rsp) /\ Head(s) \in Rsp /\ Len(s) \in Nat /\ Len(s) > 0
      /\ DOMAIN s = 1 .. Len(s) /\ Len(Tail(s)) = Len(s) - 1 /\ Head(s) = s[1]
      /\ \A k \in 1 .. Len(s) - 1 : Tail(s)[k] = s[k + 1]
  OBVIOUS
<1> DEFINE t == Tail(s)
<1>3. /\ t \in Seq(Rsp) /\ Len(t) = Len(s) - 1 /\ DOMAIN t = 1 .. Len(s) - 1
      /\ \A k \in 1 .. Len(s) - 1 : t[k] = s[k + 1]
  BY <1>2
<1> HIDE DEF t
<1> DEFINE w == What(s)
           u == What(t)
<1>4. /\ u \in Seq(Lines \cup Reads) /\ Len(u) = Len(s) - 1
      /\ \A k \in DOMAIN t : u[k] = t[k].what
  BY <1>3, WhatParts
<1> HIDE DEF w, u
<1>5. /\ w # <<>> /\ Head(w) = w[1] /\ Tail(w) \in Seq(Lines \cup Reads)
      /\ Len(Tail(w)) = Len(s) - 1
      /\ \A k \in 1 .. Len(s) - 1 : Tail(w)[k] = w[k + 1]
  BY <1>1, <1>2 DEF w
<1>6. \A k \in 1 .. Len(s) - 1 : u[k] = Tail(w)[k]
  <2> TAKE k \in 1 .. Len(s) - 1
  <2>1. k + 1 \in DOMAIN s
    BY <1>2
  <2> QED BY <1>1, <1>3, <1>4, <1>5, <2>1 DEF w
<1>7. u = Tail(w)
  <2> DEFINE x == Tail(w)
  <2>1. u \in Seq(Lines \cup Reads) /\ x \in Seq(Lines \cup Reads)
        /\ Len(u) = Len(x) /\ \A k \in 1 .. Len(x) : u[k] = x[k]
    BY <1>2, <1>4, <1>5, <1>6
  <2> HIDE DEF x
  <2>2. u = x
    BY <2>1
  <2> QED BY <2>2 DEF x
<1> QED BY <1>1, <1>2, <1>5, <1>7 DEF w, u, t

LEMMA WhatAppend ==
  ASSUME NEW s \in Seq(Rsp), NEW e \in Rsp
  PROVE  /\ What(Append(s, e)) = Append(What(s), e.what)
         /\ e.what \in Lines \cup Reads /\ Append(s, e) \in Seq(Rsp)
<1> DEFINE n == Len(s) + 1
           t == Append(s, e)
           w == What(s)
           u == What(t)
           a == Append(w, e.what)
<1>1. /\ t \in Seq(Rsp) /\ Len(s) \in Nat /\ DOMAIN s = 1 .. Len(s)
      /\ DOMAIN t = 1 .. n /\ Len(t) = n /\ t[n] = e
      /\ \A k \in 1 .. Len(s) : t[k] = s[k]
  OBVIOUS
<1>2. /\ w \in Seq(Lines \cup Reads) /\ Len(w) = Len(s)
      /\ \A k \in DOMAIN s : w[k] = s[k].what
  BY WhatParts
<1> HIDE DEF t
<1>3. /\ u \in Seq(Lines \cup Reads) /\ Len(u) = n
      /\ \A k \in DOMAIN t : u[k] = t[k].what
  BY <1>1, WhatParts
<1>4. e.what \in Lines \cup Reads
  BY DEF Rsp
<1> HIDE DEF w, u
<1>5. /\ a \in Seq(Lines \cup Reads) /\ Len(a) = n /\ a[n] = e.what
      /\ \A k \in 1 .. Len(s) : a[k] = w[k]
  BY <1>1, <1>2, <1>4
<1> HIDE DEF a
<1>6. \A k \in 1 .. n : u[k] = a[k]
  <2> TAKE k \in 1 .. n
  <2>1. CASE k = n
    BY <1>1, <1>3, <1>5, <2>1
  <2>2. CASE k \in 1 .. Len(s)
    <3>1. k \in DOMAIN s /\ k \in DOMAIN t /\ t[k] = s[k]
      BY <1>1, <2>2
    <3>2. u[k] = t[k].what /\ w[k] = s[k].what /\ a[k] = w[k]
      BY <1>2, <1>3, <1>5, <2>2, <3>1
    <3> QED BY <3>1, <3>2
  <2> QED BY <1>1, <2>1, <2>2
<1>7. u = a
  BY <1>1, <1>3, <1>5, <1>6
<1> QED BY <1>1, <1>4, <1>7 DEF t, w, u, a

(* A channel whose head answers something in S. *)
Answers(h, c, S) == h.rdRsp[c] # <<>> /\ Head(h.rdRsp[c]).what \in S

(* The search over the channels finds one if there is one. *)
LEMMA PortFromFinds ==
  ASSUME NEW h, h.port \in Ports, NEW S
  PROVE  /\ PortFrom(h, S) \in Ports \cup {RdPorts}
         /\ RdPorts \notin Ports
         /\ PortFrom(h, S) # RdPorts => Answers(h, PortFrom(h, S), S)
         /\ PortFrom(h, S) = RdPorts => \A c \in Ports : ~Answers(h, c, S)
<1> DEFINE at(k) == (h.port + k) % RdPorts
           found == {k \in Ports : Answers(h, at(k), S)}
           first == CHOOSE k \in found : \A j \in found : k <= j
<1>1. RdPorts \in Nat \ {0} /\ Ports = 0 .. RdPorts - 1
  BY HomeAssumption DEF Ports
<1>2. RdPorts \notin Ports /\ \A k \in Ports : at(k) \in Ports
  <2>1. RdPorts \notin Ports
    BY <1>1
  <2>2. ASSUME NEW k \in Ports PROVE at(k) \in Ports
    <3>1. h.port + k \in Nat
      BY <1>1
    <3> QED BY <1>1, <3>1, Rest
  <2> QED BY <2>1, <2>2
<1>3. PortFrom(h, S) = IF found = {} THEN RdPorts ELSE at(first)
  BY DEF PortFrom, Answers
<1>4. CASE found # {}
  <2>1. found \in SUBSET Nat
    BY <1>1
  <2>2. \E k \in found : \A j \in found : k <= j
    BY <1>4, <2>1, LeastOf
  <2> HIDE DEF found
  <2>3. first \in found
    BY <2>2
  <2> HIDE DEF first
  <2>4. first \in Ports /\ Answers(h, at(first), S)
    BY <2>3 DEF found
  <2> QED BY <1>2, <1>3, <1>4, <2>4
<1>5. CASE found = {}
  <2>1. PortFrom(h, S) = RdPorts
    BY <1>3, <1>5
  <2>2. ASSUME NEW c \in Ports, Answers(h, c, S)
        PROVE  FALSE
    <3> DEFINE k == IF h.port <= c THEN c - h.port ELSE c + RdPorts - h.port
    <3>1. k \in Ports /\ (h.port + k = c \/ h.port + k = c + RdPorts)
      BY <1>1
    <3>2. c % RdPorts = c /\ (c + RdPorts) % RdPorts = c
      BY <1>1, Wrap
    <3> HIDE DEF k
    <3>3. at(k) = c
      BY <3>1, <3>2
    <3>4. k \in found
      BY <2>2, <3>1, <3>3
    <3> QED BY <1>5, <3>4
  <2> QED BY <1>2, <2>1, <2>2
<1> QED BY <1>4, <1>5

(* A response is taken off its channel. *)
LEMMA FlightsPop ==
  ASSUME NEW table, NEW toRd, NEW v, NEW rdRsp \in [Ports -> Seq(Rsp)],
         FlightsHold(table, toRd, rdRsp, v),
         NEW c \in Ports, rdRsp[c] # <<>>,
         NEW t, FlyingOf(t) = FlyingOf(table) \ {Head(rdRsp[c]).what}
  PROVE  LET popped == [rdRsp EXCEPT ![c] = Tail(@)]
         IN  /\ popped \in [Ports -> Seq(Rsp)]
             /\ FlightsHold(t, toRd, popped, v)
<1> DEFINE s == rdRsp[c]
           x == Head(s).what
           popped == [rdRsp EXCEPT ![c] = Tail(@)]
           old(d) == In(What(rdRsp[d]), Lines)
           new(d) == In(What(popped[d]), Lines)
<1>1. s \in Seq(Rsp) /\ s # <<>>
  OBVIOUS
<1>2. /\ What(s) # <<>> /\ Head(What(s)) = x /\ What(Tail(s)) = Tail(What(s))
      /\ Tail(s) \in Seq(Rsp) /\ Head(s) \in Rsp /\ What(s) \in Seq(Lines \cup Reads)
  BY <1>1, WhatTail, WhatParts
<1>3. /\ popped \in [Ports -> Seq(Rsp)] /\ popped[c] = Tail(s)
      /\ \A d \in Ports : d # c => popped[d] = rdRsp[d]
  BY <1>2
<1>4. /\ Once(What(s), Lines) /\ Once(toRd, Lines)
  BY DEF FlightsHold
<1>5. /\ Once(What(Tail(s)), Lines)
      /\ In(What(Tail(s)), Lines) = In(What(s), Lines) \ {x}
      /\ x \in Lines => x \in In(What(s), Lines)
  <2> DEFINE w == What(s)
  <2>1. w \in Seq(Lines \cup Reads) /\ w # <<>> /\ Once(w, Lines)
    BY <1>2, <1>4
  <2>2. Head(w) = x /\ What(Tail(s)) = Tail(w)
    BY <1>2
  <2> HIDE DEF w, x
  <2>3. /\ Once(Tail(w), Lines)
        /\ In(Tail(w), Lines) = In(w, Lines) \ {Head(w)}
        /\ Head(w) \in Lines => Head(w) \in In(w, Lines)
    BY <2>1, TailOnce
  <2>4. /\ Once(What(Tail(s)), Lines)
        /\ In(What(Tail(s)), Lines) = In(w, Lines) \ {x}
        /\ x \in Lines => x \in In(w, Lines)
    BY <2>2, <2>3
  <2> QED BY <2>4 DEF w
<1> HIDE DEF x, popped
<1>7. new(c) = old(c) \ {x} /\ \A d \in Ports : d # c => new(d) = old(d)
  BY <1>3, <1>5
<1>8. /\ \A d \in Ports : In(toRd, Lines) \cap old(d) = {}
      /\ \A d, e \in Ports : old(d) \cap old(e) # {} => d = e
      /\ \A d \in Ports : Once(What(rdRsp[d]), Lines)
      /\ \A y : y \in FlyingOf(table) <=>
                  y \in In(toRd, Lines) \/ \E d \in Ports : y \in old(d)
      /\ \A d \in Ports : \A k \in DOMAIN rdRsp[d] :
           rdRsp[d][k].what \in Lines => Current(rdRsp[d][k].data, rdRsp[d][k].what, v)
  BY DEF FlightsHold
<1>9. \A d \in Ports : Once(What(popped[d]), Lines)
  BY <1>3, <1>5, <1>8
<1>10. x \in Lines => x \in old(c)
  BY <1>5
<1>11. \A d \in Ports : old(d) \subseteq Lines /\ In(toRd, Lines) \subseteq Lines
  BY DEF In
<1>12. \A d \in Ports : \A k \in DOMAIN popped[d] :
         popped[d][k].what \in Lines => Current(popped[d][k].data, popped[d][k].what, v)
  <2>1. ASSUME NEW k \in DOMAIN Tail(s)
        PROVE  k + 1 \in DOMAIN s /\ Tail(s)[k] = s[k + 1]
    BY <1>1, <2>1
  <2>2. \A k \in DOMAIN Tail(s) :
          Tail(s)[k].what \in Lines => Current(Tail(s)[k].data, Tail(s)[k].what, v)
    <3> TAKE k \in DOMAIN Tail(s)
    <3> DEFINE e == Tail(s)[k]
    <3>1. \E j \in DOMAIN rdRsp[c] : e = rdRsp[c][j]
      BY <2>1
    <3> HIDE DEF e
    <3>2. e.what \in Lines => Current(e.data, e.what, v)
      BY <1>8, <3>1
    <3> QED BY <3>2 DEF e
  <2>3. \A d \in Ports : d # c =>
          \A k \in DOMAIN popped[d] :
            popped[d][k].what \in Lines => Current(popped[d][k].data, popped[d][k].what, v)
    BY <1>3, <1>8
  <2> HIDE DEF popped
  <2>4. popped[c] = Tail(s)
    BY <1>3
  <2> TAKE d \in Ports
  <2>5. CASE d = c
    BY <2>2, <2>4, <2>5
  <2>6. CASE d # c
    BY <2>3, <2>6
  <2> QED BY <2>5, <2>6
<1> HIDE DEF old, new
<1>13. \A d \in Ports : In(toRd, Lines) \cap new(d) = {}
  BY <1>7, <1>8
<1>14. \A d, e \in Ports : new(d) \cap new(e) # {} => d = e
  BY <1>7, <1>8
<1>15. \A y : y \in FlyingOf(t) <=>
                y \in In(toRd, Lines) \/ \E d \in Ports : y \in new(d)
  <2> TAKE y
  <2>1. y \in FlyingOf(t) <=> y \in FlyingOf(table) /\ y # x
    BY DEF x
  <2>2. CASE y = x
    BY <1>7, <1>8, <1>10, <1>11, <2>1, <2>2
  <2>3. CASE y # x
    BY <1>7, <1>8, <2>1, <2>3
  <2> QED BY <2>2, <2>3
<1>16. FlightsHold(t, toRd, popped, v)
  BY <1>4, <1>9, <1>12, <1>13, <1>14, <1>15 DEF FlightsHold, new
<1> QED BY <1>3, <1>16 DEF popped

(* A line response at the head of a channel is that of an entry in flight. *)
LEMMA HeadIsCurrent ==
  ASSUME NEW table, NEW toRd, NEW v, NEW rdRsp \in [Ports -> Seq(Rsp)],
         FlightsHold(table, toRd, rdRsp, v),
         NEW c \in Ports, rdRsp[c] # <<>>, Head(rdRsp[c]).what \in Lines
  PROVE  /\ Current(Head(rdRsp[c]).data, Head(rdRsp[c]).what, v)
         /\ Head(rdRsp[c]).what \in FlyingOf(table)
<1> DEFINE s == rdRsp[c]
<1>1. s \in Seq(Rsp) /\ s # <<>>
  OBVIOUS
<1>2. 1 \in DOMAIN s /\ Head(s) = s[1]
  BY <1>1
<1>3. What(s)[1] = Head(s).what /\ 1 \in DOMAIN What(s)
  BY <1>1, <1>2, WhatParts
<1>4. Head(s).what \in In(What(rdRsp[c]), Lines)
  BY <1>3 DEF In
<1> QED BY <1>2, <1>4 DEF FlightsHold

(* The table, its cursors and its candidates stay. *)
SameTable(h, g) ==
  /\ g.entries = h.entries
  /\ g.backendCursor = h.backendCursor
  /\ g.backendCandidate = h.backendCandidate
  /\ g.responseCursor = h.responseCursor
  /\ g.responseCandidate = h.responseCandidate

LEMMA PopParts ==
  ASSUME NEW h \in ReadSideType, NEW c \in Ports, h.rdRsp[c] # <<>>
  PROVE  /\ PopResponse(h, c) \in ReadSideType
         /\ SameTable(h, PopResponse(h, c)) /\ SameBuffer(h, PopResponse(h, c))
         /\ PopResponse(h, c).toRd = h.toRd
         /\ PopResponse(h, c).rdRsp = [h.rdRsp EXCEPT ![c] = Tail(@)]
<1> DEFINE popped == [h.rdRsp EXCEPT ![c] = Tail(@)]
           p == (c + 1) % RdPorts
           g == PopResponse(h, c)
<1>1. h.rdRsp \in [Ports -> Seq(Rsp)]
  BY DEF ReadSideType, Rsp
<1>2. popped \in [Ports -> Seq(Rsp)]
  BY <1>1
<1>3. p \in Ports
  <2>1. RdPorts \in Nat \ {0} /\ c + 1 \in Nat
    BY HomeAssumption DEF Ports
  <2> QED BY <2>1, Rest DEF Ports
<1>4. g = [h EXCEPT !.rdRsp = popped, !.port = p]
  BY DEF PopResponse, ReadSideType
<1> HIDE DEF popped, p, g
<1>5. g \in ReadSideType
  BY <1>2, <1>3, <1>4 DEF ReadSideType, Rsp
<1>6. SameTable(h, g) /\ SameBuffer(h, g) /\ g.toRd = h.toRd /\ g.rdRsp = popped
  BY <1>4 DEF ReadSideType, SameTable, SameBuffer
<1> QED BY <1>5, <1>6 DEF g, popped

(* capture_home_agent_backend_rsp: what is captured is current; when       *)
(* nothing is, no line response is at the head of a channel.               *)
LEMMA CaptureHolds ==
  ASSUME NEW h, NEW v, ReadHolds(h, v)
  PROVE  /\ ReadHolds(Capture(h), v)
         /\ LinesOf(Capture(h).entries) = LinesOf(h.entries)
         /\ \/ HasResponse(Capture(h))
            \/ \A c \in Ports : ~Answers(Capture(h), c, FlyingOf(Capture(h).entries))
<1> DEFINE c == PortFrom(h, InState(h, "INFLIGHT"))
           rsp == Head(h.rdRsp[c])
           x == rsp.what
           d == rsp.data
           r == Respond(h, x, d)
           g == PopResponse(r, c)
<1>1. /\ h \in ReadSideType /\ h.port \in Ports /\ TableHolds(h.entries, v)
      /\ FlightsHold(h.entries, h.toRd, h.rdRsp, v)
      /\ h.rdRsp \in [Ports -> Seq(Rsp)]
  BY DEF ReadHolds, ReadSideType, Rsp
<1>2. /\ c \in Ports \cup {RdPorts} /\ RdPorts \notin Ports
      /\ c # RdPorts => Answers(h, c, InState(h, "INFLIGHT"))
      /\ c = RdPorts => \A e \in Ports : ~Answers(h, e, InState(h, "INFLIGHT"))
  BY <1>1, PortFromFinds
<1>3. InState(h, "INFLIGHT") = FlyingOf(h.entries)
  BY DEF InState, FlyingOf
<1>4. CASE c = RdPorts
  <2>1. Capture(h) = h
    BY <1>4 DEF Capture
  <2> QED BY <1>2, <1>3, <1>4, <2>1
<1>5. CASE c # RdPorts
  <2>1. Capture(h) = g
    BY <1>5 DEF Capture
  <2>2. c \in Ports /\ Answers(h, c, InState(h, "INFLIGHT"))
    BY <1>2, <1>5
  <2> HIDE DEF c
  <2>3. h.rdRsp[c] # <<>> /\ x \in InState(h, "INFLIGHT") /\ rsp \in Rsp
    BY <1>1, <2>2 DEF Answers
  <2>4. x \in LinesOf(h.entries) /\ Entry(h, x).state = "INFLIGHT" /\ x \in Lines
    BY <1>1, <2>3, InStateOf, LinesOfTable DEF TableHolds
  <2>5. d \in Versions
    <3>1. \A e \in Rsp : e.data \in Versions
      BY DEF Rsp
    <3> QED BY <2>3, <3>1
  <2>6. Current(d, x, v)
    BY <1>1, <2>2, <2>3, <2>4, HeadIsCurrent
  <2> HIDE DEF x, d
  <2>7. /\ TableSide(r, v) /\ SameChannels(h, r) /\ SameBuffer(h, r)
        /\ r.port = h.port
        /\ LinesOf(r.entries) = LinesOf(h.entries)
        /\ FlyingOf(r.entries) = FlyingOf(h.entries) \ {x}
        /\ Answering(r, x)
    BY <2>4, <2>5, <2>6, RespondHolds
  <2> HIDE DEF r
  <2>8. FlightsHold(r.entries, h.toRd, [h.rdRsp EXCEPT ![c] = Tail(@)], v)
    BY <1>1, <2>2, <2>3, <2>7, FlightsPop DEF x
  <2>9. r \in ReadSideType /\ r.rdRsp = h.rdRsp /\ r.toRd = h.toRd
    BY <2>7 DEF TableSide, SameChannels
  <2>10. /\ g \in ReadSideType /\ SameTable(r, g) /\ SameBuffer(r, g)
         /\ g.toRd = h.toRd /\ g.rdRsp = [h.rdRsp EXCEPT ![c] = Tail(@)]
    BY <2>2, <2>3, <2>9, PopParts
  <2> HIDE DEF g
  <2>11. ReadHolds(g, v)
    <3>1. BufferHolds(g.l2, g.ready)
      BY <2>7, <2>10 DEF SameBuffer, ReadHolds
    <3> QED BY <2>7, <2>8, <2>10, <3>1 DEF ReadHolds, TableSide, SameTable
  <2>12. HasResponse(g)
    BY <2>7, <2>10 DEF HasResponse, SameTable, Answering
  <2> QED BY <2>1, <2>7, <2>10, <2>11, <2>12 DEF SameTable
<1> QED BY <1>4, <1>5

-----------------------------------------------------------------------------
(* The L2 Buffer takes responses *)

(* Only what the L2 Buffer holds changes. *)
LEMMA BufferChanges ==
  ASSUME NEW h, NEW v, ReadHolds(h, v), NEW g \in ReadSideType,
         SameTable(h, g), SameChannels(h, g), BufferHolds(g.l2, g.ready)
  PROVE  ReadHolds(g, v)
BY DEF ReadHolds, SameTable, SameChannels

(* An envelope of reads. *)
Envelope == [group : Nat, reads : Seq(Reads), data : Versions]

(* The buffer holds one more. *)
LEMMA EnqueueHolds ==
  ASSUME NEW h, NEW v, ReadHolds(h, v), NEW envelope \in Envelope
  PROVE  /\ ReadHolds(Enqueue(h, envelope), v)
         /\ SameTable(h, Enqueue(h, envelope)) /\ SameChannels(h, Enqueue(h, envelope))
         /\ Enqueue(h, envelope).port = h.port
         /\ Enqueue(h, envelope).pending = h.pending
         /\ Enqueue(h, envelope).token = h.token
         /\ Enqueue(h, envelope).open = h.open
<1> DEFINE l2 == Append(h.l2, envelope)
           g == Enqueue(h, envelope)
           E == [group : Nat, reads : Seq(Lines \cup Reads), data : Versions]
<1>1. h \in ReadSideType /\ BufferHolds(h.l2, h.ready)
  BY DEF ReadHolds
<1>2. h.l2 \in Seq(E) /\ h.ready \in Nat
  BY <1>1 DEF ReadSideType
<1>3. envelope \in E /\ envelope.reads \in Seq(Reads)
  BY DEF Envelope
<1> HIDE DEF E
<1>4. /\ l2 \in Seq(E) /\ Len(h.l2) \in Nat /\ Len(l2) = Len(h.l2) + 1
      /\ \A i \in DOMAIN l2 :
           \/ i \in DOMAIN h.l2 /\ l2[i] = h.l2[i]
           \/ l2[i] = envelope
  BY <1>2, <1>3
<1>5. BufferHolds(l2, h.ready)
  BY <1>1, <1>2, <1>3, <1>4 DEF BufferHolds
<1> HIDE DEF l2
<1>6. g = [h EXCEPT !.l2 = l2]
  BY <1>1 DEF Enqueue, l2, ReadSideType
<1>7. /\ g \in ReadSideType /\ g.l2 = l2 /\ g.ready = h.ready
      /\ SameTable(h, g) /\ SameChannels(h, g)
      /\ g.port = h.port /\ g.pending = h.pending
      /\ g.token = h.token /\ g.open = h.open
  BY <1>1, <1>4, <1>6 DEF ReadSideType, SameTable, SameChannels, E
<1> HIDE DEF g
<1>8. ReadHolds(g, v)
  BY <1>5, <1>7, BufferChanges
<1> QED BY <1>7, <1>8 DEF g

LEMMA UnicastHolds ==
  ASSUME NEW h, NEW v, ReadHolds(h, v), NEW r \in Reads, NEW d \in Versions
  PROVE  LET b == Enqueue(h, Unicast(r, d))
         IN  /\ ReadHolds(b, v) /\ SameTable(h, b) /\ SameChannels(h, b)
             /\ b.port = h.port
<1>1. Unicast(r, d) \in Envelope
  BY DEF Unicast, Envelope
<1> QED BY <1>1, EnqueueHolds

LEMMA HeadIsRsp ==
  ASSUME NEW rdRsp \in [Ports -> Seq(Rsp)], NEW c \in Ports, rdRsp[c] # <<>>
  PROVE  Head(rdRsp[c]) \in Rsp
<1> DEFINE q == rdRsp[c]
<1>1. q \in Seq(Rsp) /\ q # <<>>
  OBVIOUS
<1> HIDE DEF q
<1>2. Head(q) \in Rsp
  BY <1>1
<1> QED BY <1>2 DEF q

(* recv_rd_cmd_rsp: the head it takes is a read that bypassed the agent,   *)
(* because no line response is at the head of a channel.                   *)
LEMMA DirectResponseHolds ==
  ASSUME NEW h, NEW v, ReadHolds(h, v),
         \A c \in Ports : ~Answers(h, c, FlyingOf(h.entries))
  PROVE  /\ ReadHolds(DirectResponse(h), v)
         /\ DirectResponse(h).entries = h.entries
<1> DEFINE c == PortFrom(h, Reads \cup Lines)
           r == Head(h.rdRsp[c]).what
           d == Head(h.rdRsp[c]).data
           b == Enqueue(h, Unicast(r, d))
           p == PopResponse(b, c)
<1>1. /\ h \in ReadSideType /\ h.port \in Ports
      /\ FlightsHold(h.entries, h.toRd, h.rdRsp, v)
      /\ h.rdRsp \in [Ports -> Seq(Rsp)]
  BY DEF ReadHolds, ReadSideType, Rsp
<1>2. /\ c \in Ports \cup {RdPorts} /\ RdPorts \notin Ports
      /\ c # RdPorts => Answers(h, c, Reads \cup Lines)
  BY <1>1, PortFromFinds
<1>3. CASE c = RdPorts \/ ~HasCapacity(h)
  <2>1. DirectResponse(h) = h
    BY <1>3 DEF DirectResponse
  <2> QED BY <2>1
<1>4. CASE ~(c = RdPorts \/ ~HasCapacity(h))
  <2>1. DirectResponse(h) = Retire(p)
    BY <1>4 DEF DirectResponse
  <2>2. c \in Ports /\ h.rdRsp[c] # <<>> /\ r \in Reads \cup Lines
    BY <1>2, <1>4 DEF Answers
  <2>23. d \in Versions
    BY <1>1, <2>2, HeadIsRsp DEF Rsp
  <2>3. r \in Lines => r \in FlyingOf(h.entries)
    BY <1>1, <2>2, HeadIsCurrent
  <2>4. r \in Reads
    BY <2>2, <2>3 DEF Answers
  <2>5. r \notin Lines
    BY <2>4, HomeAssumption
  <2> HIDE DEF c, r, d
  <2>6. /\ ReadHolds(b, v) /\ SameTable(h, b) /\ SameChannels(h, b)
    BY <2>4, <2>23, UnicastHolds
  <2> HIDE DEF b
  <2>7. b \in ReadSideType /\ b.rdRsp = h.rdRsp /\ b.toRd = h.toRd
        /\ b.entries = h.entries /\ BufferHolds(b.l2, b.ready)
    BY <2>6 DEF ReadHolds, SameTable, SameChannels
  <2>8. /\ p \in ReadSideType /\ SameTable(b, p) /\ SameBuffer(b, p)
        /\ p.toRd = h.toRd /\ p.rdRsp = [h.rdRsp EXCEPT ![c] = Tail(@)]
    BY <2>2, <2>7, PopParts
  <2> HIDE DEF p
  <2>9. FlyingOf(h.entries) = FlyingOf(h.entries) \ {r}
    <3>1. FlyingOf(h.entries) \subseteq Lines
      BY <1>1 DEF FlightsHold, In
    <3> QED BY <2>5, <3>1
  <2>10. FlightsHold(h.entries, p.toRd, p.rdRsp, v)
    <3>1. FlyingOf(h.entries) = FlyingOf(h.entries) \ {Head(h.rdRsp[c]).what}
      BY <2>9 DEF r
    <3>2. FlightsHold(h.entries, h.toRd, [h.rdRsp EXCEPT ![c] = Tail(@)], v)
      BY <1>1, <2>2, <3>1, FlightsPop
    <3> QED BY <2>8, <3>2
  <2>11. ReadHolds(p, v) /\ p.entries = h.entries
    BY <2>6, <2>7, <2>8, <2>10 DEF ReadHolds, SameTable, SameBuffer
  <2> QED BY <2>1, <2>11, RetireHolds
<1> QED BY <1>3, <1>4

(* The search from a cursor goes all the way round. *)
LEMMA FirstFromFindsAll ==
  ASSUME NEW h, NEW v, TableHolds(h.entries, v), NEW c, CursorHolds(h.entries, c),
         NEW S, NEW x, x \in S, x \in LinesOf(h.entries)
  PROVE  FirstFrom(h, c, S) \in S \cap LinesOf(h.entries)
<1> DEFINE n == Len(h.entries)
           start == IF c = NoLine THEN 0 ELSE Index(h, c) - 1
           at(k) == h.entries[((start + k) % n) + 1].line
           found == {k \in 0 .. n - 1 : at(k) \in S}
<1>1. PICK i \in DOMAIN h.entries : h.entries[i].line = x
  BY DEF LinesOf
<1>2. n \in Nat \ {0} /\ DOMAIN h.entries = 1 .. n /\ i \in 1 .. n
  BY <1>1 DEF TableHolds
<1>3. start \in 0 .. n - 1
  BY <1>2, IndexOf DEF CursorHolds
<1> HIDE DEF n, start
<1> DEFINE k == IF start <= i - 1 THEN i - 1 - start ELSE i - 1 + n - start
<1>4. k \in 0 .. n - 1 /\ (start + k = i - 1 \/ start + k = (i - 1) + n)
  BY <1>2, <1>3
<1>5. i - 1 \in 0 .. n - 1
  BY <1>2
<1>6. (i - 1) % n = i - 1 /\ ((i - 1) + n) % n = i - 1
  BY <1>2, <1>5, Wrap
<1> HIDE DEF k
<1>7. ((start + k) % n) + 1 = i
  <2>1. (start + k) % n = i - 1
    BY <1>4, <1>6, Zenon
  <2> QED BY <1>2, <2>1
<1>8. k \in found
  <2>1. at(k) = x
    BY <1>1, <1>7, Zenon
  <2>2. at(k) \in S
    BY <2>1
  <2> HIDE DEF at
  <2> QED BY <1>4, <2>2
<1>9. FirstFrom(h, c, S) \in (S \cap LinesOf(h.entries)) \cup {NoLine}
  BY FirstFromFinds
<1>10. FirstFrom(h, c, S) # NoLine
  <2> DEFINE first == CHOOSE j \in found : \A m \in found : j <= m
  <2>1. FirstFrom(h, c, S) = at(first)
    BY <1>8 DEF FirstFrom, start, n
  <2>2. \E j \in found : \A m \in found : j <= m
    <3>1. found \in SUBSET Nat /\ found # {}
      BY <1>2, <1>8
    <3> HIDE DEF found
    <3> QED BY <3>1, LeastOf
  <2> HIDE DEF found
  <2>3. first \in found
    BY <2>2
  <2> HIDE DEF first
  <2>4. first \in 0 .. n - 1
    BY <2>3 DEF found
  <2>5. ((start + first) % n) + 1 \in 1 .. n
    <3>1. start + first \in Nat
      BY <1>2, <1>3, <2>4
    <3>2. (start + first) % n \in 0 .. n - 1
      BY <1>2, <3>1, Rest
    <3> QED BY <1>2, <3>2
  <2>6. at(first) \in LinesOf(h.entries)
    BY <1>2, <2>5 DEF LinesOf
  <2>7. LinesOf(h.entries) \subseteq Lines
    BY LinesOfTable DEF TableHolds
  <2> QED BY <2>1, <2>6, <2>7, HomeAssumption
<1> QED BY <1>9, <1>10

(* The entry whose response is offered has a waiter left. *)
LEMMA ResponseLineOf ==
  ASSUME NEW h, NEW v, ReadHolds(h, v), HasResponse(h)
  PROVE  /\ ResponseLine(h) \in LinesOf(h.entries) /\ ResponseLine(h) \in Lines
         /\ Entry(h, ResponseLine(h)).state = "RESPONDING"
         /\ Entry(h, ResponseLine(h)).next < Len(Entry(h, ResponseLine(h)).waiters)
<1> DEFINE S == {x \in InState(h, "RESPONDING") :
                   Entry(h, x).next < Len(Entry(h, x).waiters)}
<1>1. /\ TableHolds(h.entries, v) /\ CursorHolds(h.entries, h.responseCursor)
      /\ ResponseHolds(h.entries, h.responseCandidate)
      /\ LinesOf(h.entries) \subseteq Lines
  BY LinesOfTable DEF ReadHolds, TableHolds
<1>2. ASSUME NEW i \in DOMAIN h.entries, h.entries[i].state = "RESPONDING",
             h.entries[i].next < Len(h.entries[i].waiters)
      PROVE  h.entries[i].line \in S /\ h.entries[i].line \in LinesOf(h.entries)
  <2>1. h.entries[i].line \in LinesOf(h.entries)
    BY DEF LinesOf
  <2>2. Entry(h, h.entries[i].line) = h.entries[i]
    BY <1>1, <2>1, IndexOf DEF TableHolds
  <2> QED BY <1>1, <1>2, <2>1, <2>2, InStateOf
<1>3. ResponseLine(h) \in S /\ ResponseLine(h) \in LinesOf(h.entries)
  <2>1. CASE h.responseCandidate # NoLine
    BY <1>1, <1>2, <2>1 DEF ResponseLine, ResponseHolds
  <2>2. CASE h.responseCandidate = NoLine
    <3>1. PICK i \in DOMAIN h.entries : /\ h.entries[i].state = "RESPONDING"
                                        /\ h.entries[i].next < Len(h.entries[i].waiters)
      BY <2>2 DEF HasResponse
    <3>2. h.entries[i].line \in S /\ h.entries[i].line \in LinesOf(h.entries)
      BY <1>2, <3>1
    <3>3. ResponseLine(h) = FirstFrom(h, h.responseCursor, S)
      BY <2>2 DEF ResponseLine
    <3> HIDE DEF S
    <3> QED BY <1>1, <3>2, <3>3, FirstFromFindsAll
  <2> QED BY <2>1, <2>2
<1>4. Entry(h, ResponseLine(h)).state = "RESPONDING"
  BY <1>1, <1>3, InStateOf
<1> QED BY <1>1, <1>3, <1>4

CandidateType == [eligible : BOOLEAN, group : Nat, cached : BOOLEAN]

LEMMA CandidateOf ==
  ASSUME NEW e \in EntryType
  PROVE  Candidate(e) \in CandidateType
<1>1. e.open \in BOOLEAN /\ e.group \in Nat /\ e.candidate \in CandidateType
  BY DEF EntryType, CandidateType
<1> DEFINE d == DistinctMasters(e.waiters)
           b == e.open /\ d
<1>2. b \in BOOLEAN
  BY <1>1, Zenon
<1> HIDE DEF b
<1>3. CASE e.candidate.cached
  BY <1>1, <1>3 DEF Candidate
<1>4. CASE ~e.candidate.cached
  <2> DEFINE g == IF b THEN e.group ELSE 0
  <2>1. g \in Nat
    BY <1>1
  <2>2. Candidate(e) = [eligible |-> b, cached |-> TRUE, group |-> g]
    BY <1>4, Zenon DEF Candidate, b
  <2> HIDE DEF g
  <2> DEFINE t == TRUE
  <2>3. t \in BOOLEAN
    OBVIOUS
  <2>4. Candidate(e) = [eligible |-> b, cached |-> t, group |-> g]
    BY <2>2
  <2> HIDE DEF t
  <2> QED BY <1>2, <2>1, <2>3, <2>4 DEF CandidateType
<1> QED BY <1>3, <1>4

(* What is offered is the next waiter of its entry. *)
LEMMA OfferedParts ==
  ASSUME NEW h, NEW v, ReadHolds(h, v), HasResponse(h)
  PROVE  /\ Offered(h).line = ResponseLine(h)
         /\ Offered(h).read \in Reads
         /\ Offered(h).data \in Versions
         /\ Offered(h).candidate \in CandidateType
<1> DEFINE x == ResponseLine(h)
           e == Entry(h, x)
<1>1. /\ x \in LinesOf(h.entries) /\ e.next < Len(e.waiters)
      /\ TableHolds(h.entries, v)
  BY ResponseLineOf DEF ReadHolds
<1> HIDE DEF x
<1>2. Index(h, x) \in DOMAIN h.entries /\ e = h.entries[Index(h, x)]
      /\ h.entries[Index(h, x)].line = x
  BY <1>1, IndexOf
<1>3. e \in EntryType /\ e.line = x
  BY <1>1, <1>2, EntryOf
<1> HIDE DEF e
<1>4. e.waiters \in Seq(Reads) /\ e.next \in Nat /\ e.data \in Versions
  BY <1>3 DEF EntryType
<1>5. e.waiters[e.next + 1] \in Reads
  BY <1>1, <1>4
<1>6. Offered(h).line = e.line /\ Offered(h).read = e.waiters[e.next + 1]
      /\ Offered(h).data = e.data /\ Offered(h).candidate = Candidate(e)
  BY DEF Offered, e, x
<1> QED BY <1>3, <1>4, <1>5, <1>6, CandidateOf DEF x

(* A response that is refused stays the one that is offered. *)
LEMMA KeepCandidateHolds ==
  ASSUME NEW h, NEW v, ReadHolds(h, v), NEW o, o.line \in LinesOf(h.entries),
         o.line \in Lines, Entry(h, o.line).state = "RESPONDING",
         Entry(h, o.line).next < Len(Entry(h, o.line).waiters),
         o.candidate \in CandidateType
  PROVE  /\ ReadHolds(KeepCandidate(h, o), v)
         /\ LinesOf(KeepCandidate(h, o).entries) = LinesOf(h.entries)
         /\ KeepCandidate(h, o).l2 = h.l2
<1> DEFINE x == o.line
           i == Index(h, x)
           old == h.entries[i]
           e == [old EXCEPT !.candidate = o.candidate]
           k == [h EXCEPT !.entries = Put(@, i, e)]
           g == KeepCandidate(h, o)
<1>1. /\ TableHolds(h.entries, v) /\ h \in ReadSideType
      /\ i \in DOMAIN h.entries /\ old.line = x /\ old = Entry(h, x)
  BY IndexOf DEF ReadHolds
<1>2. old \in EntryType /\ Sound(old, v)
  BY <1>1, EntryOf
<1>3. /\ e \in EntryType /\ e.line = old.line /\ e.state = old.state
      /\ e.next = old.next /\ e.waiters = old.waiters /\ e.data = old.data
  BY <1>2 DEF EntryType, CandidateType
<1>4. Sound(e, v) /\ Len(old.waiters) \in Nat
  <2>1. Len(old.waiters) \in Nat
    BY <1>2 DEF EntryType
  <2> HIDE DEF e, old
  <2> QED BY <1>2, <1>3, <2>1 DEF Sound
<1>5. g = [k EXCEPT !.responseCandidate = x]
  BY <1>1 DEF KeepCandidate, Put, ReadSideType
<1>6. /\ e.line = h.entries[i].line /\ e.state = h.entries[i].state
      /\ e.next = h.entries[i].next /\ Len(e.waiters) >= Len(h.entries[i].waiters)
  BY <1>3, <1>4
<1>7. e.state = "RESPONDING" /\ e.next < Len(e.waiters) /\ e.line = x
  BY <1>1, <1>3
<1> HIDE DEF e, i
<1>8. ReadHolds(k, v) /\ LinesOf(Put(h.entries, i, e)) = LinesOf(h.entries)
  BY <1>1, <1>3, <1>4, <1>6, AmendHolds
<1>9. k.entries = Put(h.entries, i, e) /\ k.l2 = h.l2
  BY <1>1 DEF ReadSideType
<1>10. ResponseHolds(k.entries, x)
  <2>1. i \in DOMAIN Put(h.entries, i, e) /\ Put(h.entries, i, e)[i] = e
    BY <1>1, <1>3, PutParts DEF TableHolds
  <2> QED BY <1>7, <1>9, <2>1 DEF ResponseHolds
<1> HIDE DEF k
<1>11. k \in ReadSideType
  BY <1>8 DEF ReadHolds
<1>12. /\ g \in ReadSideType /\ g.entries = k.entries
       /\ g.backendCursor = k.backendCursor
       /\ g.backendCandidate = k.backendCandidate
       /\ g.responseCursor = k.responseCursor
       /\ g.responseCandidate = x
       /\ g.toRd = k.toRd /\ g.rdRsp = k.rdRsp /\ g.l2 = k.l2 /\ g.ready = k.ready
  BY <1>5, <1>11 DEF ReadSideType
<1> HIDE DEF g
<1>13. ReadHolds(g, v)
  BY <1>8, <1>10, <1>12 DEF ReadHolds
<1> QED BY <1>8, <1>9, <1>12, <1>13 DEF g

(* A recipient joins the group of its entry. *)
LEMMA JoinGroupHolds ==
  ASSUME NEW h, NEW v, ReadHolds(h, v), NEW group, NEW r \in Reads, NEW d
  PROVE  /\ ReadHolds(JoinGroup(h, group, r, d), v)
         /\ SameTable(h, JoinGroup(h, group, r, d))
<1> DEFINE i == CHOOSE j \in DOMAIN h.l2 : h.l2[j].group = group
           g == [h EXCEPT !.l2[i].reads = Append(@, r)]
           E == [group : Nat, reads : Seq(Lines \cup Reads), data : Versions]
           l2 == [h.l2 EXCEPT ![i].reads = Append(@, r)]
<1>1. h \in ReadSideType /\ BufferHolds(h.l2, h.ready)
  BY DEF ReadHolds
<1>2. CASE JoinGroup(h, group, r, d) = Throw(h)
  <2>1. SameTable(h, Throw(h))
    BY <1>1 DEF Throw, SameTable, ReadSideType
  <2> QED BY <1>2, <2>1, ThrowHolds
<1>3. CASE JoinGroup(h, group, r, d) # Throw(h)
  <2>1. JoinGroup(h, group, r, d) = g
    BY <1>3 DEF JoinGroup
  <2>2. h.l2 \in Seq(E) /\ h.ready \in Nat
    BY <1>1 DEF ReadSideType
  <2> HIDE DEF i
  <2>3. l2 \in Seq(E) /\ BufferHolds(l2, h.ready)
    <3>1. CASE i \in DOMAIN h.l2
      <4> DEFINE old == h.l2[i]
                 new == [old EXCEPT !.reads = Append(@, r)]
      <4>1. old \in E /\ old.reads \in Seq(Reads)
        <5> HIDE DEF E
        <5>1. old \in E
          BY <2>2, <3>1
        <5>2. old.reads \in Seq(Reads)
          BY <1>1, <3>1 DEF BufferHolds
        <5> QED BY <5>1, <5>2
      <4>2. Append(old.reads, r) \in Seq(Reads)
        BY <4>1
      <4>3. new \in E /\ new.reads \in Seq(Reads)
        <5> DEFINE a == Append(old.reads, r)
        <5>1. a \in Seq(Reads) /\ a \in Seq(Lines \cup Reads)
          BY <4>2
        <5>2. new = [old EXCEPT !.reads = a]
          OBVIOUS
        <5> HIDE DEF a, new, old
        <5> QED BY <4>1, <5>1, <5>2
      <4>4. l2 = [h.l2 EXCEPT ![i] = new]
        OBVIOUS
      <4> HIDE DEF new, E, old, l2
      <4>5. l2 \in Seq(E) /\ Len(l2) = Len(h.l2) /\ DOMAIN l2 = DOMAIN h.l2
            /\ \A j \in DOMAIN l2 : l2[j] = IF j = i THEN new ELSE h.l2[j]
        BY <2>2, <3>1, <4>3, <4>4
      <4> QED BY <1>1, <4>3, <4>5 DEF BufferHolds
    <3>2. CASE i \notin DOMAIN h.l2
      <4>1. l2 = h.l2
        BY <2>2, <3>2
      <4> QED BY <1>1, <2>2, <4>1
    <3> QED BY <3>1, <3>2
  <2>4. g = [h EXCEPT !.l2 = l2]
    BY <1>1 DEF ReadSideType
  <2> HIDE DEF l2, g
  <2>5. /\ g \in ReadSideType /\ g.l2 = l2 /\ g.ready = h.ready
        /\ SameTable(h, g) /\ SameChannels(h, g)
    BY <1>1, <2>3, <2>4 DEF ReadSideType, SameTable, SameChannels
  <2> QED BY <2>1, <2>3, <2>5, BufferChanges
<1> QED BY <1>2, <1>3

LEMMA OpenGroupHolds ==
  ASSUME NEW h, NEW v, ReadHolds(h, v), NEW r \in Reads, NEW d \in Versions
  PROVE  /\ ReadHolds(OpenGroup(h, r, d), v)
         /\ SameTable(h, OpenGroup(h, r, d))
         /\ h.token + 1 \in Nat
<1> DEFINE envelope == [group |-> h.token + 1, reads |-> <<r>>, data |-> d]
           b == Enqueue(h, envelope)
           g == OpenGroup(h, r, d)
<1>1. h \in ReadSideType /\ h.token \in Nat /\ h.open \in SUBSET Nat
  BY DEF ReadHolds, ReadSideType
<1>2. envelope \in Envelope
  BY <1>1 DEF Envelope
<1> HIDE DEF envelope
<1>3. /\ ReadHolds(b, v) /\ SameTable(h, b) /\ b.token = h.token /\ b.open = h.open
  BY <1>2, EnqueueHolds
<1>4. g = [b EXCEPT !.token = @ + 1, !.open = @ \cup {h.token + 1}]
  BY DEF OpenGroup, envelope
<1> HIDE DEF b
<1>5. b \in ReadSideType
  BY <1>3 DEF ReadHolds
<1>6. b.token + 1 \in Nat /\ b.open \cup {h.token + 1} \in SUBSET Nat
  BY <1>1, <1>3
<1>7. g \in ReadSideType
  BY <1>4, <1>5, <1>6 DEF ReadSideType
<1>8. Same(b, g)
  BY <1>4, <1>5, <1>7 DEF ReadSideType, Same
<1> HIDE DEF g
<1>9. ReadHolds(g, v) /\ SameTable(h, g)
  BY <1>3, <1>8, SameHolds DEF SameTable, Same
<1> QED BY <1>1, <1>9 DEF g

(* The entry with its next waiter answered. *)
Answered(e, group) ==
  [e EXCEPT !.next = @ + 1, !.group = IF group = 0 THEN e.group ELSE group,
            !.candidate = NoCandidate]

(* What commit_l2_response does to the table. *)
Stepped(h, x, group) ==
  LET i == Index(h, x)
      more == h.entries[i].next + 1 < Len(h.entries[i].waiters)
  IN  [h EXCEPT !.entries = Put(@, i, Answered(h.entries[i], group)),
                !.responseCursor = IF group # 0 /\ more THEN x ELSE After(h, x),
                !.responseCandidate = NoLine]

LEMMA CommitResponseIs ==
  ASSUME NEW h \in ReadSideType, NEW x, x \in LinesOf(h.entries), NEW group
  PROVE  LET e == Answered(h.entries[Index(h, x)], group)
             more == h.entries[Index(h, x)].next + 1
                       < Len(h.entries[Index(h, x)].waiters)
         IN  CommitResponse(h, x, group) =
               Retire(IF ~more /\ e.group = 0 THEN Erase(Stepped(h, x, group), x)
                      ELSE Stepped(h, x, group))
<1> DEFINE i == Index(h, x)
           old == h.entries[i]
           kept == IF group = 0 THEN old.group ELSE group
           e == Answered(old, group)
           more == old.next + 1 < Len(old.waiters)
           cursor == IF group # 0 /\ more THEN x ELSE After(h, x)
           table == Put(h.entries, i, e)
           stepped == [h EXCEPT !.entries = table, !.responseCursor = cursor,
                                !.responseCandidate = NoLine]
           raw == [h EXCEPT !.entries[i].next = @ + 1,
                            !.entries[i].group = kept,
                            !.entries[i].candidate = NoCandidate,
                            !.responseCursor = cursor,
                            !.responseCandidate = NoLine]
<1>1. i \in DOMAIN h.entries /\ h.entries \in Seq(EntryType)
  BY IndexOf DEF ReadSideType
<1>2. CommitResponse(h, x, group) =
        Retire(IF ~more /\ raw.entries[i].group = 0 THEN Erase(raw, x) ELSE raw)
  BY Zenon DEF CommitResponse
<1>3. e = [old EXCEPT !.next = @ + 1, !.group = kept, !.candidate = NoCandidate]
  BY DEF Answered
<1>4. stepped = Stepped(h, x, group)
  BY Zenon DEF Stepped
<1> HIDE DEF cursor, i, more, kept, e
<1>5. raw = stepped
  <2> DEFINE a1 == [old EXCEPT !.next = @ + 1]
             a2 == [a1 EXCEPT !.group = kept]
             a3 == [a2 EXCEPT !.candidate = NoCandidate]
             t1 == [h.entries EXCEPT ![i].next = @ + 1]
             t2 == [t1 EXCEPT ![i].group = kept]
             t3 == [t2 EXCEPT ![i].candidate = NoCandidate]
  <2>1. e = a3
    BY <1>3
  <2>2. t1 = [h.entries EXCEPT ![i] = a1] /\ t1[i] = a1
    BY <1>1
  <2>3. t2 = [t1 EXCEPT ![i] = a2]
    BY <2>2
  <2> HIDE DEF t1, a1, a2
  <2>4. t2 = [h.entries EXCEPT ![i] = a2] /\ t2[i] = a2
    BY <1>1, <2>2, <2>3
  <2>5. t3 = [t2 EXCEPT ![i] = a3]
    BY <2>4
  <2> HIDE DEF t2, a3
  <2>6. t3 = [h.entries EXCEPT ![i] = a3]
    BY <1>1, <2>4, <2>5
  <2>7. t3 = table
    BY <2>1, <2>6, Zenon DEF Put
  <2>8. raw = [h EXCEPT !.entries = t3, !.responseCursor = cursor,
                        !.responseCandidate = NoLine]
    <3> DEFINE r1 == [h EXCEPT !.entries[i].next = @ + 1]
               r2 == [r1 EXCEPT !.entries[i].group = kept]
               r3 == [r2 EXCEPT !.entries[i].candidate = NoCandidate]
               h1 == [h EXCEPT !.entries = t1]
               h2 == [h EXCEPT !.entries = t2]
               h3 == [h EXCEPT !.entries = t3]
    <3>1. h1.entries = t1 /\ h2.entries = t2
      BY DEF ReadSideType
    <3>2. r1 = h1
      BY DEF t1
    <3> HIDE DEF r1
    <3>3. r2 = [h1 EXCEPT !.entries = t2]
      BY <3>1, <3>2 DEF t2
    <3>4. r2 = h2
      BY <3>3
    <3> HIDE DEF r2
    <3>5. r3 = [h2 EXCEPT !.entries = t3]
      BY <3>1, <3>4
    <3>6. r3 = h3
      BY <3>5
    <3>7. raw = [r3 EXCEPT !.responseCursor = cursor, !.responseCandidate = NoLine]
      BY DEF r2, r1
    <3> HIDE DEF raw, r3, t3
    <3> QED BY <3>6, <3>7
  <2> HIDE DEF t3, table, raw
  <2> QED BY <2>7, <2>8, Zenon DEF stepped
<1>6. stepped.entries[i] = e
  BY <1>1 DEF ReadSideType, Put
<1> HIDE DEF raw, stepped
<1>7. CommitResponse(h, x, group) =
        Retire(IF ~more /\ e.group = 0 THEN Erase(stepped, x) ELSE stepped)
  BY <1>2, <1>5, <1>6, Zenon
<1> QED BY <1>4, <1>7, Zenon DEF e, more, i

(* The entry steps to its next waiter, and may go if that was the last one. *)
LEMMA SteppedHolds ==
  ASSUME NEW h, NEW v, ReadHolds(h, v), NEW x, x \in LinesOf(h.entries),
         x \in Lines, Entry(h, x).state = "RESPONDING",
         Entry(h, x).next < Len(Entry(h, x).waiters), NEW group \in Nat
  PROVE  LET s == Stepped(h, x, group)
         IN  /\ ReadHolds(s, v) /\ ReadHolds(Erase(s, x), v)
             /\ LinesOf(s.entries) = LinesOf(h.entries)
             /\ LinesOf(Erase(s, x).entries) \subseteq LinesOf(h.entries)
<1> DEFINE i == Index(h, x)
           old == h.entries[i]
           kept == IF group = 0 THEN old.group ELSE group
           e == Answered(old, group)
           table == Put(h.entries, i, e)
           more == old.next + 1 < Len(old.waiters)
           cursor == IF group # 0 /\ more THEN x ELSE After(h, x)
           stepped == [h EXCEPT !.entries = table, !.responseCursor = cursor,
                                !.responseCandidate = NoLine]
<1>1. /\ TableHolds(h.entries, v) /\ h \in ReadSideType
      /\ i \in DOMAIN h.entries /\ old.line = x /\ old = Entry(h, x)
  BY IndexOf DEF ReadHolds
<1>2. old \in EntryType /\ Sound(old, v)
      /\ \A j \in DOMAIN h.entries : h.entries[j].line = x => j = i
  BY <1>1, EntryOf
<1>3. /\ old.next \in Nat /\ old.waiters \in Seq(Reads) /\ old.group \in Nat
      /\ Len(old.waiters) \in Nat /\ old.next < Len(old.waiters)
      /\ old.state = "RESPONDING"
  BY <1>1, <1>2 DEF EntryType
<1>4. kept \in Nat /\ old.next + 1 \in Nat
  BY <1>3
<1>5. NoCandidate \in [eligible : BOOLEAN, group : Nat, cached : BOOLEAN]
  BY DEF NoCandidate
<1> HIDE DEF kept, e
<1>6. /\ e \in EntryType /\ e.line = x /\ e.state = "RESPONDING"
      /\ e.next = old.next + 1 /\ e.waiters = old.waiters /\ e.data = old.data
      /\ e.group = kept
  <2>1. e = [old EXCEPT !.next = @ + 1, !.group = kept, !.candidate = NoCandidate]
    BY DEF Answered, e, kept
  <2> QED BY <1>1, <1>2, <1>3, <1>4, <1>5, <2>1 DEF EntryType
<1>7. Sound(e, v) /\ e.line = h.entries[i].line
  BY <1>1, <1>2, <1>3, <1>6 DEF Sound
<1>8. cursor \in LinesOf(h.entries) /\ cursor \in Lines
  BY <1>1, AfterHolds, LinesOfTable DEF TableHolds
<1>9. stepped = Stepped(h, x, group)
  BY Zenon DEF Stepped, e
<1> HIDE DEF e, cursor, more
<1>10. /\ TableHolds(table, v)
       /\ LinesOf(table) = LinesOf(h.entries)
       /\ FlyingOf(table) = (FlyingOf(h.entries) \ {e.line})
                              \cup (IF e.state = "INFLIGHT" THEN {e.line} ELSE {})
       /\ \A c : BackendHolds(h.entries, c) /\ (c = e.line => e.state = "MISS")
                   => BackendHolds(table, c)
  BY <1>1, <1>6, <1>7, PutHolds
<1>11. table \in Seq(EntryType) /\ DOMAIN table = DOMAIN h.entries /\ table[i] = e
  BY <1>1, <1>6, PutParts DEF TableHolds
<1> HIDE DEF table, i
<1>12. FlyingOf(table) = FlyingOf(h.entries)
  <2>1. x \notin FlyingOf(h.entries)
    BY <1>2, <1>3 DEF FlyingOf
  <2> QED BY <1>6, <1>10, <2>1
<1>13. /\ stepped \in ReadSideType /\ stepped.entries = table
       /\ stepped.backendCursor = h.backendCursor
       /\ stepped.backendCandidate = h.backendCandidate
       /\ stepped.responseCursor = cursor
       /\ stepped.responseCandidate = NoLine
       /\ stepped.toRd = h.toRd /\ stepped.rdRsp = h.rdRsp
       /\ stepped.l2 = h.l2 /\ stepped.ready = h.ready
  BY <1>1, <1>8, <1>11 DEF ReadSideType
<1> HIDE DEF stepped
<1>14. BackendHolds(table, h.backendCandidate)
  <2>1. BackendHolds(h.entries, h.backendCandidate)
    BY DEF ReadHolds
  <2>2. h.backendCandidate = NoLine => BackendHolds(table, h.backendCandidate)
    BY DEF BackendHolds
  <2>3. h.backendCandidate = x => h.backendCandidate = NoLine
    BY <1>2, <1>3, <2>1 DEF BackendHolds
  <2> QED BY <1>6, <1>10, <2>1, <2>2, <2>3
<1>15. ResponseHolds(table, stepped.responseCandidate)
  BY <1>13 DEF ResponseHolds
<1>16. CursorHolds(table, stepped.backendCursor) /\ CursorHolds(table, stepped.responseCursor)
  BY <1>8, <1>10, <1>13 DEF ReadHolds, CursorHolds
<1>17. FlightsHold(table, stepped.toRd, stepped.rdRsp, v)
  <2>1. FlightsHold(h.entries, h.toRd, h.rdRsp, v)
    BY DEF ReadHolds
  <2> QED BY <1>12, <1>13, <2>1, FlightsSame
<1>18. ReadHolds(stepped, v)
  BY <1>10, <1>13, <1>14, <1>15, <1>16, <1>17 DEF ReadHolds
<1>19. /\ ReadHolds(Erase(stepped, x), v)
       /\ LinesOf(Erase(stepped, x).entries) = LinesOf(stepped.entries) \ {x}
  <2>1. x \in LinesOf(stepped.entries)
    BY <1>10, <1>13
  <2>2. Entry(stepped, x) = e
    <3>1. /\ Index(stepped, x) \in DOMAIN stepped.entries
          /\ stepped.entries[Index(stepped, x)].line = x
          /\ Entry(stepped, x) = stepped.entries[Index(stepped, x)]
      BY <2>1, IndexOf
    <3>2. i \in DOMAIN table /\ table[i].line = x
      BY <1>1, <1>6, <1>11
    <3>3. Index(stepped, x) = i
      BY <1>10, <1>13, <3>1, <3>2 DEF TableHolds
    <3> QED BY <1>11, <1>13, <3>1, <3>3
  <2>3. Entry(stepped, x).state # "INFLIGHT"
    BY <1>6, <2>2
  <2> QED BY <1>18, <2>1, <2>3, EraseHolds
<1> QED BY <1>9, <1>10, <1>13, <1>18, <1>19

(* commit_l2_response *)
LEMMA CommitResponseHolds ==
  ASSUME NEW h, NEW v, ReadHolds(h, v), NEW x, x \in LinesOf(h.entries),
         x \in Lines, Entry(h, x).state = "RESPONDING",
         Entry(h, x).next < Len(Entry(h, x).waiters), NEW group \in Nat
  PROVE  /\ ReadHolds(CommitResponse(h, x, group), v)
         /\ LinesOf(CommitResponse(h, x, group).entries) \subseteq LinesOf(h.entries)
<1> DEFINE s == Stepped(h, x, group)
           g == CommitResponse(h, x, group)
<1>1. h \in ReadSideType
  BY DEF ReadHolds
<1>2. g = Retire(s) \/ g = Retire(Erase(s, x))
  BY <1>1, CommitResponseIs, Zenon
<1>3. /\ ReadHolds(s, v) /\ ReadHolds(Erase(s, x), v)
      /\ LinesOf(s.entries) = LinesOf(h.entries)
      /\ LinesOf(Erase(s, x).entries) \subseteq LinesOf(h.entries)
  BY SteppedHolds
<1> HIDE DEF s, g
<1>4. ReadHolds(g, v) /\ LinesOf(g.entries) \subseteq LinesOf(h.entries)
  <2>1. ReadHolds(Retire(s), v) /\ Retire(s).entries = s.entries
    BY <1>3, RetireHolds
  <2>2. /\ ReadHolds(Retire(Erase(s, x)), v)
        /\ Retire(Erase(s, x)).entries = Erase(s, x).entries
    BY <1>3, RetireHolds
  <2> QED BY <1>2, <1>3, <2>1, <2>2
<1> QED BY <1>4 DEF g

(* A response is handed over to the L2 Buffer. *)
LEMMA HandOverHolds ==
  ASSUME NEW h, NEW v, ReadHolds(h, v), HasResponse(h)
  PROVE  /\ ReadHolds(HandOver(h, Offered(h)), v)
         /\ LinesOf(HandOver(h, Offered(h)).entries) \subseteq LinesOf(h.entries)
<1> DEFINE o == Offered(h)
           x == o.line
           group == IF ~o.fanout THEN 0
                    ELSE IF o.candidate.group # 0 THEN o.candidate.group
                    ELSE h.token + 1
           b == IF ~o.fanout THEN Enqueue(h, Unicast(o.read, o.data))
                ELSE IF o.candidate.group # 0
                THEN JoinGroup(h, group, o.read, o.data)
                ELSE OpenGroup(h, o.read, o.data)
<1>1. /\ o.line = ResponseLine(h) /\ o.read \in Reads /\ o.data \in Versions
      /\ o.candidate \in CandidateType
  BY OfferedParts
<1>2. /\ x \in LinesOf(h.entries) /\ x \in Lines
      /\ Entry(h, x).state = "RESPONDING"
      /\ Entry(h, x).next < Len(Entry(h, x).waiters)
  BY <1>1, ResponseLineOf
<1>3. HandOver(h, o) = CommitResponse(b, x, group)
  BY DEF HandOver
<1> HIDE DEF o
<1>4. group \in Nat
  <2>1. o.candidate.group \in Nat
    BY <1>1 DEF CandidateType
  <2>2. h.token + 1 \in Nat
    BY <1>1, OpenGroupHolds
  <2> QED BY <2>1, <2>2
<1> HIDE DEF group
<1>5. ReadHolds(b, v) /\ SameTable(h, b)
  <2>1. CASE ~o.fanout
    BY <1>1, <2>1, UnicastHolds
  <2>2. CASE o.fanout /\ o.candidate.group # 0
    BY <1>1, <2>2, JoinGroupHolds
  <2>3. CASE o.fanout /\ ~(o.candidate.group # 0)
    BY <1>1, <2>3, OpenGroupHolds
  <2> QED BY <2>1, <2>2, <2>3
<1> HIDE DEF b, x
<1>6. b.entries = h.entries /\ Entry(b, x) = Entry(h, x)
  BY <1>5 DEF SameTable, Entry, Index
<1>7. /\ ReadHolds(CommitResponse(b, x, group), v)
      /\ LinesOf(CommitResponse(b, x, group).entries) \subseteq LinesOf(b.entries)
  BY <1>2, <1>4, <1>5, <1>6, CommitResponseHolds
<1> QED BY <1>3, <1>6, <1>7 DEF o

(* The last stage. *)
LEMMA AnswerHolds ==
  ASSUME NEW h, NEW v, ReadHolds(h, v),
         HasResponse(h) \/ \A c \in Ports : ~Answers(h, c, FlyingOf(h.entries))
  PROVE  /\ ReadHolds(Answer(h), v)
         /\ LinesOf(Answer(h).entries) \subseteq LinesOf(h.entries)
<1> DEFINE o == Offered(h)
           k == KeepCandidate(h, o)
<1>1. CASE ~HasResponse(h)
  <2>1. Answer(h) = DirectResponse(h)
    BY <1>1 DEF Answer
  <2> QED BY <1>1, <2>1, DirectResponseHolds
<1>2. CASE HasResponse(h) /\ Refuses(h, o)
  <2>1. Answer(h) = DirectResponse(k)
    BY <1>2 DEF Answer
  <2>2. /\ o.line = ResponseLine(h) /\ o.candidate \in CandidateType
        /\ ResponseLine(h) \in LinesOf(h.entries) /\ ResponseLine(h) \in Lines
        /\ Entry(h, ResponseLine(h)).state = "RESPONDING"
        /\ Entry(h, ResponseLine(h)).next < Len(Entry(h, ResponseLine(h)).waiters)
    BY <1>2, OfferedParts, ResponseLineOf
  <2>3. ~HasCapacity(h)
    BY <1>2 DEF Refuses
  <2> HIDE DEF o
  <2>4. /\ ReadHolds(k, v) /\ LinesOf(k.entries) = LinesOf(h.entries)
        /\ k.l2 = h.l2
    BY <2>2, KeepCandidateHolds
  <2>5. ~HasCapacity(k)
    BY <2>3, <2>4 DEF HasCapacity
  <2> HIDE DEF k
  <2>6. DirectResponse(k) = k
    BY <2>5 DEF DirectResponse
  <2> QED BY <2>1, <2>4, <2>6
<1>3. CASE HasResponse(h) /\ ~Refuses(h, o)
  <2>1. Answer(h) = HandOver(h, o)
    BY <1>3 DEF Answer
  <2> QED BY <1>3, <2>1, HandOverHolds
<1> QED BY <1>1, <1>2, <1>3

(* service_home_agent, all its stages. *)
ReadSideStep(h, v) ==
  Answer(Capture(IssueBackend(AcceptRead(ReadHit(ConsumeSummaries(h), v)))))

LEMMA ReadSideStepHolds ==
  ASSUME NEW h, NEW v \in Contents, ReadHolds(h, v)
  PROVE  /\ ReadHolds(ReadSideStep(h, v), v)
         /\ LinesOf(ReadSideStep(h, v).entries)
              \subseteq LinesOf(h.entries) \cup (Lines \ writeLines)
<1> DEFINE a == ConsumeSummaries(h)
           b == ReadHit(a, v)
           c == AcceptRead(b)
           d == IssueBackend(c)
           e == Capture(d)
           f == Answer(e)
<1>1. ReadHolds(a, v) /\ LinesOf(a.entries) \subseteq LinesOf(h.entries)
  BY ConsumeSummariesHolds
<1> HIDE DEF a
<1>2. ReadHolds(b, v) /\ LinesOf(b.entries) = LinesOf(a.entries)
  BY <1>1, ReadHitHolds
<1> HIDE DEF b
<1>3. /\ ReadHolds(c, v)
      /\ LinesOf(c.entries) \subseteq LinesOf(b.entries) \cup (Lines \ writeLines)
  BY <1>2, AcceptReadHolds
<1> HIDE DEF c
<1>4. ReadHolds(d, v) /\ LinesOf(d.entries) = LinesOf(c.entries)
  BY <1>3, IssueBackendHolds
<1> HIDE DEF d
<1>5. /\ ReadHolds(e, v) /\ LinesOf(e.entries) = LinesOf(d.entries)
      /\ HasResponse(e) \/ \A p \in Ports : ~Answers(e, p, FlyingOf(e.entries))
  BY <1>4, CaptureHolds
<1> HIDE DEF e
<1>6. ReadHolds(f, v) /\ LinesOf(f.entries) \subseteq LinesOf(e.entries)
  BY <1>5, AnswerHolds
<1>7. f = ReadSideStep(h, v)
  BY DEF ReadSideStep, a, b, c, d, e
<1> HIDE DEF f
<1>8. /\ LinesOf(f.entries) \subseteq LinesOf(h.entries) \cup (Lines \ writeLines)
      /\ ReadHolds(f, v)
  BY <1>1, <1>2, <1>3, <1>4, <1>5, <1>6
<1> QED BY <1>7, <1>8

-----------------------------------------------------------------------------
(* The L2 Buffer sends carriers *)

(* What is left of the first k elements. *)
IsFilter(f, n, s, leaving) ==
  f = [k \in 0 .. n |-> IF k = 0 THEN <<>>
                        ELSE IF s[k] \in leaving THEN f[k - 1]
                        ELSE Append(f[k - 1], s[k])]

(* There is such a function, however many they are. *)
LEMMA FilterExists ==
  ASSUME NEW s, NEW leaving, NEW n \in Nat
  PROVE  \E f : IsFilter(f, n, s, leaving)
<1> DEFINE T == {m \in Nat : ~\E f : IsFilter(f, m, s, leaving)}
<1>1. SUFFICES ASSUME T # {}
               PROVE  FALSE
  OBVIOUS
<1>2. PICK m \in T : \A k \in T : m <= k
  BY <1>1, LeastOf
<1>3. m \in Nat /\ ~\E f : IsFilter(f, m, s, leaving)
  OBVIOUS
<1>4. CASE m = 0
  <2> DEFINE f == [k \in 0 .. 0 |-> <<>>]
  <2>1. \A k \in 0 .. 0 : k = 0
    OBVIOUS
  <2>2. IsFilter(f, 0, s, leaving)
    BY <2>1 DEF IsFilter
  <2> QED BY <1>3, <1>4, <2>2
<1>5. CASE m # 0
  <2>1. m - 1 \in Nat /\ ~(m <= m - 1)
    BY <1>3, <1>5
  <2>2. m - 1 \notin T
    BY <1>2, <2>1
  <2>3. PICK f : IsFilter(f, m - 1, s, leaving)
    BY <2>1, <2>2
  <2> DEFINE last == IF s[m] \in leaving THEN f[m - 1] ELSE Append(f[m - 1], s[m])
             g == [k \in 0 .. m |-> IF k = m THEN last ELSE f[k]]
             G(k) == IF k = 0 THEN <<>>
                     ELSE IF s[k] \in leaving THEN g[k - 1]
                     ELSE Append(g[k - 1], s[k])
  <2>4. ASSUME NEW k \in 0 .. m
        PROVE  g[k] = G(k)
    <3>1. CASE k = m
      <4>1. m - 1 \in 0 .. m /\ m - 1 # m /\ m # 0
        BY <1>3, <1>5
      <4>2. g[m - 1] = f[m - 1]
        BY <4>1
      <4> QED BY <3>1, <4>1, <4>2
    <3>2. CASE k # m
      <4>1. k \in 0 .. m - 1
        BY <1>3, <3>2
      <4>2. g[k] = f[k]
        BY <3>2
      <4>3. f[k] = IF k = 0 THEN <<>>
                   ELSE IF s[k] \in leaving THEN f[k - 1]
                   ELSE Append(f[k - 1], s[k])
        BY <2>3, <4>1 DEF IsFilter
      <4>4. k # 0 => g[k - 1] = f[k - 1]
        BY <1>3, <4>1
      <4> QED BY <4>2, <4>3, <4>4
    <3> QED BY <3>1, <3>2
  <2>5. g = [k \in 0 .. m |-> g[k]]
    OBVIOUS
  <2> HIDE DEF g
  <2>6. IsFilter(g, m, s, leaving)
    BY <2>4, <2>5 DEF IsFilter
  <2> QED BY <1>3, <2>6
<1> QED BY <1>4, <1>5

(* What is left of a sequence is of the same kind. *)
LEMMA WithoutIsSeq ==
  ASSUME NEW S, NEW s \in Seq(S), NEW leaving
  PROVE  Without(s, leaving) \in Seq(S)
<1> DEFINE n == Len(s)
<1>1. n \in Nat
  OBVIOUS
<1>2. PICK g : IsFilter(g, n, s, leaving)
  BY <1>1, FilterExists
<1>3. g = [k \in 0 .. n |-> IF k = 0 THEN <<>>
                            ELSE IF s[k] \in leaving THEN g[k - 1]
                            ELSE Append(g[k - 1], s[k])]
  BY <1>2 DEF IsFilter
<1>4. \E f : /\ f = [k \in 0 .. n |-> IF k = 0 THEN <<>>
                                      ELSE IF s[k] \in leaving THEN f[k - 1]
                                      ELSE Append(f[k - 1], s[k])]
             /\ Without(s, leaving) = f[n]
  BY <1>3, Zenon DEF Without
<1>5. PICK f : IsFilter(f, n, s, leaving) /\ Without(s, leaving) = f[n]
  BY <1>4 DEF IsFilter
<1> DEFINE T == {k \in 0 .. n : f[k] \notin Seq(S)}
<1>6. SUFFICES ASSUME T # {}
               PROVE  FALSE
  BY <1>1, <1>5
<1>7. PICK m \in T : \A k \in T : m <= k
  <2>1. T \in SUBSET Nat
    BY <1>1
  <2> HIDE DEF T
  <2> QED BY <1>6, <2>1, LeastOf
<1>8. m \in 0 .. n /\ f[m] \notin Seq(S)
  BY <1>7
<1>9. f[m] = IF m = 0 THEN <<>>
             ELSE IF s[m] \in leaving THEN f[m - 1] ELSE Append(f[m - 1], s[m])
  BY <1>5, <1>8 DEF IsFilter
<1>10. m # 0
  <2>1. <<>> \in Seq(S)
    OBVIOUS
  <2> QED BY <1>8, <1>9, <2>1
<1>11. m - 1 \in 0 .. n /\ ~(m <= m - 1) /\ m \in 1 .. n
  BY <1>1, <1>8, <1>10
<1>12. f[m - 1] \in Seq(S) /\ s[m] \in S
  BY <1>7, <1>11
<1> HIDE DEF T
<1>13. f[m] \in Seq(S)
  BY <1>9, <1>10, <1>12
<1> QED BY <1>8, <1>13

-----------------------------------------------------------------------------
(* The memory, and resets *)

(* The memory answers the oldest request on channel c. *)
LEMMA FlightsAnswer ==
  ASSUME NEW table, NEW v, NEW rdRsp \in [Ports -> Seq(Rsp)],
         NEW toRd \in Seq(Lines \cup Reads), toRd # <<>>,
         FlightsHold(table, toRd, rdRsp, v), NEW c \in Ports,
         NEW rsp \in Rsp, rsp.what = Head(toRd),
         rsp.what \in Lines => Current(rsp.data, rsp.what, v)
  PROVE  LET pushed == [rdRsp EXCEPT ![c] = Append(@, rsp)]
         IN  /\ pushed \in [Ports -> Seq(Rsp)] /\ Tail(toRd) \in Seq(Lines \cup Reads)
             /\ FlightsHold(table, Tail(toRd), pushed, v)
<1> DEFINE s == rdRsp[c]
           x == rsp.what
           pushed == [rdRsp EXCEPT ![c] = Append(@, rsp)]
           old(d) == In(What(rdRsp[d]), Lines)
           new(d) == In(What(pushed[d]), Lines)
           asked == In(toRd, Lines)
           left == In(Tail(toRd), Lines)
<1>1. /\ \A d \in Ports : asked \cap old(d) = {}
      /\ \A d, e \in Ports : old(d) \cap old(e) # {} => d = e
      /\ \A d \in Ports : Once(What(rdRsp[d]), Lines)
      /\ Once(toRd, Lines)
      /\ \A y : y \in FlyingOf(table) <=>
                  y \in asked \/ \E d \in Ports : y \in old(d)
      /\ \A d \in Ports : \A k \in DOMAIN rdRsp[d] :
           rdRsp[d][k].what \in Lines => Current(rdRsp[d][k].data, rdRsp[d][k].what, v)
  BY DEF FlightsHold
<1>2. /\ Tail(toRd) \in Seq(Lines \cup Reads) /\ Once(Tail(toRd), Lines)
      /\ left = asked \ {x} /\ (x \in Lines => x \in asked)
  BY <1>1, TailOnce
<1>3. s \in Seq(Rsp)
  OBVIOUS
<1>4. /\ What(Append(s, rsp)) = Append(What(s), x) /\ x \in Lines \cup Reads
      /\ Append(s, rsp) \in Seq(Rsp) /\ What(s) \in Seq(Lines \cup Reads)
  BY <1>3, WhatAppend, WhatParts
<1>5. x \notin old(c) /\ Once(What(s), Lines)
  <2>1. x \in old(c) => x \in Lines
    BY DEF In
  <2> QED BY <1>1, <1>2, <2>1
<1>6. /\ Once(What(Append(s, rsp)), Lines)
      /\ In(What(Append(s, rsp)), Lines) = old(c) \cup ({x} \cap Lines)
  <2> DEFINE w == What(s)
  <2>1. w \in Seq(Lines \cup Reads) /\ x \notin In(w, Lines) /\ Once(w, Lines)
    BY <1>4, <1>5
  <2> HIDE DEF w, x
  <2>2. /\ Once(Append(w, x), Lines)
        /\ In(Append(w, x), Lines) = In(w, Lines) \cup ({x} \cap Lines)
    BY <1>4, <2>1, AppendOnce
  <2> QED BY <1>4, <2>2 DEF w
<1>7. /\ pushed \in [Ports -> Seq(Rsp)] /\ pushed[c] = Append(s, rsp)
      /\ \A d \in Ports : d # c => pushed[d] = rdRsp[d]
  BY <1>4
<1>8. \A d \in Ports : \A k \in DOMAIN pushed[d] :
        pushed[d][k].what \in Lines => Current(pushed[d][k].data, pushed[d][k].what, v)
  <2> DEFINE t == Append(s, rsp)
  <2>1. \A k \in DOMAIN t : t[k] = rsp \/ \E j \in DOMAIN rdRsp[c] : t[k] = rdRsp[c][j]
    BY <1>3
  <2> HIDE DEF t
  <2>2. \A k \in DOMAIN t : t[k].what \in Lines => Current(t[k].data, t[k].what, v)
    <3> TAKE k \in DOMAIN t
    <3> DEFINE e == t[k]
    <3>1. e = rsp \/ \E j \in DOMAIN rdRsp[c] : e = rdRsp[c][j]
      BY <2>1
    <3> HIDE DEF e
    <3>2. e.what \in Lines => Current(e.data, e.what, v)
      BY <1>1, <3>1
    <3> QED BY <3>2 DEF e
  <2> HIDE DEF pushed
  <2>3. \A d \in Ports : d # c =>
          \A k \in DOMAIN pushed[d] :
            pushed[d][k].what \in Lines => Current(pushed[d][k].data, pushed[d][k].what, v)
    BY <1>1, <1>7
  <2>4. pushed[c] = t
    BY <1>7 DEF t
  <2> QED BY <2>2, <2>3, <2>4
<1> HIDE DEF pushed
<1>9. /\ new(c) = old(c) \cup ({x} \cap Lines)
      /\ \A d \in Ports : d # c => new(d) = old(d)
  BY <1>6, <1>7
<1>10. \A d \in Ports : Once(What(pushed[d]), Lines)
  BY <1>1, <1>6, <1>7
<1>11. asked \subseteq Lines /\ \A d \in Ports : old(d) \subseteq Lines
  BY DEF In
<1> HIDE DEF old, new, asked, left, x
<1>12. \A d \in Ports : left \cap new(d) = {}
  BY <1>1, <1>2, <1>9
<1>13. \A d, e \in Ports : new(d) \cap new(e) # {} => d = e
  <2>1. x \in Lines => \A b \in Ports : x \notin old(b)
    BY <1>1, <1>2
  <2>2. ASSUME NEW d \in Ports, NEW e \in Ports, d # e, NEW y,
               y \in new(d), y \in new(e)
        PROVE  FALSE
    <3>1. y \in old(d) \/ (d = c /\ y = x /\ x \in Lines)
      BY <1>9, <2>2
    <3>2. y \in old(e) \/ (e = c /\ y = x /\ x \in Lines)
      BY <1>9, <2>2
    <3>3. ~(y \in old(d) /\ y \in old(e))
      BY <1>1, <2>2
    <3> QED BY <2>1, <2>2, <3>1, <3>2, <3>3
  <2> QED BY <2>2
<1>14. \A y : y \in FlyingOf(table) <=>
                y \in left \/ \E d \in Ports : y \in new(d)
  <2> TAKE y
  <2>1. CASE y = x /\ x \in Lines
    <3>1. y \in FlyingOf(table)
      BY <1>1, <1>2, <2>1
    <3>2. y \in new(c)
      BY <1>9, <2>1
    <3> QED BY <3>1, <3>2
  <2>2. CASE y # x
    <3>1. y \in left <=> y \in asked
      BY <1>2, <2>2
    <3>2. \A d \in Ports : y \in new(d) <=> y \in old(d)
      <4>1. y \in new(c) <=> y \in old(c)
        BY <1>9, <2>2
      <4> QED BY <1>9, <4>1
    <3> QED BY <1>1, <3>1, <3>2
  <2>3. CASE y = x /\ x \notin Lines
    BY <1>1, <1>2, <1>9, <1>11, <2>3
  <2> QED BY <2>1, <2>2, <2>3
<1>15. FlightsHold(table, Tail(toRd), pushed, v)
  BY <1>2, <1>8, <1>10, <1>12, <1>13, <1>14 DEF FlightsHold, new, left
<1> QED BY <1>2, <1>7, <1>15 DEF pushed

(* The front of the L2 Buffer. *)
LEMMA FrontParts ==
  ASSUME NEW h, NEW v, ReadHolds(h, v), h.l2 # <<>>
  PROVE  /\ Head(h.l2) \in [group : Nat, reads : Seq(Lines \cup Reads), data : Versions]
         /\ Head(h.l2) = h.l2[1] /\ 1 \in DOMAIN h.l2
         /\ Head(h.l2).group \in Nat /\ Head(h.l2).reads \in Seq(Reads)
         /\ CarrierReads(h) \subseteq Reads
<1> DEFINE E == [group : Nat, reads : Seq(Lines \cup Reads), data : Versions]
<1>1. h.l2 \in Seq(E) /\ BufferHolds(h.l2, h.ready)
  BY DEF ReadHolds, ReadSideType
<1> HIDE DEF E
<1>2. Head(h.l2) \in E /\ Head(h.l2) = h.l2[1] /\ 1 \in DOMAIN h.l2
  BY <1>1
<1>3. Head(h.l2).reads \in Seq(Reads)
  BY <1>1, <1>2 DEF BufferHolds
<1>4. CarrierReads(h) \subseteq ToSet(Head(h.l2).reads)
  BY DEF CarrierReads
<1>5. ToSet(Head(h.l2).reads) \subseteq Reads
  BY <1>3 DEF ToSet
<1>6. \A e \in E : e.group \in Nat
  BY DEF E
<1> QED BY <1>2, <1>3, <1>4, <1>5, <1>6 DEF E

LEMMA FreezeFrontHolds ==
  ASSUME NEW h, NEW v, ReadHolds(h, v), h.l2 # <<>>
  PROVE  /\ ReadHolds(FreezeFront(h), v) /\ FreezeFront(h).entries = h.entries
         /\ FreezeFront(h).l2 = h.l2 /\ FreezeFront(h).ready = h.ready
<1> DEFINE group == Head(h.l2).group
           summaries == Append(h.summaries, group)
           open == h.open \ {group}
           g == [h EXCEPT !.frozen = TRUE, !.summaries = summaries, !.open = open]
<1>1. h \in ReadSideType
  BY DEF ReadHolds
<1>2. group \in Nat
  BY FrontParts
<1> HIDE DEF group
<1>3. h.summaries \in Seq(Nat) /\ h.open \in SUBSET Nat
  BY <1>1 DEF ReadSideType
<1>4. summaries \in Seq(Nat) /\ open \in SUBSET Nat
  BY <1>2, <1>3
<1> HIDE DEF summaries, open
<1>5. Same(h, g)
  <2>1. g \in ReadSideType
    BY <1>1, <1>4 DEF ReadSideType
  <2> QED BY <1>1, <2>1 DEF ReadSideType, Same
<1>6. Same(h, Throw(h))
  <2>1. Throw(h) \in ReadSideType
    BY <1>1 DEF ReadSideType, Throw
  <2> QED BY <1>1, <2>1 DEF ReadSideType, Same, Throw
<1>7. Same(h, h)
  BY <1>1 DEF Same
<1>8. FreezeFront(h) \in {h, Throw(h), g}
  BY DEF FreezeFront, summaries, open, group
<1> HIDE DEF g
<1>9. Same(h, FreezeFront(h))
  BY <1>5, <1>6, <1>7, <1>8
<1> QED BY <1>9, SameHolds DEF Same

(* A carrier leaves, and the front with it when all its reads have left. *)
LEMMA SendCarrierHolds ==
  ASSUME NEW h, NEW v, ReadHolds(h, v), h.ready # 0
  PROVE  /\ ReadHolds(SendCarrier(h), v) /\ SendCarrier(h).entries = h.entries
         /\ CarrierReads(h) \subseteq Reads
<1> DEFINE left == Without(Head(h.l2).reads, CarrierReads(h))
           old == h.l2[1]
           new == [old EXCEPT !.reads = left]
           E == [group : Nat, reads : Seq(Lines \cup Reads), data : Versions]
<1>1. /\ h \in ReadSideType /\ BufferHolds(h.l2, h.ready)
      /\ h.l2 \in Seq(E) /\ h.ready \in Nat
  BY DEF ReadHolds, ReadSideType
<1>2. Len(h.l2) \in Nat /\ 0 < Len(h.l2) /\ 0 < h.ready /\ h.ready <= Len(h.l2)
  BY <1>1 DEF BufferHolds
<1>3. h.l2 # <<>>
  BY <1>1, <1>2
<1>4. /\ old \in E /\ 1 \in DOMAIN h.l2 /\ Head(h.l2).reads \in Seq(Reads)
      /\ CarrierReads(h) \subseteq Reads
  BY <1>3, FrontParts
<1>5. left \in Seq(Reads)
  BY <1>4, WithoutIsSeq
<1>6. left \in Seq(Lines \cup Reads)
  BY <1>5
<1> HIDE DEF left
<1>7. CASE left # <<>>
  <2> DEFINE l2 == [h.l2 EXCEPT ![1] = new]
             g == [h EXCEPT !.l2 = l2]
  <2>1. SendCarrier(h) = [h EXCEPT !.l2[1].reads = left]
    BY <1>7 DEF SendCarrier, left
  <2>2. SendCarrier(h) = g
    BY <1>1, <2>1 DEF ReadSideType
  <2>3. new \in E /\ new.reads = left
    BY <1>4, <1>6
  <2> HIDE DEF new, E
  <2>4. l2 \in Seq(E) /\ Len(l2) = Len(h.l2) /\ DOMAIN l2 = DOMAIN h.l2
        /\ \A i \in DOMAIN l2 : l2[i] = IF i = 1 THEN new ELSE h.l2[i]
    BY <1>1, <1>4, <2>3
  <2> HIDE DEF l2
  <2>5. BufferHolds(l2, h.ready)
    BY <1>1, <1>5, <2>3, <2>4 DEF BufferHolds
  <2>6. /\ g \in ReadSideType /\ g.l2 = l2 /\ g.ready = h.ready
        /\ SameTable(h, g) /\ SameChannels(h, g)
    BY <1>1, <2>4 DEF ReadSideType, SameTable, SameChannels, E
  <2> HIDE DEF g
  <2>7. ReadHolds(g, v)
    BY <2>5, <2>6, BufferChanges
  <2> QED BY <1>4, <2>2, <2>6, <2>7 DEF SameTable
<1>8. CASE left = <<>>
  <2> DEFINE l2 == Tail(h.l2)
             ready == h.ready - 1
             g == [h EXCEPT !.l2 = l2, !.ready = ready, !.frozen = FALSE]
  <2>1. SendCarrier(h) = g
    BY <1>1, <1>8 DEF SendCarrier, left, ReadSideType
  <2> HIDE DEF E
  <2>2. /\ l2 \in Seq(E) /\ Len(l2) = Len(h.l2) - 1
        /\ \A i \in DOMAIN l2 : i + 1 \in DOMAIN h.l2 /\ l2[i] = h.l2[i + 1]
    BY <1>1, <1>3
  <2>3. ready \in Nat /\ ready <= Len(h.l2) - 1
    BY <1>1, <1>2
  <2> HIDE DEF l2, ready
  <2>4. BufferHolds(l2, ready)
    BY <1>1, <2>2, <2>3 DEF BufferHolds
  <2>5. /\ g \in ReadSideType /\ g.l2 = l2 /\ g.ready = ready
        /\ SameTable(h, g) /\ SameChannels(h, g)
    BY <1>1, <2>2, <2>3 DEF ReadSideType, SameTable, SameChannels, E
  <2> HIDE DEF g
  <2>6. ReadHolds(g, v)
    BY <2>4, <2>5, BufferChanges
  <2> QED BY <1>4, <2>1, <2>5, <2>6 DEF SameTable
<1> QED BY <1>7, <1>8

(* One more response may leave. *)
LEMMA ReadyHolds ==
  ASSUME NEW h, NEW v, ReadHolds(h, v), h.ready < Len(h.l2)
  PROVE  LET g == [h EXCEPT !.ready = @ + 1]
         IN  ReadHolds(g, v) /\ g.entries = h.entries /\ g.ready # 0
<1> DEFINE ready == h.ready + 1
           g == [h EXCEPT !.ready = ready]
<1>1. h \in ReadSideType /\ BufferHolds(h.l2, h.ready)
  BY DEF ReadHolds
<1>2. h.ready \in Nat /\ Len(h.l2) \in Nat
  BY <1>1 DEF ReadSideType
<1>3. ready \in Nat /\ ready <= Len(h.l2) /\ ready # 0
  BY <1>1, <1>2 DEF BufferHolds
<1> HIDE DEF ready
<1>4. /\ g \in ReadSideType /\ g.l2 = h.l2 /\ g.ready = ready
      /\ SameTable(h, g) /\ SameChannels(h, g)
  BY <1>1, <1>3 DEF ReadSideType, SameTable, SameChannels
<1> HIDE DEF g
<1>5. BufferHolds(g.l2, g.ready) /\ g.ready # 0
  BY <1>1, <1>3, <1>4 DEF BufferHolds
<1>6. ReadHolds(g, v)
  BY <1>4, <1>5, BufferChanges
<1> QED BY <1>4, <1>5, <1>6 DEF g, ready, SameTable

(* A read comes from the ring. *)
LEMMA QueueReadHolds ==
  ASSUME NEW h, NEW v, ReadHolds(h, v), NEW r \in Reads
  PROVE  LET g == [h EXCEPT !.rdQ = Append(@, r)]
         IN  ReadHolds(g, v) /\ g.entries = h.entries
<1> DEFINE q == Append(h.rdQ, r)
           g == [h EXCEPT !.rdQ = q]
<1>1. h \in ReadSideType
  BY DEF ReadHolds
<1>2. h.rdQ \in Seq(Reads)
  BY <1>1 DEF ReadSideType
<1>3. q \in Seq(Reads)
  BY <1>2
<1> HIDE DEF q
<1>4. g \in ReadSideType
  BY <1>1, <1>3 DEF ReadSideType
<1>5. Same(h, g)
  BY <1>1, <1>4 DEF ReadSideType, Same
<1> HIDE DEF g
<1>6. ReadHolds(g, v) /\ g.entries = h.entries
  BY <1>5, SameHolds DEF Same
<1> QED BY <1>6 DEF g, q

(* The memory serves a read. *)
LEMMA MemReadHolds ==
  ASSUME NEW h, NEW v \in Contents, ReadHolds(h, v),
         h.toRd # <<>>, NEW c \in Ports
  PROVE  LET what == Head(h.toRd)
             line == IF what \in Reads THEN LineOf[what] ELSE what
             g == [h EXCEPT !.toRd = Tail(@),
                            !.rdRsp[c] = Append(@, [what |-> what, data |-> v[line]])]
         IN  ReadHolds(g, v) /\ g.entries = h.entries
<1> DEFINE what == Head(h.toRd)
           line == IF what \in Reads THEN LineOf[what] ELSE what
           data == v[line]
           rsp == [what |-> what, data |-> data]
           left == Tail(h.toRd)
           pushed == [h.rdRsp EXCEPT ![c] = Append(@, rsp)]
           g == [h EXCEPT !.toRd = left, !.rdRsp[c] = Append(@, rsp)]
           k == [h EXCEPT !.toRd = left, !.rdRsp = pushed]
<1>1. /\ h \in ReadSideType /\ h.rdRsp \in [Ports -> Seq(Rsp)]
      /\ h.toRd \in Seq(Lines \cup Reads)
      /\ FlightsHold(h.entries, h.toRd, h.rdRsp, v)
  BY DEF ReadHolds, ReadSideType, Rsp
<1>2. what \in Lines \cup Reads
  BY <1>1
<1>3. line \in Lines /\ (what \in Lines => line = what)
  BY <1>2, HomeAssumption
<1> HIDE DEF what, line
<1>4. data \in Versions /\ (what \in Lines => Current(data, what, v))
  BY <1>3 DEF Contents
<1> HIDE DEF data
<1>5. rsp \in Rsp /\ rsp.what = Head(h.toRd) /\ (rsp.what \in Lines => Current(rsp.data, rsp.what, v))
  BY <1>2, <1>4 DEF Rsp, what
<1> HIDE DEF rsp
<1>6. /\ pushed \in [Ports -> Seq(Rsp)] /\ left \in Seq(Lines \cup Reads)
      /\ FlightsHold(h.entries, left, pushed, v)
  BY <1>1, <1>5, FlightsAnswer
<1>7. g = k
  BY <1>1 DEF ReadSideType
<1> HIDE DEF pushed, left, g
<1>8. /\ k \in ReadSideType /\ SameTable(h, k) /\ SameBuffer(h, k)
      /\ k.toRd = left /\ k.rdRsp = pushed
  BY <1>1, <1>6 DEF ReadSideType, SameTable, SameBuffer, Rsp
<1> HIDE DEF k
<1>9. ReadHolds(g, v) /\ g.entries = h.entries
  BY <1>6, <1>7, <1>8 DEF ReadHolds, SameTable, SameBuffer
<1> QED BY <1>9 DEF g, left, rsp, data, line, what

(* A write takes effect.  If no entry is about the line it begins in, what *)
(* the others have stays current: of the lines it runs on into they need   *)
(* have only some write.                                                   *)
LEMMA VersionChanges ==
  ASSUME NEW h, NEW v \in Contents, ReadHolds(h, v), NEW w \in Writes,
         LineOf[w] \notin LinesOf(h.entries)
  PROVE  LET u == [x \in Lines |-> IF x \in Span[w] THEN w ELSE v[x]]
         IN  u \in Contents /\ ReadHolds(h, u)
<1> DEFINE u == [x \in Lines |-> IF x \in Span[w] THEN w ELSE v[x]]
<1>1. /\ v \in [Lines -> Versions]
      /\ \A x \in Lines : v[x] \in VersionsOf(x)
  BY DEF Contents, Current
<1>2. /\ u \in [Lines -> Versions]
      /\ \A x \in Lines : u[x] = IF x \in Span[w] THEN w ELSE v[x]
  BY <1>1 DEF Versions
<1> HIDE DEF u
<1>3. \A x \in Lines : u[x] \in VersionsOf(x)
  BY <1>1, <1>2 DEF VersionsOf
<1>4. u \in Contents
  BY <1>2, <1>3 DEF Contents, Current
<1>5. \A x \in Guarded : x # LineOf[w] => u[x] = v[x]
  BY <1>2 DEF Guarded
<1>6. ASSUME NEW x, x # LineOf[w], NEW d, Current(d, x, v)
      PROVE  Current(d, x, u)
  BY <1>5, <1>6 DEF Current
<1>7. TableHolds(h.entries, v) /\ FlightsHold(h.entries, h.toRd, h.rdRsp, v)
      /\ h.rdRsp \in [Ports -> Seq(Rsp)]
  BY DEF ReadHolds, ReadSideType, Rsp
<1>8. TableHolds(h.entries, u)
  <2>1. ASSUME NEW i \in DOMAIN h.entries
        PROVE  Sound(h.entries[i], u)
    <3> DEFINE e == h.entries[i]
    <3>1. Sound(e, v) /\ e.line # LineOf[w]
      BY <1>7 DEF TableHolds, LinesOf
    <3> HIDE DEF e
    <3>2. Current(e.data, e.line, v) => Current(e.data, e.line, u)
      BY <1>6, <3>1
    <3>3. Sound(e, u)
      BY <3>1, <3>2 DEF Sound
    <3> QED BY <3>3 DEF e
  <2> QED BY <1>7, <2>1 DEF TableHolds
<1>9. FlightsHold(h.entries, h.toRd, h.rdRsp, u)
  <2>1. ASSUME NEW c \in Ports, NEW k \in DOMAIN h.rdRsp[c],
               h.rdRsp[c][k].what \in Lines
        PROVE  Current(h.rdRsp[c][k].data, h.rdRsp[c][k].what, u)
    <3> DEFINE y == h.rdRsp[c][k].what
               s == h.rdRsp[c]
    <3>1. s \in Seq(Rsp)
      BY <1>7
    <3>2. What(s)[k] = y /\ k \in DOMAIN What(s)
      BY <3>1, WhatParts
    <3>3. y \in In(What(h.rdRsp[c]), Lines)
      BY <2>1, <3>2 DEF In
    <3>4. y \in FlyingOf(h.entries)
      BY <1>7, <3>3 DEF FlightsHold
    <3>5. y # LineOf[w]
      BY <3>4 DEF FlyingOf, LinesOf
    <3>6. Current(h.rdRsp[c][k].data, y, v)
      BY <1>7, <2>1 DEF FlightsHold
    <3> HIDE DEF y
    <3>7. Current(h.rdRsp[c][k].data, y, u)
      BY <1>6, <3>5, <3>6
    <3> QED BY <3>7 DEF y
  <2> QED BY <1>7, <2>1 DEF FlightsHold
<1>10. ReadHolds(h, u)
  BY <1>8, <1>9 DEF ReadHolds
<1> QED BY <1>4, <1>10 DEF u

(* Nothing is under way. *)
Idle(h) ==
  /\ h \in ReadSideType /\ h.entries = <<>>
  /\ h.backendCursor = NoLine /\ h.backendCandidate = NoLine
  /\ h.responseCursor = NoLine /\ h.responseCandidate = NoLine
  /\ h.toRd = <<>> /\ h.rdRsp = [c \in Ports |-> <<>>]
  /\ h.l2 = <<>> /\ h.ready = 0

LEMMA IdleHolds ==
  ASSUME NEW h, Idle(h), NEW v
  PROVE  ReadHolds(h, v) /\ LinesOf(h.entries) = {}
<1> DEFINE rdRsp == [c \in Ports |-> <<>>]
<1>1. <<>> \in Seq(EntryType)
  OBVIOUS
<1>2. TableHolds(<<>>, v) /\ LinesOf(<<>>) = {}
  BY <1>1 DEF TableHolds, LinesOf
<1>3. CursorHolds(<<>>, NoLine) /\ BackendHolds(<<>>, NoLine) /\ ResponseHolds(<<>>, NoLine)
  BY DEF CursorHolds, BackendHolds, ResponseHolds
<1>4. FlightsHold(<<>>, <<>>, rdRsp, v)
  <2>1. FlyingOf(<<>>) = {} /\ In(<<>>, Lines) = {} /\ Once(<<>>, Lines)
    BY DEF FlyingOf, In, Once
  <2>2. \A c \in Ports : rdRsp[c] = <<>> /\ DOMAIN rdRsp[c] = {}
    OBVIOUS
  <2>3. DOMAIN What(<<>>) = {}
    BY DEF What
  <2>4. In(What(<<>>), Lines) = {} /\ Once(What(<<>>), Lines)
    BY <2>3 DEF In, Once
  <2> HIDE DEF rdRsp
  <2>5. \A c \in Ports : In(What(rdRsp[c]), Lines) = {} /\ Once(What(rdRsp[c]), Lines)
    BY <2>2, <2>4
  <2> QED BY <2>1, <2>2, <2>5 DEF FlightsHold
<1>5. BufferHolds(<<>>, 0)
  BY DEF BufferHolds
<1> QED BY <1>2, <1>3, <1>4, <1>5 DEF Idle, ReadHolds

LEMMA InitHomeIdle == Idle(InitHome)
<1> DEFINE rdRsp == [c \in Ports |-> <<>>]
<1>1. /\ <<>> \in Seq(Reads) /\ <<>> \in Seq(EntryType) /\ <<>> \in Seq(Lines \cup Reads)
      /\ <<>> \in Seq([group : Nat, reads : Seq(Lines \cup Reads), data : Versions])
      /\ <<>> \in Seq(Nat) /\ {} \in SUBSET Nat /\ 0 \in Nat
      /\ FALSE \in BOOLEAN /\ <<>> \in Seq(Rsp)
  OBVIOUS
<1>2. 0 \in Ports
  BY HomeAssumption DEF Ports
<1>3. rdRsp \in [Ports -> Seq(Rsp)]
  BY <1>1
<1>4. InitHome \in ReadSideType
  BY <1>1, <1>2, <1>3 DEF InitHome, ReadSideType, Rsp
<1> QED BY <1>4 DEF Idle, InitHome

(* A reset keeps the token, the fault and the number of resets. *)
LEMMA ResetIdle ==
  ASSUME NEW token \in Nat, NEW fault \in BOOLEAN, NEW resets \in Nat
  PROVE  Idle([InitHome EXCEPT !.token = token, !.fault = fault, !.resets = resets])
<1> DEFINE h == [InitHome EXCEPT !.token = token, !.fault = fault, !.resets = resets]
<1>1. InitHome \in ReadSideType
  BY InitHomeIdle DEF Idle
<1>2. h \in ReadSideType
  BY <1>1 DEF ReadSideType
<1> QED BY <1>1, <1>2, InitHomeIdle DEF Idle, ReadSideType

-----------------------------------------------------------------------------
(* The inductive invariant of both sides *)

(* The types that the write reservations do not need. *)
OtherTypes ==
  /\ sent \subseteq Reads \cup Writes /\ sentData \subseteq Writes
  /\ datIn \in Seq(Writes) /\ datQ \in Seq(Writes)
  /\ tracked \subseteq Writes
  /\ toWr \in Seq(Writes) /\ wrRsp \in Seq(Writes)
  /\ version \in Contents
  /\ done \subseteq Reads \cup Writes

(* A write address that has come is in one place at a time. *)
WritesApart ==
  /\ Once(reqIn, Writes) /\ Once(wrQ, Writes)
  /\ Once(toWr, Writes) /\ Once(wrRsp, Writes)
  /\ In(reqIn, Writes) \cap In(wrQ, Writes) = {}
  /\ (In(reqIn, Writes) \cup In(wrQ, Writes)) \cap tracked = {}
  /\ (In(reqIn, Writes) \cup In(wrQ, Writes) \cup tracked) \cap In(toWr, Writes) = {}
  /\ (In(reqIn, Writes) \cup In(wrQ, Writes) \cup tracked \cup In(toWr, Writes))
       \cap In(wrRsp, Writes) = {}
  /\ In(reqIn, Writes) \cup In(wrQ, Writes) \cup tracked
       \cup In(toWr, Writes) \cup In(wrRsp, Writes) \subseteq sent

(* Reads and writes of a line take turns. *)
TurnsTaken ==
  /\ tracked \cup In(toWr, Writes) \cup In(wrRsp, Writes) \subseteq reserved
  /\ \A w \in tracked \cup In(toWr, Writes) \cup In(wrRsp, Writes) :
       LineOf[w] \notin LinesOf(home.entries)

ReadSide == ReadHolds(home, version)

(* The inductive invariant. *)
TargetInv == WriteInv /\ OtherTypes /\ WritesApart /\ TurnsTaken /\ ReadSide

(* What the steps below have to show: the rest is WriteInvStep. *)
Kept == OtherTypes /\ WritesApart /\ TurnsTaken /\ ReadSide

LEMMA ToSetIn ==
  ASSUME NEW s \in Seq(Writes)
  PROVE  ToSet(s) = In(s, Writes)
BY DEF ToSet, In

LEMMA TargetInit == Init => TargetInv
<1> SUFFICES ASSUME Init PROVE TargetInv
  OBVIOUS
<1>1. WriteInv
  BY WriteInvInit
<1>2. OtherTypes
  <2>1. <<>> \in Seq(Writes)
    OBVIOUS
  <2>2. version \in Contents
    BY DEF Init, Versions, Contents, Current, VersionsOf
  <2> QED BY <2>1, <2>2 DEF Init, OtherTypes
<1>3. In(<<>>, Writes) = {} /\ Once(<<>>, Writes)
  BY DEF In, Once
<1>4. WritesApart
  BY <1>3 DEF Init, WritesApart
<1>5. TurnsTaken
  BY <1>3 DEF Init, TurnsTaken
<1>6. ReadSide
  <2>1. ReadHolds(InitHome, version)
    BY InitHomeIdle, IdleHolds
  <2> QED BY <2>1 DEF Init, ReadSide
<1> QED BY <1>1, <1>2, <1>4, <1>5, <1>6 DEF TargetInv

(* Nothing happens to writes. *)
LEMMA WritesUnchanged ==
  ASSUME TargetInv,
         UNCHANGED <<sent, reqIn, wrQ, tracked, reserved, toWr, wrRsp>>
  PROVE  WritesApart'
BY DEF TargetInv, WritesApart

(* Nothing happens to entries. *)
LEMMA TurnsUnchanged ==
  ASSUME TargetInv, UNCHANGED <<tracked, reserved, toWr, wrRsp>>,
         LinesOf(home'.entries) \subseteq LinesOf(home.entries)
  PROVE  TurnsTaken'
BY DEF TargetInv, TurnsTaken

LEMMA DeliverRequestKeeps ==
  ASSUME TargetInv, NEW t \in Reads \cup Writes, DeliverRequest(t)
  PROVE  Kept'
<1> USE DEF TargetInv
<1>1. /\ t \notin sent /\ sent' = sent \cup {t} /\ reqIn' = Append(reqIn, t)
      /\ UNCHANGED <<sentData, datIn, wrQ, datQ, tracked, reserved, writeLines,
                     toWr, wrRsp, version, done, home>>
  BY DEF DeliverRequest, writeVars
<1>2. OtherTypes'
  BY <1>1 DEF OtherTypes
<1>3. reqIn \in Seq(Reads \cup Writes) /\ Once(reqIn, Writes) /\ t \notin In(reqIn, Writes)
  BY <1>1 DEF WriteInv, WriteTypes, WritesApart
<1>4. /\ Once(Append(reqIn, t), Writes)
      /\ In(Append(reqIn, t), Writes) = In(reqIn, Writes) \cup ({t} \cap Writes)
  BY <1>3, AppendOnce
<1>5. WritesApart'
  <2> DEFINE a == In(reqIn, Writes)
             b == In(reqIn', Writes)
  <2>1. b = a \cup ({t} \cap Writes) /\ Once(reqIn', Writes)
    BY <1>1, <1>4
  <2> HIDE DEF b
  <2> QED BY <1>1, <2>1 DEF WritesApart, b
<1>6. TurnsTaken' /\ ReadSide'
  BY <1>1, TurnsUnchanged DEF ReadSide
<1> QED BY <1>2, <1>5, <1>6 DEF Kept

LEMMA RecvRingReqKeeps ==
  ASSUME TargetInv, RecvRingReq
  PROVE  Kept'
<1> USE DEF TargetInv
<1> DEFINE t == Head(reqIn)
<1>1. /\ reqIn # <<>> /\ reqIn' = Tail(reqIn)
      /\ UNCHANGED <<sent, sentData, datIn, datQ, tracked, reserved, writeLines,
                     toWr, wrRsp, version, done>>
  BY DEF RecvRingReq
<1>2. OtherTypes'
  BY <1>1 DEF OtherTypes
<1>3. reqIn \in Seq(Reads \cup Writes) /\ Once(reqIn, Writes)
      /\ wrQ \in Seq(Writes) /\ Once(wrQ, Writes)
  BY DEF WriteInv, WriteTypes, WritesApart
<1>4. /\ Once(reqIn', Writes) /\ In(reqIn', Writes) = In(reqIn, Writes) \ {t}
      /\ t \in Writes => t \in In(reqIn, Writes)
  BY <1>1, <1>3, TailOnce
<1>5. CASE t \in Reads /\ home' = [home EXCEPT !.rdQ = Append(@, t)] /\ wrQ' = wrQ
  <2>1. ReadHolds(home', version) /\ home'.entries = home.entries
    BY <1>5, QueueReadHolds DEF ReadSide
  <2>2. WritesApart'
    BY <1>1, <1>4, <1>5 DEF WritesApart
  <2> QED BY <1>1, <1>2, <2>1, <2>2, TurnsUnchanged DEF ReadSide, Kept
<1>6. CASE t \in Writes /\ wrQ' = Append(wrQ, t) /\ home' = home
  <2>1. t \in In(reqIn, Writes) /\ t \notin In(wrQ, Writes)
    BY <1>4, <1>6 DEF WritesApart
  <2> HIDE DEF t
  <2>2. /\ Once(wrQ', Writes)
        /\ In(wrQ', Writes) = In(wrQ, Writes) \cup ({t} \cap Writes)
    BY <1>3, <1>6, <2>1, AppendOnce
  <2>3. In(wrQ', Writes) = In(wrQ, Writes) \cup {t}
    BY <1>6, <2>2
  <2>4. WritesApart'
    BY <1>1, <1>4, <2>1, <2>2, <2>3 DEF WritesApart
  <2>5. ReadSide'
    BY <1>1, <1>6 DEF ReadSide
  <2>6. TurnsTaken'
    BY <1>1, <1>6, TurnsUnchanged
  <2> QED BY <1>2, <2>4, <2>5, <2>6 DEF Kept
<1> QED BY <1>5, <1>6 DEF RecvRingReq

LEMMA ServiceWriteKeeps ==
  ASSUME TargetInv, ServiceWrite
  PROVE  Kept'
<1> USE DEF TargetInv
<1> DEFINE w == Head(wrQ)
           d == Head(datQ)
           accepted == IF Accepts THEN {w} ELSE {}
           sends == Sends(tracked \cup accepted)
           sentOn == IF sends THEN {d} ELSE {}
<1>1. /\ reserved' = (IF Reserves THEN reserved \cup {w} ELSE reserved)
      /\ wrQ' = (IF Accepts THEN Tail(wrQ) ELSE wrQ)
      /\ tracked' = (tracked \cup accepted) \ sentOn
      /\ toWr' = (IF sends THEN Append(toWr, d) ELSE toWr)
      /\ datQ' = (IF sends THEN Tail(datQ) ELSE datQ)
      /\ UNCHANGED <<sent, sentData, reqIn, datIn, wrRsp, version, done, home>>
  BY DEF ServiceWrite, ringVars
<1>2. /\ wrQ \in Seq(Writes) /\ datQ \in Seq(Writes) /\ toWr \in Seq(Writes)
      /\ tracked \subseteq Writes
      /\ Once(wrQ, Writes) /\ Once(toWr, Writes)
  BY DEF WriteInv, WriteTypes, WritesApart, OtherTypes
<1>3. /\ accepted \subseteq Writes /\ accepted \subseteq In(wrQ, Writes)
      /\ accepted \subseteq reserved' /\ reserved \subseteq reserved'
      /\ \A a \in accepted : LineOf[a] \notin LinesOf(home.entries)
      /\ Once(wrQ', Writes) /\ In(wrQ', Writes) = In(wrQ, Writes) \ accepted
  <2>1. CASE Accepts
    <3>1. wrQ # <<>> /\ Reserves /\ ~HasEntry(home, LineOf[w])
      BY <2>1 DEF Accepts, Reserves, HasBlockingRead
    <3>2. /\ Once(Tail(wrQ), Writes) /\ In(Tail(wrQ), Writes) = In(wrQ, Writes) \ {w}
          /\ w \in Writes /\ w \in In(wrQ, Writes)
      BY <1>2, <3>1, TailOnce
    <3>3. LineOf[w] \notin LinesOf(home.entries)
      BY <3>1, HasEntryOf
    <3> QED BY <1>1, <2>1, <3>1, <3>2, <3>3
  <2>2. CASE ~Accepts
    BY <1>1, <1>2, <2>2
  <2> QED BY <2>1, <2>2
<1>4. /\ sentOn \subseteq tracked \cup accepted
      /\ datQ' \in Seq(Writes) /\ toWr' \in Seq(Writes)
      /\ Once(toWr', Writes) /\ In(toWr', Writes) = In(toWr, Writes) \cup sentOn
  <2>1. CASE sends
    <3>1. datQ # <<>> /\ d \in tracked \cup accepted
      BY <2>1 DEF Sends, HasMatchingAddress
    <3>2. Tail(datQ) \in Seq(Writes) /\ d \in Writes
      BY <1>2, <3>1
    <3>3. d \notin In(toWr, Writes)
      BY <1>3, <3>1 DEF WritesApart
    <3> HIDE DEF d, accepted
    <3>4. /\ Append(toWr, d) \in Seq(Writes) /\ Once(Append(toWr, d), Writes)
          /\ In(Append(toWr, d), Writes) = In(toWr, Writes) \cup ({d} \cap Writes)
      BY <1>2, <3>2, <3>3, AppendOnce
    <3> QED BY <1>1, <2>1, <3>1, <3>2, <3>4 DEF d
  <2>2. CASE ~sends
    BY <1>1, <1>2, <2>2
  <2> QED BY <2>1, <2>2
<1> HIDE DEF accepted, sentOn
<1>5. OtherTypes'
  BY <1>1, <1>2, <1>3, <1>4 DEF OtherTypes
<1>6. WritesApart'
  BY <1>1, <1>3, <1>4 DEF WritesApart
<1>7. TurnsTaken'
  BY <1>1, <1>3, <1>4 DEF TurnsTaken
<1>8. ReadSide'
  BY <1>1 DEF ReadSide
<1> QED BY <1>5, <1>6, <1>7, <1>8 DEF Kept

LEMMA MemWriteKeeps ==
  ASSUME TargetInv, MemWrite
  PROVE  Kept'
<1> USE DEF TargetInv
<1> DEFINE w == Head(toWr)
<1>1. /\ toWr # <<>> /\ toWr' = Tail(toWr) /\ wrRsp' = Append(wrRsp, w)
      /\ version' = [x \in Lines |-> IF x \in Span[w] THEN w ELSE version[x]]
      /\ UNCHANGED <<sent, sentData, reqIn, datIn, wrQ, datQ, tracked, reserved,
                     done, home>>
  BY DEF MemWrite, ringVars
<1>2. /\ toWr \in Seq(Writes) /\ wrRsp \in Seq(Writes)
      /\ version \in Contents
      /\ Once(toWr, Writes) /\ Once(wrRsp, Writes)
  BY DEF WritesApart, OtherTypes
<1>3. /\ Once(toWr', Writes) /\ In(toWr', Writes) = In(toWr, Writes) \ {w}
      /\ w \in Writes /\ w \in In(toWr, Writes) /\ toWr' \in Seq(Writes)
  BY <1>1, <1>2, TailOnce
<1>4. w \notin In(wrRsp, Writes)
  BY <1>3 DEF WritesApart
<1>5. LineOf[w] \notin LinesOf(home.entries)
  BY <1>3 DEF TurnsTaken
<1> HIDE DEF w
<1>6. /\ wrRsp' \in Seq(Writes) /\ Once(wrRsp', Writes)
      /\ In(wrRsp', Writes) = In(wrRsp, Writes) \cup ({w} \cap Writes)
  BY <1>1, <1>2, <1>3, <1>4, AppendOnce
<1>7. In(wrRsp', Writes) = In(wrRsp, Writes) \cup {w}
  BY <1>3, <1>6
<1>8. version' \in Contents /\ ReadHolds(home, version')
  BY <1>1, <1>2, <1>3, <1>5, VersionChanges DEF ReadSide
<1>9. OtherTypes'
  BY <1>1, <1>3, <1>6, <1>8 DEF OtherTypes
<1>10. WritesApart'
  BY <1>1, <1>3, <1>6, <1>7 DEF WritesApart
<1>11. TurnsTaken'
  BY <1>1, <1>3, <1>7 DEF TurnsTaken
<1>12. ReadSide'
  BY <1>1, <1>8 DEF ReadSide
<1> QED BY <1>9, <1>10, <1>11, <1>12 DEF Kept

LEMMA RecvWriteResponseKeeps ==
  ASSUME TargetInv, RecvWriteResponse
  PROVE  Kept'
<1> USE DEF TargetInv
<1> DEFINE w == Head(wrRsp)
<1>1. /\ wrRsp # <<>> /\ wrRsp' = Tail(wrRsp) /\ done' = done \cup {w}
      /\ reserved' = reserved \ {w}
      /\ UNCHANGED <<sent, sentData, reqIn, datIn, wrQ, datQ, tracked, toWr,
                     version, home>>
  BY DEF RecvWriteResponse, CompleteWrite, ringVars
<1>2. wrRsp \in Seq(Writes) /\ Once(wrRsp, Writes)
  BY DEF WritesApart, OtherTypes
<1>3. /\ Once(wrRsp', Writes) /\ In(wrRsp', Writes) = In(wrRsp, Writes) \ {w}
      /\ w \in Writes /\ w \in In(wrRsp, Writes) /\ wrRsp' \in Seq(Writes)
  BY <1>1, <1>2, TailOnce
<1> HIDE DEF w
<1>4. OtherTypes'
  BY <1>1, <1>3 DEF OtherTypes
<1>5. WritesApart'
  BY <1>1, <1>3 DEF WritesApart
<1>6. TurnsTaken'
  BY <1>1, <1>3 DEF TurnsTaken, WritesApart
<1>7. ReadSide'
  BY <1>1 DEF ReadSide
<1> QED BY <1>4, <1>5, <1>6, <1>7 DEF Kept

LEMMA ServiceHomeAgentKeeps ==
  ASSUME TargetInv, ServiceHomeAgent
  PROVE  Kept'
<1> USE DEF TargetInv
<1>1. /\ home' = ReadSideStep(home, version)
      /\ UNCHANGED <<ringVars, writeVars, done>>
  BY DEF ServiceHomeAgent, ReadSideStep
<1>2. version \in Contents
  BY DEF OtherTypes
<1>3. /\ ReadHolds(home', version)
      /\ LinesOf(home'.entries) \subseteq LinesOf(home.entries) \cup (Lines \ writeLines)
  BY <1>1, <1>2, ReadSideStepHolds DEF ReadSide
<1>4. UNCHANGED <<sent, sentData, reqIn, datIn, wrQ, datQ, tracked, reserved,
                  writeLines, toWr, wrRsp, version, done>>
  BY <1>1 DEF ringVars, writeVars
<1>5. OtherTypes'
  BY <1>4 DEF OtherTypes
<1>6. WritesApart'
  BY <1>4, WritesUnchanged
<1>7. TurnsTaken'
  <2>1. \A w \in reserved : LineOf[w] \in writeLines
    BY DEF WriteInv, OneWriterPerLine
  <2> QED BY <1>3, <1>4, <2>1 DEF TurnsTaken
<1>8. ReadSide'
  BY <1>3, <1>4 DEF ReadSide
<1> QED BY <1>5, <1>6, <1>7, <1>8 DEF Kept

(* Steps of the L2 Buffer. *)
LEMMA L2Keeps ==
  ASSUME TargetInv, NEW h, ReadHolds(h, version), h.entries = home.entries,
         h.ready # 0, L2Blocked(h) \/ L2Sends(h)
  PROVE  Kept'
<1> USE DEF TargetInv
<1> DEFINE f == FreezeFront(h)
<1>1. h.l2 # <<>>
  <2>1. h.l2 \in Seq([group : Nat, reads : Seq(Lines \cup Reads), data : Versions])
        /\ h.ready \in Nat /\ h.ready <= Len(h.l2)
    BY DEF ReadHolds, ReadSideType, BufferHolds
  <2>2. h.l2 = <<>> => Len(h.l2) = 0
    OBVIOUS
  <2> QED BY <2>1, <2>2
<1>2. /\ ReadHolds(f, version) /\ f.entries = h.entries
      /\ f.l2 = h.l2 /\ f.ready = h.ready
  BY <1>1, FreezeFrontHolds
<1> HIDE DEF f
<1>3. /\ ReadHolds(SendCarrier(f), version) /\ SendCarrier(f).entries = f.entries
  BY <1>2, SendCarrierHolds
<1>4. CarrierReads(h) \subseteq Reads
  BY SendCarrierHolds
<1>5. UNCHANGED <<ringVars, writeVars>>
  BY DEF L2Blocked, L2Sends
<1>6. UNCHANGED <<sent, sentData, reqIn, datIn, wrQ, datQ, tracked, reserved,
                  writeLines, toWr, wrRsp, version>>
  BY <1>5 DEF ringVars, writeVars
<1>7. /\ ReadHolds(home', version) /\ home'.entries = home.entries
      /\ done' \subseteq done \cup Reads
  BY <1>2, <1>3, <1>4 DEF L2Blocked, L2Sends, f
<1>8. OtherTypes'
  BY <1>6, <1>7 DEF OtherTypes
<1>9. WritesApart'
  BY <1>6, WritesUnchanged
<1>10. TurnsTaken'
  BY <1>6, <1>7, TurnsUnchanged
<1>11. ReadSide'
  BY <1>6, <1>7 DEF ReadSide
<1> QED BY <1>8, <1>9, <1>10, <1>11 DEF Kept

LEMMA L2ServiceKeeps ==
  ASSUME TargetInv, L2Service
  PROVE  Kept'
BY L2Keeps DEF L2Service, TargetInv, ReadSide

LEMMA L2ReadyKeeps ==
  ASSUME TargetInv, L2Ready
  PROVE  Kept'
<1> DEFINE h == [home EXCEPT !.ready = @ + 1]
<1>1. home.ready < Len(home.l2) /\ (L2Blocked(h) \/ L2Sends(h))
  BY DEF L2Ready
<1>2. ReadHolds(home, version)
  BY DEF TargetInv, ReadSide
<1>3. ReadHolds(h, version) /\ h.entries = home.entries /\ h.ready # 0
  BY <1>1, <1>2, ReadyHolds
<1> HIDE DEF h
<1> QED BY <1>1, <1>3, L2Keeps

LEMMA MemReadKeeps ==
  ASSUME TargetInv, NEW c \in Ports, MemRead(c)
  PROVE  Kept'
<1> USE DEF TargetInv
<1> DEFINE what == Head(home.toRd)
           line == IF what \in Reads THEN LineOf[what] ELSE what
           g == [home EXCEPT !.toRd = Tail(@),
                             !.rdRsp[c] = Append(@, [what |-> what,
                                                     data |-> version[line]])]
<1>1. home.toRd # <<>> /\ home' = g /\ UNCHANGED <<ringVars, writeVars, done>>
  BY DEF MemRead
<1>2. version \in Contents /\ ReadHolds(home, version)
  BY DEF OtherTypes, ReadSide
<1>3. ReadHolds(g, version) /\ g.entries = home.entries
  BY <1>1, <1>2, MemReadHolds
<1> HIDE DEF g
<1>4. UNCHANGED <<sent, sentData, reqIn, datIn, wrQ, datQ, tracked, reserved,
                  writeLines, toWr, wrRsp, version, done>>
  BY <1>1 DEF ringVars, writeVars
<1>5. OtherTypes'
  BY <1>4 DEF OtherTypes
<1>6. WritesApart'
  BY <1>4, WritesUnchanged
<1>7. TurnsTaken'
  BY <1>1, <1>3, <1>4, TurnsUnchanged
<1>8. ReadSide'
  BY <1>1, <1>3, <1>4 DEF ReadSide
<1> QED BY <1>5, <1>6, <1>7, <1>8 DEF Kept

LEMMA ResetKeeps ==
  ASSUME TargetInv, Reset
  PROVE  Kept'
<1> USE DEF TargetInv
<1>1. /\ sent' = {} /\ sentData' = {} /\ reqIn' = <<>> /\ datIn' = <<>>
      /\ wrQ' = <<>> /\ datQ' = <<>> /\ tracked' = {}
      /\ toWr' = <<>> /\ wrRsp' = <<>> /\ done' = {} /\ version' = version
      /\ home' = [InitHome EXCEPT !.token = home.token, !.fault = home.fault,
                                  !.resets = home.resets + 1]
  BY DEF Reset
<1>2. home.token \in Nat /\ home.fault \in BOOLEAN /\ home.resets + 1 \in Nat
  <2>1. home \in ReadSideType
    BY DEF ReadSide, ReadHolds
  <2> QED BY <2>1 DEF ReadSideType
<1>3. Idle(home')
  BY <1>1, <1>2, ResetIdle
<1>4. ReadHolds(home', version) /\ LinesOf(home'.entries) = {}
  BY <1>3, IdleHolds
<1>5. In(<<>>, Writes) = {} /\ Once(<<>>, Writes) /\ <<>> \in Seq(Writes)
  BY DEF In, Once
<1>6. OtherTypes'
  BY <1>1, <1>5 DEF OtherTypes
<1>7. WritesApart'
  BY <1>1, <1>5 DEF WritesApart
<1>8. TurnsTaken'
  BY <1>1, <1>5 DEF TurnsTaken
<1>9. ReadSide'
  BY <1>1, <1>4 DEF ReadSide
<1> QED BY <1>6, <1>7, <1>8, <1>9 DEF Kept

(* Data comes out of the ring. *)
LEMMA DataKeeps ==
  ASSUME TargetInv,
         (\E w \in Writes : DeliverData(w)) \/ RecvRingDat
  PROVE  Kept'
<1> USE DEF TargetInv
<1>1. UNCHANGED <<sent, reqIn, wrQ, tracked, reserved, toWr, wrRsp, version,
                  done, home>>
  BY DEF DeliverData, RecvRingDat, writeVars
<1>2. sentData' \subseteq Writes /\ datIn' \in Seq(Writes) /\ datQ' \in Seq(Writes)
  <2>1. sentData \subseteq Writes /\ datIn \in Seq(Writes) /\ datQ \in Seq(Writes)
    BY DEF OtherTypes
  <2>2. ASSUME NEW w \in Writes, DeliverData(w)
        PROVE  sentData' \subseteq Writes /\ datIn' \in Seq(Writes) /\ datQ' = datQ
    BY <2>1, <2>2, AppendIsSeq DEF DeliverData, writeVars
  <2>3. ASSUME RecvRingDat
        PROVE  sentData' = sentData /\ datIn' \in Seq(Writes) /\ datQ' \in Seq(Writes)
    <3>1. datIn # <<>> /\ datIn' = Tail(datIn) /\ datQ' = Append(datQ, Head(datIn))
          /\ sentData' = sentData
      BY <2>3 DEF RecvRingDat
    <3>2. Tail(datIn) \in Seq(Writes) /\ Head(datIn) \in Writes
      BY <2>1, <3>1, TailIsSeq
    <3> QED BY <2>1, <3>1, <3>2, AppendIsSeq
  <2> QED BY <2>1, <2>2, <2>3
<1>3. OtherTypes'
  BY <1>1, <1>2 DEF OtherTypes
<1>4. WritesApart'
  BY <1>1, WritesUnchanged
<1>5. TurnsTaken'
  BY <1>1, TurnsUnchanged
<1>6. ReadSide'
  BY <1>1 DEF ReadSide
<1> QED BY <1>3, <1>4, <1>5, <1>6 DEF Kept

LEMMA StutterKeeps ==
  ASSUME TargetInv, UNCHANGED vars
  PROVE  Kept'
<1> USE DEF TargetInv
<1>1. UNCHANGED <<sent, sentData, reqIn, datIn, wrQ, datQ, tracked, reserved,
                  writeLines, toWr, wrRsp, version, done, home>>
  BY DEF vars, ringVars, writeVars
<1>2. OtherTypes'
  BY <1>1 DEF OtherTypes
<1>3. WritesApart'
  BY <1>1, WritesUnchanged
<1>4. TurnsTaken'
  BY <1>1, TurnsUnchanged
<1>5. ReadSide'
  BY <1>1 DEF ReadSide
<1> QED BY <1>2, <1>3, <1>4, <1>5 DEF Kept

LEMMA TargetStep == TargetInv /\ [Next]_vars => TargetInv'
<1> SUFFICES ASSUME TargetInv, [Next]_vars PROVE TargetInv'
  OBVIOUS
<1>1. WriteInv'
  BY WriteInvStep DEF TargetInv
<1>2. Kept'
  <2>1. ASSUME NEW t \in Reads \cup Writes, DeliverRequest(t) PROVE Kept'
    BY <2>1, DeliverRequestKeeps
  <2>2. CASE (\E w \in Writes : DeliverData(w)) \/ RecvRingDat
    BY <2>2, DataKeeps
  <2>3. CASE RecvRingReq
    BY <2>3, RecvRingReqKeeps
  <2>4. CASE RecvWriteResponse
    BY <2>4, RecvWriteResponseKeeps
  <2>5. CASE MemWrite
    BY <2>5, MemWriteKeeps
  <2>6. ASSUME NEW c \in Ports, MemRead(c) PROVE Kept'
    BY <2>6, MemReadKeeps
  <2>7. CASE L2Ready
    BY <2>7, L2ReadyKeeps
  <2>8. CASE L2Service
    BY <2>8, L2ServiceKeeps
  <2>9. CASE ServiceWrite
    BY <2>9, ServiceWriteKeeps
  <2>10. CASE ServiceHomeAgent
    BY <2>10, ServiceHomeAgentKeeps
  <2>11. CASE Reset
    BY <2>11, ResetKeeps
  <2>12. CASE UNCHANGED vars
    BY <2>12, StutterKeeps
  <2> QED BY <2>1, <2>2, <2>3, <2>4, <2>5, <2>6, <2>7, <2>8, <2>9, <2>10, <2>11,
             <2>12 DEF Next, Process
<1> QED BY <1>1, <1>2 DEF Kept, TargetInv

LEMMA TargetHolds == Spec => []TargetInv
BY TargetInit, TargetStep, PTL DEF Spec

-----------------------------------------------------------------------------
(* Theorems *)

(* Every variable has its type, whatever the steps before. *)
THEOREM TypesHold == Spec => []TypeOK
<1>1. TargetInv => TypeOK
  <2> SUFFICES ASSUME TargetInv PROVE TypeOK
    OBVIOUS
  <2> USE DEF TargetInv
  <2>1. OtherTypes /\ WriteTypes
    BY DEF WriteInv
  <2>2. writeLines \subseteq Lines
    BY <2>1, HomeAssumption DEF WriteInv, OneWriterPerLine, WriteTypes
  <2>3. home \in ReadSideType
    BY DEF ReadSide, ReadHolds
  <2>4. version \in [Lines -> Versions]
    BY <2>1 DEF OtherTypes, Contents
  <2> QED BY <2>1, <2>2, <2>3, <2>4 DEF OtherTypes, WriteTypes, TypeOK
<1> QED BY <1>1, TargetHolds, PTL

(* While the Home Agent has a transaction for a line, whatever its state,  *)
(* no write that begins in it is past the write queue, although            *)
(* reservations are taken, passed on and given up by processes that run in *)
(* any order, with resets between them.  Writes that run on into the line  *)
(* from the one before may be.                                             *)
THEOREM TurnsAreTaken == Spec => []ReadersExcludeWriters
<1>1. TargetInv => ReadersExcludeWriters
  <2> SUFFICES ASSUME TargetInv PROVE ReadersExcludeWriters
    OBVIOUS
  <2> USE DEF TargetInv
  <2>1. toWr \in Seq(Writes) /\ wrRsp \in Seq(Writes)
    BY DEF OtherTypes
  <2>2. Accepted = tracked \cup In(toWr, Writes) \cup In(wrRsp, Writes)
    BY <2>1, ToSetIn DEF Accepted
  <2>3. \A w : HasEntry(home, LineOf[w]) <=> LineOf[w] \in LinesOf(home.entries)
    BY HasEntryOf
  <2> QED BY <2>2, <2>3 DEF TurnsTaken, ReadersExcludeWriters
<1> QED BY <1>1, TargetHolds, PTL

(* What an entry answers its waiters with is what memory holds, in every   *)
(* line that no write runs on into, and otherwise some write of the line,  *)
(* which may no longer be the last one.                                    *)
THEOREM DataStaysCurrent == Spec => []SharedDataIsCurrent
<1>1. TargetInv => SharedDataIsCurrent
  BY DEF TargetInv, ReadSide, ReadHolds, TableHolds, Sound, SharedDataIsCurrent
<1> QED BY <1>1, TargetHolds, PTL

(* A line has its response under way exactly while its entry is in flight, *)
(* and only one.                                                           *)
LEMMA OnePlaceEach ==
  ASSUME NEW table, NEW v, NEW toRd, NEW rdRsp \in [Ports -> Seq(Rsp)],
         FlightsHold(table, toRd, rdRsp, v), NEW x \in Lines
  PROVE  LET asked == {k \in DOMAIN toRd : toRd[k] = x}
             answered(c) == {k \in DOMAIN rdRsp[c] : rdRsp[c][k].what = x}
             places == {<<RdPorts, k>> : k \in asked}
                         \cup UNION {{<<c, k>> : k \in answered(c)} : c \in Ports}
         IN  Cardinality(places) = IF x \in FlyingOf(table) THEN 1 ELSE 0
<1> DEFINE asked == {k \in DOMAIN toRd : toRd[k] = x}
           answered(c) == {k \in DOMAIN rdRsp[c] : rdRsp[c][k].what = x}
           places == {<<RdPorts, k>> : k \in asked}
                       \cup UNION {{<<c, k>> : k \in answered(c)} : c \in Ports}
           flying == x \in FlyingOf(table)
<1>1. asked = {} <=> x \notin In(toRd, Lines)
  BY DEF In
<1>2. ASSUME NEW c \in Ports
      PROVE  /\ answered(c) = {} <=> x \notin In(What(rdRsp[c]), Lines)
             /\ \A j, k \in answered(c) : j = k
  <2> DEFINE s == rdRsp[c]
  <2>1. s \in Seq(Rsp)
    OBVIOUS
  <2>2. DOMAIN What(s) = DOMAIN s /\ \A k \in DOMAIN s : What(s)[k] = s[k].what
    BY <2>1, WhatParts
  <2>3. Once(What(s), Lines)
    BY DEF FlightsHold
  <2>4. answered(c) = {k \in DOMAIN What(s) : What(s)[k] = x}
    BY <2>2
  <2>5. answered(c) = {} <=> x \notin In(What(s), Lines)
    BY <2>4 DEF In
  <2>6. \A j, k \in answered(c) : j = k
    BY <2>3, <2>4 DEF Once
  <2> QED BY <2>5, <2>6
<1>3. \A j, k \in asked : j = k
  BY DEF FlightsHold, Once
<1>4. /\ flying <=> asked # {} \/ \E c \in Ports : answered(c) # {}
      /\ \A c \in Ports : asked = {} \/ answered(c) = {}
      /\ \A c, d \in Ports : answered(c) # {} /\ answered(d) # {} => c = d
  <2>1. flying <=> x \in In(toRd, Lines) \/ \E c \in Ports : x \in In(What(rdRsp[c]), Lines)
    BY DEF FlightsHold
  <2>2. \A c \in Ports : ~(x \in In(toRd, Lines) /\ x \in In(What(rdRsp[c]), Lines))
    BY DEF FlightsHold
  <2>3. \A c, d \in Ports :
          x \in In(What(rdRsp[c]), Lines) /\ x \in In(What(rdRsp[d]), Lines) => c = d
    BY DEF FlightsHold
  <2> HIDE DEF asked, answered
  <2> QED BY <1>1, <1>2, <2>1, <2>2, <2>3
<1> HIDE DEF asked, answered, flying
<1>5. CASE asked # {}
  <2>1. PICK k : k \in asked
    BY <1>5
  <2>2. asked = {k}
    BY <1>3, <2>1
  <2>3. \A c \in Ports : answered(c) = {}
    BY <1>4, <1>5
  <2>4. places = {<<RdPorts, k>>}
    BY <2>2, <2>3
  <2>5. Cardinality(places) = 1
    BY <2>4, FS_Singleton
  <2> QED BY <1>4, <1>5, <2>5 DEF flying, asked, answered
<1>6. CASE \E c \in Ports : answered(c) # {}
  <2>1. PICK c \in Ports : answered(c) # {}
    BY <1>6
  <2>2. PICK k : k \in answered(c)
    BY <2>1
  <2>3. answered(c) = {k} /\ asked = {} /\ \A d \in Ports : d # c => answered(d) = {}
    BY <1>2, <1>4, <2>1, <2>2
  <2>4. places = {<<c, k>>}
    BY <2>3
  <2>5. Cardinality(places) = 1
    BY <2>4, FS_Singleton
  <2> QED BY <1>4, <1>6, <2>5 DEF flying, asked, answered
<1>7. CASE asked = {} /\ \A c \in Ports : answered(c) = {}
  <2>1. places = {}
    BY <1>7
  <2>2. Cardinality(places) = 0
    BY <2>1, FS_EmptySet
  <2> QED BY <1>4, <1>7, <2>2 DEF flying, asked, answered
<1> QED BY <1>5, <1>6, <1>7

(* The response of an entry in flight stays on its channel until it is     *)
(* captured: the direct path, which takes what is at the head of any       *)
(* channel, meets none.                                                    *)
THEOREM ResponsesAreCaptured == Spec => []CompletionsAreCaptured
<1>1. TargetInv => CompletionsAreCaptured
  <2> SUFFICES ASSUME TargetInv PROVE CompletionsAreCaptured
    OBVIOUS
  <2>1. /\ FlightsHold(home.entries, home.toRd, home.rdRsp, version)
        /\ home.rdRsp \in [Ports -> Seq(Rsp)]
    BY DEF TargetInv, ReadSide, ReadHolds, ReadSideType, Rsp
  <2>2. InState(home, "INFLIGHT") = FlyingOf(home.entries)
    BY DEF InState, FlyingOf
  <2> QED BY <2>1, <2>2, OnePlaceEach DEF CompletionsAreCaptured
<1> QED BY <1>1, TargetHolds, PTL

-----------------------------------------------------------------------------
(* Where the reads are, and which entry a group belongs to *)

(* The waiters of an entry that are still to be answered, and the others.  *)
Due(e) == {e.waiters[k] : k \in e.next + 1 .. Len(e.waiters)}

Told(e) == {e.waiters[k] : k \in 1 .. e.next}

(* A candidate is of the next waiter.  One that is kept because the buffer *)
(* was full does not join a group: to join needs no room.                  *)
Tidy(e) ==
  /\ e.state # "RESPONDING" => e.group = 0 /\ ~e.candidate.cached
  /\ e.candidate.cached => e.next < Len(e.waiters)
  /\ e.candidate.cached /\ e.candidate.eligible
       /\ FanoutValid(e.waiters[e.next + 1]) =>
         e.candidate.group = 0 /\ e.group = 0
  /\ \A k, l \in e.next + 1 .. Len(e.waiters) :
       e.waiters[k] = e.waiters[l] => k = l

GroupsOf(table) == {table[i].group : i \in DOMAIN table} \ {0}

DueOf(table) == UNION {Due(table[i]) : i \in DOMAIN table}

TidyTable(table) ==
  /\ \A i \in DOMAIN table : Tidy(table[i])
  /\ \A i, j \in DOMAIN table : i # j =>
       /\ Due(table[i]) \cap Due(table[j]) = {}
       /\ table[i].group = 0 \/ table[i].group # table[j].group

(* The reads that bypass the agent: on their way to the memory or back.    *)
DirectIn(toRd, rdRsp) ==
  In(toRd, Reads) \cup UNION {In(What(rdRsp[c]), Reads) : c \in Ports}

TidyDirect(toRd, rdRsp) ==
  /\ Once(toRd, Reads)
  /\ \A c \in Ports : /\ Once(What(rdRsp[c]), Reads)
                      /\ In(toRd, Reads) \cap In(What(rdRsp[c]), Reads) = {}
  /\ \A c, d \in Ports : c # d =>
       In(What(rdRsp[c]), Reads) \cap In(What(rdRsp[d]), Reads) = {}

ReadsIn(l2) == UNION {ToSet(l2[i].reads) : i \in DOMAIN l2}

(* Envelopes share neither reads nor a group; the open groups are those    *)
(* whose envelope is not the front that is frozen.                         *)
TidyBuffer(l2, open, frozen, token) ==
  /\ \A i, j \in DOMAIN l2 : i # j =>
       /\ ToSet(l2[i].reads) \cap ToSet(l2[j].reads) = {}
       /\ l2[i].group = 0 \/ l2[i].group # l2[j].group
  /\ \A i \in DOMAIN l2 :
       /\ l2[i].group <= token
       /\ l2[i].group # 0 => (l2[i].group \in open <=> ~(i = 1 /\ frozen))
  /\ open \subseteq {l2[i].group : i \in DOMAIN l2} \ {0}
  /\ frozen => l2 # <<>>

(* The envelope e is of the group that its entry answers. *)
Recipient(e, entry) ==
  ToSet(e.reads) \subseteq Told(entry) /\ e.data = entry.data

(* The reads of an open group have been answered by its entry, with its    *)
(* data.                                                                   *)
Recipients(table, l2, open) ==
  \A i \in DOMAIN table, j \in DOMAIN l2 :
    l2[j].group \in open /\ l2[j].group = table[i].group =>
      Recipient(l2[j], table[i])

(* The reads that have been taken from the queue and not answered. *)
Taken(h) == DueOf(h.entries) \cup DirectIn(h.toRd, h.rdRsp)

(* The groups that are closed and of which the agent is still to learn are *)
(* closing.                                                                *)
Booked(h, closing) ==
  /\ TidyTable(h.entries)
  /\ TidyDirect(h.toRd, h.rdRsp)
  /\ TidyBuffer(h.l2, h.open, h.frozen, h.token)
  /\ Recipients(h.entries, h.l2, h.open)
  /\ GroupsOf(h.entries) = h.open \cup closing
  /\ h.open \cap closing = {} /\ \A g \in closing : g <= h.token
  /\ Once(h.rdQ, Reads) /\ In(h.rdQ, Reads) \cap Taken(h) = {}
  /\ DueOf(h.entries) \cap DirectIn(h.toRd, h.rdRsp) = {}
  /\ ReadsIn(h.l2) \cap (In(h.rdQ, Reads) \cup Taken(h)) = {}
  /\ IsFiniteSet(Taken(h)) /\ h.pending = Cardinality(Taken(h))
  /\ ~h.fault

(* Whom the target owes an answer. *)
Owed(h) == In(h.rdQ, Reads) \cup Taken(h) \cup ReadsIn(h.l2)

Closing(h) == ToSet(h.summaries)

(* The books between two steps. *)
Settled(h) == Booked(h, Closing(h)) /\ Once(h.summaries, Nat)

(* Every read that has come is in one place. *)
BooksBalance ==
  /\ Settled(home)
  /\ Once(reqIn, Reads) /\ In(reqIn, Reads) \cap (Owed(home) \cup done) = {}
  /\ done \cap Owed(home) = {}
  /\ sent \cap Reads = In(reqIn, Reads) \cup Owed(home) \cup (done \cap Reads)

-----------------------------------------------------------------------------
(* The table with its groups and its due reads *)

LEMMA TidyPut ==
  ASSUME NEW table \in Seq(EntryType), TidyTable(table), NEW i \in DOMAIN table,
         NEW e \in EntryType, Tidy(e),
         e.group = 0 \/ e.group \notin GroupsOf(table) \ {table[i].group},
         Due(e) \cap (DueOf(table) \ Due(table[i])) = {}
  PROVE  /\ TidyTable(Put(table, i, e))
         /\ GroupsOf(Put(table, i, e)) =
              (GroupsOf(table) \ {table[i].group}) \cup ({e.group} \ {0})
         /\ DueOf(Put(table, i, e)) = (DueOf(table) \ Due(table[i])) \cup Due(e)
<1> DEFINE new == Put(table, i, e)
<1>1. /\ DOMAIN new = DOMAIN table /\ new[i] = e
      /\ \A j \in DOMAIN table : j # i => new[j] = table[j]
  BY PutParts
<1> HIDE DEF new
<1>2. \A j, k \in DOMAIN table : j # k =>
        /\ Due(table[j]) \cap Due(table[k]) = {}
        /\ table[j].group = 0 \/ table[j].group # table[k].group
  BY DEF TidyTable
<1>3. ASSUME NEW j \in DOMAIN table, j # i
      PROVE  /\ Due(e) \cap Due(table[j]) = {}
             /\ table[j].group = 0 \/ table[j].group # e.group
  <2>1. Due(table[j]) \subseteq DueOf(table) \ Due(table[i])
    BY <1>2, <1>3 DEF DueOf
  <2>2. table[j].group # 0 => table[j].group \in GroupsOf(table) \ {table[i].group}
    BY <1>2, <1>3 DEF GroupsOf
  <2> QED BY <2>1, <2>2
<1>4. TidyTable(new)
  <2>1. \A j \in DOMAIN new : Tidy(new[j])
    BY <1>1 DEF TidyTable
  <2>2. ASSUME NEW j \in DOMAIN new, NEW k \in DOMAIN new, j # k
        PROVE  /\ Due(new[j]) \cap Due(new[k]) = {}
               /\ new[j].group = 0 \/ new[j].group # new[k].group
    <3>1. CASE j = i
      <4>1. new[j] = e /\ new[k] = table[k] /\ k \in DOMAIN table /\ k # i
        BY <1>1, <2>2, <3>1
      <4> QED BY <1>3, <4>1
    <3>2. CASE k = i
      <4>1. new[k] = e /\ new[j] = table[j] /\ j \in DOMAIN table /\ j # i
        BY <1>1, <2>2, <3>2
      <4> QED BY <1>3, <4>1
    <3>3. CASE j # i /\ k # i
      BY <1>1, <1>2, <2>2, <3>3
    <3> QED BY <3>1, <3>2, <3>3
  <2> QED BY <2>1, <2>2 DEF TidyTable
<1>5. GroupsOf(new) = (GroupsOf(table) \ {table[i].group}) \cup ({e.group} \ {0})
  <2>1. ASSUME NEW g \in GroupsOf(new)
        PROVE  g \in (GroupsOf(table) \ {table[i].group}) \cup ({e.group} \ {0})
    <3>1. PICK j \in DOMAIN new : g = new[j].group /\ g # 0
      BY <2>1 DEF GroupsOf
    <3>2. CASE j = i
      BY <1>1, <3>1, <3>2
    <3>3. CASE j # i
      <4>1. j \in DOMAIN table /\ g = table[j].group
        BY <1>1, <3>1, <3>3
      <4> QED BY <1>2, <3>1, <3>3, <4>1 DEF GroupsOf
    <3> QED BY <3>2, <3>3
  <2>2. ASSUME NEW g \in GroupsOf(table) \ {table[i].group}
        PROVE  g \in GroupsOf(new)
    <3>1. PICK j \in DOMAIN table : g = table[j].group /\ g # 0
      BY <2>2 DEF GroupsOf
    <3>2. j # i
      BY <2>2, <3>1
    <3> QED BY <1>1, <3>1, <3>2 DEF GroupsOf
  <2>3. {e.group} \ {0} \subseteq GroupsOf(new)
    BY <1>1 DEF GroupsOf
  <2> QED BY <2>1, <2>2, <2>3
<1>6. DueOf(new) = (DueOf(table) \ Due(table[i])) \cup Due(e)
  <2>1. ASSUME NEW r \in DueOf(new)
        PROVE  r \in (DueOf(table) \ Due(table[i])) \cup Due(e)
    <3>1. PICK j \in DOMAIN new : r \in Due(new[j])
      BY <2>1 DEF DueOf
    <3>2. CASE j = i
      BY <1>1, <3>1, <3>2
    <3>3. CASE j # i
      <4>1. j \in DOMAIN table /\ r \in Due(table[j])
        BY <1>1, <3>1, <3>3
      <4> QED BY <1>2, <3>3, <4>1 DEF DueOf
    <3> QED BY <3>2, <3>3
  <2>2. ASSUME NEW r \in DueOf(table) \ Due(table[i])
        PROVE  r \in DueOf(new)
    <3>1. PICK j \in DOMAIN table : r \in Due(table[j])
      BY <2>2 DEF DueOf
    <3>2. j # i
      BY <2>2, <3>1
    <3> QED BY <1>1, <3>1, <3>2 DEF DueOf
  <2>3. Due(e) \subseteq DueOf(new)
    BY <1>1 DEF DueOf
  <2> QED BY <2>1, <2>2, <2>3
<1> QED BY <1>4, <1>5, <1>6 DEF new

LEMMA AppendParts ==
  ASSUME NEW S, NEW s \in Seq(S), NEW e \in S
  PROVE  /\ DOMAIN Append(s, e) = DOMAIN s \cup {Len(s) + 1}
         /\ Append(s, e)[Len(s) + 1] = e /\ Len(s) + 1 \notin DOMAIN s
         /\ Len(s) + 1 \in Nat
         /\ \A j \in DOMAIN s : Append(s, e)[j] = s[j]
<1> DEFINE n == Len(s)
           t == Append(s, e)
<1>1. n \in Nat /\ DOMAIN s = 1 .. n /\ DOMAIN t = 1 .. n + 1
      /\ t[n + 1] = e /\ \A j \in 1 .. n : t[j] = s[j]
  OBVIOUS
<1> HIDE DEF n, t
<1>2. 1 .. n + 1 = (1 .. n) \cup {n + 1} /\ n + 1 \notin 1 .. n /\ n + 1 \in Nat
  BY <1>1
<1> QED BY <1>1, <1>2 DEF n, t

LEMMA TidyAppend ==
  ASSUME NEW table \in Seq(EntryType), TidyTable(table),
         NEW e \in EntryType, Tidy(e), e.group = 0, Due(e) \cap DueOf(table) = {}
  PROVE  /\ TidyTable(Append(table, e))
         /\ GroupsOf(Append(table, e)) = GroupsOf(table)
         /\ DueOf(Append(table, e)) = DueOf(table) \cup Due(e)
<1> DEFINE new == Append(table, e)
           n == Len(table) + 1
<1>1. /\ DOMAIN new = DOMAIN table \cup {n} /\ new[n] = e /\ n \notin DOMAIN table
      /\ \A j \in DOMAIN table : new[j] = table[j]
  BY AppendParts
<1> HIDE DEF new, n
<1>2. \A j \in DOMAIN table : Due(e) \cap Due(table[j]) = {}
  BY DEF DueOf
<1>3. TidyTable(new)
  <2>1. \A j \in DOMAIN new : Tidy(new[j])
    BY <1>1 DEF TidyTable
  <2>2. ASSUME NEW j \in DOMAIN new, NEW k \in DOMAIN new, j # k
        PROVE  /\ Due(new[j]) \cap Due(new[k]) = {}
               /\ new[j].group = 0 \/ new[j].group # new[k].group
    <3>1. CASE j = n
      <4>1. new[j] = e /\ new[k] = table[k] /\ k \in DOMAIN table
        BY <1>1, <2>2, <3>1
      <4> QED BY <1>2, <4>1
    <3>2. CASE k = n
      <4>1. new[k] = e /\ new[j] = table[j] /\ j \in DOMAIN table
        BY <1>1, <2>2, <3>2
      <4> QED BY <1>2, <4>1
    <3>3. CASE j # n /\ k # n
      BY <1>1, <2>2, <3>3 DEF TidyTable
    <3> QED BY <3>1, <3>2, <3>3
  <2> QED BY <2>1, <2>2 DEF TidyTable
<1>4. GroupsOf(new) = GroupsOf(table)
  <2>1. GroupsOf(new) = ({new[j].group : j \in DOMAIN table} \cup {new[n].group}) \ {0}
    BY <1>1 DEF GroupsOf
  <2>2. {new[j].group : j \in DOMAIN table} = {table[j].group : j \in DOMAIN table}
    BY <1>1
  <2> QED BY <1>1, <2>1, <2>2 DEF GroupsOf
<1>5. DueOf(new) = DueOf(table) \cup Due(e)
  BY <1>1 DEF DueOf
<1> QED BY <1>3, <1>4, <1>5 DEF new

(* What is left when the entry at i goes. *)
LEMMA RemovedOf ==
  ASSUME NEW S, NEW s \in Seq(S), NEW i \in DOMAIN s
  PROVE  /\ \A j \in DOMAIN RemoveAt(s, i) :
              \E k \in DOMAIN s \ {i} : RemoveAt(s, i)[j] = s[k]
                                       /\ k = IF j < i THEN j ELSE j + 1
         /\ \A k \in DOMAIN s \ {i} :
              \E j \in DOMAIN RemoveAt(s, i) : RemoveAt(s, i)[j] = s[k]
<1> DEFINE r == RemoveAt(s, i)
           n == Len(s)
<1>1. /\ DOMAIN r = 1 .. n - 1
      /\ \A j \in 1 .. n - 1 : r[j] = IF j < i THEN s[j] ELSE s[j + 1]
  BY RemoveAtParts
<1>2. n \in Nat /\ DOMAIN s = 1 .. n /\ i \in 1 .. n
  OBVIOUS
<1> HIDE DEF r, n
<1>3. ASSUME NEW j \in DOMAIN r
      PROVE  \E k \in DOMAIN s \ {i} : r[j] = s[k]
                                       /\ k = IF j < i THEN j ELSE j + 1
  <2> DEFINE k == IF j < i THEN j ELSE j + 1
  <2>1. k \in DOMAIN s \ {i}
    BY <1>1, <1>2
  <2>2. r[j] = s[k]
    BY <1>1
  <2> QED BY <2>1, <2>2
<1>4. ASSUME NEW k \in DOMAIN s \ {i}
      PROVE  \E j \in DOMAIN r : r[j] = s[k]
  <2> DEFINE j == IF k < i THEN k ELSE k - 1
  <2>1. j \in DOMAIN r /\ (j < i <=> k < i) /\ (~(k < i) => j + 1 = k)
    BY <1>1, <1>2
  <2>2. r[j] = IF j < i THEN s[j] ELSE s[j + 1]
    BY <1>1, <2>1
  <2>3. r[j] = s[k]
    <3>1. CASE k < i
      BY <2>1, <2>2, <3>1
    <3>2. CASE ~(k < i)
      <4>1. r[j] = s[j + 1] /\ j + 1 = k
        BY <2>1, <2>2, <3>2
      <4> QED BY <4>1
    <3> QED BY <3>1, <3>2
  <2> QED BY <2>1, <2>3
<1> QED BY <1>3, <1>4 DEF r

LEMMA TidyRemove ==
  ASSUME NEW table \in Seq(EntryType), TidyTable(table), NEW i \in DOMAIN table
  PROVE  /\ TidyTable(RemoveAt(table, i))
         /\ GroupsOf(RemoveAt(table, i)) = GroupsOf(table) \ {table[i].group}
         /\ DueOf(RemoveAt(table, i)) = DueOf(table) \ Due(table[i])
<1> DEFINE new == RemoveAt(table, i)
<1>1. /\ \A j \in DOMAIN new :
           \E k \in DOMAIN table \ {i} : new[j] = table[k]
                                         /\ k = IF j < i THEN j ELSE j + 1
      /\ \A k \in DOMAIN table \ {i} : \E j \in DOMAIN new : new[j] = table[k]
  BY RemovedOf
<1>2. DOMAIN new \subseteq Nat /\ i \in Nat
  BY RemoveAtParts
<1> HIDE DEF new
<1>3. \A j, k \in DOMAIN table : j # k =>
        /\ Due(table[j]) \cap Due(table[k]) = {}
        /\ table[j].group = 0 \/ table[j].group # table[k].group
  BY DEF TidyTable
<1>4. TidyTable(new)
  <2>1. \A j \in DOMAIN new : Tidy(new[j])
    BY <1>1 DEF TidyTable
  <2>2. ASSUME NEW j \in DOMAIN new, NEW k \in DOMAIN new, j # k
        PROVE  /\ Due(new[j]) \cap Due(new[k]) = {}
               /\ new[j].group = 0 \/ new[j].group # new[k].group
    <3>1. PICK m \in DOMAIN table \ {i} : new[j] = table[m]
                                          /\ m = IF j < i THEN j ELSE j + 1
      BY <1>1
    <3>2. PICK n \in DOMAIN table \ {i} : new[k] = table[n]
                                          /\ n = IF k < i THEN k ELSE k + 1
      BY <1>1
    <3>3. m # n
      BY <1>2, <2>2, <3>1, <3>2
    <3> QED BY <1>3, <3>1, <3>2, <3>3
  <2> QED BY <2>1, <2>2 DEF TidyTable
<1>5. GroupsOf(new) = GroupsOf(table) \ {table[i].group}
  <2>1. ASSUME NEW g \in GroupsOf(new)
        PROVE  g \in GroupsOf(table) \ {table[i].group}
    <3>1. PICK j \in DOMAIN new : g = new[j].group /\ g # 0
      BY <2>1 DEF GroupsOf
    <3>2. PICK k \in DOMAIN table \ {i} : new[j] = table[k]
      BY <1>1
    <3> QED BY <1>3, <3>1, <3>2 DEF GroupsOf
  <2>2. ASSUME NEW g \in GroupsOf(table) \ {table[i].group}
        PROVE  g \in GroupsOf(new)
    <3>1. PICK k \in DOMAIN table : g = table[k].group /\ g # 0
      BY <2>2 DEF GroupsOf
    <3>2. k \in DOMAIN table \ {i}
      BY <2>2, <3>1
    <3> QED BY <1>1, <3>1, <3>2 DEF GroupsOf
  <2> QED BY <2>1, <2>2
<1>6. DueOf(new) = DueOf(table) \ Due(table[i])
  <2>1. ASSUME NEW r \in DueOf(new)
        PROVE  r \in DueOf(table) \ Due(table[i])
    <3>1. PICK j \in DOMAIN new : r \in Due(new[j])
      BY <2>1 DEF DueOf
    <3>2. PICK k \in DOMAIN table \ {i} : new[j] = table[k]
      BY <1>1
    <3> QED BY <1>3, <3>1, <3>2 DEF DueOf
  <2>2. ASSUME NEW r \in DueOf(table) \ Due(table[i])
        PROVE  r \in DueOf(new)
    <3>1. PICK k \in DOMAIN table : r \in Due(table[k])
      BY <2>2 DEF DueOf
    <3>2. k \in DOMAIN table \ {i}
      BY <2>2, <3>1
    <3> QED BY <1>1, <3>1, <3>2 DEF DueOf
  <2> QED BY <2>1, <2>2
<1> QED BY <1>4, <1>5, <1>6 DEF new

(* The same for the recipients of the open groups. *)
LEMMA RecipientsPut ==
  ASSUME NEW table \in Seq(EntryType), NEW l2, NEW open,
         Recipients(table, l2, open), NEW i \in DOMAIN table, NEW e \in EntryType,
         e.group \in open => /\ e.group = table[i].group
                             /\ Told(table[i]) \subseteq Told(e)
                             /\ e.data = table[i].data
  PROVE  Recipients(Put(table, i, e), l2, open)
<1> DEFINE new == Put(table, i, e)
<1>1. /\ DOMAIN new = DOMAIN table /\ new[i] = e
      /\ \A j \in DOMAIN table : j # i => new[j] = table[j]
  BY PutParts
<1> HIDE DEF new
<1>2. ASSUME NEW j \in DOMAIN new, NEW k \in DOMAIN l2,
             l2[k].group \in open, l2[k].group = new[j].group
      PROVE  Recipient(l2[k], new[j])
  <2>1. CASE j = i
    <3>1. /\ new[j] = e /\ l2[k].group = table[i].group
          /\ Told(table[i]) \subseteq Told(e) /\ e.data = table[i].data
      BY <1>1, <1>2, <2>1
    <3>2. Recipient(l2[k], table[i])
      BY <1>2, <3>1 DEF Recipients
    <3> QED BY <3>1, <3>2 DEF Recipient
  <2>2. CASE j # i
    BY <1>1, <1>2, <2>2 DEF Recipients
  <2> QED BY <2>1, <2>2
<1> QED BY <1>2 DEF Recipients, new

LEMMA RecipientsAppend ==
  ASSUME NEW table \in Seq(EntryType), NEW l2, NEW open, 0 \notin open,
         Recipients(table, l2, open), NEW e \in EntryType, e.group = 0
  PROVE  Recipients(Append(table, e), l2, open)
<1> DEFINE new == Append(table, e)
           n == Len(table) + 1
<1>1. /\ DOMAIN new = DOMAIN table \cup {n} /\ new[n] = e
      /\ \A j \in DOMAIN table : new[j] = table[j]
  BY AppendParts
<1> HIDE DEF new, n
<1> QED BY <1>1 DEF Recipients, new

LEMMA RecipientsRemove ==
  ASSUME NEW table \in Seq(EntryType), NEW l2, NEW open,
         Recipients(table, l2, open), NEW i \in DOMAIN table
  PROVE  Recipients(RemoveAt(table, i), l2, open)
<1> DEFINE new == RemoveAt(table, i)
<1>1. \A j \in DOMAIN new : \E k \in DOMAIN table : new[j] = table[k]
  BY RemovedOf
<1> HIDE DEF new
<1>2. ASSUME NEW j \in DOMAIN new, NEW k \in DOMAIN l2,
             l2[k].group \in open, l2[k].group = new[j].group
      PROVE  Recipient(l2[k], new[j])
  <2>1. PICK m \in DOMAIN table : new[j] = table[m]
    BY <1>1
  <2> QED BY <1>2, <2>1 DEF Recipients
<1> QED BY <1>2 DEF Recipients, new

-----------------------------------------------------------------------------
(* The buffer with its groups and its reads *)

LEMMA EnvelopesOf ==
  ASSUME NEW h, NEW v, ReadHolds(h, v)
  PROVE  h.l2 \in Seq(Envelope)
<1> DEFINE E == [group : Nat, reads : Seq(Lines \cup Reads), data : Versions]
<1>1. h.l2 \in Seq(E) /\ BufferHolds(h.l2, h.ready)
  BY DEF ReadHolds, ReadSideType
<1>2. \A i \in DOMAIN h.l2 : h.l2[i] \in E /\ h.l2[i].reads \in Seq(Reads)
  <2> HIDE DEF E
  <2> QED BY <1>1 DEF BufferHolds
<1>3. \A i \in DOMAIN h.l2 : h.l2[i] \in Envelope
  <2> TAKE i \in DOMAIN h.l2
  <2> DEFINE e == h.l2[i]
  <2>1. e \in E /\ e.reads \in Seq(Reads)
    BY <1>2
  <2> HIDE DEF e
  <2>2. /\ e = [group |-> e.group, reads |-> e.reads, data |-> e.data]
        /\ e.group \in Nat /\ e.data \in Versions
    BY <2>1
  <2>3. e \in Envelope
    BY <2>1, <2>2 DEF Envelope
  <2> QED BY <2>3 DEF e
<1>4. Len(h.l2) \in Nat /\ DOMAIN h.l2 = 1 .. Len(h.l2)
  <2> HIDE DEF E
  <2> QED BY <1>1
<1> QED
  <2> HIDE DEF E
  <2>1. h.l2 = [i \in 1 .. Len(h.l2) |-> h.l2[i]]
    BY <1>1
  <2> QED BY <1>3, <1>4, <2>1

LEMMA EnvelopeParts ==
  ASSUME NEW l2 \in Seq(Envelope), NEW i \in DOMAIN l2
  PROVE  /\ l2[i] \in Envelope /\ l2[i].group \in Nat
         /\ l2[i].reads \in Seq(Reads) /\ ToSet(l2[i].reads) \subseteq Reads
         /\ ToSet(l2[i].reads) \subseteq ReadsIn(l2)
<1>1. l2[i] \in Envelope
  OBVIOUS
<1>2. l2[i].group \in Nat /\ l2[i].reads \in Seq(Reads)
  BY <1>1 DEF Envelope
<1>3. ToSet(l2[i].reads) \subseteq Reads
  BY <1>2 DEF ToSet
<1> QED BY <1>1, <1>2, <1>3 DEF ReadsIn

(* Envelope e, for read r alone, comes into the buffer, on its own or with *)
(* a group that it opens.                                                  *)
Enqueued(l2, open, token, e, r, new, open2, token2) ==
  /\ l2 \in Seq(Envelope) /\ token \in Nat /\ r \in Reads /\ r \notin ReadsIn(l2)
  /\ e \in Envelope /\ e.reads = <<r>> /\ new = Append(l2, e)
  /\ \/ e.group = 0 /\ open2 = open /\ token2 = token
     \/ e.group = token + 1 /\ open2 = open \cup {e.group} /\ token2 = token + 1

(* A read is put behind the others, by itself or as the first of a group.  *)
LEMMA TidyEnqueue ==
  ASSUME NEW l2, NEW open, NEW frozen, NEW token, TidyBuffer(l2, open, frozen, token),
         NEW e, NEW r, NEW new, NEW open2, NEW token2,
         Enqueued(l2, open, token, e, r, new, open2, token2)
  PROVE  /\ TidyBuffer(new, open2, frozen, token2)
         /\ ReadsIn(new) = ReadsIn(l2) \cup {r}
<1> DEFINE n == Len(l2) + 1
<1>0. /\ l2 \in Seq(Envelope) /\ token \in Nat /\ r \in Reads /\ r \notin ReadsIn(l2)
      /\ e \in Envelope /\ e.reads = <<r>> /\ new = Append(l2, e)
      /\ \/ e.group = 0 /\ open2 = open /\ token2 = token
         \/ e.group = token + 1 /\ open2 = open \cup {e.group} /\ token2 = token + 1
  BY DEF Enqueued
<1>1. /\ DOMAIN new = DOMAIN l2 \cup {n} /\ new[n] = e /\ n \notin DOMAIN l2
      /\ \A j \in DOMAIN l2 : new[j] = l2[j]
      /\ n = 1 => l2 = <<>>
      /\ new # <<>>
  <2>1. /\ n = 1 => l2 = <<>>
        /\ new # <<>>
    BY <1>0
  <2> QED BY <1>0, <2>1, AppendParts
<1>2. ToSet(e.reads) = {r}
  BY <1>0 DEF ToSet
<1>3. \A j \in DOMAIN l2 : /\ l2[j].group \in Nat
                           /\ ToSet(l2[j].reads) \subseteq ReadsIn(l2)
  BY <1>0, EnvelopeParts
<1> HIDE DEF n
<1>4. \A j \in DOMAIN l2 : l2[j].group <= token
  BY DEF TidyBuffer
<1>5. \A j \in DOMAIN l2 : l2[j].group <= token2 /\ l2[j].group # token + 1
  BY <1>0, <1>3, <1>4
<1>6. ASSUME NEW j \in DOMAIN new, NEW k \in DOMAIN new, j # k
      PROVE  /\ ToSet(new[j].reads) \cap ToSet(new[k].reads) = {}
             /\ new[j].group = 0 \/ new[j].group # new[k].group
  <2>1. CASE j = n
    <3>1. new[j] = e /\ new[k] = l2[k] /\ k \in DOMAIN l2
      BY <1>1, <1>6, <2>1
    <3> QED BY <1>0, <1>2, <1>3, <1>5, <3>1
  <2>2. CASE k = n
    <3>1. new[k] = e /\ new[j] = l2[j] /\ j \in DOMAIN l2
      BY <1>1, <1>6, <2>2
    <3> QED BY <1>0, <1>2, <1>3, <1>5, <3>1
  <2>3. CASE j # n /\ k # n
    <3>1. \A a, b \in DOMAIN l2 : a # b =>
            /\ ToSet(l2[a].reads) \cap ToSet(l2[b].reads) = {}
            /\ l2[a].group = 0 \/ l2[a].group # l2[b].group
      BY DEF TidyBuffer
    <3>2. j \in DOMAIN l2 /\ k \in DOMAIN l2 /\ new[j] = l2[j] /\ new[k] = l2[k]
      BY <1>1, <2>3
    <3> QED BY <1>6, <3>1, <3>2
  <2> QED BY <2>1, <2>2, <2>3
<1>7. ASSUME NEW j \in DOMAIN new
      PROVE  /\ new[j].group <= token2
             /\ new[j].group # 0 => (new[j].group \in open2 <=> ~(j = 1 /\ frozen))
  <2>1. CASE j = n
    <3>1. new[j] = e /\ (j = 1 => ~frozen)
      BY <1>1, <2>1 DEF TidyBuffer
    <3>2. e.group <= token2 /\ (e.group # 0 => e.group \in open2)
      <4>1. 0 <= token
        BY <1>0
      <4>2. token + 1 <= token + 1
        BY <1>0
      <4> QED BY <1>0, <4>1, <4>2
    <3> QED BY <3>1, <3>2
  <2>2. CASE j # n
    <3>1. j \in DOMAIN l2 /\ new[j] = l2[j]
      BY <1>1, <2>2
    <3>2. l2[j].group # 0 => (l2[j].group \in open <=> ~(j = 1 /\ frozen))
      BY <3>1 DEF TidyBuffer
    <3>3. l2[j].group \in open <=> l2[j].group \in open2
      BY <1>0, <1>5, <3>1
    <3> QED BY <1>5, <3>1, <3>2, <3>3
  <2> QED BY <2>1, <2>2
<1>8. open2 \subseteq {new[j].group : j \in DOMAIN new} \ {0}
  <2>1. ASSUME NEW g \in open
        PROVE  g \in {new[j].group : j \in DOMAIN new} \ {0}
    <3>1. g # 0 /\ \E j \in DOMAIN l2 : g = l2[j].group
      BY DEF TidyBuffer
    <3> QED BY <1>1, <3>1
  <2>2. CASE e.group = 0 /\ open2 = open /\ token2 = token
    BY <2>1, <2>2
  <2>3. CASE e.group = token + 1 /\ open2 = open \cup {e.group} /\ token2 = token + 1
    <3>1. token + 1 # 0
      BY <1>0
    <3>2. n \in DOMAIN new /\ new[n].group = e.group
      BY <1>1
    <3> QED BY <2>1, <2>3, <3>1, <3>2
  <2> QED BY <1>0, <2>2, <2>3
<1>9. TidyBuffer(new, open2, frozen, token2)
  BY <1>1, <1>6, <1>7, <1>8 DEF TidyBuffer
<1>10. ReadsIn(new) = ReadsIn(l2) \cup {r}
  BY <1>1, <1>2 DEF ReadsIn
<1> QED BY <1>9, <1>10

(* The reads of an envelope change. *)
LEMMA TidyRewrite ==
  ASSUME NEW l2 \in Seq(Envelope), NEW open, NEW frozen, NEW token,
         TidyBuffer(l2, open, frozen, token), NEW i \in DOMAIN l2,
         NEW e \in Envelope, e.group = l2[i].group,
         ToSet(e.reads) \cap (ReadsIn(l2) \ ToSet(l2[i].reads)) = {}
  PROVE  /\ TidyBuffer(Put(l2, i, e), open, frozen, token)
         /\ ReadsIn(Put(l2, i, e)) =
              (ReadsIn(l2) \ ToSet(l2[i].reads)) \cup ToSet(e.reads)
<1> DEFINE new == [l2 EXCEPT ![i] = e]
<1>1. /\ DOMAIN new = DOMAIN l2 /\ new[i] = e
      /\ \A j \in DOMAIN l2 : j # i => new[j] = l2[j]
      /\ new # <<>> /\ \A j \in DOMAIN l2 : new[j].group = l2[j].group
  OBVIOUS
<1> HIDE DEF new
<1>2. \A j, k \in DOMAIN l2 : j # k =>
        /\ ToSet(l2[j].reads) \cap ToSet(l2[k].reads) = {}
        /\ l2[j].group = 0 \/ l2[j].group # l2[k].group
  BY DEF TidyBuffer
<1>3. ASSUME NEW j \in DOMAIN l2, j # i
      PROVE  ToSet(e.reads) \cap ToSet(l2[j].reads) = {}
  <2>1. ToSet(l2[j].reads) \subseteq ReadsIn(l2) \ ToSet(l2[i].reads)
    BY <1>2, <1>3 DEF ReadsIn
  <2> QED BY <2>1
<1>4. ASSUME NEW j \in DOMAIN new, NEW k \in DOMAIN new, j # k
      PROVE  /\ ToSet(new[j].reads) \cap ToSet(new[k].reads) = {}
             /\ new[j].group = 0 \/ new[j].group # new[k].group
  <2>0. new[j].group = l2[j].group /\ new[k].group = l2[k].group
        /\ j \in DOMAIN l2 /\ k \in DOMAIN l2
    BY <1>1
  <2>1. ToSet(new[j].reads) \cap ToSet(new[k].reads) = {}
    <3>1. CASE j = i
      <4>1. new[j] = e /\ new[k] = l2[k] /\ k # i
        BY <1>1, <1>4, <3>1
      <4> QED BY <1>3, <2>0, <4>1
    <3>2. CASE k = i
      <4>1. new[k] = e /\ new[j] = l2[j] /\ j # i
        BY <1>1, <1>4, <3>2
      <4> QED BY <1>3, <2>0, <4>1
    <3>3. CASE j # i /\ k # i
      BY <1>1, <1>2, <1>4, <3>3
    <3> QED BY <3>1, <3>2, <3>3
  <2> QED BY <1>2, <1>4, <2>0, <2>1
<1>5. {new[j].group : j \in DOMAIN new} = {l2[j].group : j \in DOMAIN l2}
  BY <1>1
<1>6. \A j \in DOMAIN new :
        /\ new[j].group <= token
        /\ new[j].group # 0 => (new[j].group \in open <=> ~(j = 1 /\ frozen))
  BY <1>1 DEF TidyBuffer
<1>7. TidyBuffer(new, open, frozen, token)
  BY <1>1, <1>4, <1>5, <1>6 DEF TidyBuffer
<1>8. ReadsIn(new) = (ReadsIn(l2) \ ToSet(l2[i].reads)) \cup ToSet(e.reads)
  <2>1. ASSUME NEW r \in ReadsIn(new)
        PROVE  r \in (ReadsIn(l2) \ ToSet(l2[i].reads)) \cup ToSet(e.reads)
    <3>1. PICK j \in DOMAIN new : r \in ToSet(new[j].reads)
      BY <2>1 DEF ReadsIn
    <3>2. CASE j = i
      BY <1>1, <3>1, <3>2
    <3>3. CASE j # i
      <4>1. j \in DOMAIN l2 /\ r \in ToSet(l2[j].reads)
        BY <1>1, <3>1, <3>3
      <4> QED BY <1>2, <3>3, <4>1 DEF ReadsIn
    <3> QED BY <3>2, <3>3
  <2>2. ASSUME NEW r \in ReadsIn(l2) \ ToSet(l2[i].reads)
        PROVE  r \in ReadsIn(new)
    <3>1. PICK j \in DOMAIN l2 : r \in ToSet(l2[j].reads)
      BY <2>2 DEF ReadsIn
    <3>2. j # i
      BY <2>2, <3>1
    <3> QED BY <1>1, <3>1, <3>2 DEF ReadsIn
  <2>3. ToSet(e.reads) \subseteq ReadsIn(new)
    BY <1>1 DEF ReadsIn
  <2> QED BY <2>1, <2>2, <2>3
<1> QED BY <1>7, <1>8 DEF new, Put

(* The front leaves. *)
LEMMA TidyPop ==
  ASSUME NEW l2 \in Seq(Envelope), NEW open, NEW frozen, NEW token,
         TidyBuffer(l2, open, frozen, token), l2 # <<>>,
         frozen \/ l2[1].group = 0, NEW f, f = FALSE
  PROVE  /\ TidyBuffer(Tail(l2), open, f, token)
         /\ ReadsIn(Tail(l2)) = ReadsIn(l2) \ ToSet(l2[1].reads)
         /\ \A j \in DOMAIN Tail(l2) : j + 1 \in DOMAIN l2 /\ Tail(l2)[j] = l2[j + 1]
<1> DEFINE new == Tail(l2)
           n == Len(l2)
<1>1. /\ n \in Nat /\ DOMAIN l2 = 1 .. n /\ 1 <= n /\ DOMAIN new = 1 .. n - 1
      /\ \A j \in 1 .. n - 1 : new[j] = l2[j + 1]
  OBVIOUS
<1> HIDE DEF new, n
<1>2. /\ 1 \in DOMAIN l2
      /\ \A j \in DOMAIN new : j + 1 \in DOMAIN l2 /\ j + 1 # 1 /\ new[j] = l2[j + 1]
      /\ \A k \in DOMAIN l2 : k # 1 => k - 1 \in DOMAIN new /\ new[k - 1] = l2[k]
  <2>1. ASSUME NEW k \in DOMAIN l2, k # 1
        PROVE  k - 1 \in DOMAIN new /\ new[k - 1] = l2[k]
    <3>1. k - 1 \in 1 .. n - 1 /\ (k - 1) + 1 = k
      BY <1>1, <2>1
    <3> QED BY <1>1, <3>1
  <2>2. /\ 1 \in DOMAIN l2
        /\ \A j \in DOMAIN new : j + 1 \in DOMAIN l2 /\ j + 1 # 1 /\ new[j] = l2[j + 1]
    BY <1>1
  <2> QED BY <2>1, <2>2
<1>3. \A j, k \in DOMAIN l2 : j # k =>
        /\ ToSet(l2[j].reads) \cap ToSet(l2[k].reads) = {}
        /\ l2[j].group = 0 \/ l2[j].group # l2[k].group
  BY DEF TidyBuffer
<1>4. ASSUME NEW j \in DOMAIN new, NEW k \in DOMAIN new, j # k
      PROVE  /\ ToSet(new[j].reads) \cap ToSet(new[k].reads) = {}
             /\ new[j].group = 0 \/ new[j].group # new[k].group
  <2> DEFINE a == j + 1
             b == k + 1
  <2>1. a # b /\ a \in DOMAIN l2 /\ b \in DOMAIN l2
        /\ new[j] = l2[a] /\ new[k] = l2[b]
    BY <1>1, <1>2, <1>4
  <2> HIDE DEF a, b
  <2> QED BY <1>3, <2>1
<1>5. ASSUME NEW j \in DOMAIN new
      PROVE  /\ new[j].group <= token
             /\ new[j].group # 0 => (new[j].group \in open <=> ~(j = 1 /\ f))
  <2>1. j + 1 \in DOMAIN l2 /\ j + 1 # 1 /\ new[j] = l2[j + 1]
    BY <1>2
  <2> DEFINE k == j + 1
  <2> HIDE DEF k
  <2>2. k \in DOMAIN l2 /\ k # 1 /\ new[j] = l2[k]
    BY <2>1 DEF k
  <2> QED BY <2>2 DEF TidyBuffer
<1>6. open \subseteq {new[j].group : j \in DOMAIN new} \ {0}
  <2> SUFFICES ASSUME NEW g \in open
               PROVE  g \in {new[j].group : j \in DOMAIN new} \ {0}
    OBVIOUS
  <2>1. g # 0 /\ \E j \in DOMAIN l2 : g = l2[j].group
    BY DEF TidyBuffer
  <2>2. PICK j \in DOMAIN l2 : g = l2[j].group
    BY <2>1
  <2>3. j # 1
    BY <2>1, <2>2 DEF TidyBuffer
  <2> QED BY <1>2, <2>1, <2>2, <2>3
<1>7. TidyBuffer(new, open, f, token)
  BY <1>4, <1>5, <1>6 DEF TidyBuffer
<1>8. ReadsIn(new) = ReadsIn(l2) \ ToSet(l2[1].reads)
  <2>1. ASSUME NEW r \in ReadsIn(new)
        PROVE  r \in ReadsIn(l2) \ ToSet(l2[1].reads)
    <3>1. PICK j \in DOMAIN new : r \in ToSet(new[j].reads)
      BY <2>1 DEF ReadsIn
    <3>2. PICK k \in DOMAIN l2 : k # 1 /\ r \in ToSet(l2[k].reads)
      BY <1>2, <3>1
    <3> QED BY <1>2, <1>3, <3>2 DEF ReadsIn
  <2>2. ASSUME NEW r \in ReadsIn(l2) \ ToSet(l2[1].reads)
        PROVE  r \in ReadsIn(new)
    <3>1. PICK k \in DOMAIN l2 : r \in ToSet(l2[k].reads)
      BY <2>2 DEF ReadsIn
    <3>2. k # 1
      BY <2>2, <3>1
    <3>3. k - 1 \in DOMAIN new /\ r \in ToSet(new[k - 1].reads)
      BY <1>2, <3>1, <3>2
    <3> QED BY <3>3 DEF ReadsIn
  <2> QED BY <2>1, <2>2
<1>9. \A j \in DOMAIN new : j + 1 \in DOMAIN l2 /\ new[j] = l2[j + 1]
  BY <1>2
<1> QED BY <1>7, <1>8, <1>9 DEF new

(* What is left when those that leave are gone. *)
LEMMA WithoutParts ==
  ASSUME NEW S, NEW s \in Seq(S), NEW leaving
  PROVE  ToSet(Without(s, leaving)) = ToSet(s) \ leaving
<1> DEFINE n == Len(s)
<1>1. n \in Nat
  OBVIOUS
<1>2. PICK g : IsFilter(g, n, s, leaving)
  BY <1>1, FilterExists
<1>3. g = [k \in 0 .. n |-> IF k = 0 THEN <<>>
                            ELSE IF s[k] \in leaving THEN g[k - 1]
                            ELSE Append(g[k - 1], s[k])]
  BY <1>2 DEF IsFilter
<1>4. \E f : /\ f = [k \in 0 .. n |-> IF k = 0 THEN <<>>
                                      ELSE IF s[k] \in leaving THEN f[k - 1]
                                      ELSE Append(f[k - 1], s[k])]
             /\ Without(s, leaving) = f[n]
  BY <1>3, Zenon DEF Without
<1>5. PICK f : IsFilter(f, n, s, leaving) /\ Without(s, leaving) = f[n]
  BY <1>4 DEF IsFilter
<1> DEFINE Good(k) == /\ f[k] \in Seq(S)
                      /\ ToSet(f[k]) = {s[j] : j \in 1 .. k} \ leaving
           T == {k \in 0 .. n : ~Good(k)}
<1>6. SUFFICES ASSUME T # {}
               PROVE  FALSE
  <2>1. T = {} => Good(n)
    <3> HIDE DEF Good
    <3> QED BY <1>1
  <2>2. ToSet(s) = {s[j] : j \in 1 .. n}
    BY DEF ToSet
  <2> QED BY <1>5, <2>1, <2>2
<1>7. PICK m \in T : \A k \in T : m <= k
  <2>1. T \in SUBSET Nat
    BY <1>1
  <2> HIDE DEF T
  <2> QED BY <1>6, <2>1, LeastOf
<1>8. m \in 0 .. n /\ ~Good(m)
  BY <1>7
<1>9. f[m] = IF m = 0 THEN <<>>
             ELSE IF s[m] \in leaving THEN f[m - 1] ELSE Append(f[m - 1], s[m])
  BY <1>5, <1>8 DEF IsFilter
<1>10. m # 0
  <2>1. <<>> \in Seq(S) /\ ToSet(<<>>) = {} /\ {s[j] : j \in 1 .. 0} = {}
    BY DEF ToSet
  <2> QED BY <1>8, <1>9, <2>1
<1>11. m - 1 \in 0 .. n /\ ~(m <= m - 1) /\ m \in 1 .. n
       /\ 1 .. m = (1 .. m - 1) \cup {m}
  BY <1>1, <1>8, <1>10
<1>12. Good(m - 1) /\ s[m] \in S
  <2>1. Good(m - 1)
    <3> HIDE DEF Good
    <3> QED BY <1>7, <1>11
  <2>2. s[m] \in S
    BY <1>11
  <2> QED BY <2>1, <2>2
<1> HIDE DEF T
<1> DEFINE old == f[m - 1]
<1>13. old \in Seq(S) /\ ToSet(old) = {s[j] : j \in 1 .. m - 1} \ leaving
  BY <1>12
<1>14. {s[j] : j \in 1 .. m} = {s[j] : j \in 1 .. m - 1} \cup {s[m]}
  BY <1>11
<1>15. CASE s[m] \in leaving
  <2>1. f[m] = old
    BY <1>9, <1>10, <1>15
  <2>2. ToSet(f[m]) = {s[j] : j \in 1 .. m} \ leaving
    <3> HIDE DEF old
    <3> QED BY <1>13, <1>14, <1>15, <2>1
  <2> QED BY <1>8, <1>13, <2>1, <2>2
<1>16. CASE s[m] \notin leaving
  <2> DEFINE x == s[m]
  <2>1. f[m] = Append(old, x) /\ x \in S
    BY <1>9, <1>10, <1>12, <1>16
  <2> HIDE DEF old, x
  <2>2. Append(old, x) \in Seq(S) /\ ToSet(Append(old, x)) = ToSet(old) \cup {x}
    <3>1. Append(old, x) \in Seq(S)
      BY <1>13, <2>1
    <3>2. /\ DOMAIN Append(old, x) = DOMAIN old \cup {Len(old) + 1}
          /\ Append(old, x)[Len(old) + 1] = x
          /\ \A j \in DOMAIN old : Append(old, x)[j] = old[j]
      BY <1>13, <2>1, AppendParts
    <3> QED BY <3>1, <3>2 DEF ToSet
  <2>3. {x} \cap leaving = {}
    BY <1>16 DEF x
  <2>4. {s[j] : j \in 1 .. m} = {s[j] : j \in 1 .. m - 1} \cup {x}
    BY <1>14 DEF x
  <2> QED BY <1>8, <1>13, <2>1, <2>2, <2>3, <2>4
<1> QED BY <1>15, <1>16

-----------------------------------------------------------------------------
(* Reads that bypass the agent, on the channels *)

(* A line is not a read. *)
LEMMA AppendLine ==
  ASSUME NEW s \in Seq(Lines \cup Reads), NEW x \in Lines, Once(s, Reads)
  PROVE  Once(Append(s, x), Reads) /\ In(Append(s, x), Reads) = In(s, Reads)
<1>1. x \notin Reads /\ x \in Lines \cup Reads
  BY HomeAssumption
<1>2. x \notin In(s, Reads) /\ {x} \cap Reads = {}
  BY <1>1 DEF In
<1>3. /\ Once(Append(s, x), Reads)
      /\ In(Append(s, x), Reads) = In(s, Reads) \cup ({x} \cap Reads)
  BY <1>1, <1>2, AppendOnce
<1> QED BY <1>2, <1>3

(* A request of the agent does not matter to them. *)
LEMMA DirectAsk ==
  ASSUME NEW toRd \in Seq(Lines \cup Reads), NEW rdRsp, TidyDirect(toRd, rdRsp),
         NEW x \in Lines
  PROVE  /\ TidyDirect(Append(toRd, x), rdRsp)
         /\ DirectIn(Append(toRd, x), rdRsp) = DirectIn(toRd, rdRsp)
<1>1. Once(toRd, Reads)
  BY DEF TidyDirect
<1>2. Once(Append(toRd, x), Reads) /\ In(Append(toRd, x), Reads) = In(toRd, Reads)
  BY <1>1, AppendLine
<1> QED BY <1>2 DEF TidyDirect, DirectIn

(* One more read is asked for. *)
LEMMA DirectBypass ==
  ASSUME NEW toRd \in Seq(Lines \cup Reads), NEW rdRsp, TidyDirect(toRd, rdRsp),
         NEW r \in Reads, r \notin DirectIn(toRd, rdRsp)
  PROVE  /\ TidyDirect(Append(toRd, r), rdRsp)
         /\ DirectIn(Append(toRd, r), rdRsp) = DirectIn(toRd, rdRsp) \cup {r}
<1>1. /\ Once(toRd, Reads) /\ r \notin In(toRd, Reads) /\ r \in Lines \cup Reads
      /\ \A c \in Ports : r \notin In(What(rdRsp[c]), Reads)
  BY DEF TidyDirect, DirectIn
<1>2. /\ Once(Append(toRd, r), Reads)
      /\ In(Append(toRd, r), Reads) = In(toRd, Reads) \cup ({r} \cap Reads)
  BY <1>1, AppendOnce
<1>3. In(Append(toRd, r), Reads) = In(toRd, Reads) \cup {r}
  BY <1>2
<1>4. TidyDirect(Append(toRd, r), rdRsp)
  BY <1>1, <1>2, <1>3 DEF TidyDirect
<1> QED BY <1>3, <1>4 DEF DirectIn

(* The head of a channel, which answers x, is taken. *)
Popped(rdRsp, c, x, popped) ==
  /\ rdRsp \in [Ports -> Seq(Rsp)] /\ c \in Ports /\ rdRsp[c] # <<>>
  /\ x = Head(rdRsp[c]).what /\ popped = [rdRsp EXCEPT ![c] = Tail(@)]

(* The oldest request of the memory is answered on channel c. *)
Pushed(toRd, rdRsp, c, rsp, rest, pushed) ==
  /\ toRd \in Seq(Lines \cup Reads) /\ toRd # <<>> /\ rest = Tail(toRd)
  /\ rdRsp \in [Ports -> Seq(Rsp)] /\ c \in Ports
  /\ rsp \in Rsp /\ rsp.what = Head(toRd)
  /\ pushed = [rdRsp EXCEPT ![c] = Append(@, rsp)]

(* A response is taken off its channel, perhaps that of a read. *)
LEMMA DirectPop ==
  ASSUME NEW toRd, NEW rdRsp, TidyDirect(toRd, rdRsp), NEW c, NEW x, NEW popped,
         Popped(rdRsp, c, x, popped)
  PROVE  /\ TidyDirect(toRd, popped)
         /\ DirectIn(toRd, popped) = DirectIn(toRd, rdRsp) \ {x}
         /\ x \in Reads => x \in DirectIn(toRd, rdRsp)
<1> DEFINE s == rdRsp[c]
           old(d) == In(What(rdRsp[d]), Reads)
           new(d) == In(What(popped[d]), Reads)
           asked == In(toRd, Reads)
<1>1. s \in Seq(Rsp) /\ s # <<>> /\ x = Head(s).what /\ c \in Ports
  BY DEF Popped
<1>2. /\ What(s) # <<>> /\ Head(What(s)) = x /\ What(Tail(s)) = Tail(What(s))
      /\ What(s) \in Seq(Lines \cup Reads)
  BY <1>1, WhatTail, WhatParts
<1>3. /\ popped[c] = Tail(s) /\ \A d \in Ports : d # c => popped[d] = rdRsp[d]
  BY DEF Popped
<1>4. Once(What(s), Reads) /\ Once(toRd, Reads)
  BY <1>1 DEF TidyDirect
<1>5. /\ Once(What(Tail(s)), Reads)
      /\ In(What(Tail(s)), Reads) = In(What(s), Reads) \ {x}
      /\ x \in Reads => x \in In(What(s), Reads)
  <2> DEFINE w == What(s)
  <2>1. w \in Seq(Lines \cup Reads) /\ w # <<>> /\ Once(w, Reads)
    BY <1>2, <1>4
  <2>2. Head(w) = x /\ What(Tail(s)) = Tail(w)
    BY <1>2
  <2> HIDE DEF w
  <2>3. /\ Once(Tail(w), Reads)
        /\ In(Tail(w), Reads) = In(w, Reads) \ {Head(w)}
        /\ Head(w) \in Reads => Head(w) \in In(w, Reads)
    BY <2>1, TailOnce
  <2>4. /\ Once(What(Tail(s)), Reads)
        /\ In(What(Tail(s)), Reads) = In(w, Reads) \ {x}
        /\ x \in Reads => x \in In(w, Reads)
    BY <2>2, <2>3
  <2> QED BY <2>4 DEF w
<1>6. new(c) = old(c) \ {x} /\ \A d \in Ports : d # c => new(d) = old(d)
  BY <1>3, <1>5
<1>7. /\ \A d \in Ports : asked \cap old(d) = {}
      /\ \A d, e \in Ports : d # e => old(d) \cap old(e) = {}
      /\ \A d \in Ports : Once(What(rdRsp[d]), Reads)
  BY DEF TidyDirect
<1>8. \A d \in Ports : Once(What(popped[d]), Reads)
  BY <1>3, <1>5, <1>7
<1>9. x \in Reads => x \in old(c)
  BY <1>5
<1>10. \A d \in Ports : old(d) \subseteq Reads /\ asked \subseteq Reads
  BY DEF In
<1>11. DirectIn(toRd, popped) = asked \cup UNION {new(d) : d \in Ports}
  BY DEF DirectIn
<1>12. DirectIn(toRd, rdRsp) = asked \cup UNION {old(d) : d \in Ports}
  BY DEF DirectIn
<1> HIDE DEF old, new, asked
<1>13. /\ \A d \in Ports : asked \cap new(d) = {}
       /\ \A d, e \in Ports : d # e => new(d) \cap new(e) = {}
  BY <1>6, <1>7
<1>14. TidyDirect(toRd, popped)
  BY <1>4, <1>8, <1>13 DEF TidyDirect, new, asked
<1>15. asked \cup UNION {new(d) : d \in Ports}
         = (asked \cup UNION {old(d) : d \in Ports}) \ {x}
  <2>1. ASSUME NEW y PROVE (\E d \in Ports : y \in new(d))
                             <=> (y # x \/ y \notin Reads)
                                 /\ \E d \in Ports : y \in old(d)
    <3>1. CASE y = x
      BY <1>1, <1>6, <1>7, <1>9, <1>10, <3>1
    <3>2. CASE y # x
      BY <1>6, <3>2
    <3> QED BY <3>1, <3>2
  <2>2. x \notin asked
    BY <1>1, <1>7, <1>9, <1>10
  <2>3. \A y : (\E d \in Ports : y \in old(d)) => y \in Reads
    BY <1>10
  <2> QED BY <2>1, <2>2, <2>3
<1>16. x \in Reads => x \in DirectIn(toRd, rdRsp)
  BY <1>1, <1>9, <1>12
<1>17. DirectIn(toRd, popped) = DirectIn(toRd, rdRsp) \ {x}
  BY <1>11, <1>12, <1>15
<1> QED BY <1>14, <1>16, <1>17

(* The memory answers. *)
LEMMA DirectAnswer ==
  ASSUME NEW toRd, NEW rdRsp, TidyDirect(toRd, rdRsp), NEW c, NEW rsp,
         NEW rest, NEW pushed, Pushed(toRd, rdRsp, c, rsp, rest, pushed)
  PROVE  /\ TidyDirect(rest, pushed)
         /\ DirectIn(rest, pushed) = DirectIn(toRd, rdRsp)
<1> DEFINE s == rdRsp[c]
           x == Head(toRd)
           old(d) == In(What(rdRsp[d]), Reads)
           new(d) == In(What(pushed[d]), Reads)
           asked == In(toRd, Reads)
           left == In(rest, Reads)
<1>0. /\ toRd \in Seq(Lines \cup Reads) /\ toRd # <<>> /\ rest = Tail(toRd)
      /\ rsp \in Rsp /\ rsp.what = x /\ c \in Ports /\ rdRsp[c] \in Seq(Rsp)
  BY DEF Pushed
<1>1. /\ Once(toRd, Reads)
      /\ \A d \in Ports : asked \cap old(d) = {}
      /\ \A d, e \in Ports : d # e => old(d) \cap old(e) = {}
      /\ \A d \in Ports : Once(What(rdRsp[d]), Reads)
  BY DEF TidyDirect
<1>2. /\ Once(rest, Reads) /\ left = asked \ {x}
      /\ x \in Reads => x \in asked /\ x \in Lines \cup Reads
  BY <1>0, <1>1, TailOnce
<1>3. s \in Seq(Rsp)
  BY <1>0
<1>4. /\ What(Append(s, rsp)) = Append(What(s), x) /\ x \in Lines \cup Reads
      /\ What(s) \in Seq(Lines \cup Reads)
  BY <1>0, <1>2, <1>3, WhatAppend, WhatParts
<1>5. x \notin In(What(s), Reads)
  <2>1. In(What(s), Reads) \subseteq Reads
    BY DEF In
  <2> QED BY <1>0, <1>1, <1>2, <2>1
<1>6. /\ Once(What(Append(s, rsp)), Reads)
      /\ In(What(Append(s, rsp)), Reads) = In(What(s), Reads) \cup ({x} \cap Reads)
  <2> DEFINE w == What(s)
  <2>1. w \in Seq(Lines \cup Reads) /\ Once(w, Reads) /\ x \notin In(w, Reads)
    BY <1>0, <1>1, <1>4, <1>5
  <2>2. What(Append(s, rsp)) = Append(w, x)
    BY <1>4
  <2> HIDE DEF w, x
  <2>3. /\ Once(Append(w, x), Reads)
        /\ In(Append(w, x), Reads) = In(w, Reads) \cup ({x} \cap Reads)
    BY <1>4, <2>1, AppendOnce
  <2>4. /\ Once(What(Append(s, rsp)), Reads)
        /\ In(What(Append(s, rsp)), Reads) = In(w, Reads) \cup ({x} \cap Reads)
    BY <2>2, <2>3
  <2> QED BY <2>4 DEF w
<1>7. /\ pushed[c] = Append(s, rsp) /\ \A d \in Ports : d # c => pushed[d] = rdRsp[d]
  BY DEF Pushed
<1> HIDE DEF x
<1>8. new(c) = old(c) \cup ({x} \cap Reads)
      /\ \A d \in Ports : d # c => new(d) = old(d)
  BY <1>0, <1>6, <1>7
<1>9. \A d \in Ports : Once(What(pushed[d]), Reads)
  BY <1>1, <1>6, <1>7
<1>10. asked \subseteq Reads
  BY DEF In
<1>11. DirectIn(rest, pushed) = left \cup UNION {new(d) : d \in Ports}
  BY DEF DirectIn
<1>12. DirectIn(toRd, rdRsp) = asked \cup UNION {old(d) : d \in Ports}
  BY DEF DirectIn
<1> HIDE DEF old, new, asked, left
<1>13. /\ \A d \in Ports : left \cap new(d) = {}
       /\ \A d, e \in Ports : d # e => new(d) \cap new(e) = {}
  <2>1. \A y : y \in {x} \cap Reads => y \in asked /\ y \notin left
    BY <1>2
  <2>2. /\ \A d, y : d \in Ports /\ y \in new(d) => y \in old(d) \/ (d = c /\ y \in {x} \cap Reads)
        /\ left \subseteq asked
    BY <1>2, <1>8
  <2>3. \A d \in Ports : \A y : y \in asked => y \notin old(d)
    BY <1>1
  <2> QED BY <1>1, <2>1, <2>2, <2>3
<1>14. TidyDirect(rest, pushed)
  BY <1>2, <1>9, <1>13 DEF TidyDirect, new, left
<1>15. left \cup UNION {new(d) : d \in Ports} = asked \cup UNION {old(d) : d \in Ports}
  <2>1. \A y : (\E d \in Ports : y \in new(d))
                 <=> (\E d \in Ports : y \in old(d)) \/ (y = x /\ y \in Reads)
    BY <1>0, <1>8
  <2>2. \A y : y \in left <=> y \in asked /\ (y # x \/ y \notin Reads)
    BY <1>2, <1>10
  <2>3. x \in Reads => x \in asked
    BY <1>2
  <2>4. \A y : y \in left \/ (\E d \in Ports : y \in new(d))
                 <=> y \in asked \/ \E d \in Ports : y \in old(d)
    BY <2>1, <2>2, <2>3
  <2> QED BY <2>4
<1>16. DirectIn(rest, pushed) = DirectIn(toRd, rdRsp)
  BY <1>11, <1>12, <1>15
<1> QED BY <1>14, <1>16

-----------------------------------------------------------------------------
(* The reads that have data, with it *)

(* The pairs of those that do not leave. *)
Staying(pairs, leaving) == {p \in pairs : p[1] \notin leaving}

LEMMA StoredAppend ==
  ASSUME NEW l2 \in Seq(Envelope), NEW e \in Envelope
  PROVE  Stored(Append(l2, e)) = Stored(l2) \cup Pairs(e)
<1> DEFINE m == Append(l2, e)
<1>1. /\ DOMAIN m = DOMAIN l2 \cup {Len(l2) + 1}
      /\ m[Len(l2) + 1] = e
      /\ \A j \in DOMAIN l2 : m[j] = l2[j]
  BY AppendParts
<1> HIDE DEF m
<1>2. Stored(m) = Stored(l2) \cup Pairs(e)
  BY <1>1 DEF Stored
<1> QED BY <1>2 DEF m

(* A read is handed over alone, or first of its group. *)
LEMMA StoredFirst ==
  ASSUME NEW l2 \in Seq(Envelope), NEW e \in Envelope, NEW r, e.reads = <<r>>
  PROVE  Stored(Append(l2, e)) = Stored(l2) \cup {<<r, e.data>>}
<1>1. DOMAIN <<r>> = {1} /\ <<r>>[1] = r
  OBVIOUS
<1>2. ToSet(e.reads) = {r}
  BY <1>1 DEF ToSet
<1>3. Pairs(e) = {<<r, e.data>>}
  BY <1>2 DEF Pairs
<1> QED BY <1>3, StoredAppend

(* m holds what l2 does, and data d for read r. *)
Gains(l2, m, r, d) == Stored(m) = Stored(l2) \cup {<<r, d>>}

(* A read joins a group. *)
LEMMA StoredJoin ==
  ASSUME NEW l2 \in Seq(Envelope), NEW j \in DOMAIN l2, NEW r, NEW f,
         ToSet(f.reads) = ToSet(l2[j].reads) \cup {r}, f.data = l2[j].data
  PROVE  Gains(l2, Put(l2, j, f), r, f.data)
<1> DEFINE m == [l2 EXCEPT ![j] = f]
<1>1. /\ DOMAIN m = DOMAIN l2 /\ m[j] = f
      /\ \A i \in DOMAIN l2 : i # j => m[i] = l2[i]
  OBVIOUS
<1> HIDE DEF m
<1>2. Pairs(f) = Pairs(l2[j]) \cup {<<r, f.data>>}
  BY DEF Pairs
<1>3. Stored(m) = Stored(l2) \cup {<<r, f.data>>}
  BY <1>1, <1>2 DEF Stored
<1> QED BY <1>3 DEF m, Put, Gains

LEMMA PairsStay ==
  ASSUME NEW e, NEW gone
  PROVE  /\ \A p \in Pairs(e) : p[1] \in ToSet(e.reads)
         /\ ToSet(e.reads) \cap gone = {} => Staying(Pairs(e), gone) = Pairs(e)
         /\ ToSet(e.reads) \subseteq gone => Staying(Pairs(e), gone) = {}
         /\ \A f : ToSet(f.reads) = ToSet(e.reads) \ gone /\ f.data = e.data =>
                     Pairs(f) = Staying(Pairs(e), gone)
<1>1. \A p \in Pairs(e) : p[1] \in ToSet(e.reads)
  BY DEF Pairs
<1>2. ASSUME NEW f, ToSet(f.reads) = ToSet(e.reads) \ gone, f.data = e.data
      PROVE  Pairs(f) = Staying(Pairs(e), gone)
  BY <1>2 DEF Pairs, Staying
<1> QED BY <1>1, <1>2 DEF Staying

(* A carrier takes its reads away, others of its response stay. *)
LEMMA StoredShrink ==
  ASSUME NEW l2 \in Seq(Envelope), NEW j \in DOMAIN l2, NEW f, NEW gone,
         \A i \in DOMAIN l2 : i # j => ToSet(l2[i].reads) \cap gone = {},
         ToSet(f.reads) = ToSet(l2[j].reads) \ gone, f.data = l2[j].data
  PROVE  Stored(Put(l2, j, f)) = Staying(Stored(l2), gone)
<1> DEFINE m == [l2 EXCEPT ![j] = f]
<1>1. /\ DOMAIN m = DOMAIN l2 /\ m[j] = f
      /\ \A i \in DOMAIN l2 : i # j => m[i] = l2[i]
  OBVIOUS
<1> HIDE DEF m
<1>2. \A i \in DOMAIN l2 : Pairs(m[i]) = Staying(Pairs(l2[i]), gone)
  <2> TAKE i \in DOMAIN l2
  <2>1. CASE i = j
    BY <1>1, <2>1, PairsStay
  <2>2. CASE i # j
    BY <1>1, <2>2, PairsStay
  <2> QED BY <2>1, <2>2
<1>3. Stored(m) = Staying(Stored(l2), gone)
  BY <1>1, <1>2 DEF Stored, Staying
<1> QED BY <1>3 DEF m, Put

(* The last ones of a response leave. *)
LEMMA StoredPop ==
  ASSUME NEW l2 \in Seq(Envelope), l2 # <<>>, NEW gone, ToSet(l2[1].reads) = gone,
         \A i \in DOMAIN l2 : i # 1 => ToSet(l2[i].reads) \cap gone = {}
  PROVE  Stored(Tail(l2)) = Staying(Stored(l2), gone)
<1> DEFINE n == Len(l2)
           m == Tail(l2)
<1>1. /\ n \in Nat /\ n > 0 /\ DOMAIN l2 = 1 .. n /\ DOMAIN m = 1 .. n - 1
      /\ \A i \in 1 .. n - 1 : m[i] = l2[i + 1]
  OBVIOUS
<1> HIDE DEF m, n
<1>2. /\ \A i \in DOMAIN m : i + 1 \in DOMAIN l2 /\ i + 1 # 1
      /\ \A i \in DOMAIN l2 : i # 1 => i - 1 \in DOMAIN m /\ m[i - 1] = l2[i]
  BY <1>1
<1>3. Staying(Pairs(l2[1]), gone) = {} /\ 1 \in DOMAIN l2
  BY <1>1, PairsStay
<1>4. \A i \in DOMAIN l2 : i # 1 => Staying(Pairs(l2[i]), gone) = Pairs(l2[i])
  BY PairsStay
<1>5. \A i \in DOMAIN m : Pairs(m[i]) = Pairs(l2[i + 1])
  BY <1>1
<1>6. ASSUME NEW p PROVE p \in Stored(m) <=> p \in Staying(Stored(l2), gone)
  <2>1. p \in Staying(Stored(l2), gone)
          <=> \E i \in DOMAIN l2 : p \in Staying(Pairs(l2[i]), gone)
    BY DEF Stored, Staying
  <2>2. p \in Staying(Stored(l2), gone)
          <=> \E i \in DOMAIN l2 : i # 1 /\ p \in Pairs(l2[i])
    BY <1>3, <1>4, <2>1
  <2>3. p \in Stored(m) <=> \E i \in DOMAIN m : p \in Pairs(m[i])
    BY DEF Stored
  <2>4. ASSUME NEW i \in DOMAIN m, p \in Pairs(m[i])
        PROVE  \E k \in DOMAIN l2 : k # 1 /\ p \in Pairs(l2[k])
    BY <1>2, <1>5, <2>4
  <2>5. ASSUME NEW i \in DOMAIN l2, i # 1, p \in Pairs(l2[i])
        PROVE  \E k \in DOMAIN m : p \in Pairs(m[k])
    BY <1>2, <2>5
  <2> QED BY <2>2, <2>3, <2>4, <2>5
<1>7. Stored(m) = Staying(Stored(l2), gone)
  BY <1>6 DEF Staying
<1> QED BY <1>7 DEF m

(* What is carried by a response. *)
PairOf(rsp) == IF rsp.what \in Reads THEN {<<rsp.what, rsp.data>>} ELSE {}

LEMMA CarriedIs ==
  ASSUME NEW s
  PROVE  Carried(s) = UNION {PairOf(s[k]) : k \in DOMAIN s}
BY DEF Carried, PairOf, ToSet

LEMMA ReturningPop ==
  ASSUME NEW rdRsp \in [Ports -> Seq(Rsp)], NEW c \in Ports, rdRsp[c] # <<>>
  PROVE  Returning(rdRsp) = Returning([rdRsp EXCEPT ![c] = Tail(@)])
                              \cup PairOf(Head(rdRsp[c]))
<1> DEFINE s == rdRsp[c]
           t == Tail(s)
           n == Len(s)
           popped == [rdRsp EXCEPT ![c] = t]
<1>1. /\ n \in Nat /\ n > 0 /\ DOMAIN s = 1 .. n /\ DOMAIN t = 1 .. n - 1
      /\ \A i \in 1 .. n - 1 : t[i] = s[i + 1]
      /\ Head(s) = s[1]
  OBVIOUS
<1>2. popped[c] = t /\ \A d \in Ports : d # c => popped[d] = rdRsp[d]
  OBVIOUS
<1> HIDE DEF s, t, n, popped
<1>3. /\ \A i \in DOMAIN t : i + 1 \in DOMAIN s /\ t[i] = s[i + 1]
      /\ \A i \in DOMAIN s : i # 1 => i - 1 \in DOMAIN t /\ t[i - 1] = s[i]
      /\ 1 \in DOMAIN s
  BY <1>1
<1>4. Carried(s) = Carried(t) \cup PairOf(s[1])
  <2>1. /\ Carried(s) = UNION {PairOf(s[k]) : k \in DOMAIN s}
        /\ Carried(t) = UNION {PairOf(t[k]) : k \in DOMAIN t}
    BY CarriedIs
  <2> QED BY <1>3, <2>1
<1>5. Returning(rdRsp) = Returning(popped) \cup PairOf(s[1])
  BY <1>2, <1>4 DEF Returning, s
<1> QED BY <1>1, <1>5 DEF popped, t, s

LEMMA ReturningPush ==
  ASSUME NEW rdRsp \in [Ports -> Seq(Rsp)], NEW c \in Ports, NEW rsp \in Rsp
  PROVE  Returning([rdRsp EXCEPT ![c] = Append(@, rsp)])
           = Returning(rdRsp) \cup PairOf(rsp)
<1> DEFINE s == rdRsp[c]
           t == Append(s, rsp)
           pushed == [rdRsp EXCEPT ![c] = t]
<1>1. /\ DOMAIN t = DOMAIN s \cup {Len(s) + 1}
      /\ t[Len(s) + 1] = rsp
      /\ \A j \in DOMAIN s : t[j] = s[j]
  BY AppendParts
<1>2. pushed[c] = t /\ \A d \in Ports : d # c => pushed[d] = rdRsp[d]
  OBVIOUS
<1> HIDE DEF s, t, pushed
<1>3. Carried(t) = Carried(s) \cup PairOf(rsp)
  <2>1. /\ Carried(s) = UNION {PairOf(s[k]) : k \in DOMAIN s}
        /\ Carried(t) = UNION {PairOf(t[k]) : k \in DOMAIN t}
    BY CarriedIs
  <2> QED BY <1>1, <2>1
<1>4. Returning(pushed) = Returning(rdRsp) \cup PairOf(rsp)
  BY <1>2, <1>3 DEF Returning, s
<1> QED BY <1>4 DEF pushed, t, s

(* A read that has data is in the buffer or on its way back. *)
LEMMA HeldWhere ==
  ASSUME NEW l2, NEW toRd, NEW rdRsp \in [Ports -> Seq(Rsp)]
  PROVE  /\ \A p \in Stored(l2) : p[1] \in ReadsIn(l2)
         /\ \A p \in Returning(rdRsp) :
              \E c \in Ports : p[1] \in In(What(rdRsp[c]), Reads)
         /\ \A p \in Returning(rdRsp) : p[1] \in DirectIn(toRd, rdRsp)
<1>1. ASSUME NEW p \in Stored(l2) PROVE p[1] \in ReadsIn(l2)
  <2>1. PICK i \in DOMAIN l2 : p \in Pairs(l2[i])
    BY DEF Stored
  <2>2. p[1] \in ToSet(l2[i].reads)
    BY <2>1, PairsStay
  <2> QED BY <2>2 DEF ReadsIn
<1>2. ASSUME NEW p \in Returning(rdRsp)
      PROVE  \E c \in Ports : p[1] \in In(What(rdRsp[c]), Reads)
  <2>1. PICK c \in Ports : p \in Carried(rdRsp[c])
    BY DEF Returning
  <2>2. PICK k \in DOMAIN rdRsp[c] : p \in PairOf(rdRsp[c][k])
    BY <2>1, CarriedIs
  <2>3. p[1] = rdRsp[c][k].what /\ p[1] \in Reads
    BY <2>2 DEF PairOf
  <2>4. p[1] \in In(What(rdRsp[c]), Reads)
    BY <2>3 DEF What, In
  <2> QED BY <2>4
<1> QED BY <1>1, <1>2 DEF DirectIn

-----------------------------------------------------------------------------
(* The books, when only the table changes *)

(* All that the books are about but the table. *)
Frame(h, g) ==
  /\ g.rdQ = h.rdQ /\ g.toRd = h.toRd /\ g.rdRsp = h.rdRsp
  /\ g.l2 = h.l2 /\ g.open = h.open /\ g.frozen = h.frozen /\ g.token = h.token
  /\ g.pending = h.pending /\ g.fault = h.fault /\ g.summaries = h.summaries

(* The books are kept, with the groups of rest still closing. *)
Balanced(h, g, rest) ==
  Booked(g, rest) /\ Owed(g) = Owed(h) /\ g.summaries = h.summaries

(* No read gets data or loses it. *)
Carries(h, g, rest) == Balanced(h, g, rest) /\ HeldIn(g) = HeldIn(h)

LEMMA CarriesParts ==
  ASSUME NEW h, NEW g, NEW rest
  PROVE  Carries(h, g, rest) <=> /\ Booked(g, rest) /\ Owed(g) = Owed(h)
                                 /\ g.summaries = h.summaries
                                 /\ HeldIn(g) = HeldIn(h)
BY DEF Carries, Balanced

LEMMA BookedTable ==
  ASSUME NEW h, NEW closing, Booked(h, closing), NEW g, Frame(h, g),
         TidyTable(g.entries), DueOf(g.entries) = DueOf(h.entries),
         NEW rest, rest \subseteq closing, GroupsOf(g.entries) = h.open \cup rest,
         Recipients(g.entries, h.l2, h.open)
  PROVE  Carries(h, g, rest)
<1>1. Taken(g) = Taken(h)
  BY DEF Taken, Frame
<1>2. Owed(g) = Owed(h)
  BY <1>1 DEF Owed, Frame
<1>3. HeldIn(g) = HeldIn(h)
  BY DEF HeldIn, Frame
<1> QED BY <1>1, <1>2, <1>3 DEF Booked, Frame, Carries, Balanced

(* The table stays too. *)
LEMMA BookedSame ==
  ASSUME NEW h, NEW closing, Booked(h, closing), NEW g, Frame(h, g),
         g.entries = h.entries
  PROVE  Carries(h, g, closing)
BY BookedTable DEF Booked

(* Groups are numbered from 1. *)
LEMMA GroupsPositive ==
  ASSUME NEW h, NEW closing, Booked(h, closing)
  PROVE  0 \notin h.open
BY DEF Booked, TidyBuffer

(* An entry is rewritten, for the same waiters and group. *)
LEMMA BookedPut ==
  ASSUME NEW h, NEW closing, Booked(h, closing), h.entries \in Seq(EntryType),
         NEW i \in DOMAIN h.entries, NEW e \in EntryType, Tidy(e),
         Due(e) = Due(h.entries[i]), Told(h.entries[i]) \subseteq Told(e),
         e.group = h.entries[i].group,
         e.group = 0 \/ e.data = h.entries[i].data,
         NEW g, Frame(h, g), g.entries = Put(h.entries, i, e)
  PROVE  Carries(h, g, closing)
<1> DEFINE table == h.entries
           new == Put(table, i, e)
<1>1. TidyTable(table) /\ Recipients(table, h.l2, h.open)
      /\ GroupsOf(table) = h.open \cup closing
  BY DEF Booked
<1>2. Due(e) \cap (DueOf(table) \ Due(table[i])) = {}
  OBVIOUS
<1>3. e.group = 0 \/ e.group \notin GroupsOf(table) \ {table[i].group}
  OBVIOUS
<1>4. /\ TidyTable(new)
      /\ GroupsOf(new) = (GroupsOf(table) \ {table[i].group}) \cup ({e.group} \ {0})
      /\ DueOf(new) = (DueOf(table) \ Due(table[i])) \cup Due(e)
  BY <1>1, <1>2, <1>3, TidyPut
<1>5. Recipients(new, h.l2, h.open)
  BY <1>1, GroupsPositive, RecipientsPut
<1>6. Due(table[i]) \subseteq DueOf(table) /\ {table[i].group} \ {0} \subseteq GroupsOf(table)
      /\ 0 \notin GroupsOf(table)
  BY DEF DueOf, GroupsOf
<1> HIDE DEF new
<1>7. DueOf(new) = DueOf(table) /\ GroupsOf(new) = GroupsOf(table)
  BY <1>4, <1>6
<1>8. g.entries = new
  BY DEF new
<1> QED BY <1>1, <1>4, <1>5, <1>7, <1>8, BookedTable

(* An entry is erased. *)
LEMMA EraseFrame ==
  ASSUME NEW h \in ReadSideType, NEW x
  PROVE  /\ Frame(h, Erase(h, x))
         /\ Erase(h, x).entries = RemoveAt(h.entries, Index(h, x))
<1> DEFINE successor == IF Len(h.entries) = 1 THEN NoLine ELSE After(h, x)
           moved(c) == IF c = x THEN successor ELSE c
           dropped(c) == IF c = x THEN NoLine ELSE c
           t == RemoveAt(h.entries, Index(h, x))
           b == moved(h.backendCursor)
           a == dropped(h.backendCandidate)
           r == moved(h.responseCursor)
           d == dropped(h.responseCandidate)
<1>1. Erase(h, x) = [h EXCEPT !.entries = t, !.backendCursor = b,
                              !.backendCandidate = a, !.responseCursor = r,
                              !.responseCandidate = d]
  BY DEF Erase
<1> HIDE DEF t, b, a, r, d
<1>2. Erase(h, x).entries = t /\ Frame(h, Erase(h, x))
  BY <1>1 DEF ReadSideType, Frame
<1> QED BY <1>2 DEF t

(* The entry of a line is where it is looked for. *)
LEMMA IndexIs ==
  ASSUME NEW h, NEW v, TableHolds(h.entries, v), NEW i \in DOMAIN h.entries
  PROVE  Index(h, h.entries[i].line) = i
<1>1. h.entries[i].line \in LinesOf(h.entries)
  BY DEF LinesOf
<1> QED BY <1>1, IndexOf DEF TableHolds

(* A closed group is forgotten; an entry that has answered all goes. *)
LEMMA ConsumeBooked ==
  ASSUME NEW h, NEW v, ReadHolds(h, v), NEW closing, Booked(h, closing),
         NEW group \in closing
  PROVE  LET g == ConsumeSummary(h, group)
         IN  Carries(h, g, closing \ {group})
<1> DEFINE table == h.entries
           owners == {i \in DOMAIN table : table[i].group = group}
           i == CHOOSE j \in owners : \A k \in owners : j <= k
           closed == [h EXCEPT !.entries[i].group = 0, !.entries[i].open = FALSE]
           old == table[i]
           e == [old EXCEPT !.group = 0, !.open = FALSE]
           new == Put(table, i, e)
           g == ConsumeSummary(h, group)
<1>1. /\ TidyTable(table) /\ Recipients(table, h.l2, h.open)
      /\ GroupsOf(table) = h.open \cup closing /\ h.open \cap closing = {}
  BY DEF Booked
<1>2. group # 0 /\ owners # {} /\ group \notin h.open
  BY <1>1 DEF GroupsOf
<1>3. TableHolds(table, v) /\ h \in ReadSideType /\ table \in Seq(EntryType)
  BY DEF ReadHolds, TableHolds
<1>4. i \in owners
  <2>1. owners \in SUBSET Nat
    BY <1>3
  <2>2. \E j \in owners : \A k \in owners : j <= k
    BY <1>2, <2>1, LeastOf
  <2> HIDE DEF owners
  <2> QED BY <2>2
<1>5. i \in DOMAIN table /\ old.group = group
  BY <1>4
<1>6. g = IF old.next = Len(old.waiters) THEN Erase(closed, old.line) ELSE closed
  BY <1>2 DEF ConsumeSummary
<1> HIDE DEF i
<1>7. old \in EntryType /\ Sound(old, v) /\ Tidy(old)
  BY <1>1, <1>3, <1>5, EntryOf DEF TidyTable
<1>8. /\ e \in EntryType /\ e.line = old.line /\ e.state = old.state
      /\ e.next = old.next /\ e.waiters = old.waiters /\ e.group = 0
      /\ e.candidate = old.candidate /\ e.data = old.data
  BY <1>7 DEF EntryType
<1>9. Sound(e, v) /\ Due(e) = Due(old)
  BY <1>7, <1>8 DEF Sound, Due
<1>10. Tidy(e)
  <2>1. old.state = "RESPONDING" /\ e.state = "RESPONDING"
    BY <1>2, <1>5, <1>7, <1>8 DEF Tidy
  <2> HIDE DEF e
  <2> QED BY <1>2, <1>5, <1>7, <1>8, <2>1 DEF Tidy
<1>11. closed = [h EXCEPT !.entries = Put(@, i, e)]
  BY <1>3, <1>5 DEF Put, ReadSideType
<1>12. closed.entries = new /\ Frame(h, closed) /\ closed \in ReadSideType
  <2>1. new \in Seq(EntryType)
    BY <1>3, <1>5, <1>8, PutParts
  <2>2. closed = [h EXCEPT !.entries = new]
    BY <1>11
  <2> HIDE DEF new, closed
  <2> QED BY <1>3, <2>1, <2>2 DEF ReadSideType, Frame
<1> HIDE DEF closed, e, old
<1>13. /\ TidyTable(new)
       /\ GroupsOf(new) = (GroupsOf(table) \ {old.group}) \cup ({e.group} \ {0})
       /\ DueOf(new) = (DueOf(table) \ Due(old)) \cup Due(e)
  <2>1. Due(e) \cap (DueOf(table) \ Due(table[i])) = {}
    BY <1>9 DEF old
  <2> QED BY <1>1, <1>3, <1>5, <1>8, <1>10, <2>1, TidyPut DEF old
<1>14. Recipients(new, h.l2, h.open) /\ e.group \notin h.open
  <2>1. 0 \notin h.open
    BY <1>1 DEF GroupsOf
  <2> QED BY <1>1, <1>3, <1>5, <1>8, <2>1, RecipientsPut
<1>15. TableHolds(new, v) /\ new \in Seq(EntryType) /\ new[i] = e
       /\ i \in DOMAIN new
  <2>1. e.line = table[i].line
    BY <1>8 DEF old
  <2>2. TableHolds(new, v)
    BY <1>3, <1>5, <1>8, <1>9, <2>1, PutHolds
  <2>3. new \in Seq(EntryType) /\ new[i] = e /\ DOMAIN new = DOMAIN table
    BY <1>3, <1>5, <1>8, PutParts
  <2> QED BY <1>5, <2>2, <2>3
<1> HIDE DEF new
<1>16. /\ GroupsOf(new) = h.open \cup (closing \ {group})
       /\ DueOf(new) = DueOf(table)
  <2>1. Due(old) \subseteq DueOf(table)
    BY <1>5 DEF DueOf, old
  <2> QED BY <1>1, <1>2, <1>5, <1>8, <1>9, <1>13, <2>1
<1>17. CASE old.next # Len(old.waiters)
  <2>1. g = closed
    BY <1>6, <1>17
  <2>2. Carries(h, closed, closing \ {group})
    BY <1>12, <1>13, <1>14, <1>16, BookedTable
  <2> QED BY <2>1, <2>2
<1>18. CASE old.next = Len(old.waiters)
  <2> DEFINE rest == RemoveAt(new, i)
  <2>1. g = Erase(closed, old.line) /\ old.line = new[i].line
    BY <1>6, <1>8, <1>15, <1>18
  <2>2. Index(closed, old.line) = i
    BY <1>12, <1>15, <2>1, IndexIs
  <2>3. g.entries = rest /\ Frame(closed, g)
    BY <1>12, <2>1, <2>2, EraseFrame
  <2>4. Frame(h, g)
    BY <1>12, <2>3 DEF Frame
  <2>5. /\ TidyTable(rest)
        /\ GroupsOf(rest) = GroupsOf(new) \ {new[i].group}
        /\ DueOf(rest) = DueOf(new) \ Due(new[i])
    BY <1>13, <1>15, TidyRemove
  <2>6. Recipients(rest, h.l2, h.open)
    BY <1>14, <1>15, RecipientsRemove
  <2>7. Due(e) = {}
    <3>1. e.next \in Nat /\ e.next = Len(e.waiters)
      BY <1>8, <1>18 DEF EntryType
    <3>2. e.next + 1 .. Len(e.waiters) = {}
      BY <3>1
    <3> QED BY <3>2 DEF Due
  <2>8. 0 \notin GroupsOf(new)
    BY DEF GroupsOf
  <2> HIDE DEF rest
  <2>9. GroupsOf(rest) = h.open \cup (closing \ {group}) /\ DueOf(rest) = DueOf(table)
    BY <1>8, <1>15, <1>16, <2>5, <2>7, <2>8
  <2>10. Carries(h, g, closing \ {group})
    BY <2>3, <2>4, <2>5, <2>6, <2>9, BookedTable
  <2> QED BY <2>10
<1> QED BY <1>17, <1>18

(* All summaries are consumed: no closed group is left. *)
LEMMA ConsumeAllBooked ==
  ASSUME NEW h, NEW v, ReadHolds(h, v), Booked(h, Closing(h)), Once(h.summaries, Nat)
  PROVE  LET g == ConsumeSummaries(h)
         IN  /\ Booked(g, {}) /\ Owed(g) = Owed(h) /\ g.summaries = <<>>
             /\ HeldIn(g) = HeldIn(h)
<1> DEFINE n == Len(h.summaries)
           s == h.summaries
           base == [h EXCEPT !.summaries = <<>>]
           left(k) == {s[j] : j \in k + 1 .. n}
<1>1. h \in ReadSideType /\ s \in Seq(Nat) /\ n \in Nat /\ DOMAIN s = 1 .. n
  <2>1. h \in ReadSideType
    BY DEF ReadHolds
  <2>2. h.summaries \in Seq(Nat)
    BY <2>1 DEF ReadSideType
  <2> QED BY <2>1, <2>2
<1>2. /\ Same(h, base) /\ base.summaries = <<>>
      /\ base.rdQ = h.rdQ /\ base.toRd = h.toRd /\ base.rdRsp = h.rdRsp
      /\ base.l2 = h.l2 /\ base.open = h.open /\ base.frozen = h.frozen
      /\ base.token = h.token /\ base.pending = h.pending /\ base.fault = h.fault
      /\ base.entries = h.entries
  <2>1. <<>> \in Seq(Nat)
    OBVIOUS
  <2>2. base \in ReadSideType
    BY <1>1, <2>1 DEF ReadSideType
  <2> QED BY <1>1, <2>2 DEF ReadSideType, Same
<1>3. ReadHolds(base, v)
  BY <1>2, SameHolds
<1>4. Booked(base, Closing(h)) /\ Owed(base) = Owed(h) /\ HeldIn(base) = HeldIn(h)
  <2>1. Taken(base) = Taken(h)
    BY <1>2 DEF Taken
  <2> QED BY <1>2, <2>1 DEF Booked, Owed, HeldIn
<1>5. left(0) = Closing(h) /\ left(n) = {}
  <2>1. 0 + 1 .. n = DOMAIN s /\ n + 1 .. n = {}
    BY <1>1
  <2> QED BY <2>1 DEF Closing, ToSet
<1>6. \A k \in 1 .. n : s[k] \in left(k - 1) /\ left(k) = left(k - 1) \ {s[k]}
  <2> TAKE k \in 1 .. n
  <2>1. \A j \in 1 .. n : s[j] = s[k] => j = k
    BY <1>1 DEF Once
  <2>2. (k - 1) + 1 .. n = (k + 1 .. n) \cup {k} /\ k \notin k + 1 .. n
        /\ k + 1 .. n \subseteq 1 .. n
    BY <1>1
  <2> QED BY <2>1, <2>2
<1> HIDE DEF base, n, s, left
<1>7. PICK f : IsRun(f, n, base, s) /\ ConsumeSummaries(h) = f[n]
  BY <1>1, RunsConsume DEF base, n, s
<1> DEFINE Good(k) == /\ ReadHolds(f[k], v) /\ Booked(f[k], left(k))
                      /\ Owed(f[k]) = Owed(h) /\ f[k].summaries = <<>>
                      /\ HeldIn(f[k]) = HeldIn(h)
           T == {k \in 0 .. n : ~Good(k)}
<1>8. SUFFICES ASSUME T # {}
               PROVE  FALSE
  <2>1. Good(n)
    BY <1>1, <1>8
  <2> QED BY <1>5, <1>7, <2>1
<1>9. PICK m \in T : \A k \in T : m <= k
  <2>1. T \in SUBSET Nat
    BY <1>1
  <2> HIDE DEF T
  <2> QED BY <1>8, <2>1, LeastOf
<1>10. m \in 0 .. n /\ ~Good(m)
  BY <1>9
<1>11. f[m] = IF m = 0 THEN base ELSE ConsumeSummary(f[m - 1], s[m])
  BY <1>7, <1>10 DEF IsRun
<1>12. m # 0
  <2>1. m = 0 => Good(m)
    BY <1>2, <1>3, <1>4, <1>5, <1>11
  <2> HIDE DEF Good
  <2> QED BY <1>10, <2>1
<1>13. m - 1 \in 0 .. n /\ ~(m <= m - 1) /\ m \in 1 .. n
  BY <1>1, <1>10, <1>12
<1>14. Good(m - 1)
  BY <1>9, <1>13
<1>15. s[m] \in left(m - 1) /\ left(m) = left(m - 1) \ {s[m]}
  BY <1>6, <1>13
<1>16. Good(m)
  <2> DEFINE p == f[m - 1]
             c == left(m - 1)
             q == s[m]
  <2>1. ReadHolds(p, v) /\ Booked(p, c) /\ q \in c /\ Owed(p) = Owed(h)
        /\ p.summaries = <<>> /\ HeldIn(p) = HeldIn(h)
    BY <1>14, <1>15
  <2>2. f[m] = ConsumeSummary(p, q) /\ left(m) = c \ {q}
    BY <1>11, <1>12, <1>15
  <2> HIDE DEF p, c, q, Good
  <2>3. /\ ReadHolds(ConsumeSummary(p, q), v)
        /\ Carries(p, ConsumeSummary(p, q), c \ {q})
    BY <2>1, ConsumeSummaryHolds, ConsumeBooked
  <2> QED BY <2>1, <2>2, <2>3 DEF Good, Carries, Balanced
<1> QED BY <1>10, <1>16

(* An entry gets its data, and starts to answer its waiters. *)
LEMMA RespondBooked ==
  ASSUME NEW h, NEW v, ReadHolds(h, v), NEW closing, Booked(h, closing),
         NEW x, x \in LinesOf(h.entries), NEW d \in Versions,
         Entry(h, x).state \in {"HIT", "INFLIGHT"}
  PROVE  LET g == Respond(h, x, d)
         IN  Carries(h, g, closing) /\ Frame(h, g)
<1> DEFINE i == Index(h, x)
           old == h.entries[i]
           e == [old EXCEPT !.state = "RESPONDING", !.data = d, !.next = 0]
           g == Respond(h, x, d)
           new == Put(h.entries, i, e)
<1>1. /\ i \in DOMAIN h.entries /\ old.line = x
      /\ old.state \in {"HIT", "INFLIGHT"}
  BY IndexOf
<1>2. h \in ReadSideType /\ TableHolds(h.entries, v) /\ h.entries \in Seq(EntryType)
  BY DEF ReadHolds, TableHolds
<1>3. old \in EntryType /\ Sound(old, v) /\ Tidy(old)
  BY <1>1, <1>2, EntryOf DEF Booked, TidyTable
<1>4. /\ e \in EntryType /\ e.state = "RESPONDING" /\ e.next = 0
      /\ e.waiters = old.waiters /\ e.group = old.group
      /\ e.candidate = old.candidate
  BY <1>1, <1>3 DEF EntryType
<1>5. old.next = 0 /\ ~old.candidate.cached /\ old.group = 0
  BY <1>1, <1>3 DEF Sound, Tidy
<1>6. g = [h EXCEPT !.entries = Put(@, i, e)]
  BY <1>1, <1>2 DEF Put, ReadSideType, Respond
<1> HIDE DEF e, g, i
<1>7. Due(e) = Due(old) /\ Told(e) = Told(old)
  BY <1>4, <1>5 DEF Due, Told
<1>8. Tidy(e)
  <2>1. \A k, l \in old.next + 1 .. Len(old.waiters) :
          old.waiters[k] = old.waiters[l] => k = l
    BY <1>3 DEF Tidy
  <2> QED BY <1>4, <1>5, <2>1 DEF Tidy
<1>9. new \in Seq(EntryType)
  BY <1>1, <1>2, <1>4, PutParts
<1>10. g.entries = new /\ Frame(h, g)
  <2>1. g = [h EXCEPT !.entries = new]
    BY <1>6
  <2> HIDE DEF new
  <2> QED BY <1>2, <2>1 DEF ReadSideType, Frame
<1>11. Carries(h, g, closing)
  BY <1>1, <1>2, <1>4, <1>5, <1>7, <1>8, <1>10, BookedPut
<1> QED BY <1>10, <1>11 DEF g

(* service_home_agent_hit *)
LEMMA ReadHitBooked ==
  ASSUME NEW h, NEW v \in Contents, ReadHolds(h, v), NEW closing,
         Booked(h, closing)
  PROVE  Carries(h, ReadHit(h, v), closing)
<1> DEFINE x == FirstFrom(h, h.backendCursor, InState(h, "HIT"))
           r == Respond(h, x, v[x])
           g == [r EXCEPT !.backendCursor = After(h, x)]
<1>1. CASE x = NoLine
  BY <1>1 DEF ReadHit, Carries, Balanced
<1>2. CASE x # NoLine
  <2>1. ReadHit(h, v) = g
    BY <1>2 DEF ReadHit, CommitFunctional
  <2>2. TableHolds(h.entries, v) /\ CursorHolds(h.entries, h.backendCursor)
    BY DEF ReadHolds
  <2>3. x \in InState(h, "HIT") \cap LinesOf(h.entries)
    BY <1>2, <2>2, FirstFromFinds
  <2> HIDE DEF x
  <2>4. x \in LinesOf(h.entries) /\ Entry(h, x).state = "HIT" /\ x \in Lines
    BY <2>2, <2>3, InStateOf, LinesOfTable DEF TableHolds
  <2>5. v[x] \in Versions /\ Current(v[x], x, v)
    BY <2>4 DEF Contents
  <2>6. Carries(h, r, closing) /\ TableSide(r, v)
    <3>1. Carries(h, r, closing)
      BY <2>4, <2>5, RespondBooked
    <3>2. TableSide(r, v)
      BY <2>4, <2>5, RespondHolds
    <3> QED BY <3>1, <3>2
  <2> HIDE DEF r
  <2>7. g.entries = r.entries /\ Frame(r, g)
    BY <2>6 DEF TableSide, ReadSideType, Frame
  <2> HIDE DEF g
  <2>8. Carries(r, g, closing)
    BY <2>6, <2>7, BookedSame DEF Carries, Balanced
  <2> QED BY <2>1, <2>6, <2>8 DEF Carries, Balanced
<1> QED BY <1>1, <1>2

-----------------------------------------------------------------------------
(* The books, when reads are accepted and lines asked for *)

(* A read leaves the queue for the table or the memory. *)
LEMMA AdmitBooked ==
  ASSUME NEW h, NEW closing, Booked(h, closing), h.rdQ \in Seq(Reads), h.rdQ # <<>>,
         h.pending \in Nat,
         NEW g, g.rdQ = Tail(h.rdQ), g.pending = h.pending + 1,
         g.l2 = h.l2, g.open = h.open, g.frozen = h.frozen, g.token = h.token,
         g.fault = h.fault, g.summaries = h.summaries, g.rdRsp = h.rdRsp,
         Taken(g) = Taken(h) \cup {Head(h.rdQ)},
         TidyTable(g.entries), GroupsOf(g.entries) = GroupsOf(h.entries),
         Recipients(g.entries, h.l2, h.open),
         TidyDirect(g.toRd, g.rdRsp),
         DueOf(g.entries) \cap DirectIn(g.toRd, g.rdRsp) = {}
  PROVE  Carries(h, g, closing)
<1> DEFINE r == Head(h.rdQ)
           q == In(h.rdQ, Reads)
<1>1. /\ Once(h.rdQ, Reads) /\ q \cap Taken(h) = {}
      /\ ReadsIn(h.l2) \cap (q \cup Taken(h)) = {}
      /\ IsFiniteSet(Taken(h)) /\ h.pending = Cardinality(Taken(h))
      /\ TidyBuffer(h.l2, h.open, h.frozen, h.token)
      /\ GroupsOf(h.entries) = h.open \cup closing
      /\ h.open \cap closing = {} /\ \A k \in closing : k <= h.token
      /\ ~h.fault
  BY DEF Booked
<1>2. /\ Once(Tail(h.rdQ), Reads) /\ In(Tail(h.rdQ), Reads) = q \ {r}
      /\ r \in Reads /\ r \in q
  BY <1>1, TailOnce
<1> HIDE DEF r, q
<1>3. r \notin Taken(h)
  BY <1>1, <1>2
<1>4. IsFiniteSet(Taken(g)) /\ g.pending = Cardinality(Taken(g))
  <2>1. Taken(g) = Taken(h) \cup {r}
    BY DEF r
  <2>2. /\ IsFiniteSet(Taken(h) \cup {r})
        /\ Cardinality(Taken(h) \cup {r}) = Cardinality(Taken(h)) + 1
    BY <1>1, <1>3, FS_AddElement
  <2> QED BY <1>1, <2>1, <2>2
<1>5. In(g.rdQ, Reads) = q \ {r} /\ Once(g.rdQ, Reads)
  BY <1>2
<1>6. Taken(g) = Taken(h) \cup {r}
  BY DEF r
<1>7. In(g.rdQ, Reads) \cup Taken(g) = q \cup Taken(h)
  BY <1>2, <1>5, <1>6
<1>8. Owed(g) = Owed(h)
  BY <1>7 DEF Owed, q
<1>9. In(g.rdQ, Reads) \cap Taken(g) = {}
  BY <1>1, <1>5, <1>6
<1>10. ReadsIn(g.l2) \cap (In(g.rdQ, Reads) \cup Taken(g)) = {}
  BY <1>1, <1>7
<1>11. Booked(g, closing)
  BY <1>1, <1>4, <1>5, <1>9, <1>10 DEF Booked
<1>12. HeldIn(g) = HeldIn(h)
  BY DEF HeldIn
<1> QED BY <1>8, <1>11, <1>12 DEF Carries, Balanced

(* A waiter joins an entry. *)
LEMMA WaiterAdded ==
  ASSUME NEW v, NEW old \in EntryType, Sound(old, v), Tidy(old),
         NEW r \in Reads, r \notin Due(old),
         NEW e, e = [old EXCEPT !.waiters = Append(@, r)]
  PROVE  /\ e \in EntryType /\ Tidy(e) /\ e.group = old.group
         /\ Due(e) = Due(old) \cup {r} /\ Told(e) = Told(old)
         /\ e.data = old.data
<1> DEFINE n == Len(old.waiters)
           w == old.waiters
           u == Append(w, r)
           k == old.next
<1>1. /\ w \in Seq(Reads) /\ n \in Nat /\ k \in Nat /\ k <= n
  BY DEF EntryType, Sound
<1>2. /\ u \in Seq(Reads) /\ Len(u) = n + 1 /\ u[n + 1] = r
      /\ \A j \in 1 .. n : u[j] = w[j]
  BY <1>1
<1>3. /\ e \in EntryType /\ e.waiters = u /\ e.next = k /\ e.group = old.group
      /\ e.state = old.state /\ e.candidate = old.candidate
      /\ e.data = old.data
  BY <1>2 DEF EntryType
<1>4. /\ Due(old) = {w[j] : j \in k + 1 .. n} /\ Told(old) = {w[j] : j \in 1 .. k}
      /\ Due(e) = {u[j] : j \in k + 1 .. n + 1} /\ Told(e) = {u[j] : j \in 1 .. k}
  <2>1. /\ Due(old) = {w[j] : j \in k + 1 .. n} /\ Told(old) = {w[j] : j \in 1 .. k}
    BY DEF Due, Told
  <2>2. e.waiters = u /\ e.next = k /\ Len(u) = n + 1
    BY <1>2, <1>3
  <2> HIDE DEF n, u, k
  <2>3. Due(e) = {u[j] : j \in k + 1 .. n + 1} /\ Told(e) = {u[j] : j \in 1 .. k}
    BY <2>2 DEF Due, Told
  <2> QED BY <2>1, <2>3
<1>5. /\ \A i, j \in k + 1 .. n : w[i] = w[j] => i = j
      /\ old.state # "RESPONDING" => old.group = 0 /\ ~old.candidate.cached
      /\ old.candidate.cached => k < n
      /\ old.candidate.cached /\ old.candidate.eligible /\ FanoutValid(w[k + 1])
           => old.candidate.group = 0 /\ old.group = 0
  BY DEF Tidy
<1> HIDE DEF n, w, u, k
<1>6. k + 1 .. n + 1 = (k + 1 .. n) \cup {n + 1}
  BY <1>1
<1>7. k + 1 .. n \subseteq 1 .. n /\ 1 .. k \subseteq 1 .. n /\ n + 1 \notin 1 .. n
  BY <1>1
<1>8. Due(e) = Due(old) \cup {r} /\ Told(e) = Told(old)
  <2>1. \A j \in k + 1 .. n : u[j] = w[j]
    BY <1>2, <1>7
  <2>2. {u[j] : j \in k + 1 .. n + 1} = {w[j] : j \in k + 1 .. n} \cup {r}
    <3> DEFINE D == k + 1 .. n
               m == n + 1
    <3>1. k + 1 .. n + 1 = D \cup {m} /\ u[m] = r /\ \A j \in D : u[j] = w[j]
      BY <1>2, <1>6, <2>1
    <3> HIDE DEF D, m
    <3>2. {u[j] : j \in D \cup {m}} = {w[j] : j \in D} \cup {r}
      BY <3>1
    <3> QED BY <3>1, <3>2 DEF D
  <2>3. {u[j] : j \in 1 .. k} = {w[j] : j \in 1 .. k}
    BY <1>2, <1>7
  <2> QED BY <1>4, <2>2, <2>3
<1>9. \A j \in k + 1 .. n : w[j] # r
  BY <1>4
<1>10. \A i, j \in k + 1 .. n + 1 : u[i] = u[j] => i = j
  BY <1>2, <1>5, <1>6, <1>7, <1>9
<1>11. k < n => k < n + 1 /\ u[k + 1] = w[k + 1]
  <2>1. k < n => k < n + 1 /\ k + 1 \in 1 .. n
    BY <1>1
  <2> QED BY <1>2, <2>1
<1>12. Tidy(e)
  <2>1. Len(e.waiters) = n + 1
    BY <1>2, <1>3
  <2>2. \A i, j \in e.next + 1 .. Len(e.waiters) :
          e.waiters[i] = e.waiters[j] => i = j
    <3>1. e.next + 1 .. Len(e.waiters) = k + 1 .. n + 1 /\ e.waiters = u
      BY <1>3, <2>1
    <3>2. SUFFICES ASSUME NEW i \in e.next + 1 .. Len(e.waiters),
                          NEW j \in e.next + 1 .. Len(e.waiters),
                          e.waiters[i] = e.waiters[j]
                   PROVE  i = j
      OBVIOUS
    <3>3. i \in k + 1 .. n + 1 /\ j \in k + 1 .. n + 1 /\ u[i] = u[j]
      BY <3>1, <3>2
    <3> QED BY <1>10, <3>3
  <2>3. e.candidate.cached => e.next < Len(e.waiters)
    BY <1>3, <1>5, <1>11, <2>1
  <2>4. e.candidate.cached /\ e.candidate.eligible
          /\ FanoutValid(e.waiters[e.next + 1]) =>
            e.candidate.group = 0 /\ e.group = 0
    BY <1>3, <1>5, <1>11
  <2>5. e.state # "RESPONDING" => e.group = 0 /\ ~e.candidate.cached
    BY <1>3, <1>5
  <2> QED BY <2>2, <2>3, <2>4, <2>5 DEF Tidy
<1> QED BY <1>3, <1>8, <1>12

(* An entry of its own. *)
LEMMA EntryOpened ==
  ASSUME NEW r \in Reads
  PROVE  LET e == NewEntry(r)
         IN  /\ e \in EntryType /\ Tidy(e) /\ e.group = 0 /\ Due(e) = {r}
<1> DEFINE e == NewEntry(r)
<1>1. LineOf[r] \in Lines /\ <<r>> \in Seq(Reads) /\ Len(<<r>>) = 1 /\ <<r>>[1] = r
  BY HomeAssumption
<1>2. /\ e \in EntryType /\ e.waiters = <<r>> /\ e.next = 0 /\ e.group = 0
      /\ e.candidate = NoCandidate
  BY <1>1 DEF EntryType, NewEntry, NoCandidate, Versions
<1>3. ~NoCandidate.cached
  BY DEF NoCandidate
<1>4. 0 + 1 .. 1 = {1}
  OBVIOUS
<1> HIDE DEF e
<1>5. Due(e) = {r}
  BY <1>1, <1>2, <1>4 DEF Due
<1>6. Tidy(e)
  BY <1>1, <1>2, <1>3, <1>4 DEF Tidy
<1> QED BY <1>2, <1>5, <1>6 DEF e

(* accept_rd_into_home_agent *)
LEMMA AcceptReadBooked ==
  ASSUME NEW h, NEW v, ReadHolds(h, v), NEW closing, Booked(h, closing)
  PROVE  Carries(h, AcceptRead(h), closing)
<1> DEFINE r == Head(h.rdQ)
           x == LineOf[r]
           i == Index(h, x)
           table == h.entries
           free == h.rdQ # <<>> /\ x \notin writeLines
           bypass == free /\ ~InOneLine(r) /\ Len(h.toRd) < MemDepth
           joins == /\ free /\ InOneLine(r) /\ HasEntry(h, x) /\ h.entries[i].open
                    /\ Len(h.entries[i].waiters) < WaitersPerEntry
           opens == /\ free /\ InOneLine(r) /\ ~HasEntry(h, x)
                    /\ Len(h.entries) < EntryLimit
           a == Admit(h)
           g == AcceptRead(h)
<1>1. h \in ReadSideType /\ TableHolds(table, v)
  BY DEF ReadHolds
<1>2. /\ h.rdQ \in Seq(Reads) /\ h.pending \in Nat /\ table \in Seq(EntryType)
      /\ h.toRd \in Seq(Lines \cup Reads)
  BY <1>1 DEF ReadSideType
<1>3. /\ TidyTable(table) /\ TidyDirect(h.toRd, h.rdRsp)
      /\ Recipients(table, h.l2, h.open)
      /\ In(h.rdQ, Reads) \cap Taken(h) = {} /\ Once(h.rdQ, Reads)
      /\ DueOf(table) \cap DirectIn(h.toRd, h.rdRsp) = {}
      /\ GroupsOf(table) = h.open \cup closing
  BY DEF Booked
<1>4. ASSUME free
      PROVE  /\ r \in Reads /\ r \notin Taken(h) /\ r \notin DueOf(table)
             /\ r \notin DirectIn(h.toRd, h.rdRsp) /\ h.rdQ # <<>>
  <2>1. r \in Reads /\ r \in In(h.rdQ, Reads)
    BY <1>2, <1>3, <1>4, TailOnce
  <2> HIDE DEF r
  <2> QED BY <1>3, <1>4, <2>1 DEF Taken
<1>5. ASSUME free
      PROVE  /\ a \in ReadSideType
             /\ a.rdQ = Tail(h.rdQ) /\ a.pending = h.pending + 1
             /\ a.l2 = h.l2 /\ a.open = h.open /\ a.frozen = h.frozen
             /\ a.token = h.token /\ a.fault = h.fault
             /\ a.summaries = h.summaries /\ a.entries = table
             /\ a.toRd = h.toRd /\ a.rdRsp = h.rdRsp
  <2>1. a \in ReadSideType
    BY <1>5, AdmitHolds DEF Same
  <2> QED BY <1>1, <2>1 DEF Admit, ReadSideType
<1> HIDE DEF a
<1>6. CASE bypass
  <2> DEFINE asked == Append(h.toRd, r)
  <2>1. g = [a EXCEPT !.toRd = asked]
    BY <1>5, <1>6 DEF AcceptRead, a
  <2>2. /\ r \in Reads /\ r \notin Taken(h) /\ r \notin DueOf(table)
        /\ r \notin DirectIn(h.toRd, h.rdRsp) /\ h.rdQ # <<>>
    BY <1>4, <1>6
  <2>3. /\ TidyDirect(asked, h.rdRsp)
        /\ DirectIn(asked, h.rdRsp) = DirectIn(h.toRd, h.rdRsp) \cup {r}
    BY <1>2, <1>3, <2>2, DirectBypass
  <2> HIDE DEF asked, g, r
  <2>4. /\ g.rdQ = Tail(h.rdQ) /\ g.pending = h.pending + 1
        /\ g.l2 = h.l2 /\ g.open = h.open /\ g.frozen = h.frozen
        /\ g.token = h.token /\ g.fault = h.fault
        /\ g.summaries = h.summaries /\ g.entries = table
        /\ g.toRd = asked /\ g.rdRsp = h.rdRsp
    BY <1>5, <1>6, <2>1 DEF ReadSideType
  <2>5. Taken(g) = Taken(h) \cup {r}
    BY <2>3, <2>4 DEF Taken
  <2>6. DueOf(g.entries) \cap DirectIn(g.toRd, g.rdRsp) = {}
    BY <1>3, <2>2, <2>3, <2>4
  <2>7. /\ TidyTable(g.entries) /\ GroupsOf(g.entries) = GroupsOf(h.entries)
        /\ Recipients(g.entries, h.l2, h.open) /\ TidyDirect(g.toRd, g.rdRsp)
    BY <1>3, <2>3, <2>4
  <2>8. Taken(g) = Taken(h) \cup {Head(h.rdQ)}
    BY <2>5 DEF r
  <2>9. Carries(h, g, closing)
    BY <1>2, <2>2, <2>4, <2>6, <2>7, <2>8, AdmitBooked
  <2> QED BY <2>9 DEF g
<1>7. CASE joins
  <2> DEFINE old == table[i]
             e == [old EXCEPT !.waiters = Append(@, r)]
             new == Put(table, i, e)
  <2>1. g = [a EXCEPT !.entries[i].waiters = Append(@, r)]
    BY <1>7 DEF AcceptRead, a
  <2>2. /\ r \in Reads /\ r \notin Taken(h) /\ r \notin DueOf(table)
        /\ r \notin DirectIn(h.toRd, h.rdRsp) /\ h.rdQ # <<>>
    BY <1>4, <1>7
  <2>3. i \in DOMAIN table
    BY <1>7, IndexOf, HasEntryOf
  <2>4. old \in EntryType /\ Sound(old, v) /\ Tidy(old) /\ r \notin Due(old)
    BY <1>1, <1>3, <2>2, <2>3, EntryOf DEF TidyTable, DueOf
  <2> HIDE DEF i, r
  <2>5. /\ e \in EntryType /\ Tidy(e) /\ e.group = old.group
        /\ Due(e) = Due(old) \cup {r} /\ Told(e) = Told(old)
        /\ e.data = old.data
    <3> DEFINE f == e
    <3>1. f = [old EXCEPT !.waiters = Append(@, r)]
      OBVIOUS
    <3> HIDE DEF f, old
    <3>2. /\ f \in EntryType /\ Tidy(f) /\ f.group = old.group
          /\ Due(f) = Due(old) \cup {r} /\ Told(f) = Told(old)
          /\ f.data = old.data
      BY <2>2, <2>4, <3>1, WaiterAdded
    <3> QED BY <3>2 DEF f
  <2>6. g = [a EXCEPT !.entries = Put(@, i, e)]
    BY <1>5, <1>7, <2>1 DEF Put, ReadSideType
  <2>7. new \in Seq(EntryType)
    BY <1>2, <2>3, <2>5, PutParts
  <2>8. g = [a EXCEPT !.entries = new]
    BY <1>5, <1>7, <2>6
  <2> HIDE DEF e, g
  <2>9. /\ TidyTable(new)
        /\ GroupsOf(new) = (GroupsOf(table) \ {table[i].group}) \cup ({e.group} \ {0})
        /\ DueOf(new) = (DueOf(table) \ Due(table[i])) \cup Due(e)
    <3>1. e.group = 0 \/ e.group \notin GroupsOf(table) \ {table[i].group}
      BY <2>5
    <3>2. Due(e) \cap (DueOf(table) \ Due(table[i])) = {}
      BY <2>2, <2>5
    <3> QED BY <1>2, <1>3, <2>3, <2>5, <3>1, <3>2, TidyPut
  <2>10. Recipients(new, h.l2, h.open)
    BY <1>2, <1>3, <2>3, <2>5, RecipientsPut
  <2>11. Due(table[i]) \subseteq DueOf(table)
         /\ {table[i].group} \ {0} \subseteq GroupsOf(table)
         /\ 0 \notin GroupsOf(table)
    BY <2>3 DEF DueOf, GroupsOf
  <2> HIDE DEF new
  <2>12. GroupsOf(new) = GroupsOf(table) /\ DueOf(new) = DueOf(table) \cup {r}
    BY <2>5, <2>9, <2>11
  <2>13. /\ g.rdQ = Tail(h.rdQ) /\ g.pending = h.pending + 1
         /\ g.l2 = h.l2 /\ g.open = h.open /\ g.frozen = h.frozen
         /\ g.token = h.token /\ g.fault = h.fault
         /\ g.summaries = h.summaries /\ g.entries = new
         /\ g.toRd = h.toRd /\ g.rdRsp = h.rdRsp
    BY <1>5, <1>7, <2>8 DEF ReadSideType
  <2>14. Taken(g) = Taken(h) \cup {r}
    BY <2>12, <2>13 DEF Taken
  <2>15. DueOf(g.entries) \cap DirectIn(g.toRd, g.rdRsp) = {}
    BY <1>3, <2>2, <2>12, <2>13
  <2>16. /\ TidyTable(g.entries) /\ GroupsOf(g.entries) = GroupsOf(h.entries)
         /\ Recipients(g.entries, h.l2, h.open) /\ TidyDirect(g.toRd, g.rdRsp)
    BY <1>3, <2>9, <2>10, <2>12, <2>13
  <2>17. Taken(g) = Taken(h) \cup {Head(h.rdQ)}
    BY <2>14 DEF r
  <2>18. Carries(h, g, closing)
    BY <1>2, <2>2, <2>13, <2>15, <2>16, <2>17, AdmitBooked
  <2> QED BY <2>18 DEF g
<1>8. CASE opens
  <2> DEFINE e == NewEntry(r)
             new == Append(table, e)
  <2>1. g = [a EXCEPT !.entries = Append(@, e)]
    BY <1>8 DEF AcceptRead, a
  <2>2. /\ r \in Reads /\ r \notin Taken(h) /\ r \notin DueOf(table)
        /\ r \notin DirectIn(h.toRd, h.rdRsp) /\ h.rdQ # <<>>
    BY <1>4, <1>8
  <2> HIDE DEF r
  <2>3. /\ e \in EntryType /\ Tidy(e) /\ e.group = 0 /\ Due(e) = {r}
    BY <2>2, EntryOpened
  <2>4. g = [a EXCEPT !.entries = new]
    BY <1>5, <1>8, <2>1
  <2> HIDE DEF e, g
  <2>5. /\ TidyTable(new) /\ GroupsOf(new) = GroupsOf(table)
        /\ DueOf(new) = DueOf(table) \cup {r}
    <3>1. Due(e) \cap DueOf(table) = {}
      BY <2>2, <2>3
    <3> QED BY <1>2, <1>3, <2>3, <3>1, TidyAppend
  <2>6. Recipients(new, h.l2, h.open)
    <3>1. 0 \notin h.open
      BY <1>3 DEF GroupsOf
    <3> QED BY <1>2, <1>3, <2>3, <3>1, RecipientsAppend
  <2> HIDE DEF new
  <2>7. /\ g.rdQ = Tail(h.rdQ) /\ g.pending = h.pending + 1
        /\ g.l2 = h.l2 /\ g.open = h.open /\ g.frozen = h.frozen
        /\ g.token = h.token /\ g.fault = h.fault
        /\ g.summaries = h.summaries /\ g.entries = new
        /\ g.toRd = h.toRd /\ g.rdRsp = h.rdRsp
    BY <1>5, <1>8, <2>4 DEF ReadSideType
  <2>8. Taken(g) = Taken(h) \cup {r}
    BY <2>5, <2>7 DEF Taken
  <2>9. DueOf(g.entries) \cap DirectIn(g.toRd, g.rdRsp) = {}
    BY <1>3, <2>2, <2>5, <2>7
  <2>10. /\ TidyTable(g.entries) /\ GroupsOf(g.entries) = GroupsOf(h.entries)
         /\ Recipients(g.entries, h.l2, h.open) /\ TidyDirect(g.toRd, g.rdRsp)
    BY <1>3, <2>5, <2>6, <2>7
  <2>11. Taken(g) = Taken(h) \cup {Head(h.rdQ)}
    BY <2>8 DEF r
  <2>12. Carries(h, g, closing)
    BY <1>2, <2>2, <2>7, <2>9, <2>10, <2>11, AdmitBooked
  <2> QED BY <2>12 DEF g
<1>9. CASE ~bypass /\ ~joins /\ ~opens
  <2>1. g = h
    BY <1>9 DEF AcceptRead
  <2> QED BY <2>1 DEF Carries, Balanced
<1> QED BY <1>6, <1>7, <1>8, <1>9

(* Only the channels change, and no read on them. *)
LEMMA BookedChannels ==
  ASSUME NEW h, NEW closing, Booked(h, closing), NEW g,
         g.rdQ = h.rdQ, g.entries = h.entries, g.l2 = h.l2, g.open = h.open,
         g.frozen = h.frozen, g.token = h.token, g.pending = h.pending,
         g.fault = h.fault, g.summaries = h.summaries,
         TidyDirect(g.toRd, g.rdRsp),
         DirectIn(g.toRd, g.rdRsp) = DirectIn(h.toRd, h.rdRsp)
  PROVE  Balanced(h, g, closing)
<1>1. Taken(g) = Taken(h)
  BY DEF Taken
<1>2. Owed(g) = Owed(h)
  BY <1>1 DEF Owed
<1> QED BY <1>1, <1>2 DEF Booked, Balanced

(* issue_home_agent_backend_read *)
LEMMA CommitBackendBooked ==
  ASSUME NEW h, NEW v, ReadHolds(h, v), NEW closing, Booked(h, closing),
         NEW x \in Lines, x \in LinesOf(h.entries), Entry(h, x).state = "MISS"
  PROVE  Carries(h, CommitBackend([h EXCEPT !.toRd = Append(@, x)], x), closing)
<1> DEFINE i == Index(h, x)
           old == h.entries[i]
           e == [old EXCEPT !.state = "INFLIGHT"]
           table == Put(h.entries, i, e)
           asked == Append(h.toRd, x)
           next == After(h, x)
           m == [h EXCEPT !.toRd = asked]
           g == CommitBackend(m, x)
<1>1. /\ h \in ReadSideType /\ TableHolds(h.entries, v)
      /\ h.entries \in Seq(EntryType) /\ h.toRd \in Seq(Lines \cup Reads)
      /\ TidyDirect(h.toRd, h.rdRsp) /\ TidyTable(h.entries)
  BY DEF ReadHolds, ReadSideType, Booked
<1>2. i \in DOMAIN h.entries /\ old.line = x /\ old.state = "MISS"
  BY IndexOf
<1>3. old \in EntryType /\ Sound(old, v) /\ Tidy(old)
  BY <1>1, <1>2, EntryOf DEF TidyTable
<1>4. /\ e \in EntryType /\ e.state = "INFLIGHT"
      /\ e.next = old.next /\ e.waiters = old.waiters /\ e.group = old.group
      /\ e.candidate = old.candidate
  BY <1>2, <1>3 DEF EntryType
<1>5. old.group = 0 /\ ~old.candidate.cached
  BY <1>2, <1>3 DEF Tidy
<1>6. g = [m EXCEPT !.entries = table, !.backendCursor = next,
                    !.backendCandidate = NoLine]
  BY <1>1, <1>2 DEF CommitBackend, Index, After, Put, ReadSideType
<1> HIDE DEF e, i, next
<1>7. Due(e) = Due(old) /\ Told(e) = Told(old)
  BY <1>4 DEF Due, Told
<1>8. Tidy(e)
  <2>1. \A k, l \in old.next + 1 .. Len(old.waiters) :
          old.waiters[k] = old.waiters[l] => k = l
    BY <1>3 DEF Tidy
  <2> QED BY <1>4, <1>5, <2>1 DEF Tidy
<1>9. /\ TidyDirect(asked, h.rdRsp)
      /\ DirectIn(asked, h.rdRsp) = DirectIn(h.toRd, h.rdRsp)
  BY <1>1, DirectAsk
<1>10. table \in Seq(EntryType)
  BY <1>1, <1>2, <1>4, PutParts
<1> HIDE DEF table, asked
<1>11. /\ m.rdQ = h.rdQ /\ m.entries = h.entries /\ m.l2 = h.l2 /\ m.open = h.open
       /\ m.frozen = h.frozen /\ m.token = h.token /\ m.pending = h.pending
       /\ m.fault = h.fault /\ m.summaries = h.summaries
       /\ m.toRd = asked /\ m.rdRsp = h.rdRsp
  BY <1>1 DEF ReadSideType
<1>12. g.entries = table /\ Frame(m, g)
  BY <1>1, <1>6 DEF ReadSideType, Frame
<1> HIDE DEF m, g
<1>13. Carries(h, m, closing)
  <2>1. Balanced(h, m, closing)
    BY <1>9, <1>11, BookedChannels
  <2>2. HeldIn(m) = HeldIn(h)
    BY <1>11 DEF HeldIn
  <2> QED BY <2>1, <2>2 DEF Carries
<1>14. Carries(m, g, closing)
  <2>1. g.entries = Put(m.entries, i, e) /\ m.entries[i] = old /\ i \in DOMAIN m.entries
    BY <1>2, <1>11, <1>12 DEF table
  <2>2. m.entries \in Seq(EntryType) /\ Booked(m, closing)
    BY <1>1, <1>11, <1>13 DEF Carries, Balanced
  <2> HIDE DEF old
  <2> QED BY <1>4, <1>5, <1>7, <1>8, <1>12, <2>1, <2>2, BookedPut
<1> QED BY <1>13, <1>14 DEF Carries, Balanced, g, m, asked

LEMMA IssueBackendBooked ==
  ASSUME NEW h, NEW v, ReadHolds(h, v), NEW closing, Booked(h, closing)
  PROVE  Carries(h, IssueBackend(h), closing)
<1> DEFINE x == BackendLine(h)
           g == CommitBackend([h EXCEPT !.toRd = Append(@, x)], x)
           k == [h EXCEPT !.backendCandidate = x]
<1>1. CASE x = NoLine
  BY <1>1 DEF IssueBackend, Carries, Balanced
<1>2. CASE x # NoLine /\ Len(h.toRd) >= MemDepth
  <2>1. IssueBackend(h) = k
    BY <1>2 DEF IssueBackend
  <2> HIDE DEF x
  <2>2. h \in ReadSideType
    BY DEF ReadHolds
  <2>3. k.entries = h.entries /\ Frame(h, k)
    BY <2>2 DEF ReadSideType, Frame
  <2> HIDE DEF k
  <2> QED BY <2>1, <2>3, BookedSame
<1>3. CASE x # NoLine /\ ~(Len(h.toRd) >= MemDepth)
  <2>1. IssueBackend(h) = g
    BY <1>3 DEF IssueBackend
  <2>2. x \in Lines /\ x \in LinesOf(h.entries) /\ Entry(h, x).state = "MISS"
    BY <1>3, BackendLineOf
  <2> HIDE DEF x
  <2>3. Carries(h, g, closing)
    BY <2>2, CommitBackendBooked
  <2> QED BY <2>1, <2>3
<1> QED BY <1>1, <1>2, <1>3

(* What a response that is popped leaves as it is. *)
LEMMA PopFrame ==
  ASSUME NEW h \in ReadSideType, NEW c \in Ports
  PROVE  LET g == PopResponse(h, c)
         IN  /\ g.rdQ = h.rdQ /\ g.entries = h.entries /\ g.l2 = h.l2
             /\ g.open = h.open /\ g.frozen = h.frozen /\ g.token = h.token
             /\ g.pending = h.pending /\ g.fault = h.fault
             /\ g.summaries = h.summaries
<1> DEFINE popped == [h.rdRsp EXCEPT ![c] = Tail(@)]
           p == (c + 1) % RdPorts
           g == PopResponse(h, c)
<1>1. g = [h EXCEPT !.rdRsp = popped, !.port = p]
  BY DEF PopResponse, ReadSideType
<1> HIDE DEF popped, p, g
<1>2. /\ g.rdQ = h.rdQ /\ g.entries = h.entries /\ g.l2 = h.l2
      /\ g.open = h.open /\ g.frozen = h.frozen /\ g.token = h.token
      /\ g.pending = h.pending /\ g.fault = h.fault /\ g.summaries = h.summaries
  BY <1>1 DEF ReadSideType
<1> QED BY <1>2 DEF g

(* capture_home_agent_backend_rsp *)
LEMMA CaptureBooked ==
  ASSUME NEW h, NEW v, ReadHolds(h, v), NEW closing, Booked(h, closing)
  PROVE  Carries(h, Capture(h), closing)
<1> DEFINE c == PortFrom(h, InState(h, "INFLIGHT"))
           rsp == Head(h.rdRsp[c])
           x == rsp.what
           d == rsp.data
           r == Respond(h, x, d)
           g == PopResponse(r, c)
<1>1. /\ h \in ReadSideType /\ h.port \in Ports /\ TableHolds(h.entries, v)
      /\ FlightsHold(h.entries, h.toRd, h.rdRsp, v)
      /\ h.rdRsp \in [Ports -> Seq(Rsp)]
  BY DEF ReadHolds, ReadSideType, Rsp
<1>2. /\ c \in Ports \cup {RdPorts} /\ RdPorts \notin Ports
      /\ c # RdPorts => Answers(h, c, InState(h, "INFLIGHT"))
  BY <1>1, PortFromFinds
<1>3. CASE c = RdPorts
  <2>1. Capture(h) = h
    BY <1>3 DEF Capture
  <2> QED BY <2>1 DEF Carries, Balanced
<1>4. CASE c # RdPorts
  <2>1. Capture(h) = g
    BY <1>4 DEF Capture
  <2>2. c \in Ports /\ Answers(h, c, InState(h, "INFLIGHT"))
    BY <1>2, <1>4
  <2> HIDE DEF c
  <2>3. h.rdRsp[c] # <<>> /\ x \in InState(h, "INFLIGHT") /\ rsp \in Rsp
    BY <1>1, <2>2 DEF Answers
  <2>4. x \in LinesOf(h.entries) /\ Entry(h, x).state = "INFLIGHT" /\ x \in Lines
    BY <1>1, <2>3, InStateOf, LinesOfTable DEF TableHolds
  <2>5. d \in Versions
    <3>1. \A e \in Rsp : e.data \in Versions
      BY DEF Rsp
    <3> QED BY <2>3, <3>1
  <2>6. Current(d, x, v)
    BY <1>1, <2>2, <2>3, <2>4, HeadIsCurrent
  <2>7. x \notin Reads
    BY <2>4, HomeAssumption
  <2> HIDE DEF d, x
  <2>8. r \in ReadSideType /\ Carries(h, r, closing) /\ Frame(h, r)
    <3>1. TableSide(r, v)
      BY <2>4, <2>5, <2>6, RespondHolds
    <3>2. Carries(h, r, closing) /\ Frame(h, r)
      BY <2>4, <2>5, RespondBooked
    <3> QED BY <3>1, <3>2 DEF TableSide
  <2> HIDE DEF r
  <2>9. r.rdRsp = h.rdRsp /\ r.toRd = h.toRd /\ r.rdRsp[c] # <<>>
        /\ TidyDirect(r.toRd, r.rdRsp) /\ Booked(r, closing)
    BY <2>3, <2>8 DEF Frame, Carries, Balanced, Booked
  <2>10. g.toRd = r.toRd /\ g.rdRsp = [r.rdRsp EXCEPT ![c] = Tail(@)]
    BY <2>2, <2>8, <2>9, PopParts
  <2>11. /\ TidyDirect(g.toRd, g.rdRsp)
         /\ DirectIn(g.toRd, g.rdRsp) = DirectIn(r.toRd, r.rdRsp)
    <3>1. x = Head(r.rdRsp[c]).what
      BY <2>9 DEF x
    <3>2. /\ TidyDirect(r.toRd, [r.rdRsp EXCEPT ![c] = Tail(@)])
          /\ DirectIn(r.toRd, [r.rdRsp EXCEPT ![c] = Tail(@)])
               = DirectIn(r.toRd, r.rdRsp) \ {x}
      <4> DEFINE popped == [r.rdRsp EXCEPT ![c] = Tail(@)]
      <4>1. Popped(r.rdRsp, c, x, popped)
        BY <1>1, <2>2, <2>9, <3>1 DEF Popped
      <4> HIDE DEF popped
      <4>2. /\ TidyDirect(r.toRd, popped)
            /\ DirectIn(r.toRd, popped) = DirectIn(r.toRd, r.rdRsp) \ {x}
        BY <2>9, <4>1, DirectPop
      <4> QED BY <4>2 DEF popped
    <3>3. DirectIn(r.toRd, r.rdRsp) \subseteq Reads
      BY DEF DirectIn, In
    <3> QED BY <2>7, <2>10, <3>2, <3>3
  <2>12. /\ g.rdQ = r.rdQ /\ g.entries = r.entries /\ g.l2 = r.l2
         /\ g.open = r.open /\ g.frozen = r.frozen /\ g.token = r.token
         /\ g.pending = r.pending /\ g.fault = r.fault
         /\ g.summaries = r.summaries
    BY <2>2, <2>8, PopFrame
  <2> HIDE DEF g
  <2>13. Balanced(r, g, closing)
    BY <2>9, <2>11, <2>12, BookedChannels
  <2>14. HeldIn(g) = HeldIn(r)
    <3> DEFINE p == r.rdRsp
    <3>1. p \in [Ports -> Seq(Rsp)] /\ p[c] # <<>> /\ Head(p[c]).what = x
      BY <1>1, <2>9 DEF x
    <3> HIDE DEF p
    <3>2. Returning(p) = Returning([p EXCEPT ![c] = Tail(@)]) \cup PairOf(Head(p[c]))
      BY <2>2, <3>1, ReturningPop
    <3>3. PairOf(Head(p[c])) = {}
      BY <2>7, <3>1 DEF PairOf
    <3>4. Returning(g.rdRsp) = Returning(r.rdRsp)
      BY <2>10, <3>2, <3>3 DEF p
    <3> QED BY <2>12, <3>4 DEF HeldIn
  <2> QED BY <2>1, <2>8, <2>13, <2>14 DEF Carries, Balanced
<1> QED BY <1>3, <1>4

-----------------------------------------------------------------------------
(* The books, when a response is refused or a read answered directly *)

(* What distinct masters are. *)
LEMMA MastersDiffer ==
  ASSUME NEW w \in Seq(Reads), DistinctMasters(w),
         NEW k \in 1 .. Len(w), NEW l \in 1 .. Len(w), k # l
  PROVE  MasterOf[w[k]] # MasterOf[w[l]]
<1> DEFINE n == Len(w)
           S == 1 .. n
           T == {MasterOf[w[j]] : j \in S}
           f == [j \in S |-> MasterOf[w[j]]]
<1>1. n \in Nat /\ DOMAIN w = S
  OBVIOUS
<1>2. Cardinality(T) = n
  BY <1>1 DEF DistinctMasters
<1>3. IsFiniteSet(S) /\ Cardinality(S) = n
  BY <1>1, FromOne
<1>4. f \in [S -> T] /\ \A t \in T : \E s \in S : f[s] = t
  OBVIOUS
<1>5. \A j \in S : f[j] = MasterOf[w[j]]
  OBVIOUS
<1> HIDE DEF n, S, T, f
<1>6. f \in Surjection(S, T)
  BY <1>4 DEF Surjection
<1>7. f \in Injection(S, T)
  BY <1>2, <1>3, <1>6, FS_SurjSameCardinalityImpliesInj
<1>8. \A a, b \in S : f[a] = f[b] => a = b
  BY <1>4, <1>7 DEF Injection, IsInjective
<1>9. k \in S /\ l \in S
  BY DEF S, n
<1> QED BY <1>5, <1>8, <1>9

(* The candidate of an entry, kept or made now, is of a group only if it   *)
(* was made now, and then of the group of the entry.                       *)
LEMMA CandidateIs ==
  ASSUME NEW e \in EntryType, Tidy(e),
         Candidate(e).eligible, FanoutValid(e.waiters[e.next + 1])
  PROVE  /\ Candidate(e).group = e.group
         /\ e.group # 0 => DistinctMasters(e.waiters)
<1>1. CASE e.candidate.cached
  <2>1. Candidate(e) = e.candidate
    BY <1>1 DEF Candidate
  <2> QED BY <1>1, <2>1 DEF Tidy
<1>2. CASE ~e.candidate.cached
  <2> DEFINE b == e.open /\ DistinctMasters(e.waiters)
             g == IF b THEN e.group ELSE 0
  <2>1. Candidate(e) = [eligible |-> b, cached |-> TRUE, group |-> g]
    BY <1>2, Zenon DEF Candidate
  <2> HIDE DEF b, g
  <2>2. Candidate(e).eligible = b /\ Candidate(e).group = g
    BY <2>1
  <2>3. b
    BY <2>2
  <2>4. DistinctMasters(e.waiters)
    BY <2>3 DEF b
  <2>5. g = e.group
    BY <2>3 DEF g
  <2> QED BY <2>2, <2>4, <2>5
<1> QED BY <1>1, <1>2

(* What is offered, with its entry. *)
LEMMA OfferedIs ==
  ASSUME NEW h, NEW v, ReadHolds(h, v), HasResponse(h)
  PROVE  \E i \in DOMAIN h.entries :
           LET e == h.entries[i]
           IN  /\ Index(h, Offered(h).line) = i /\ e.line = Offered(h).line
               /\ Offered(h).line \in LinesOf(h.entries)
               /\ Offered(h).read = e.waiters[e.next + 1]
               /\ Offered(h).data = e.data
               /\ Offered(h).candidate = Candidate(e)
               /\ Offered(h).fanout <=>
                    Candidate(e).eligible /\ FanoutValid(e.waiters[e.next + 1])
               /\ e \in EntryType /\ Sound(e, v)
               /\ e.state = "RESPONDING" /\ e.next < Len(e.waiters)
<1> DEFINE x == ResponseLine(h)
           e == Entry(h, x)
           i == Index(h, x)
           o == Offered(h)
<1>1. /\ x \in LinesOf(h.entries) /\ e.state = "RESPONDING"
      /\ e.next < Len(e.waiters) /\ TableHolds(h.entries, v)
  BY ResponseLineOf DEF ReadHolds
<1>2. /\ o.line = e.line /\ o.read = e.waiters[e.next + 1] /\ o.data = e.data
      /\ o.candidate = Candidate(e)
      /\ o.fanout <=> Candidate(e).eligible /\ FanoutValid(e.waiters[e.next + 1])
  BY DEF Offered
<1> HIDE DEF x, o
<1>3. i \in DOMAIN h.entries /\ e = h.entries[i] /\ h.entries[i].line = x
  BY <1>1, IndexOf
<1>4. e \in EntryType /\ Sound(e, v)
  BY <1>1, <1>3, EntryOf
<1> HIDE DEF e, i
<1>5. o.line = x /\ Index(h, o.line) = i
  BY <1>2, <1>3 DEF i
<1>6. /\ Index(h, o.line) = i /\ h.entries[i].line = o.line
      /\ o.line \in LinesOf(h.entries)
      /\ o.read = h.entries[i].waiters[h.entries[i].next + 1]
      /\ o.data = h.entries[i].data
      /\ o.candidate = Candidate(h.entries[i])
      /\ o.fanout <=> Candidate(h.entries[i]).eligible
                        /\ FanoutValid(h.entries[i].waiters[h.entries[i].next + 1])
      /\ h.entries[i] \in EntryType /\ Sound(h.entries[i], v)
      /\ h.entries[i].state = "RESPONDING"
      /\ h.entries[i].next < Len(h.entries[i].waiters)
  BY <1>1, <1>2, <1>3, <1>4, <1>5
<1> QED BY <1>3, <1>6 DEF o

(* A response that is refused: what is kept does not join a group. *)
LEMMA KeepCandidateBooked ==
  ASSUME NEW h, NEW v, ReadHolds(h, v), NEW closing, Booked(h, closing),
         HasResponse(h), Refuses(h, Offered(h))
  PROVE  Carries(h, KeepCandidate(h, Offered(h)), closing)
<1> DEFINE o == Offered(h)
           table == h.entries
<1>1. PICK i \in DOMAIN table :
        /\ Index(h, o.line) = i
        /\ o.read = table[i].waiters[table[i].next + 1]
        /\ o.candidate = Candidate(table[i])
        /\ o.fanout <=> Candidate(table[i]).eligible
                          /\ FanoutValid(table[i].waiters[table[i].next + 1])
        /\ table[i] \in EntryType /\ Sound(table[i], v)
        /\ table[i].state = "RESPONDING" /\ table[i].next < Len(table[i].waiters)
  BY OfferedIs
<1> DEFINE old == table[i]
           e == [old EXCEPT !.candidate = o.candidate]
           g == KeepCandidate(h, o)
           new == Put(table, i, e)
<1>2. h \in ReadSideType /\ table \in Seq(EntryType) /\ Tidy(old)
  BY <1>1 DEF ReadHolds, ReadSideType, Booked, TidyTable
<1>3. o.candidate.group # 0 => ~o.fanout
  BY DEF Refuses
<1>4. g = [h EXCEPT !.responseCandidate = o.line, !.entries = Put(@, i, e)]
  BY <1>1, <1>2 DEF KeepCandidate, Put, ReadSideType
<1> DEFINE c == o.candidate
           line == o.line
<1>5. /\ c = Candidate(old) /\ c \in CandidateType
      /\ c.eligible /\ FanoutValid(old.waiters[old.next + 1]) => c.group = 0
  BY <1>1, <1>3, CandidateOf
<1> HIDE DEF c, o
<1>6. /\ e \in EntryType /\ e.state = "RESPONDING"
      /\ e.next = old.next /\ e.waiters = old.waiters /\ e.group = old.group
      /\ e.candidate = c /\ e.data = old.data
  BY <1>1, <1>5 DEF EntryType, CandidateType, c
<1> HIDE DEF e, g, line
<1>7. Due(e) = Due(old) /\ Told(e) = Told(old)
  BY <1>6 DEF Due, Told
<1>8. Tidy(e)
  <2>1. \A k, l \in old.next + 1 .. Len(old.waiters) :
          old.waiters[k] = old.waiters[l] => k = l
    BY <1>2 DEF Tidy
  <2>2. c.eligible /\ FanoutValid(old.waiters[old.next + 1]) =>
          c.group = 0 /\ old.group = 0
    BY <1>1, <1>2, <1>5, CandidateIs
  <2> HIDE DEF old
  <2> QED BY <1>1, <1>6, <2>1, <2>2 DEF Tidy, old
<1>9. new \in Seq(EntryType)
  BY <1>2, <1>6, PutParts
<1>10. g.entries = new /\ Frame(h, g)
  <2>1. g = [h EXCEPT !.responseCandidate = line, !.entries = new]
    BY <1>4 DEF line
  <2> HIDE DEF new
  <2> QED BY <1>2, <2>1 DEF ReadSideType, Frame
<1>11. Carries(h, g, closing)
  BY <1>2, <1>6, <1>7, <1>8, <1>10, BookedPut
<1> QED BY <1>11 DEF g, o

(* A read that is taken is counted. *)
LEMMA TakenCounts ==
  ASSUME NEW h, NEW closing, Booked(h, closing), NEW r \in Taken(h)
  PROVE  /\ h.pending # 0 /\ h.pending \in Nat
         /\ IsFiniteSet(Taken(h) \ {r})
         /\ Cardinality(Taken(h) \ {r}) = h.pending - 1
<1>1. IsFiniteSet(Taken(h)) /\ h.pending = Cardinality(Taken(h))
  BY DEF Booked
<1>2. Cardinality(Taken(h)) \in Nat
  BY <1>1, FS_CardinalityType
<1>3. Cardinality(Taken(h)) # 0
  BY <1>1, FS_EmptySet
<1>4. /\ IsFiniteSet(Taken(h) \ {r})
      /\ Cardinality(Taken(h) \ {r}) = Cardinality(Taken(h)) - 1
  BY <1>1, FS_RemoveElement
<1> QED BY <1>1, <1>2, <1>3, <1>4

(* A read that was taken goes to the L2 Buffer. *)
LEMMA ReleaseBooked ==
  ASSUME NEW h, Booked(h, {}), NEW r \in Taken(h),
         NEW g, g.rdQ = h.rdQ, g.fault = h.fault, g.summaries = h.summaries,
         g.pending = h.pending - 1, Taken(g) = Taken(h) \ {r},
         ReadsIn(g.l2) = ReadsIn(h.l2) \cup {r},
         TidyTable(g.entries), TidyDirect(g.toRd, g.rdRsp),
         DueOf(g.entries) \cap DirectIn(g.toRd, g.rdRsp) = {},
         TidyBuffer(g.l2, g.open, g.frozen, g.token),
         Recipients(g.entries, g.l2, g.open), GroupsOf(g.entries) = g.open
  PROVE  Balanced(h, g, {})
<1>1. /\ Once(h.rdQ, Reads) /\ In(h.rdQ, Reads) \cap Taken(h) = {} /\ ~h.fault
      /\ ReadsIn(h.l2) \cap (In(h.rdQ, Reads) \cup Taken(h)) = {}
  BY DEF Booked
<1>2. IsFiniteSet(Taken(g)) /\ g.pending = Cardinality(Taken(g))
  BY TakenCounts
<1>3. Owed(g) = Owed(h)
  BY DEF Owed
<1>4. In(g.rdQ, Reads) \cap Taken(g) = {}
  BY <1>1
<1>5. ReadsIn(g.l2) \cap (In(g.rdQ, Reads) \cup Taken(g)) = {}
  BY <1>1
<1>6. Booked(g, {})
  BY <1>1, <1>2, <1>4, <1>5 DEF Booked
<1> QED BY <1>3, <1>6 DEF Balanced

-----------------------------------------------------------------------------
(* The books, when a read is answered without an entry *)

(* All that the books are about but the L2 Buffer. *)
Aside(h, g) ==
  /\ g.rdQ = h.rdQ /\ g.toRd = h.toRd /\ g.rdRsp = h.rdRsp
  /\ g.entries = h.entries
  /\ g.pending = h.pending /\ g.fault = h.fault /\ g.summaries = h.summaries

LEMMA EnqueueParts ==
  ASSUME NEW h \in ReadSideType, NEW envelope
  PROVE  LET g == Enqueue(h, envelope)
         IN  /\ Aside(h, g) /\ g.l2 = Append(h.l2, envelope)
             /\ g.open = h.open /\ g.frozen = h.frozen /\ g.token = h.token
<1> DEFINE l2 == Append(h.l2, envelope)
           g == Enqueue(h, envelope)
<1>1. g = [h EXCEPT !.l2 = l2]
  BY DEF Enqueue, ReadSideType
<1> HIDE DEF l2, g
<1>2. /\ Aside(h, g) /\ g.l2 = l2
      /\ g.open = h.open /\ g.frozen = h.frozen /\ g.token = h.token
  BY <1>1 DEF ReadSideType, Aside
<1> QED BY <1>2 DEF g, l2

(* A read that was counted is retired. *)
LEMMA RetireParts ==
  ASSUME NEW h \in ReadSideType, h.pending # 0
  PROVE  LET g == Retire(h)
         IN  /\ g.rdQ = h.rdQ /\ g.toRd = h.toRd /\ g.rdRsp = h.rdRsp
             /\ g.entries = h.entries /\ g.fault = h.fault
             /\ g.summaries = h.summaries /\ g.l2 = h.l2 /\ g.open = h.open
             /\ g.frozen = h.frozen /\ g.token = h.token
             /\ g.pending = h.pending - 1
<1> DEFINE p == h.pending - 1
           g == Retire(h)
<1>1. g = [h EXCEPT !.pending = p]
  BY DEF Retire, ReadSideType
<1> HIDE DEF p, g
<1>2. /\ g.rdQ = h.rdQ /\ g.toRd = h.toRd /\ g.rdRsp = h.rdRsp
      /\ g.entries = h.entries /\ g.fault = h.fault
      /\ g.summaries = h.summaries /\ g.l2 = h.l2 /\ g.open = h.open
      /\ g.frozen = h.frozen /\ g.token = h.token /\ g.pending = p
  BY <1>1 DEF ReadSideType
<1> QED BY <1>2 DEF g, p

(* An envelope of no group has no entry. *)
LEMMA RecipientsEnqueue ==
  ASSUME NEW table, NEW l2 \in Seq(Envelope), NEW open, 0 \notin open,
         Recipients(table, l2, open), NEW e \in Envelope, e.group = 0
  PROVE  Recipients(table, Append(l2, e), open)
<1> DEFINE m == Append(l2, e)
<1>1. /\ DOMAIN m = DOMAIN l2 \cup {Len(l2) + 1}
      /\ m[Len(l2) + 1] = e
      /\ \A j \in DOMAIN l2 : m[j] = l2[j]
  BY AppendParts
<1> HIDE DEF m
<1>2. ASSUME NEW i \in DOMAIN table, NEW j \in DOMAIN m,
             m[j].group \in open, m[j].group = table[i].group
      PROVE  Recipient(m[j], table[i])
  <2>1. j \in DOMAIN l2 /\ m[j] = l2[j]
    BY <1>1, <1>2
  <2> QED BY <1>2, <2>1 DEF Recipients
<1> QED BY <1>2 DEF Recipients, m

(* A response is not of a group, and goes straight to the buffer. *)
LEMMA UnicastBooked ==
  ASSUME NEW h, NEW v, ReadHolds(h, v), NEW closing, Booked(h, closing),
         NEW r \in Taken(h), r \in Reads, NEW d \in Versions
  PROVE  LET l2 == Append(h.l2, Unicast(r, d))
         IN  /\ TidyBuffer(l2, h.open, h.frozen, h.token)
             /\ ReadsIn(l2) = ReadsIn(h.l2) \cup {r}
             /\ \A table : Recipients(table, h.l2, h.open) =>
                             Recipients(table, l2, h.open)
<1>1. h.l2 \in Seq(Envelope) /\ h.token \in Nat
  BY EnvelopesOf DEF ReadHolds, ReadSideType
<1>2. TidyBuffer(h.l2, h.open, h.frozen, h.token) /\ r \notin ReadsIn(h.l2)
  BY DEF Booked
<1> DEFINE e == Unicast(r, d)
<1>3. e \in Envelope /\ e.reads = <<r>> /\ e.group = 0
  BY DEF Unicast, Envelope
<1> HIDE DEF e
<1> DEFINE l2 == Append(h.l2, e)
<1>4. TidyBuffer(l2, h.open, h.frozen, h.token) /\ ReadsIn(l2) = ReadsIn(h.l2) \cup {r}
  <2>1. Enqueued(h.l2, h.open, h.token, e, r, l2, h.open, h.token)
    BY <1>1, <1>2, <1>3 DEF Enqueued
  <2> HIDE DEF l2
  <2> QED BY <1>2, <2>1, TidyEnqueue
<1>5. \A table : Recipients(table, h.l2, h.open) => Recipients(table, l2, h.open)
  BY <1>1, <1>3, GroupsPositive, RecipientsEnqueue
<1> QED BY <1>4, <1>5 DEF e

(* recv_rd_cmd_rsp: the read at the head of a channel goes to the buffer. *)
LEMMA DirectBooked ==
  ASSUME NEW h, NEW v, ReadHolds(h, v), Booked(h, {}),
         \A c \in Ports : ~Answers(h, c, FlyingOf(h.entries))
  PROVE  Carries(h, DirectResponse(h), {})
<1> DEFINE c == PortFrom(h, Reads \cup Lines)
           r == Head(h.rdRsp[c]).what
           d == Head(h.rdRsp[c]).data
           b == Enqueue(h, Unicast(r, d))
           p == PopResponse(b, c)
           g == Retire(p)
<1>1. /\ h \in ReadSideType /\ h.port \in Ports
      /\ FlightsHold(h.entries, h.toRd, h.rdRsp, v)
      /\ h.rdRsp \in [Ports -> Seq(Rsp)]
  BY DEF ReadHolds, ReadSideType, Rsp
<1>2. /\ c \in Ports \cup {RdPorts} /\ RdPorts \notin Ports
      /\ c # RdPorts => Answers(h, c, Reads \cup Lines)
  BY <1>1, PortFromFinds
<1>3. CASE c = RdPorts \/ ~HasCapacity(h)
  <2>1. DirectResponse(h) = h
    BY <1>3 DEF DirectResponse
  <2> QED BY <2>1 DEF Carries, Balanced
<1>4. CASE ~(c = RdPorts \/ ~HasCapacity(h))
  <2>1. DirectResponse(h) = g
    BY <1>4 DEF DirectResponse
  <2>2. c \in Ports /\ h.rdRsp[c] # <<>> /\ r \in Reads \cup Lines
    BY <1>2, <1>4 DEF Answers
  <2>23. d \in Versions
    BY <1>1, <2>2, HeadIsRsp DEF Rsp
  <2>3. r \in Lines => r \in FlyingOf(h.entries)
    BY <1>1, <2>2, HeadIsCurrent
  <2>4. r \in Reads
    BY <2>2, <2>3 DEF Answers
  <2> HIDE DEF c
  <2>5. /\ TidyDirect(h.toRd, [h.rdRsp EXCEPT ![c] = Tail(@)])
        /\ DirectIn(h.toRd, [h.rdRsp EXCEPT ![c] = Tail(@)])
             = DirectIn(h.toRd, h.rdRsp) \ {r}
        /\ r \in DirectIn(h.toRd, h.rdRsp)
    <3> DEFINE popped == [h.rdRsp EXCEPT ![c] = Tail(@)]
    <3>1. Popped(h.rdRsp, c, r, popped)
      BY <1>1, <2>2 DEF Popped
    <3>2. TidyDirect(h.toRd, h.rdRsp)
      BY DEF Booked
    <3> HIDE DEF r, popped
    <3>3. /\ TidyDirect(h.toRd, popped)
          /\ DirectIn(h.toRd, popped) = DirectIn(h.toRd, h.rdRsp) \ {r}
          /\ r \in DirectIn(h.toRd, h.rdRsp)
      BY <2>4, <3>1, <3>2, DirectPop
    <3> QED BY <3>3 DEF popped
  <2> HIDE DEF r, d
  <2>6. r \in Taken(h) /\ r \notin DueOf(h.entries)
    BY <2>5 DEF Taken, Booked
  <2> DEFINE l2 == Append(h.l2, Unicast(r, d))
  <2>7. /\ TidyBuffer(l2, h.open, h.frozen, h.token)
        /\ ReadsIn(l2) = ReadsIn(h.l2) \cup {r}
        /\ Recipients(h.entries, l2, h.open)
    BY <2>4, <2>6, <2>23, UnicastBooked DEF Booked
  <2>8. /\ Aside(h, b) /\ b.l2 = l2 /\ b.open = h.open /\ b.frozen = h.frozen
        /\ b.token = h.token
    BY <1>1, EnqueueParts
  <2> HIDE DEF l2
  <2>9. b \in ReadSideType
    BY <2>4, <2>23, UnicastHolds DEF ReadHolds
  <2> HIDE DEF b
  <2>10. b.rdRsp = h.rdRsp /\ b.rdRsp[c] # <<>>
    BY <2>2, <2>8 DEF Aside
  <2>11. /\ p \in ReadSideType /\ p.toRd = b.toRd
         /\ p.rdRsp = [b.rdRsp EXCEPT ![c] = Tail(@)]
    BY <2>2, <2>9, <2>10, PopParts
  <2>12. /\ p.rdQ = b.rdQ /\ p.entries = b.entries /\ p.l2 = b.l2
         /\ p.open = b.open /\ p.frozen = b.frozen /\ p.token = b.token
         /\ p.pending = b.pending /\ p.fault = b.fault
         /\ p.summaries = b.summaries
    BY <2>2, <2>9, PopFrame
  <2> HIDE DEF p
  <2>13. h.pending # 0
    BY <2>6, TakenCounts
  <2>14. p.pending # 0
    BY <2>8, <2>12, <2>13 DEF Aside
  <2>15. /\ g.rdQ = p.rdQ /\ g.toRd = p.toRd /\ g.rdRsp = p.rdRsp
         /\ g.entries = p.entries /\ g.fault = p.fault
         /\ g.summaries = p.summaries /\ g.l2 = p.l2 /\ g.open = p.open
         /\ g.frozen = p.frozen /\ g.token = p.token
         /\ g.pending = p.pending - 1
    BY <2>11, <2>14, RetireParts
  <2> HIDE DEF g
  <2>16. /\ g.rdQ = h.rdQ /\ g.fault = h.fault /\ g.summaries = h.summaries
         /\ g.pending = h.pending - 1 /\ g.entries = h.entries
         /\ g.toRd = h.toRd /\ g.rdRsp = [h.rdRsp EXCEPT ![c] = Tail(@)]
         /\ g.l2 = l2 /\ g.open = h.open /\ g.frozen = h.frozen
         /\ g.token = h.token
    BY <2>8, <2>11, <2>12, <2>15 DEF Aside
  <2>17. /\ TidyDirect(g.toRd, g.rdRsp)
         /\ DirectIn(g.toRd, g.rdRsp) = DirectIn(h.toRd, h.rdRsp) \ {r}
    BY <2>5, <2>16
  <2>18. Taken(g) = Taken(h) \ {r}
    BY <2>6, <2>16, <2>17 DEF Taken
  <2>19. DueOf(g.entries) \cap DirectIn(g.toRd, g.rdRsp) = {}
    BY <2>16, <2>17 DEF Booked
  <2>20. /\ TidyBuffer(g.l2, g.open, g.frozen, g.token)
         /\ Recipients(g.entries, g.l2, g.open)
         /\ ReadsIn(g.l2) = ReadsIn(h.l2) \cup {r}
    BY <2>7, <2>16
  <2>21. TidyTable(g.entries) /\ GroupsOf(g.entries) = g.open
    BY <2>16 DEF Booked
  <2>22. Balanced(h, g, {})
    BY <2>6, <2>16, <2>17, <2>18, <2>19, <2>20, <2>21, ReleaseBooked
  <2>24. HeldIn(g) = HeldIn(h)
    <3> DEFINE ports == h.rdRsp
               buffer == h.l2
               e == Unicast(r, d)
    <3>1. /\ ports \in [Ports -> Seq(Rsp)] /\ ports[c] # <<>> /\ c \in Ports
          /\ Head(ports[c]).what = r /\ Head(ports[c]).data = d
          /\ g.rdRsp = [ports EXCEPT ![c] = Tail(@)] /\ g.l2 = Append(buffer, e)
      BY <1>1, <2>2, <2>16 DEF r, d, l2
    <3>2. e \in Envelope /\ e.reads = <<r>> /\ e.data = d
      BY <2>4, <2>23 DEF Unicast, Envelope
    <3>3. buffer \in Seq(Envelope)
      BY EnvelopesOf DEF ReadHolds, ReadSideType
    <3> HIDE DEF ports, buffer, e
    <3>4. Returning(ports) = Returning([ports EXCEPT ![c] = Tail(@)])
                               \cup PairOf(Head(ports[c]))
      BY <3>1, ReturningPop
    <3>5. PairOf(Head(ports[c])) = {<<r, d>>}
      BY <2>4, <3>1 DEF PairOf
    <3>6. Stored(Append(buffer, e)) = Stored(buffer) \cup {<<r, d>>}
      BY <3>2, <3>3, StoredFirst
    <3>7. Stored(g.l2) \cup Returning(g.rdRsp) = Stored(buffer) \cup Returning(ports)
      BY <3>1, <3>4, <3>5, <3>6
    <3> QED BY <3>7 DEF HeldIn, buffer, ports
  <2> QED BY <2>1, <2>22, <2>24 DEF Carries
<1> QED BY <1>3, <1>4

-----------------------------------------------------------------------------
(* The books, when a response is handed over *)

(* The entry of line x has a waiter left to answer, in the group given. *)
MayCommit(h, v, x, group) ==
  /\ ReadHolds(h, v) /\ x \in LinesOf(h.entries) /\ x \in Lines
  /\ Entry(h, x).state = "RESPONDING" /\ Entry(h, x).next < Len(Entry(h, x).waiters)
  /\ group \in Nat /\ h.pending # 0

(* Nothing but the table, and the count, changes. *)
LEMMA CommitParts ==
  ASSUME NEW h, NEW v, NEW x, NEW group, MayCommit(h, v, x, group)
  PROVE  LET g == CommitResponse(h, x, group)
             i == Index(h, x)
             e == Answered(h.entries[i], group)
             new == Put(h.entries, i, e)
         IN  /\ g.rdQ = h.rdQ /\ g.toRd = h.toRd /\ g.rdRsp = h.rdRsp
             /\ g.fault = h.fault /\ g.summaries = h.summaries
             /\ g.l2 = h.l2 /\ g.open = h.open /\ g.frozen = h.frozen
             /\ g.token = h.token /\ g.pending = h.pending - 1
             /\ e \in EntryType /\ e.next = h.entries[i].next + 1
             /\ e.waiters = h.entries[i].waiters /\ e.state = "RESPONDING"
             /\ e.data = h.entries[i].data
             /\ e.group = (IF group = 0 THEN h.entries[i].group ELSE group)
             /\ e.candidate = NoCandidate
             /\ \/ g.entries = new
                \/ /\ g.entries = RemoveAt(new, i)
                   /\ e.group = 0 /\ e.next = Len(e.waiters)
<1> DEFINE i == Index(h, x)
           old == h.entries[i]
           kept == IF group = 0 THEN old.group ELSE group
           e == Answered(old, group)
           new == Put(h.entries, i, e)
           more == old.next + 1 < Len(old.waiters)
           cursor == IF group # 0 /\ more THEN x ELSE After(h, x)
           s == Stepped(h, x, group)
           g == CommitResponse(h, x, group)
<1>0. /\ ReadHolds(h, v) /\ x \in LinesOf(h.entries) /\ x \in Lines
      /\ Entry(h, x).state = "RESPONDING" /\ Entry(h, x).next < Len(Entry(h, x).waiters)
      /\ group \in Nat /\ h.pending # 0
  BY DEF MayCommit
<1>1. /\ TableHolds(h.entries, v) /\ h \in ReadSideType
      /\ i \in DOMAIN h.entries /\ old.line = x /\ old = Entry(h, x)
  BY <1>0, IndexOf DEF ReadHolds
<1>2. old \in EntryType /\ h.entries \in Seq(EntryType)
  BY <1>1, EntryOf DEF TableHolds
<1>3. /\ old.next \in Nat /\ old.waiters \in Seq(Reads) /\ old.group \in Nat
      /\ Len(old.waiters) \in Nat /\ old.next < Len(old.waiters)
      /\ old.state = "RESPONDING"
  BY <1>0, <1>1, <1>2 DEF EntryType
<1>4. kept \in Nat /\ old.next + 1 \in Nat
  BY <1>0, <1>3
<1>5. NoCandidate \in [eligible : BOOLEAN, group : Nat, cached : BOOLEAN]
  BY DEF NoCandidate
<1>6. e = [old EXCEPT !.next = @ + 1, !.group = kept, !.candidate = NoCandidate]
  BY DEF Answered
<1> HIDE DEF e, kept
<1>7. /\ e \in EntryType /\ e.next = old.next + 1 /\ e.waiters = old.waiters
      /\ e.state = "RESPONDING" /\ e.group = kept /\ e.candidate = NoCandidate
      /\ e.line = x /\ e.data = old.data
  BY <1>1, <1>2, <1>3, <1>4, <1>5, <1>6 DEF EntryType
<1>8. new \in Seq(EntryType) /\ DOMAIN new = DOMAIN h.entries /\ new[i] = e
      /\ \A j \in DOMAIN new : j # i => new[j] = h.entries[j]
  BY <1>1, <1>2, <1>7, PutParts
<1>9. cursor \in Lines
  BY <1>0, <1>1, AfterHolds, LinesOfTable DEF TableHolds
<1>10. s = [h EXCEPT !.entries = new, !.responseCursor = cursor,
                     !.responseCandidate = NoLine]
  BY Zenon DEF Stepped, e
<1>11. g = Retire(IF ~more /\ e.group = 0 THEN Erase(s, x) ELSE s)
  BY <1>0, <1>1, CommitResponseIs, Zenon DEF e
<1> HIDE DEF cursor, new, s, g, more
<1>12. /\ s \in ReadSideType /\ s.entries = new /\ Frame(h, s)
  BY <1>1, <1>8, <1>9, <1>10 DEF ReadSideType, Frame
<1>13. Index(s, x) = i
  <2>1. x \in LinesOf(s.entries)
    BY <1>1, <1>7, <1>8, <1>12 DEF LinesOf
  <2>2. Index(s, x) \in DOMAIN new /\ new[Index(s, x)].line = x
    BY <1>12, <2>1, IndexOf
  <2> HIDE DEF i
  <2>3. \A j \in DOMAIN h.entries : h.entries[j].line = x => j = i
    BY <1>1 DEF TableHolds
  <2> QED BY <1>8, <2>2, <2>3
<1> DEFINE same(p) ==
             /\ g.rdQ = p.rdQ /\ g.toRd = p.toRd /\ g.rdRsp = p.rdRsp
             /\ g.fault = p.fault /\ g.summaries = p.summaries
             /\ g.l2 = p.l2 /\ g.open = p.open /\ g.frozen = p.frozen
             /\ g.token = p.token /\ g.pending = p.pending - 1
<1>14. same(h) /\ \/ g.entries = new
                  \/ /\ g.entries = RemoveAt(new, i)
                     /\ e.group = 0 /\ e.next = Len(e.waiters)
  <2>1. CASE ~more /\ e.group = 0
    <3> DEFINE p == Erase(s, x)
    <3>1. Frame(s, p) /\ p.entries = RemoveAt(new, i)
      BY <1>12, <1>13, EraseFrame
    <3>2. g = Retire(p)
      BY <1>11, <2>1
    <3>3. p \in ReadSideType
      BY <1>0, <1>12, SteppedHolds DEF ReadHolds, s
    <3>4. p.pending # 0
      BY <1>0, <1>12, <3>1 DEF Frame
    <3> HIDE DEF p
    <3>5. same(p) /\ g.entries = p.entries
      BY <3>2, <3>3, <3>4, RetireParts
    <3>6. e.next = Len(e.waiters)
      BY <1>3, <1>7, <2>1 DEF more
    <3>7. same(h)
      BY <1>12, <3>1, <3>5 DEF Frame
    <3> QED BY <2>1, <3>1, <3>5, <3>6, <3>7
  <2>2. CASE ~(~more /\ e.group = 0)
    <3>1. g = Retire(s)
      BY <1>11, <2>2
    <3>2. s.pending # 0
      BY <1>0, <1>12 DEF Frame
    <3>3. same(s) /\ g.entries = s.entries
      BY <1>12, <3>1, <3>2, RetireParts
    <3>4. same(h)
      BY <1>12, <3>3 DEF Frame
    <3> QED BY <1>12, <3>3, <3>4
  <2> QED BY <2>1, <2>2
<1> HIDE DEF i
<1> QED BY <1>7, <1>14, Zenon DEF g, e, new, kept, i

(* The waiter that is answered is not due any more. *)
LEMMA AnsweredParts ==
  ASSUME NEW old \in EntryType, Tidy(old), old.next < Len(old.waiters),
         NEW e \in EntryType, e.next = old.next + 1, e.waiters = old.waiters,
         e.state = "RESPONDING", e.candidate = NoCandidate,
         NEW r, r = old.waiters[old.next + 1]
  PROVE  /\ Tidy(e) /\ r \in Reads
         /\ r \in Due(old) /\ Due(e) = Due(old) \ {r}
         /\ Told(e) = Told(old) \cup {r}
         /\ e.next = Len(e.waiters) => Due(e) = {}
<1> DEFINE n == old.next
           w == old.waiters
           m == Len(w)
<1>1. n \in Nat /\ w \in Seq(Reads) /\ m \in Nat /\ n < m /\ DOMAIN w = 1 .. m
  BY DEF EntryType
<1>2. \A k, l \in n + 1 .. m : w[k] = w[l] => k = l
  BY DEF Tidy
<1>3. e.next = n + 1 /\ e.waiters = w /\ r = w[n + 1] /\ Len(e.waiters) = m
  OBVIOUS
<1>4. /\ n + 1 \in n + 1 .. m /\ n + 1 \in 1 .. m
      /\ n + 1 + 1 .. m = (n + 1 .. m) \ {n + 1}
      /\ 1 .. n + 1 = (1 .. n) \cup {n + 1}
  BY <1>1
<1>5. Due(old) = {w[k] : k \in n + 1 .. m} /\ Told(old) = {w[k] : k \in 1 .. n}
  BY DEF Due, Told
<1>6. Due(e) = {w[k] : k \in (n + 1 .. m) \ {n + 1}}
      /\ Told(e) = {w[k] : k \in (1 .. n) \cup {n + 1}}
  BY <1>3, <1>4 DEF Due, Told
<1>7. r \in Reads /\ r \in Due(old)
  BY <1>1, <1>3, <1>4, <1>5
<1>8. ~NoCandidate.cached
  BY DEF NoCandidate
<1>9. e.next = m => Due(e) = {}
  <2>1. SUFFICES ASSUME n + 1 = m
                 PROVE  Due(e) = {}
    BY <1>3
  <2>2. (n + 1 .. m) \ {n + 1} = {}
    BY <1>1, <2>1
  <2> HIDE DEF n, m, w
  <2> QED BY <1>6, <2>2
<1> DEFINE S == n + 1 .. m
           T == 1 .. n
           j == n + 1
<1>10. \A k, l \in S \ {j} : w[k] = w[l] => k = l
  BY <1>2
<1>11. j \in S /\ \A k, l \in S : w[k] = w[l] => k = l
  BY <1>2, <1>4
<1>12. /\ Due(old) = {w[k] : k \in S} /\ Told(old) = {w[k] : k \in T}
       /\ Due(e) = {w[k] : k \in S \ {j}} /\ Told(e) = {w[k] : k \in T \cup {j}}
       /\ r = w[j]
  BY <1>3, <1>5, <1>6
<1>13. Tidy(e)
  <2>1. \A k, l \in e.next + 1 .. Len(e.waiters) :
          e.waiters[k] = e.waiters[l] => k = l
    BY <1>3, <1>4, <1>10
  <2> QED BY <1>8, <2>1 DEF Tidy
<1> HIDE DEF S, T, j, m, n, w
<1>14. Due(e) = Due(old) \ {r} /\ Told(e) = Told(old) \cup {r}
  BY <1>11, <1>12
<1> QED BY <1>3, <1>7, <1>9, <1>13, <1>14

(* The table after an answer to r, with the group its entry is now of. *)
AnswersTo(table, new, r, group) ==
  /\ TidyTable(new) /\ DueOf(new) = DueOf(table) \ {r}
  /\ GroupsOf(new) = GroupsOf(table) \cup ({group} \ {0})

LEMMA TableAnswers ==
  ASSUME NEW table \in Seq(EntryType), TidyTable(table), NEW i \in DOMAIN table,
         NEW e \in EntryType, Tidy(e),
         NEW r \in Due(table[i]), Due(e) = Due(table[i]) \ {r},
         \/ e.group = table[i].group
         \/ table[i].group = 0 /\ e.group \notin GroupsOf(table),
         NEW new, \/ new = Put(table, i, e)
                  \/ /\ new = RemoveAt(Put(table, i, e), i)
                     /\ e.group = 0 /\ Due(e) = {}
  PROVE  /\ AnswersTo(table, new, r, e.group)
         /\ \A l2, open : Recipients(Put(table, i, e), l2, open) =>
                            Recipients(new, l2, open)
<1> DEFINE p == Put(table, i, e)
           old == table[i]
<1>1. /\ Due(old) \subseteq DueOf(table) /\ {old.group} \ {0} \subseteq GroupsOf(table)
      /\ 0 \notin GroupsOf(table)
  BY DEF DueOf, GroupsOf
<1>2. Due(e) \cap (DueOf(table) \ Due(old)) = {}
  OBVIOUS
<1>3. e.group = 0 \/ e.group \notin GroupsOf(table) \ {old.group}
  OBVIOUS
<1>4. /\ TidyTable(p)
      /\ GroupsOf(p) = (GroupsOf(table) \ {old.group}) \cup ({e.group} \ {0})
      /\ DueOf(p) = (DueOf(table) \ Due(old)) \cup Due(e)
  BY <1>2, <1>3, TidyPut
<1>5. p \in Seq(EntryType) /\ DOMAIN p = DOMAIN table /\ p[i] = e
  BY PutParts
<1> HIDE DEF p
<1>6. DueOf(p) = DueOf(table) \ {r}
  BY <1>1, <1>4
<1>7. GroupsOf(p) = GroupsOf(table) \cup ({e.group} \ {0})
  BY <1>1, <1>4
<1>8. CASE new = p
  BY <1>4, <1>6, <1>7, <1>8 DEF p, AnswersTo
<1>9. CASE new = RemoveAt(p, i) /\ e.group = 0 /\ Due(e) = {}
  <2>1. /\ TidyTable(new) /\ GroupsOf(new) = GroupsOf(p) \ {e.group}
        /\ DueOf(new) = DueOf(p) \ Due(e)
    BY <1>4, <1>5, <1>9, TidyRemove
  <2>2. \A l2, open : Recipients(p, l2, open) => Recipients(new, l2, open)
    BY <1>5, <1>9, RecipientsRemove
  <2>3. DueOf(new) = DueOf(table) \ {r}
    BY <1>6, <1>9, <2>1
  <2>4. GroupsOf(new) = GroupsOf(table) \cup ({e.group} \ {0})
    BY <1>1, <1>7, <1>9, <2>1
  <2> QED BY <2>1, <2>2, <2>3, <2>4 DEF p, AnswersTo
<1> QED BY <1>8, <1>9 DEF p

(* An entry that is told of the group, and has answered r, knows its        *)
(* recipients.                                                             *)
Noted(table, i, group, r, l2, open) ==
  \A e \in EntryType :
    e.group = (IF group = 0 THEN table[i].group ELSE group)
      /\ Told(e) = Told(table[i]) \cup {r} /\ e.data = table[i].data =>
        Recipients(Put(table, i, e), l2, open)

(* The books of h are kept in g, where the buffer is that of b. *)
Moves(h, b, g) == Balanced(h, g, {}) /\ HeldIn(g) = HeldIn(b)

(* commit_l2_response, once the buffer holds the read r: the entry is told *)
(* of the group that it was put into, if any.                              *)
LEMMA CommitBooked ==
  ASSUME NEW h, NEW v, ReadHolds(h, v), Booked(h, {}),
         NEW i \in DOMAIN h.entries, NEW x, Index(h, x) = i,
         x \in LinesOf(h.entries),
         h.entries[i].state = "RESPONDING",
         h.entries[i].next < Len(h.entries[i].waiters),
         NEW r, r = h.entries[i].waiters[h.entries[i].next + 1],
         NEW group \in Nat,
         \/ group = 0 \/ group = h.entries[i].group
         \/ h.entries[i].group = 0 /\ group \notin h.open,
         NEW b, ReadHolds(b, v), Aside(h, b),
         TidyBuffer(b.l2, b.open, b.frozen, b.token),
         ReadsIn(b.l2) = ReadsIn(h.l2) \cup {r},
         b.open = h.open \cup ({group} \ {0}),
         Noted(h.entries, i, group, r, b.l2, b.open)
  PROVE  Moves(h, b, CommitResponse(b, x, group))
<1> DEFINE table == h.entries
           old == table[i]
           e == Answered(old, group)
           g == CommitResponse(b, x, group)
           kept == IF group = 0 THEN old.group ELSE group
<1>1. /\ table \in Seq(EntryType) /\ TidyTable(table) /\ Tidy(old)
      /\ GroupsOf(table) = h.open
      /\ TableHolds(table, v)
  BY DEF ReadHolds, TableHolds, Booked, TidyTable
<1>2. old \in EntryType /\ b.entries = table /\ x \in Lines
  BY <1>1, LinesOfTable DEF Aside, TableHolds
<1>3. Index(b, x) = i /\ Entry(b, x) = old
  BY <1>2 DEF Index, Entry
<1>21. /\ old.next < Len(old.waiters) /\ r = old.waiters[old.next + 1]
       /\ i \in DOMAIN table /\ old = table[i]
  OBVIOUS
<1>4. r \in Due(old)
  <2>1. old.next \in Nat /\ Len(old.waiters) \in Nat
    BY <1>2 DEF EntryType
  <2>2. old.next < Len(old.waiters) /\ r = old.waiters[old.next + 1]
    BY <1>21
  <2> HIDE DEF old
  <2>3. old.next + 1 \in old.next + 1 .. Len(old.waiters)
    BY <2>1, <2>2
  <2> QED BY <2>2, <2>3 DEF Due
<1>5. r \in Taken(h)
  BY <1>4 DEF Taken, DueOf
<1>6. h.pending # 0
  BY <1>5, TakenCounts
<1>7. b.pending # 0
  BY <1>6 DEF Aside
<1>8. /\ g.rdQ = b.rdQ /\ g.toRd = b.toRd /\ g.rdRsp = b.rdRsp
      /\ g.fault = b.fault /\ g.summaries = b.summaries
      /\ g.l2 = b.l2 /\ g.open = b.open /\ g.frozen = b.frozen
      /\ g.token = b.token /\ g.pending = b.pending - 1
      /\ e \in EntryType /\ e.next = old.next + 1
      /\ e.waiters = old.waiters /\ e.state = "RESPONDING"
      /\ e.data = old.data
      /\ e.group = kept /\ e.candidate = NoCandidate
      /\ \/ g.entries = Put(table, i, e)
         \/ /\ g.entries = RemoveAt(Put(table, i, e), i)
            /\ e.group = 0 /\ e.next = Len(e.waiters)
  <2> DEFINE P == /\ g.rdQ = b.rdQ /\ g.toRd = b.toRd /\ g.rdRsp = b.rdRsp
                  /\ g.fault = b.fault /\ g.summaries = b.summaries
                  /\ g.l2 = b.l2 /\ g.open = b.open /\ g.frozen = b.frozen
                  /\ g.token = b.token /\ g.pending = b.pending - 1
             t == b.entries
             j == Index(b, x)
             f == Answered(t[j], group)
  <2>1. x \in LinesOf(t) /\ Entry(b, x).state = "RESPONDING"
        /\ Entry(b, x).next < Len(Entry(b, x).waiters)
    BY <1>2, <1>3
  <2>2. /\ P
        /\ f \in EntryType /\ f.next = t[j].next + 1
        /\ f.waiters = t[j].waiters /\ f.state = "RESPONDING"
        /\ f.data = t[j].data
        /\ f.group = (IF group = 0 THEN t[j].group ELSE group)
        /\ f.candidate = NoCandidate
        /\ \/ g.entries = Put(t, j, f)
           \/ /\ g.entries = RemoveAt(Put(t, j, f), j)
              /\ f.group = 0 /\ f.next = Len(f.waiters)
    <3>1. MayCommit(b, v, x, group)
      BY <1>2, <1>7, <2>1 DEF MayCommit
    <3> QED BY <3>1, CommitParts, SMTT(20)
  <2>3. t = table /\ j = i
    BY <1>2, <1>3
  <2> HIDE DEF P, g, t, j
  <2>4. f = e
    BY <2>3
  <2> HIDE DEF e, f
  <2> QED BY <2>2, <2>3, <2>4, Zenon DEF P, g
<1> HIDE DEF e, g, kept, old, table
<1>9. /\ Tidy(e) /\ r \in Reads /\ Due(e) = Due(old) \ {r}
      /\ Told(e) = Told(old) \cup {r}
      /\ e.next = Len(e.waiters) => Due(e) = {}
  <2>1. e \in EntryType /\ e.next = old.next + 1 /\ e.waiters = old.waiters
        /\ e.state = "RESPONDING" /\ e.candidate = NoCandidate
    BY <1>8
  <2> QED BY <1>1, <1>2, <1>21, <2>1, AnsweredParts
<1>10. \/ e.group = old.group
       \/ old.group = 0 /\ e.group \notin GroupsOf(table)
  <2>1. kept = old.group \/ (old.group = 0 /\ kept \notin h.open)
    BY DEF kept, old, table
  <2> QED BY <1>1, <1>8, <2>1
<1>11. /\ TidyTable(g.entries) /\ DueOf(g.entries) = DueOf(table) \ {r}
       /\ GroupsOf(g.entries) = GroupsOf(table) \cup ({e.group} \ {0})
       /\ \A l2, open : Recipients(Put(table, i, e), l2, open) =>
                          Recipients(g.entries, l2, open)
  <2> DEFINE new == g.entries
  <2>1. \/ new = Put(table, i, e)
        \/ /\ new = RemoveAt(Put(table, i, e), i)
           /\ e.group = 0 /\ Due(e) = {}
    BY <1>8, <1>9
  <2>2. /\ r \in Due(table[i]) /\ Due(e) = Due(table[i]) \ {r}
        /\ \/ e.group = table[i].group
           \/ table[i].group = 0 /\ e.group \notin GroupsOf(table)
    BY <1>4, <1>9, <1>10, <1>21
  <2>3. e \in EntryType /\ Tidy(e)
    BY <1>8, <1>9
  <2> HIDE DEF new
  <2>4. AnswersTo(table, new, r, e.group)
    BY <1>1, <1>21, <2>1, <2>2, <2>3, TableAnswers
  <2>5. \A l2, open : Recipients(Put(table, i, e), l2, open) =>
                      Recipients(new, l2, open)
    BY <1>1, <1>21, <2>1, <2>2, <2>3, TableAnswers
  <2> QED BY <2>4, <2>5 DEF new, AnswersTo
<1>12. Recipients(Put(table, i, e), b.l2, b.open)
  BY <1>8, <1>9 DEF Noted, kept, old, table
<1>13. Recipients(g.entries, g.l2, g.open)
  BY <1>8, <1>11, <1>12
<1>14. GroupsOf(g.entries) = g.open
  <2>1. {old.group} \ {0} \subseteq GroupsOf(table)
    BY DEF GroupsOf, old, table
  <2>2. b.open = GroupsOf(table) \cup ({group} \ {0})
    BY <1>1
  <2>3. e.group = IF group = 0 THEN old.group ELSE group
    BY <1>8 DEF kept
  <2>4. CASE group = 0
    BY <1>8, <1>11, <2>1, <2>2, <2>3, <2>4
  <2>5. CASE group # 0
    BY <1>8, <1>11, <2>2, <2>3, <2>5
  <2> QED BY <2>4, <2>5
<1>15. /\ g.rdQ = h.rdQ /\ g.fault = h.fault /\ g.summaries = h.summaries
       /\ g.pending = h.pending - 1 /\ g.toRd = h.toRd /\ g.rdRsp = h.rdRsp
  BY <1>8 DEF Aside
<1>16. r \notin DirectIn(h.toRd, h.rdRsp) /\ r \in DueOf(table)
  BY <1>4 DEF Booked, DueOf, old, table
<1>17. Taken(g) = Taken(h) \ {r}
  BY <1>11, <1>15, <1>16 DEF Taken, table
<1>18. /\ TidyDirect(g.toRd, g.rdRsp)
       /\ DueOf(g.entries) \cap DirectIn(g.toRd, g.rdRsp) = {}
  BY <1>11, <1>15 DEF Booked, table
<1>19. TidyBuffer(g.l2, g.open, g.frozen, g.token) /\ ReadsIn(g.l2) = ReadsIn(h.l2) \cup {r}
  BY <1>8
<1>20. Balanced(h, g, {})
  BY <1>5, <1>11, <1>13, <1>14, <1>15, <1>17, <1>18, <1>19, ReleaseBooked
<1>22. HeldIn(g) = HeldIn(b)
  BY <1>8 DEF HeldIn
<1> QED BY <1>20, <1>22 DEF g, Moves

(* The envelope of a group with one more recipient. *)
Joined(e, r) == [e EXCEPT !.reads = Append(@, r)]

LEMMA JoinedParts ==
  ASSUME NEW e \in Envelope, NEW r \in Reads
  PROVE  /\ Joined(e, r) \in Envelope /\ Joined(e, r).group = e.group
         /\ Joined(e, r).data = e.data
         /\ Joined(e, r).reads = Append(e.reads, r)
         /\ ToSet(Joined(e, r).reads) = ToSet(e.reads) \cup {r}
<1> DEFINE a == Append(e.reads, r)
<1>1. e.reads \in Seq(Reads) /\ a \in Seq(Reads) /\ e.group \in Nat
  BY DEF Envelope
<1>2. ToSet(a) = ToSet(e.reads) \cup {r}
  BY <1>1, AppendParts DEF ToSet
<1>3. Joined(e, r) = [e EXCEPT !.reads = a]
  BY DEF Joined
<1> HIDE DEF a
<1>4. /\ Joined(e, r) \in Envelope /\ Joined(e, r).group = e.group
      /\ Joined(e, r).reads = a /\ Joined(e, r).data = e.data
  BY <1>1, <1>3 DEF Envelope
<1> QED BY <1>2, <1>4 DEF a

(* Read r may join the group, whose envelope is the j-th: nobody at its     *)
(* station has.                                                            *)
MayJoin(h, group, j, r, d) ==
  /\ h \in ReadSideType /\ h.l2 \in Seq(Envelope) /\ group \in h.open
  /\ j \in DOMAIN h.l2 /\ h.l2[j].group = group /\ h.l2[j].data = d
  /\ \A k \in DOMAIN h.l2 : h.l2[k].group = group => k = j
  /\ \A q \in ToSet(h.l2[j].reads) : /\ LineOf[q] = LineOf[r]
                                     /\ MasterOf[q] # MasterOf[r]

LEMMA JoinParts ==
  ASSUME NEW h, NEW group, NEW j, NEW r, NEW d, MayJoin(h, group, j, r, d)
  PROVE  LET g == JoinGroup(h, group, r, d)
         IN  /\ Aside(h, g) /\ g.l2 = [h.l2 EXCEPT ![j] = Joined(h.l2[j], r)]
             /\ g.open = h.open /\ g.frozen = h.frozen /\ g.token = h.token
<1> DEFINE i == CHOOSE k \in DOMAIN h.l2 : h.l2[k].group = group
           refused == \/ group \notin h.open \/ h.l2[i].data # d
                      \/ \E q \in ToSet(h.l2[i].reads) :
                           ~(LineOf[q] = LineOf[r] /\ MasterOf[q] # MasterOf[r])
           raw == [h EXCEPT !.l2[i].reads = Append(@, r)]
           g == JoinGroup(h, group, r, d)
           l2 == [h.l2 EXCEPT ![j] = Joined(h.l2[j], r)]
<1>1. i = j /\ h \in ReadSideType /\ h.l2 \in Seq(Envelope) /\ j \in DOMAIN h.l2
  BY DEF MayJoin
<1>2. g = IF refused THEN Throw(h) ELSE raw
  BY DEF JoinGroup
<1> HIDE DEF i
<1>3. ~refused
  BY <1>1 DEF MayJoin
<1> HIDE DEF refused
<1>4. g = raw
  BY <1>2, <1>3
<1>5. raw = [h EXCEPT !.l2 = l2]
  <2> DEFINE m == [h.l2 EXCEPT ![i].reads = Append(@, r)]
  <2>1. raw = [h EXCEPT !.l2 = m]
    BY <1>1 DEF ReadSideType
  <2>2. m = l2
    BY <1>1 DEF Joined
  <2> HIDE DEF m, l2, raw
  <2> QED BY <2>1, <2>2
<1> HIDE DEF raw, l2, g
<1>6. /\ Aside(h, g) /\ g.l2 = l2
      /\ g.open = h.open /\ g.frozen = h.frozen /\ g.token = h.token
  BY <1>1, <1>4, <1>5 DEF ReadSideType, Aside
<1> QED BY <1>6 DEF g, l2

LEMMA OpenParts ==
  ASSUME NEW h \in ReadSideType, NEW r, NEW d
  PROVE  LET g == OpenGroup(h, r, d)
             e == [group |-> h.token + 1, reads |-> <<r>>, data |-> d]
         IN  /\ Aside(h, g) /\ g.l2 = Append(h.l2, e)
             /\ g.open = h.open \cup {h.token + 1} /\ g.frozen = h.frozen
             /\ g.token = h.token + 1
<1> DEFINE e == [group |-> h.token + 1, reads |-> <<r>>, data |-> d]
           b == Enqueue(h, e)
           t == b.token + 1
           o == b.open \cup {h.token + 1}
           g == OpenGroup(h, r, d)
           l2 == Append(h.l2, e)
<1>1. /\ Aside(h, b) /\ b.l2 = l2 /\ b.open = h.open
      /\ b.frozen = h.frozen /\ b.token = h.token
  BY EnqueueParts
<1>2. g = [b EXCEPT !.token = t, !.open = o]
  BY DEF OpenGroup
<1>3. b = [h EXCEPT !.l2 = l2]
  BY DEF Enqueue, ReadSideType
<1> HIDE DEF e, l2, t, o, b, g
<1>4. /\ Aside(b, g) /\ g.l2 = b.l2 /\ g.open = o /\ g.frozen = b.frozen
      /\ g.token = t
  BY <1>2, <1>3 DEF ReadSideType, Aside
<1>5. o = h.open \cup {h.token + 1} /\ t = h.token + 1
  BY <1>1 DEF o, t
<1>6. Aside(h, g)
  BY <1>1, <1>4 DEF Aside
<1> QED BY <1>1, <1>4, <1>5, <1>6 DEF g, l2, e

(* The answered entry knows its recipients: when the response joined the   *)
(* group of the entry ...                                                  *)
LEMMA RecipientsJoin ==
  ASSUME NEW table \in Seq(EntryType), TidyTable(table), NEW i \in DOMAIN table,
         NEW l2 \in Seq(Envelope), NEW open, 0 \notin open,
         Recipients(table, l2, open), NEW j \in DOMAIN l2,
         l2[j].group = table[i].group, NEW r \in Reads,
         NEW e \in EntryType, e.group = table[i].group, e.group # 0,
         Told(e) = Told(table[i]) \cup {r}, e.data = table[i].data
  PROVE  Recipients(Put(table, i, e), [l2 EXCEPT ![j] = Joined(l2[j], r)], open)
<1> DEFINE m == [l2 EXCEPT ![j] = Joined(l2[j], r)]
           new == Put(table, i, e)
           f == Joined(l2[j], r)
<1>1. l2[j] \in Envelope
  OBVIOUS
<1>2. f.group = l2[j].group /\ ToSet(f.reads) = ToSet(l2[j].reads) \cup {r}
      /\ f.data = l2[j].data
  BY <1>1, JoinedParts
<1>3. /\ DOMAIN m = DOMAIN l2 /\ m[j] = f
      /\ \A k \in DOMAIN l2 : k # j => m[k] = l2[k]
  OBVIOUS
<1>4. /\ DOMAIN new = DOMAIN table /\ new[i] = e
      /\ \A a \in DOMAIN table : a # i => new[a] = table[a]
  BY PutParts
<1>5. \A a \in DOMAIN table : a # i => table[a].group # table[i].group
  BY DEF TidyTable
<1> HIDE DEF m, new, f
<1>6. ASSUME NEW a \in DOMAIN new, NEW k \in DOMAIN m,
             m[k].group \in open, m[k].group = new[a].group
      PROVE  Recipient(m[k], new[a])
  <2>1. m[k].group = l2[k].group /\ k \in DOMAIN l2
    BY <1>2, <1>3
  <2>2. new[a].group = table[a].group /\ a \in DOMAIN table
    BY <1>4
  <2>3. ToSet(l2[k].reads) \subseteq Told(table[a]) /\ l2[k].data = table[a].data
    BY <1>6, <2>1, <2>2 DEF Recipients, Recipient
  <2>4. Told(table[a]) \subseteq Told(new[a]) /\ new[a].data = table[a].data
    BY <1>4, <2>2
  <2>5. CASE k = j
    <3>1. a = i
      BY <1>2, <1>3, <1>4, <1>5, <1>6, <2>2, <2>5
    <3> QED BY <1>2, <1>3, <1>4, <2>3, <2>4, <2>5, <3>1 DEF Recipient
  <2>6. CASE k # j
    BY <1>3, <2>1, <2>3, <2>4, <2>6 DEF Recipient
  <2> QED BY <2>5, <2>6
<1> QED BY <1>6 DEF Recipients, m, new

(* ... and when it opened a group. *)
LEMMA RecipientsOpen ==
  ASSUME NEW table \in Seq(EntryType), NEW i \in DOMAIN table,
         NEW l2 \in Seq(Envelope), NEW open, Recipients(table, l2, open),
         table[i].group \notin open, NEW group, group \notin open,
         \A k \in DOMAIN l2 : l2[k].group # group,
         \A a \in DOMAIN table : table[a].group # group,
         NEW f \in Envelope, f.group = group, NEW r, ToSet(f.reads) = {r},
         NEW e \in EntryType, e.group = group, r \in Told(e), f.data = e.data
  PROVE  Recipients(Put(table, i, e), Append(l2, f), open \cup {group})
<1> DEFINE m == Append(l2, f)
           new == Put(table, i, e)
           n == Len(l2) + 1
<1>1. /\ DOMAIN m = DOMAIN l2 \cup {n} /\ m[n] = f
      /\ \A k \in DOMAIN l2 : m[k] = l2[k]
  BY AppendParts
<1>2. /\ DOMAIN new = DOMAIN table /\ new[i] = e
      /\ \A a \in DOMAIN table : a # i => new[a] = table[a]
  BY PutParts
<1> HIDE DEF m, new, n
<1>3. ASSUME NEW a \in DOMAIN new, NEW k \in DOMAIN m,
             m[k].group \in open \cup {group}, m[k].group = new[a].group
      PROVE  Recipient(m[k], new[a])
  <2>1. CASE k \in DOMAIN l2
    <3>1. m[k] = l2[k] /\ l2[k].group # group
      BY <1>1, <2>1
    <3>2. a # i /\ a \in DOMAIN table /\ new[a] = table[a]
      BY <1>2, <1>3, <3>1
    <3> QED BY <1>3, <2>1, <3>1, <3>2 DEF Recipients
  <2>2. CASE k = n
    <3>1. m[k] = f
      BY <1>1, <2>2
    <3>2. a = i
      BY <1>2, <1>3, <3>1
    <3> QED BY <1>2, <3>1, <3>2 DEF Recipient
  <2> QED BY <1>1, <2>1, <2>2
<1> QED BY <1>3 DEF Recipients, m, new

(* A response is handed over to the L2 Buffer: the group that is joined is *)
(* open, and no recipient of it is at the station of the read.             *)
(* A read of one line gets data that is current. *)
Hands(h, g, v) ==
  /\ Balanced(h, g, {})
  /\ \E r \in DueOf(h.entries), d \in Versions :
       /\ HeldIn(g) = HeldIn(h) \cup {<<r, d>>}
       /\ Current(d, LineOf[r], v) /\ InOneLine(r)

LEMMA HandOverBooked ==
  ASSUME NEW h, NEW v, ReadHolds(h, v), Booked(h, {}), HasResponse(h),
         ~Refuses(h, Offered(h))
  PROVE  Hands(h, HandOver(h, Offered(h)), v)
<1> DEFINE o == Offered(h)
           x == o.line
           table == h.entries
           group == IF ~o.fanout THEN 0
                    ELSE IF o.candidate.group # 0 THEN o.candidate.group
                    ELSE h.token + 1
           b == IF ~o.fanout THEN Enqueue(h, Unicast(o.read, o.data))
                ELSE IF o.candidate.group # 0
                THEN JoinGroup(h, group, o.read, o.data)
                ELSE OpenGroup(h, o.read, o.data)
<1>1. PICK i \in DOMAIN table :
        /\ Index(h, x) = i /\ table[i].line = x
        /\ x \in LinesOf(table)
        /\ o.read = table[i].waiters[table[i].next + 1]
        /\ o.data = table[i].data
        /\ o.candidate = Candidate(table[i])
        /\ o.fanout <=> Candidate(table[i]).eligible
                          /\ FanoutValid(table[i].waiters[table[i].next + 1])
        /\ table[i] \in EntryType /\ Sound(table[i], v)
        /\ table[i].state = "RESPONDING" /\ table[i].next < Len(table[i].waiters)
  BY OfferedIs
<1> DEFINE old == table[i]
           r == o.read
           d == o.data
           l2 == h.l2
<1>2. HandOver(h, o) = CommitResponse(b, x, group)
  BY DEF HandOver
<1>3. /\ h \in ReadSideType /\ table \in Seq(EntryType) /\ TidyTable(table)
      /\ Tidy(old) /\ l2 \in Seq(Envelope) /\ h.token \in Nat
      /\ TidyBuffer(l2, h.open, h.frozen, h.token)
      /\ Recipients(table, l2, h.open) /\ GroupsOf(table) = h.open
      /\ 0 \notin h.open
  BY EnvelopesOf, GroupsPositive DEF ReadHolds, ReadSideType, Booked, TidyTable
<1>4. r \in Reads /\ r \in Due(old) /\ r \in Taken(h) /\ r \notin ReadsIn(l2)
  <2>1. old.waiters \in Seq(Reads) /\ old.next \in Nat /\ Len(old.waiters) \in Nat
    BY <1>1 DEF EntryType
  <2>2. old.next + 1 \in old.next + 1 .. Len(old.waiters)
        /\ old.next + 1 \in 1 .. Len(old.waiters)
    BY <1>1, <2>1
  <2>3. r \in Reads /\ r \in Due(old)
    BY <1>1, <2>1, <2>2 DEF Due
  <2>4. r \in Taken(h)
    BY <2>3 DEF Taken, DueOf
  <2> QED BY <2>3, <2>4 DEF Booked
<1>5. /\ o.candidate.group \in Nat
      /\ o.fanout => /\ o.candidate.group = old.group
                     /\ old.group # 0 => DistinctMasters(old.waiters)
  <2>1. o.candidate \in CandidateType
    BY OfferedParts
  <2>2. o.fanout => /\ Candidate(old).group = old.group
                    /\ old.group # 0 => DistinctMasters(old.waiters)
    BY <1>1, <1>3, CandidateIs
  <2> QED BY <1>1, <2>1, <2>2 DEF CandidateType
<1>11. /\ d \in Versions /\ d = old.data /\ LineOf[r] = old.line
       /\ Current(d, LineOf[r], v) /\ InOneLine(r)
       /\ r \in DueOf(table)
       /\ \A q \in Told(old) : LineOf[q] = LineOf[r]
  <2>1. old.waiters \in Seq(Reads) /\ old.next \in Nat /\ Len(old.waiters) \in Nat
        /\ old.data \in Versions
    BY <1>1 DEF EntryType
  <2>2. \A k \in 1 .. Len(old.waiters) :
          LineOf[old.waiters[k]] = old.line /\ InOneLine(old.waiters[k])
    BY <1>1, <2>1 DEF Sound
  <2>3. old.next + 1 \in 1 .. Len(old.waiters) /\ 1 .. old.next \subseteq 1 .. Len(old.waiters)
    BY <1>1, <2>1
  <2>4. \A q \in Told(old) : LineOf[q] = old.line
    BY <2>2, <2>3 DEF Told
  <2>5. Current(old.data, old.line, v)
    BY <1>1 DEF Sound
  <2>6. r \in DueOf(table)
    BY <1>4 DEF DueOf
  <2>7. LineOf[r] = old.line /\ InOneLine(r) /\ d = old.data
    BY <1>1, <2>2, <2>3
  <2> HIDE DEF old, r, d
  <2> QED BY <2>1, <2>4, <2>5, <2>6, <2>7
<1>6. group \in Nat
  BY <1>3, <1>5
<1>7. ASSUME ReadHolds(b, v), Aside(h, b),
             TidyBuffer(b.l2, b.open, b.frozen, b.token),
             ReadsIn(b.l2) = ReadsIn(l2) \cup {r},
             Stored(b.l2) = Stored(l2) \cup {<<r, d>>},
             b.open = h.open \cup ({group} \ {0}),
             \/ group = 0 \/ group = old.group
             \/ old.group = 0 /\ group \notin h.open,
             Noted(table, i, group, r, b.l2, b.open)
      PROVE  Hands(h, HandOver(h, o), v)
  <2> HIDE DEF o, b, group, x
  <2>1. Moves(h, b, CommitResponse(b, x, group))
    <3>1. /\ ReadHolds(b, v) /\ Aside(h, b)
          /\ TidyBuffer(b.l2, b.open, b.frozen, b.token)
          /\ ReadsIn(b.l2) = ReadsIn(h.l2) \cup {r}
          /\ b.open = h.open \cup ({group} \ {0})
      BY <1>7
    <3>2. \/ group = 0 \/ group = h.entries[i].group
          \/ h.entries[i].group = 0 /\ group \notin h.open
      BY <1>7
    <3>3. Noted(h.entries, i, group, r, b.l2, b.open)
      BY <1>7
    <3>4. /\ Index(h, x) = i /\ x \in LinesOf(h.entries)
          /\ h.entries[i].state = "RESPONDING"
          /\ h.entries[i].next < Len(h.entries[i].waiters)
          /\ r = h.entries[i].waiters[h.entries[i].next + 1]
      BY <1>1
    <3> HIDE DEF r
    <3> QED BY <1>6, <3>1, <3>2, <3>3, <3>4, CommitBooked
  <2>2. HeldIn(b) = HeldIn(h) \cup {<<r, d>>}
    BY <1>7 DEF HeldIn, Aside
  <2>3. /\ r \in DueOf(h.entries) /\ d \in Versions
        /\ Current(d, LineOf[r], v) /\ InOneLine(r)
    BY <1>11
  <2> HIDE DEF r, d
  <2> QED BY <1>2, <2>1, <2>2, <2>3 DEF Hands, Moves
<1> SUFFICES Hands(h, HandOver(h, o), v)
  OBVIOUS
<1> HIDE DEF o
<1>8. CASE ~o.fanout
  <2>1. group = 0 /\ b = Enqueue(h, Unicast(r, d))
    BY <1>8
  <2> DEFINE m == Append(l2, Unicast(r, d))
  <2>2. /\ TidyBuffer(m, h.open, h.frozen, h.token)
        /\ ReadsIn(m) = ReadsIn(l2) \cup {r}
        /\ \A t : Recipients(t, l2, h.open) => Recipients(t, m, h.open)
    BY <1>4, <1>11, UnicastBooked
  <2>3. /\ Aside(h, Enqueue(h, Unicast(r, d))) /\ Enqueue(h, Unicast(r, d)).l2 = m
        /\ Enqueue(h, Unicast(r, d)).open = h.open
        /\ Enqueue(h, Unicast(r, d)).frozen = h.frozen
        /\ Enqueue(h, Unicast(r, d)).token = h.token
    BY <1>3, EnqueueParts
  <2>4. ReadHolds(Enqueue(h, Unicast(r, d)), v)
    BY <1>4, <1>11, UnicastHolds
  <2> HIDE DEF m, b, group, x
  <2>5. /\ ReadHolds(b, v) /\ Aside(h, b) /\ b.l2 = m /\ b.open = h.open
        /\ b.frozen = h.frozen /\ b.token = h.token
    BY <2>1, <2>3, <2>4
  <2>6. Noted(table, i, group, r, b.l2, b.open)
    <3>0. SUFFICES ASSUME NEW e \in EntryType,
                         e.group = (IF group = 0 THEN old.group ELSE group),
                         Told(e) = Told(old) \cup {r}, e.data = old.data
                  PROVE  Recipients(Put(table, i, e), b.l2, b.open)
      BY Zenon DEF Noted
    <3>1. e.group = table[i].group /\ Told(table[i]) \subseteq Told(e)
          /\ e.data = table[i].data
      BY <2>1, <3>0
    <3> HIDE DEF r, d, old
    <3>2. Recipients(Put(table, i, e), l2, h.open)
      BY <1>3, <3>1, RecipientsPut
    <3> QED BY <2>2, <2>5, <3>2
  <2>7. b.open = h.open \cup ({group} \ {0})
    BY <2>1, <2>5
  <2>8. /\ TidyBuffer(b.l2, b.open, b.frozen, b.token)
        /\ ReadsIn(b.l2) = ReadsIn(l2) \cup {r}
    BY <2>2, <2>5
  <2>9. Stored(b.l2) = Stored(l2) \cup {<<r, d>>}
    <3> DEFINE e == Unicast(r, d)
    <3>1. e \in Envelope /\ e.reads = <<r>> /\ e.data = d
      BY <1>4, <1>11 DEF Unicast, Envelope
    <3>2. b.l2 = Append(l2, e)
      BY <2>5 DEF m
    <3> HIDE DEF e, l2, r, d
    <3> QED BY <1>3, <3>1, <3>2, StoredFirst
  <2> HIDE DEF r, d, old, l2
  <2> QED BY <1>7, <2>1, <2>5, <2>6, <2>7, <2>8, <2>9
<1>9. CASE o.fanout /\ o.candidate.group # 0
  <2>1. /\ group = old.group /\ group # 0 /\ group = o.candidate.group
        /\ b = JoinGroup(h, group, r, d)
    BY <1>5, <1>9
  <2>2. group \in h.open
    BY <1>3, <2>1 DEF GroupsOf
  <2> HIDE DEF b, group, x
  <2>3. PICK j \in DOMAIN l2 : l2[j].group = group
    BY <1>3, <2>2 DEF TidyBuffer
  <2>4. \A k \in DOMAIN l2 : l2[k].group = group => k = j
    BY <1>3, <2>1, <2>3 DEF TidyBuffer
  <2>5. ToSet(l2[j].reads) \subseteq Told(old) /\ l2[j].data = d
    BY <1>3, <1>11, <2>1, <2>2, <2>3 DEF Recipients, Recipient
  <2>6. \A q \in ToSet(l2[j].reads) : MasterOf[q] # MasterOf[r]
    <3>1. old.waiters \in Seq(Reads) /\ old.next \in Nat /\ Len(old.waiters) \in Nat
      BY <1>1 DEF EntryType
    <3>2. DistinctMasters(old.waiters)
      BY <1>5, <1>9, <2>1
    <3> SUFFICES ASSUME NEW k \in 1 .. old.next
                 PROVE  MasterOf[old.waiters[k]] # MasterOf[r]
      BY <2>5 DEF Told
    <3>3. /\ k \in 1 .. Len(old.waiters) /\ old.next + 1 \in 1 .. Len(old.waiters)
          /\ k # old.next + 1 /\ r = old.waiters[old.next + 1]
      BY <1>1, <3>1
    <3> DEFINE w == old.waiters
               n == old.next + 1
    <3>4. /\ w \in Seq(Reads) /\ DistinctMasters(w) /\ k \in 1 .. Len(w)
          /\ n \in 1 .. Len(w) /\ k # n /\ r = w[n]
      BY <3>1, <3>2, <3>3
    <3> HIDE DEF w, n, r
    <3>5. MasterOf[w[k]] # MasterOf[w[n]]
      BY <3>4, MastersDiffer
    <3> QED BY <3>4, <3>5 DEF w
  <2> DEFINE f == Joined(l2[j], r)
             m == [l2 EXCEPT ![j] = f]
             jg == JoinGroup(h, group, r, d)
  <2>7. /\ Aside(h, jg) /\ jg.l2 = m
        /\ jg.open = h.open /\ jg.frozen = h.frozen /\ jg.token = h.token
    <3>1. \A q \in ToSet(l2[j].reads) : /\ LineOf[q] = LineOf[r]
                                        /\ MasterOf[q] # MasterOf[r]
      BY <1>11, <2>5, <2>6
    <3>2. h.l2[j].data = d /\ r \in Reads
      BY <1>4, <2>5
    <3>3. MayJoin(h, group, j, r, d)
      BY <1>3, <2>2, <2>3, <2>4, <3>1, <3>2 DEF MayJoin
    <3> HIDE DEF r, d
    <3> QED BY <3>3, JoinParts
  <2>8. ReadHolds(jg, v)
    BY <1>4, JoinGroupHolds
  <2>9. /\ f \in Envelope /\ f.group = l2[j].group
        /\ ToSet(f.reads) = ToSet(l2[j].reads) \cup {r}
        /\ f.data = l2[j].data
    <3>1. l2[j] \in Envelope
      BY <1>3
    <3> QED BY <1>4, <3>1, JoinedParts
  <2> HIDE DEF f, jg
  <2>10. TidyBuffer(m, h.open, h.frozen, h.token) /\ ReadsIn(m) = ReadsIn(l2) \cup {r}
    <3> DEFINE a == h.l2
               p == h.open
               z == h.frozen
               t == h.token
    <3>1. /\ a \in Seq(Envelope) /\ TidyBuffer(a, p, z, t) /\ j \in DOMAIN a
          /\ f.group = a[j].group
          /\ ToSet(f.reads) = ToSet(a[j].reads) \cup {r} /\ r \notin ReadsIn(a)
          /\ f \in Envelope
      BY <1>3, <1>4, <2>9
    <3> HIDE DEF a, p, z, t, r
    <3>2. /\ ToSet(f.reads) \cap (ReadsIn(a) \ ToSet(a[j].reads)) = {}
          /\ ToSet(a[j].reads) \subseteq ReadsIn(a)
      BY <3>1 DEF ReadsIn
    <3>3. /\ TidyBuffer(Put(a, j, f), p, z, t)
          /\ ReadsIn(Put(a, j, f)) =
               (ReadsIn(a) \ ToSet(a[j].reads)) \cup ToSet(f.reads)
      BY <3>1, <3>2, TidyRewrite
    <3>4. ReadsIn(Put(a, j, f)) = ReadsIn(a) \cup {r}
      BY <3>1, <3>2, <3>3
    <3> QED BY <3>3, <3>4 DEF a, p, z, t, Put
  <2>11. /\ ReadHolds(b, v) /\ Aside(h, b) /\ b.l2 = m /\ b.open = h.open
         /\ b.frozen = h.frozen /\ b.token = h.token
    BY <2>1, <2>7, <2>8 DEF jg
  <2>12. Noted(table, i, group, r, b.l2, b.open)
    <3>0. SUFFICES ASSUME NEW e \in EntryType,
                         e.group = (IF group = 0 THEN old.group ELSE group),
                         Told(e) = Told(old) \cup {r}, e.data = old.data
                  PROVE  Recipients(Put(table, i, e), b.l2, b.open)
      BY Zenon DEF Noted
    <3>1. e.group = old.group /\ e.group # 0 /\ l2[j].group = table[i].group
      BY <2>1, <2>3, <3>0
    <3>2. Recipients(Put(table, i, e), [l2 EXCEPT ![j] = Joined(l2[j], r)], h.open)
      BY <1>3, <1>4, <3>0, <3>1, RecipientsJoin
    <3> QED BY <2>11, <3>2 DEF f
  <2>13. b.open = h.open \cup ({group} \ {0})
    BY <2>2, <2>11
  <2>15. Stored(b.l2) = Stored(l2) \cup {<<r, d>>}
    <3>1. b.l2 = Put(l2, j, f) /\ f.data = d
      BY <2>5, <2>9, <2>11 DEF Put
    <3> HIDE DEF m, l2, r, d
    <3>2. /\ l2 \in Seq(Envelope) /\ j \in DOMAIN l2
          /\ ToSet(f.reads) = ToSet(l2[j].reads) \cup {r}
          /\ f.data = l2[j].data
      BY <1>3, <2>3, <2>9
    <3>3. Gains(l2, Put(l2, j, f), r, f.data)
      BY <3>2, StoredJoin
    <3> QED BY <3>1, <3>3 DEF Gains
  <2> HIDE DEF m
  <2>14. /\ TidyBuffer(b.l2, b.open, b.frozen, b.token)
         /\ ReadsIn(b.l2) = ReadsIn(l2) \cup {r}
    BY <2>10, <2>11
  <2> HIDE DEF r, d, old, l2
  <2> QED BY <1>7, <2>1, <2>11, <2>12, <2>13, <2>14, <2>15
<1>10. CASE o.fanout /\ o.candidate.group = 0
  <2>1. group = h.token + 1 /\ old.group = 0 /\ b = OpenGroup(h, r, d)
    BY <1>5, <1>10
  <2> HIDE DEF b, x
  <2> DEFINE n == h.token + 1
             f == [group |-> n, reads |-> <<r>>, data |-> d]
             m == Append(l2, f)
             og == OpenGroup(h, r, d)
  <2>2. /\ n \in Nat /\ n # 0 /\ \A g \in Nat : g <= h.token => g # n
    BY <1>3
  <2>3. \A k \in DOMAIN l2 : l2[k].group \in Nat /\ l2[k].group <= h.token
    BY <1>3, EnvelopeParts DEF TidyBuffer
  <2>4. \A k \in DOMAIN l2 : l2[k].group # n
    BY <2>2, <2>3
  <2>5. n \notin h.open
    BY <1>3, <2>4 DEF TidyBuffer
  <2>6. \A a \in DOMAIN table : table[a].group # n
    BY <1>3, <2>2, <2>5 DEF GroupsOf
  <2>7. /\ Aside(h, og) /\ og.l2 = m /\ og.open = h.open \cup {n}
        /\ og.frozen = h.frozen /\ og.token = n
    BY <1>3, OpenParts
  <2>8. ReadHolds(og, v)
    BY <1>4, <1>11, OpenGroupHolds
  <2> DEFINE s == <<r>>
  <2>9. s \in Seq(Reads) /\ ToSet(s) = {r}
    <3>1. DOMAIN s = {1} /\ s[1] = r
      OBVIOUS
    <3> QED BY <1>4, <3>1 DEF ToSet
  <2>10. f = [group |-> n, reads |-> s, data |-> d]
    OBVIOUS
  <2> HIDE DEF s, f, og
  <2>11. f \in Envelope /\ f.group = n /\ f.reads = s /\ f.data = d
    BY <1>11, <2>2, <2>9, <2>10 DEF Envelope
  <2>12. /\ TidyBuffer(m, h.open \cup {n}, h.frozen, n)
         /\ ReadsIn(m) = ReadsIn(l2) \cup {r}
    <3>1. Enqueued(h.l2, h.open, h.token, f, r, m, h.open \cup {n}, n)
      BY <1>3, <1>4, <2>11 DEF s, Enqueued
    <3>2. TidyBuffer(h.l2, h.open, h.frozen, h.token)
      BY <1>3
    <3> HIDE DEF m, n, r
    <3> QED BY <3>1, <3>2, TidyEnqueue
  <2>13. group = n
    BY <2>1
  <2> HIDE DEF group, m
  <2>14. /\ ReadHolds(b, v) /\ Aside(h, b) /\ b.l2 = m /\ b.open = h.open \cup {n}
         /\ b.frozen = h.frozen /\ b.token = n
    BY <2>1, <2>7, <2>8 DEF og
  <2>15. Noted(table, i, group, r, b.l2, b.open)
    <3>0. SUFFICES ASSUME NEW e \in EntryType,
                         e.group = (IF group = 0 THEN old.group ELSE group),
                         Told(e) = Told(old) \cup {r}, e.data = old.data
                  PROVE  Recipients(Put(table, i, e), b.l2, b.open)
      BY Zenon DEF Noted
    <3>1. e.group = n /\ r \in Told(e) /\ table[i].group \notin h.open
          /\ ToSet(f.reads) = {r} /\ f.data = e.data
      BY <1>3, <1>11, <2>1, <2>2, <2>9, <2>11, <2>13, <3>0
    <3> HIDE DEF n, r
    <3>2. Recipients(Put(table, i, e), Append(l2, f), h.open \cup {n})
      BY <1>3, <2>4, <2>5, <2>6, <2>11, <3>1, RecipientsOpen
    <3> QED BY <2>14, <3>2 DEF m
  <2>16. b.open = h.open \cup ({group} \ {0})
    BY <2>2, <2>13, <2>14
  <2>17. /\ TidyBuffer(b.l2, b.open, b.frozen, b.token)
         /\ ReadsIn(b.l2) = ReadsIn(l2) \cup {r}
    BY <2>12, <2>14
  <2>18. old.group = 0 /\ group \notin h.open
    BY <2>1, <2>5, <2>13
  <2>19. Stored(b.l2) = Stored(l2) \cup {<<r, d>>}
    <3>1. b.l2 = Append(l2, f) /\ f.reads = <<r>> /\ f.data = d
      BY <2>11, <2>14 DEF m, s
    <3> HIDE DEF l2, r, d
    <3> QED BY <1>3, <2>11, <3>1, StoredFirst
  <2> HIDE DEF n
  <2> HIDE DEF r, d, old, l2
  <2> QED BY <1>7, <2>14, <2>15, <2>16, <2>17, <2>18, <2>19
<1> QED BY <1>8, <1>9, <1>10

(* At most one read gets data, from an entry. *)
Gives(h, g, v) == Carries(h, g, {}) \/ Hands(h, g, v)

(* The last stage of service_home_agent. *)
LEMMA AnswerBooked ==
  ASSUME NEW h, NEW v, ReadHolds(h, v), Booked(h, {}),
         HasResponse(h) \/ \A c \in Ports : ~Answers(h, c, FlyingOf(h.entries))
  PROVE  Gives(h, Answer(h), v)
<1> DEFINE o == Offered(h)
           k == KeepCandidate(h, o)
<1>1. CASE ~HasResponse(h)
  <2>1. Answer(h) = DirectResponse(h)
    BY <1>1 DEF Answer
  <2> QED BY <1>1, <2>1, DirectBooked DEF Gives
<1>2. CASE HasResponse(h) /\ Refuses(h, o)
  <2>1. Answer(h) = DirectResponse(k)
    BY <1>2 DEF Answer
  <2>2. Carries(h, k, {})
    BY <1>2, KeepCandidateBooked
  <2>3. k.l2 = h.l2
    <3>1. h \in ReadSideType
      BY DEF ReadHolds
    <3> HIDE DEF o
    <3> QED BY <3>1 DEF KeepCandidate, ReadSideType
  <2>4. ~HasCapacity(k)
    BY <1>2, <2>3 DEF Refuses, HasCapacity
  <2> HIDE DEF k
  <2>5. DirectResponse(k) = k
    BY <2>4 DEF DirectResponse
  <2> QED BY <2>1, <2>2, <2>5 DEF Gives
<1>3. CASE HasResponse(h) /\ ~Refuses(h, o)
  <2>1. Answer(h) = HandOver(h, o)
    BY <1>3 DEF Answer
  <2> QED BY <1>3, <2>1, HandOverBooked DEF Gives
<1> QED BY <1>1, <1>2, <1>3

(* service_home_agent learns of all groups that were closed, and what it   *)
(* is left with when it answers is k.                                      *)
LEMMA ReadSideStepBooked ==
  ASSUME NEW h, NEW v \in Contents, ReadHolds(h, v),
         Booked(h, Closing(h)), Once(h.summaries, Nat)
  PROVE  LET g == ReadSideStep(h, v)
         IN  /\ Booked(g, {}) /\ Owed(g) = Owed(h) /\ g.summaries = <<>>
             /\ \E k : /\ ReadHolds(k, v) /\ Booked(k, {}) /\ Owed(k) = Owed(h)
                       /\ HeldIn(k) = HeldIn(h) /\ Gives(k, g, v)
<1> DEFINE a == ConsumeSummaries(h)
           b == ReadHit(a, v)
           c == AcceptRead(b)
           d == IssueBackend(c)
           e == Capture(d)
           f == Answer(e)
<1>1. ReadHolds(a, v) /\ Booked(a, {}) /\ Owed(a) = Owed(h) /\ a.summaries = <<>>
      /\ HeldIn(a) = HeldIn(h)
  BY ConsumeSummariesHolds, ConsumeAllBooked
<1> HIDE DEF a
<1>2. ReadHolds(b, v)
  BY <1>1, ReadHitHolds
<1>3. Carries(a, b, {})
  BY <1>1, ReadHitBooked
<1> HIDE DEF b
<1>4. ReadHolds(c, v)
  BY <1>2, AcceptReadHolds
<1>5. Carries(b, c, {})
  BY <1>2, <1>3, AcceptReadBooked, CarriesParts
<1> HIDE DEF c
<1>6. ReadHolds(d, v)
  BY <1>4, IssueBackendHolds
<1>7. Carries(c, d, {})
  BY <1>4, <1>5, IssueBackendBooked, CarriesParts
<1> HIDE DEF d
<1>8. /\ ReadHolds(e, v)
      /\ HasResponse(e) \/ \A p \in Ports : ~Answers(e, p, FlyingOf(e.entries))
  BY <1>6, CaptureHolds
<1>9. Carries(d, e, {})
  BY <1>6, <1>7, CaptureBooked, CarriesParts
<1> HIDE DEF e
<1>10. Gives(e, f, v)
  BY <1>8, <1>9, AnswerBooked, CarriesParts
<1>11. f = ReadSideStep(h, v)
  BY DEF ReadSideStep, a, b, c, d, e
<1> HIDE DEF f
<1>12. /\ Booked(e, {}) /\ Owed(e) = Owed(h) /\ e.summaries = <<>>
       /\ HeldIn(e) = HeldIn(h)
  BY <1>1, <1>3, <1>5, <1>7, <1>9 DEF Carries, Balanced
<1>13. Booked(f, {}) /\ Owed(f) = Owed(e) /\ f.summaries = e.summaries
  BY <1>10 DEF Gives, Hands, Carries, Balanced
<1> QED BY <1>8, <1>10, <1>11, <1>12, <1>13

-----------------------------------------------------------------------------
(* The books, when the L2 Buffer acts *)

(* The group of the front is closed, and the agent will learn of it. *)
LEMMA FreezeBooked ==
  ASSUME NEW h, NEW v, ReadHolds(h, v), Settled(h), h.l2 # <<>>
  PROVE  LET f == FreezeFront(h)
         IN  /\ Settled(f) /\ Owed(f) = Owed(h) /\ f.l2 = h.l2
             /\ f.frozen \/ Head(f.l2).group = 0
             /\ HeldIn(f) = HeldIn(h)
<1> DEFINE group == Head(h.l2).group
           f == FreezeFront(h)
           summaries == Append(h.summaries, group)
           open == h.open \ {group}
           closing == Closing(h)
           l2 == h.l2
<1>1. /\ h \in ReadSideType /\ l2 \in Seq(Envelope) /\ group \in Nat
      /\ Head(l2) = l2[1] /\ 1 \in DOMAIN l2 /\ h.summaries \in Seq(Nat)
      /\ h.l2 = l2
  BY EnvelopesOf, FrontParts DEF ReadHolds, ReadSideType
<1>2. Booked(h, closing) /\ Once(h.summaries, Nat)
  BY DEF Settled
<1>3. CASE group = 0 \/ h.frozen
  <2>1. f = h
    BY <1>3 DEF FreezeFront
  <2> QED BY <1>1, <1>3, <2>1
<1>4. CASE ~(group = 0 \/ h.frozen)
  <2>1. TidyBuffer(l2, h.open, h.frozen, h.token) /\ ~h.frozen
    BY <1>2, <1>4 DEF Booked
  <2>2. group \in h.open /\ group <= h.token
    BY <1>1, <1>4, <2>1 DEF TidyBuffer
  <2> DEFINE t == TRUE
  <2>3. f = [h EXCEPT !.frozen = t, !.summaries = summaries, !.open = open]
    BY <1>1, <1>4, <2>2 DEF FreezeFront
  <2>4. t = TRUE
    OBVIOUS
  <2>5. TidyBuffer(l2, h.open \ {l2[1].group}, t, h.token)
    <3> HIDE DEF t
    <3>1. l2 # <<>>
      OBVIOUS
    <3> DEFINE a == h.open
               z == h.frozen
               k == h.token
    <3>2. TidyBuffer(l2, a, z, k) /\ ~z
      BY <2>1
    <3>3. /\ l2 \in Seq(Envelope) /\ TidyBuffer(l2, a, z, k) /\ ~z /\ 1 \in DOMAIN l2
      BY <1>1, <3>2
    <3> HIDE DEF a, z, k, l2
    <3>4. \A i, j \in DOMAIN l2 : i # j =>
            l2[i].group = 0 \/ l2[i].group # l2[j].group
      BY <3>3 DEF TidyBuffer
    <3>5. ASSUME NEW i \in DOMAIN l2, l2[i].group # 0
          PROVE  l2[i].group \in a \ {l2[1].group} <=> ~(i = 1 /\ t)
      <4>1. l2[i].group \in a
        BY <3>3, <3>5 DEF TidyBuffer
      <4>2. l2[i].group = l2[1].group <=> i = 1
        BY <3>3, <3>4, <3>5
      <4> QED BY <2>4, <4>1, <4>2
    <3>6. TidyBuffer(l2, a \ {l2[1].group}, t, k)
      BY <2>4, <3>1, <3>3, <3>5 DEF TidyBuffer
    <3> QED BY <3>6 DEF a, k, l2
  <2> HIDE DEF t, summaries, open, group, f
  <2>6. /\ f.rdQ = h.rdQ /\ f.toRd = h.toRd /\ f.rdRsp = h.rdRsp
        /\ f.entries = h.entries /\ f.pending = h.pending /\ f.fault = h.fault
        /\ f.l2 = l2 /\ f.token = h.token
        /\ f.frozen = t /\ f.summaries = summaries /\ f.open = open
    BY <1>1, <2>3 DEF ReadSideType
  <2>7. /\ Once(summaries, Nat) /\ ToSet(summaries) = closing \cup {group}
        /\ group \notin closing
    <3>1. group \notin closing
      BY <1>2, <2>2 DEF Booked
    <3>2. In(h.summaries, Nat) = closing
      BY <1>1 DEF In, Closing, ToSet
    <3>3. /\ Once(summaries, Nat) /\ summaries \in Seq(Nat)
          /\ In(summaries, Nat) = In(h.summaries, Nat) \cup ({group} \cap Nat)
      BY <1>1, <1>2, <3>1, <3>2, AppendOnce DEF summaries
    <3>4. ToSet(summaries) = In(summaries, Nat)
      BY <3>3 DEF In, ToSet
    <3> QED BY <1>1, <3>1, <3>2, <3>3, <3>4
  <2>8. Closing(f) = closing \cup {group}
    BY <2>6, <2>7 DEF Closing
  <2>9. TidyBuffer(f.l2, f.open, f.frozen, f.token)
    <3>1. open = h.open \ {l2[1].group}
      BY <1>1 DEF open, group
    <3> QED BY <2>5, <2>6, <3>1
  <2>10. Recipients(f.entries, f.l2, f.open)
    <3>1. open \subseteq h.open
      BY DEF open
    <3> QED BY <1>2, <2>6, <3>1 DEF Booked, Recipients
  <2>11. /\ GroupsOf(f.entries) = f.open \cup Closing(f)
         /\ f.open \cap Closing(f) = {}
         /\ \A g \in Closing(f) : g <= f.token
    BY <1>2, <2>2, <2>6, <2>8 DEF Booked, open
  <2>12. Taken(f) = Taken(h) /\ Owed(f) = Owed(h)
    BY <2>6 DEF Taken, Owed
  <2> HIDE DEF l2, closing
  <2>13. Booked(f, Closing(f))
    <3>1. Booked(h, closing) /\ h.l2 = l2
      BY <1>1, <1>2
    <3> QED BY <2>6, <2>9, <2>10, <2>11, <2>12, <3>1 DEF Booked
  <2>14. Settled(f)
    BY <2>6, <2>7, <2>13 DEF Settled
  <2>15. HeldIn(f) = HeldIn(h)
    BY <1>1, <2>6 DEF HeldIn
  <2> QED BY <1>1, <2>4, <2>6, <2>12, <2>14, <2>15 DEF f
<1> QED BY <1>3, <1>4

(* The reads of the carrier, which have data, leave with it. *)
Departs(h, g) ==
  /\ HeldIn(g) = Staying(HeldIn(h), CarrierReads(h))
  /\ \A r \in CarrierReads(h) : \E p \in HeldIn(h) : p[1] = r

(* A carrier takes its reads away. *)
LEMMA SendBooked ==
  ASSUME NEW h, NEW v, ReadHolds(h, v), Settled(h), h.l2 # <<>>,
         h.frozen \/ Head(h.l2).group = 0
  PROVE  LET g == SendCarrier(h)
         IN  /\ Settled(g) /\ Owed(g) = Owed(h) \ CarrierReads(h)
             /\ CarrierReads(h) \subseteq Owed(h) /\ Departs(h, g)
<1> DEFINE old == h.l2[1]
           gone == CarrierReads(h)
           left == Without(Head(h.l2).reads, gone)
           l2 == h.l2
           g == SendCarrier(h)
           closing == Closing(h)
<1>1. /\ h \in ReadSideType /\ l2 \in Seq(Envelope) /\ old \in Envelope
      /\ Head(l2) = old /\ 1 \in DOMAIN l2 /\ old.reads \in Seq(Reads)
      /\ l2 # <<>> /\ h.l2 = l2
  <2>1. l2 \in Seq(Envelope)
    BY EnvelopesOf
  <2>2. old \in Envelope /\ old.reads \in Seq(Reads) /\ 1 \in DOMAIN l2
    BY <2>1, FrontParts, EnvelopeParts
  <2> QED BY <2>1, <2>2, FrontParts DEF ReadHolds
<1>2. Booked(h, closing) /\ Once(h.summaries, Nat)
  BY DEF Settled
<1>3. gone \subseteq ToSet(old.reads) /\ ToSet(old.reads) \subseteq ReadsIn(l2)
  BY <1>1 DEF CarrierReads, ReadsIn
<1>4. left \in Seq(Reads) /\ ToSet(left) = ToSet(old.reads) \ gone
  BY <1>1, WithoutIsSeq, WithoutParts
<1>5. TidyBuffer(l2, h.open, h.frozen, h.token) /\ Recipients(h.entries, l2, h.open)
  BY <1>2 DEF Booked
<1>6. g = IF left # <<>> THEN [h EXCEPT !.l2[1].reads = left]
          ELSE [h EXCEPT !.l2 = Tail(@), !.ready = @ - 1, !.frozen = FALSE]
  BY DEF SendCarrier
<1> HIDE DEF left, gone
(* What is shown of the buffer is enough. *)
<1>7. ASSUME g.rdQ = h.rdQ, g.toRd = h.toRd, g.rdRsp = h.rdRsp,
             g.entries = h.entries, g.pending = h.pending, g.fault = h.fault,
             g.summaries = h.summaries, g.open = h.open, g.token = h.token,
             TidyBuffer(g.l2, g.open, g.frozen, g.token),
             Recipients(g.entries, g.l2, g.open),
             ReadsIn(g.l2) = ReadsIn(l2) \ gone,
             Stored(g.l2) = Staying(Stored(l2), gone)
      PROVE  /\ Settled(g) /\ Owed(g) = Owed(h) \ gone /\ gone \subseteq Owed(h)
             /\ Departs(h, g)
  <2> HIDE DEF g, closing
  <2>1. Taken(g) = Taken(h)
    BY <1>7 DEF Taken
  <2>2. ReadsIn(l2) \cap (In(h.rdQ, Reads) \cup Taken(h)) = {}
    BY <1>1, <1>2 DEF Booked
  <2>3. Owed(g) = Owed(h) \ gone /\ gone \subseteq Owed(h)
    BY <1>1, <1>3, <1>7, <2>1, <2>2 DEF Owed
  <2>4. ReadsIn(g.l2) \cap (In(g.rdQ, Reads) \cup Taken(g)) = {}
    BY <1>7, <2>1, <2>2
  <2>5. Closing(g) = closing
    BY <1>7 DEF Closing, closing
  <2>6. Booked(g, closing)
    BY <1>2, <1>7, <2>1, <2>4 DEF Booked
  <2>7. Staying(Returning(h.rdRsp), gone) = Returning(h.rdRsp)
    <3>1. h.rdRsp \in [Ports -> Seq(Rsp)]
      BY <1>1 DEF ReadSideType, Rsp
    <3>2. \A p \in Returning(h.rdRsp) : p[1] \in DirectIn(h.toRd, h.rdRsp)
      BY <3>1, HeldWhere
    <3>3. gone \cap DirectIn(h.toRd, h.rdRsp) = {}
      BY <1>1, <1>3, <2>2 DEF Taken
    <3> QED BY <3>2, <3>3 DEF Staying
  <2>8. HeldIn(g) = Staying(HeldIn(h), gone)
    <3>1. HeldIn(g) = Staying(Stored(l2), gone) \cup Staying(Returning(h.rdRsp), gone)
      BY <1>7, <2>7 DEF HeldIn
    <3>2. HeldIn(h) = Stored(l2) \cup Returning(h.rdRsp)
      BY <1>1 DEF HeldIn
    <3> QED BY <3>1, <3>2 DEF Staying
  <2>9. ASSUME NEW r \in gone PROVE \E p \in HeldIn(h) : p[1] = r
    <3>1. r \in ToSet(old.reads)
      BY <1>3
    <3>2. <<r, old.data>> \in Stored(l2)
      BY <1>1, <3>1 DEF Stored, Pairs
    <3>3. <<r, old.data>> \in HeldIn(h) /\ <<r, old.data>>[1] = r
      BY <1>1, <3>2 DEF HeldIn
    <3> QED BY <3>3
  <2>10. Departs(h, g)
    BY <2>8, <2>9 DEF Departs, gone
  <2> QED BY <1>2, <1>7, <2>3, <2>5, <2>6, <2>10 DEF Settled
<1>10. \A i \in DOMAIN l2 : i # 1 => ToSet(l2[i].reads) \cap gone = {}
  <2> HIDE DEF l2
  <2> QED BY <1>1, <1>3, <1>5 DEF TidyBuffer
<1>8. CASE left # <<>>
  <2> DEFINE new == [old EXCEPT !.reads = left]
             m == [l2 EXCEPT ![1] = new]
  <2>1. g = [h EXCEPT !.l2 = m]
    BY <1>1, <1>6, <1>8 DEF ReadSideType
  <2>2. /\ new \in Envelope /\ new.group = old.group /\ new.reads = left
        /\ new.data = old.data
    BY <1>1, <1>4 DEF Envelope
  <2> HIDE DEF new, g
  <2>3. TidyBuffer(m, h.open, h.frozen, h.token) /\ ReadsIn(m) = ReadsIn(l2) \ gone
    <3> DEFINE a == h.open
               z == h.frozen
               k == h.token
               i == 1
    <3>1. /\ TidyBuffer(l2, a, z, k) /\ i \in DOMAIN l2
          /\ l2 \in Seq(Envelope) /\ new.group = l2[i].group
          /\ ToSet(new.reads) = ToSet(l2[i].reads) \ gone
          /\ ToSet(l2[i].reads) \subseteq ReadsIn(l2) /\ gone \subseteq ToSet(l2[i].reads)
      BY <1>1, <1>3, <1>4, <1>5, <2>2
    <3> HIDE DEF a, z, k, l2, i
    <3>2. ToSet(new.reads) \cap (ReadsIn(l2) \ ToSet(l2[i].reads)) = {}
      BY <3>1
    <3>3. /\ TidyBuffer(Put(l2, i, new), a, z, k)
          /\ ReadsIn(Put(l2, i, new)) =
               (ReadsIn(l2) \ ToSet(l2[i].reads)) \cup ToSet(new.reads)
      BY <2>2, <3>1, <3>2, TidyRewrite
    <3>4. ReadsIn(Put(l2, i, new)) = ReadsIn(l2) \ gone
      BY <3>1, <3>3
    <3> QED BY <3>3, <3>4 DEF a, z, k, i, Put
  <2>4. /\ DOMAIN m = DOMAIN l2
        /\ \A k \in DOMAIN m : /\ m[k].group = l2[k].group
                               /\ ToSet(m[k].reads) \subseteq ToSet(l2[k].reads)
                               /\ m[k].data = l2[k].data
    BY <1>1, <1>4, <2>2
  <2> HIDE DEF m
  <2>5. Recipients(h.entries, m, h.open)
    <3> HIDE DEF l2
    <3>1. SUFFICES ASSUME NEW i \in DOMAIN h.entries, NEW j \in DOMAIN m,
                          m[j].group \in h.open, m[j].group = h.entries[i].group
                   PROVE  Recipient(m[j], h.entries[i])
      BY DEF Recipients
    <3>2. Recipient(l2[j], h.entries[i])
      BY <1>5, <2>4, <3>1 DEF Recipients
    <3> QED BY <2>4, <3>2 DEF Recipient
  <2>6. /\ g.rdQ = h.rdQ /\ g.toRd = h.toRd /\ g.rdRsp = h.rdRsp
        /\ g.entries = h.entries /\ g.pending = h.pending /\ g.fault = h.fault
        /\ g.summaries = h.summaries /\ g.open = h.open /\ g.token = h.token
        /\ g.l2 = m /\ g.frozen = h.frozen
    BY <1>1, <2>1 DEF ReadSideType
  <2>7. /\ TidyBuffer(g.l2, g.open, g.frozen, g.token)
        /\ Recipients(g.entries, g.l2, g.open)
        /\ ReadsIn(g.l2) = ReadsIn(l2) \ gone
    BY <2>3, <2>5, <2>6
  <2>8. Stored(g.l2) = Staying(Stored(l2), gone)
    <3> DEFINE i == 1
    <3>1. /\ l2 \in Seq(Envelope) /\ i \in DOMAIN l2
          /\ \A j \in DOMAIN l2 : j # i => ToSet(l2[j].reads) \cap gone = {}
          /\ ToSet(new.reads) = ToSet(l2[i].reads) \ gone
          /\ new.data = l2[i].data
      BY <1>1, <1>4, <1>10, <2>2
    <3>2. g.l2 = Put(l2, i, new)
      BY <2>6 DEF m, Put
    <3> HIDE DEF l2, i
    <3>3. Stored(Put(l2, i, new)) = Staying(Stored(l2), gone)
      BY <3>1, StoredShrink
    <3> QED BY <3>2, <3>3
  <2> QED BY <1>7, <2>6, <2>7, <2>8 DEF gone, g
<1>9. CASE left = <<>>
  <2> DEFINE m == Tail(l2)
             f == FALSE
             ready == h.ready - 1
  <2>1. g = [h EXCEPT !.l2 = m, !.ready = ready, !.frozen = f]
    BY <1>1, <1>6, <1>9 DEF ReadSideType
  <2>2. f = FALSE
    OBVIOUS
  <2> HIDE DEF f, ready, g
  <2>3. ToSet(old.reads) = gone
    <3>1. ToSet(left) = {}
      BY <1>9 DEF ToSet
    <3> QED BY <1>3, <1>4, <3>1
  <2>4. /\ TidyBuffer(m, h.open, f, h.token) /\ ReadsIn(m) = ReadsIn(l2) \ gone
        /\ \A j \in DOMAIN m : j + 1 \in DOMAIN l2 /\ m[j] = l2[j + 1]
    <3> DEFINE a == h.open
               z == h.frozen
               k == h.token
    <3>1. /\ TidyBuffer(l2, a, z, k) /\ l2 \in Seq(Envelope) /\ l2 # <<>>
          /\ z \/ l2[1].group = 0
          /\ ToSet(l2[1].reads) = gone
      BY <1>1, <1>5, <2>3
    <3> HIDE DEF a, z, k, l2
    <3>2. /\ TidyBuffer(Tail(l2), a, f, k)
          /\ ReadsIn(Tail(l2)) = ReadsIn(l2) \ ToSet(l2[1].reads)
          /\ \A j \in DOMAIN Tail(l2) : j + 1 \in DOMAIN l2 /\ Tail(l2)[j] = l2[j + 1]
      BY <2>2, <3>1, TidyPop
    <3> QED BY <3>1, <3>2 DEF a, k
  <2> HIDE DEF m
  <2>5. Recipients(h.entries, m, h.open)
    <3> HIDE DEF l2
    <3>1. SUFFICES ASSUME NEW i \in DOMAIN h.entries, NEW j \in DOMAIN m,
                          m[j].group \in h.open, m[j].group = h.entries[i].group
                   PROVE  Recipient(m[j], h.entries[i])
      BY DEF Recipients
    <3>2. Recipient(l2[j + 1], h.entries[i])
      BY <1>5, <2>4, <3>1 DEF Recipients
    <3> QED BY <2>4, <3>2 DEF Recipient
  <2>6. /\ g.rdQ = h.rdQ /\ g.toRd = h.toRd /\ g.rdRsp = h.rdRsp
        /\ g.entries = h.entries /\ g.pending = h.pending /\ g.fault = h.fault
        /\ g.summaries = h.summaries /\ g.open = h.open /\ g.token = h.token
        /\ g.l2 = m /\ g.frozen = f
    BY <1>1, <2>1 DEF ReadSideType
  <2>7. /\ TidyBuffer(g.l2, g.open, g.frozen, g.token)
        /\ Recipients(g.entries, g.l2, g.open)
        /\ ReadsIn(g.l2) = ReadsIn(l2) \ gone
    BY <2>4, <2>5, <2>6
  <2>8. Stored(g.l2) = Staying(Stored(l2), gone)
    <3>1. /\ l2 \in Seq(Envelope) /\ l2 # <<>> /\ ToSet(l2[1].reads) = gone
          /\ \A j \in DOMAIN l2 : j # 1 => ToSet(l2[j].reads) \cap gone = {}
      BY <1>1, <1>10, <2>3
    <3>2. g.l2 = Tail(l2)
      BY <2>6 DEF m
    <3> HIDE DEF l2
    <3>3. Stored(Tail(l2)) = Staying(Stored(l2), gone)
      BY <3>1, StoredPop
    <3> QED BY <3>2, <3>3
  <2> QED BY <1>7, <2>6, <2>7, <2>8 DEF gone, g
<1> QED BY <1>8, <1>9

LEMMA NothingHeld ==
  ASSUME NEW h, h.rdRsp = [c \in Ports |-> <<>>], h.l2 = <<>>
  PROVE  HeldIn(h) = {}
<1>1. Carried(<<>>) = {}
  <2>1. ToSet(<<>>) = {}
    BY DEF ToSet
  <2> QED BY <2>1 DEF Carried
<1>2. Returning(h.rdRsp) = {} /\ Stored(h.l2) = {}
  BY <1>1 DEF Returning, Stored
<1> QED BY <1>2 DEF HeldIn

(* There is nothing in the target. *)
LEMMA VacantBooked ==
  ASSUME NEW h, h.rdQ = <<>>, h.entries = <<>>, h.toRd = <<>>,
         h.rdRsp = [c \in Ports |-> <<>>], h.l2 = <<>>, h.open = {},
         h.frozen = FALSE, h.summaries = <<>>, h.pending = 0, h.fault = FALSE
  PROVE  Settled(h) /\ Owed(h) = {}
<1>1. /\ In(<<>>, Reads) = {} /\ Once(<<>>, Reads) /\ Once(<<>>, Nat)
      /\ What(<<>>) = <<>> /\ ToSet(<<>>) = {}
  <2>1. DOMAIN What(<<>>) = {}
    BY DEF What
  <2>2. What(<<>>) = <<>>
    BY DEF What
  <2> QED BY <2>2 DEF In, Once, ToSet
<1>2. \A c \in Ports : In(What(h.rdRsp[c]), Reads) = {} /\ Once(What(h.rdRsp[c]), Reads)
  BY <1>1
<1>3. TidyDirect(h.toRd, h.rdRsp) /\ DirectIn(h.toRd, h.rdRsp) = {}
  BY <1>1, <1>2 DEF TidyDirect, DirectIn
<1>4. TidyTable(h.entries) /\ DueOf(h.entries) = {} /\ GroupsOf(h.entries) = {}
  BY DEF TidyTable, DueOf, GroupsOf
<1>5. /\ TidyBuffer(h.l2, h.open, h.frozen, h.token) /\ ReadsIn(h.l2) = {}
      /\ Recipients(h.entries, h.l2, h.open)
  BY DEF TidyBuffer, ReadsIn, Recipients
<1>6. Closing(h) = {}
  BY <1>1 DEF Closing
<1>7. Taken(h) = {} /\ Owed(h) = {}
  BY <1>1, <1>3, <1>4, <1>5 DEF Taken, Owed
<1>8. IsFiniteSet({}) /\ Cardinality({}) = 0
  BY FS_EmptySet
<1>9. Booked(h, {})
  BY <1>1, <1>3, <1>4, <1>5, <1>7, <1>8 DEF Booked
<1> QED BY <1>1, <1>6, <1>7, <1>9 DEF Settled

(* A read comes from the ring. *)
LEMMA QueueBooked ==
  ASSUME NEW h, NEW v, ReadHolds(h, v), Settled(h), NEW r \in Reads, r \notin Owed(h)
  PROVE  LET g == [h EXCEPT !.rdQ = Append(@, r)]
         IN  Settled(g) /\ Owed(g) = Owed(h) \cup {r} /\ HeldIn(g) = HeldIn(h)
<1> DEFINE q == Append(h.rdQ, r)
           g == [h EXCEPT !.rdQ = q]
           closing == Closing(h)
<1>1. h \in ReadSideType /\ h.rdQ \in Seq(Reads)
  BY DEF ReadHolds, ReadSideType
<1>2. Booked(h, closing) /\ Once(h.summaries, Nat)
  BY DEF Settled
<1>3. r \notin In(h.rdQ, Reads) /\ r \notin Taken(h) /\ r \notin ReadsIn(h.l2)
  BY DEF Owed
<1>4. Once(q, Reads) /\ In(q, Reads) = In(h.rdQ, Reads) \cup {r}
  <2>1. /\ Once(q, Reads)
        /\ In(q, Reads) = In(h.rdQ, Reads) \cup ({r} \cap Reads)
    BY <1>1, <1>2, <1>3, AppendOnce DEF Booked
  <2> QED BY <2>1
<1> HIDE DEF q
<1>5. /\ g.rdQ = q /\ g.toRd = h.toRd /\ g.rdRsp = h.rdRsp
      /\ g.entries = h.entries /\ g.pending = h.pending /\ g.fault = h.fault
      /\ g.summaries = h.summaries /\ g.open = h.open /\ g.token = h.token
      /\ g.l2 = h.l2 /\ g.frozen = h.frozen
  BY <1>1 DEF ReadSideType
<1> HIDE DEF g, closing
<1>6. Taken(g) = Taken(h)
  BY <1>5 DEF Taken
<1>7. Owed(g) = Owed(h) \cup {r}
  BY <1>4, <1>5, <1>6 DEF Owed
<1>8. /\ In(g.rdQ, Reads) \cap Taken(g) = {}
      /\ ReadsIn(g.l2) \cap (In(g.rdQ, Reads) \cup Taken(g)) = {}
  BY <1>2, <1>3, <1>4, <1>5, <1>6 DEF Booked
<1>9. Booked(g, closing)
  BY <1>2, <1>4, <1>5, <1>6, <1>8 DEF Booked
<1>10. Closing(g) = closing
  BY <1>5 DEF Closing, closing
<1>11. Settled(g)
  BY <1>2, <1>5, <1>9, <1>10 DEF Settled
<1>12. HeldIn(g) = HeldIn(h)
  BY <1>5 DEF HeldIn
<1> QED BY <1>7, <1>11, <1>12 DEF g, q

(* One more response may leave. *)
LEMMA ReadyBooked ==
  ASSUME NEW h, NEW v, ReadHolds(h, v), Settled(h)
  PROVE  LET g == [h EXCEPT !.ready = @ + 1]
         IN  Settled(g) /\ Owed(g) = Owed(h) /\ HeldIn(g) = HeldIn(h)
<1> DEFINE ready == h.ready + 1
           g == [h EXCEPT !.ready = ready]
<1> HIDE DEF ready
<1>1. h \in ReadSideType
  BY DEF ReadHolds
<1>2. /\ g.rdQ = h.rdQ /\ g.toRd = h.toRd /\ g.rdRsp = h.rdRsp
      /\ g.entries = h.entries /\ g.pending = h.pending /\ g.fault = h.fault
      /\ g.summaries = h.summaries /\ g.open = h.open /\ g.token = h.token
      /\ g.l2 = h.l2 /\ g.frozen = h.frozen
  BY <1>1 DEF ReadSideType
<1> HIDE DEF g
<1>3. Taken(g) = Taken(h) /\ Closing(g) = Closing(h)
  BY <1>2 DEF Taken, Closing
<1>4. Owed(g) = Owed(h)
  BY <1>2, <1>3 DEF Owed
<1>5. Settled(g)
  BY <1>2, <1>3 DEF Settled, Booked
<1>6. HeldIn(g) = HeldIn(h)
  BY <1>2 DEF HeldIn
<1> QED BY <1>4, <1>5, <1>6 DEF g, ready

(* The memory gives a read that bypasses the agent its data, or it gives   *)
(* the agent that of a line, which no read has yet.                        *)
Fetches(h, g, what, data) ==
  /\ HeldIn(g) = HeldIn(h) \cup PairOf([what |-> what, data |-> data])
  /\ what \in Reads => what \in Owed(h) /\ \A p \in HeldIn(h) : p[1] # what

(* The memory serves a read. *)
LEMMA MemReadBooked ==
  ASSUME NEW h, NEW v \in Contents, ReadHolds(h, v), Settled(h),
         h.toRd # <<>>, NEW c \in Ports
  PROVE  LET what == Head(h.toRd)
             line == IF what \in Reads THEN LineOf[what] ELSE what
             g == [h EXCEPT !.toRd = Tail(@),
                            !.rdRsp[c] = Append(@, [what |-> what, data |-> v[line]])]
         IN  /\ Settled(g) /\ Owed(g) = Owed(h)
             /\ what \in Lines \cup Reads /\ Fetches(h, g, what, v[line])
<1> DEFINE what == Head(h.toRd)
           line == IF what \in Reads THEN LineOf[what] ELSE what
           data == v[line]
           rsp == [what |-> what, data |-> data]
           left == Tail(h.toRd)
           pushed == [h.rdRsp EXCEPT ![c] = Append(@, rsp)]
           g == [h EXCEPT !.toRd = left, !.rdRsp[c] = Append(@, rsp)]
           closing == Closing(h)
<1>1. /\ h \in ReadSideType /\ h.rdRsp \in [Ports -> Seq(Rsp)]
      /\ h.toRd \in Seq(Lines \cup Reads)
  BY DEF ReadHolds, ReadSideType, Rsp
<1>2. what \in Lines \cup Reads
  BY <1>1
<1>3. line \in Lines
  BY <1>2, HomeAssumption
<1> HIDE DEF what, line
<1>4. data \in Versions
  BY <1>3 DEF Contents
<1> HIDE DEF data
<1>5. rsp \in Rsp /\ rsp.what = Head(h.toRd)
  BY <1>2, <1>4 DEF Rsp, what
<1> HIDE DEF rsp
<1>6. Booked(h, closing) /\ Once(h.summaries, Nat)
  BY DEF Settled
<1>7. TidyDirect(left, pushed) /\ DirectIn(left, pushed) = DirectIn(h.toRd, h.rdRsp)
  <2>1. Pushed(h.toRd, h.rdRsp, c, rsp, left, pushed)
    BY <1>1, <1>5 DEF Pushed
  <2>2. TidyDirect(h.toRd, h.rdRsp)
    BY <1>6 DEF Booked
  <2> HIDE DEF left, pushed
  <2> QED BY <2>1, <2>2, DirectAnswer
<1>8. g = [h EXCEPT !.toRd = left, !.rdRsp = pushed]
  BY <1>1 DEF ReadSideType
<1> HIDE DEF pushed, left, g
<1>9. /\ g.rdQ = h.rdQ /\ g.toRd = left /\ g.rdRsp = pushed
      /\ g.entries = h.entries /\ g.pending = h.pending /\ g.fault = h.fault
      /\ g.summaries = h.summaries /\ g.open = h.open /\ g.token = h.token
      /\ g.l2 = h.l2 /\ g.frozen = h.frozen
  BY <1>1, <1>8 DEF ReadSideType
<1>10. TidyDirect(g.toRd, g.rdRsp) /\ DirectIn(g.toRd, g.rdRsp) = DirectIn(h.toRd, h.rdRsp)
  BY <1>7, <1>9
<1> HIDE DEF closing
<1>11. Balanced(h, g, closing)
  BY <1>6, <1>9, <1>10, BookedChannels
<1>12. Closing(g) = closing
  BY <1>9 DEF Closing, closing
<1>13. Settled(g) /\ Owed(g) = Owed(h)
  BY <1>6, <1>9, <1>11, <1>12 DEF Settled, Balanced
<1>14. HeldIn(g) = HeldIn(h) \cup PairOf(rsp)
  <2> DEFINE rdRsp == h.rdRsp
  <2>1. rdRsp \in [Ports -> Seq(Rsp)]
    BY <1>1
  <2> HIDE DEF rdRsp
  <2>2. Returning([rdRsp EXCEPT ![c] = Append(@, rsp)]) = Returning(rdRsp) \cup PairOf(rsp)
    BY <1>5, <2>1, ReturningPush
  <2>3. Returning(pushed) = Returning(h.rdRsp) \cup PairOf(rsp)
    BY <2>2 DEF pushed, rdRsp
  <2> QED BY <1>9, <2>3 DEF HeldIn
<1>15. ASSUME what \in Reads
       PROVE  what \in Owed(h) /\ \A p \in HeldIn(h) : p[1] # what
  <2>1. what \in In(h.toRd, Reads)
    <3>1. 1 \in DOMAIN h.toRd /\ what = h.toRd[1]
      BY <1>1 DEF what
    <3> QED BY <1>15, <3>1 DEF In
  <2>2. what \in DirectIn(h.toRd, h.rdRsp)
    BY <2>1 DEF DirectIn
  <2>3. what \notin ReadsIn(h.l2) /\ what \in Owed(h)
    BY <1>6, <2>2 DEF Booked, Taken, Owed
  <2>4. \A d \in Ports : what \notin In(What(h.rdRsp[d]), Reads)
    BY <1>6, <2>1 DEF Booked, TidyDirect
  <2>5. /\ \A p \in Stored(h.l2) : p[1] \in ReadsIn(h.l2)
        /\ \A p \in Returning(h.rdRsp) :
             \E d \in Ports : p[1] \in In(What(h.rdRsp[d]), Reads)
    BY <1>1, HeldWhere
  <2> QED BY <2>3, <2>4, <2>5 DEF HeldIn
<1>16. Fetches(h, g, what, data)
  BY <1>14, <1>15 DEF Fetches, rsp
<1> QED BY <1>2, <1>13, <1>16 DEF g, left, rsp, data, line, what

-----------------------------------------------------------------------------
(* Every step keeps the books *)

LEMMA BooksInit == Init => BooksBalance
<1> SUFFICES ASSUME Init PROVE BooksBalance
  OBVIOUS
<1>1. /\ home = InitHome /\ reqIn = <<>> /\ sent = {} /\ done = {}
  BY DEF Init
<1>2. /\ home.rdQ = <<>> /\ home.entries = <<>> /\ home.toRd = <<>>
      /\ home.rdRsp = [c \in Ports |-> <<>>] /\ home.l2 = <<>> /\ home.open = {}
      /\ home.frozen = FALSE /\ home.summaries = <<>> /\ home.pending = 0
      /\ home.fault = FALSE
  BY <1>1 DEF InitHome
<1>3. Settled(home) /\ Owed(home) = {}
  BY <1>2, VacantBooked
<1>4. In(<<>>, Reads) = {} /\ Once(<<>>, Reads)
  BY DEF In, Once
<1> QED BY <1>1, <1>3, <1>4 DEF BooksBalance

(* Nobody comes and nobody is answered. *)
LEMMA BooksUnchanged ==
  ASSUME BooksBalance, UNCHANGED <<sent, reqIn, done>>,
         Settled(home'), Owed(home') = Owed(home)
  PROVE  BooksBalance'
BY DEF BooksBalance

(* A step that leaves the read side alone. *)
LEMMA BooksAlone ==
  ASSUME BooksBalance, UNCHANGED <<sent, reqIn, done, home>>
  PROVE  BooksBalance'
BY DEF BooksBalance

LEMMA DeliverRequestBooks ==
  ASSUME TargetInv, BooksBalance, NEW t \in Reads \cup Writes, DeliverRequest(t)
  PROVE  BooksBalance'
<1>1. /\ t \notin sent /\ sent' = sent \cup {t} /\ reqIn' = Append(reqIn, t)
      /\ done' = done /\ home' = home
  BY DEF DeliverRequest
<1>2. reqIn \in Seq(Reads \cup Writes) /\ Once(reqIn, Reads)
  BY DEF TargetInv, WriteInv, WriteTypes, BooksBalance
<1>3. t \notin In(reqIn, Reads) /\ t \notin Owed(home) /\ t \notin done \cap Reads
  BY <1>1 DEF BooksBalance
<1>4. /\ Once(Append(reqIn, t), Reads)
      /\ In(Append(reqIn, t), Reads) = In(reqIn, Reads) \cup ({t} \cap Reads)
  BY <1>2, <1>3, AppendOnce
<1> DEFINE a == In(reqIn, Reads)
           b == In(reqIn', Reads)
           o == Owed(home)
<1>5. b = a \cup ({t} \cap Reads) /\ Once(reqIn', Reads)
  BY <1>1, <1>4
<1>6. /\ a \cap (o \cup done) = {} /\ done \cap o = {}
      /\ sent \cap Reads = a \cup o \cup (done \cap Reads)
  BY DEF BooksBalance
<1>7. Settled(home') /\ Owed(home') = o
  BY <1>1 DEF BooksBalance
<1> HIDE DEF a, b, o
<1>8. /\ b \cap (o \cup done) = {}
      /\ (sent \cup {t}) \cap Reads = b \cup o \cup (done \cap Reads)
  BY <1>3, <1>5, <1>6 DEF a, o
<1> QED BY <1>1, <1>5, <1>6, <1>7, <1>8 DEF BooksBalance, b

LEMMA RecvRingReqBooks ==
  ASSUME TargetInv, BooksBalance, RecvRingReq
  PROVE  BooksBalance'
<1> DEFINE t == Head(reqIn)
           a == In(reqIn, Reads)
           b == In(reqIn', Reads)
           o == Owed(home)
<1>1. reqIn # <<>> /\ reqIn' = Tail(reqIn) /\ sent' = sent /\ done' = done
  BY DEF RecvRingReq
<1>2. reqIn \in Seq(Reads \cup Writes) /\ Once(reqIn, Reads)
  BY DEF TargetInv, WriteInv, WriteTypes, BooksBalance
<1>3. /\ Once(reqIn', Reads) /\ b = a \ {t}
      /\ t \in Reads => t \in a
  BY <1>1, <1>2, TailOnce
<1>4. /\ a \cap (o \cup done) = {} /\ done \cap o = {} /\ Settled(home)
      /\ sent \cap Reads = a \cup o \cup (done \cap Reads)
  BY DEF BooksBalance
<1>5. CASE t \in Reads /\ home' = [home EXCEPT !.rdQ = Append(@, t)]
  <2>1. ReadHolds(home, version)
    BY DEF TargetInv, ReadSide
  <2>2. t \in Reads /\ t \in a /\ t \notin o
    BY <1>3, <1>4, <1>5
  <2> HIDE DEF t
  <2>3. Settled(home') /\ Owed(home') = o \cup {t}
    BY <1>4, <1>5, <2>1, <2>2, QueueBooked
  <2> HIDE DEF a, b, o
  <2>4. /\ b \cap ((o \cup {t}) \cup done) = {} /\ done \cap (o \cup {t}) = {}
        /\ sent \cap Reads = b \cup (o \cup {t}) \cup (done \cap Reads)
    BY <1>3, <1>4, <2>2
  <2> QED BY <1>1, <1>3, <2>3, <2>4 DEF BooksBalance, b
<1>6. CASE t \in Writes /\ home' = home
  <2>1. t \notin Reads /\ a \subseteq Reads
    BY <1>6, HomeAssumption DEF In
  <2>2. b = a
    BY <1>3, <2>1
  <2> HIDE DEF a, b
  <2> QED BY <1>1, <1>3, <1>4, <1>6, <2>2 DEF BooksBalance, a, b
<1> QED BY <1>5, <1>6 DEF RecvRingReq

LEMMA RecvWriteResponseBooks ==
  ASSUME TargetInv, BooksBalance, RecvWriteResponse
  PROVE  BooksBalance'
<1> DEFINE w == Head(wrRsp)
           a == In(reqIn, Reads)
           o == Owed(home)
<1>1. /\ wrRsp # <<>> /\ done' = done \cup {w}
      /\ UNCHANGED <<sent, reqIn, home>>
  BY DEF RecvWriteResponse, ringVars
<1>2. w \in Writes
  BY <1>1 DEF TargetInv, OtherTypes
<1>3. w \notin Reads
  BY <1>2, HomeAssumption
<1>4. /\ a \cap (o \cup done) = {} /\ done \cap o = {} /\ Settled(home)
      /\ Once(reqIn, Reads) /\ a \subseteq Reads /\ o \subseteq Reads
      /\ sent \cap Reads = a \cup o \cup (done \cap Reads)
  BY DEF BooksBalance
<1> HIDE DEF w
<1>5. /\ a \cap (o \cup done') = {} /\ done' \cap o = {}
      /\ done' \cap Reads = done \cap Reads
  BY <1>1, <1>3, <1>4
<1> QED BY <1>1, <1>4, <1>5 DEF BooksBalance

LEMMA ServiceHomeAgentBooks ==
  ASSUME TargetInv, BooksBalance, ServiceHomeAgent
  PROVE  BooksBalance'
<1>1. /\ home' = ReadSideStep(home, version)
      /\ UNCHANGED <<ringVars, writeVars, done>>
  BY DEF ServiceHomeAgent, ReadSideStep
<1>2. version \in Contents /\ ReadHolds(home, version)
  BY DEF TargetInv, OtherTypes, ReadSide
<1>3. Booked(home, Closing(home)) /\ Once(home.summaries, Nat)
  BY DEF BooksBalance, Settled
<1>4. Booked(home', {}) /\ Owed(home') = Owed(home) /\ home'.summaries = <<>>
  BY <1>1, <1>2, <1>3, ReadSideStepBooked
<1>5. Settled(home')
  <2>1. ToSet(<<>>) = {} /\ Once(<<>>, Nat)
    BY DEF ToSet, Once
  <2>2. Closing(home') = {}
    BY <1>4, <2>1 DEF Closing
  <2> QED BY <1>4, <2>1, <2>2 DEF Settled
<1>6. UNCHANGED <<sent, reqIn, done>>
  BY <1>1 DEF ringVars
<1> QED BY <1>4, <1>5, <1>6, BooksUnchanged

(* Steps of the L2 Buffer. *)
LEMMA L2Books ==
  ASSUME BooksBalance, NEW h, ReadHolds(h, version), Settled(h),
         Owed(h) = Owed(home), h.ready # 0, L2Blocked(h) \/ L2Sends(h)
  PROVE  BooksBalance'
<1> DEFINE f == FreezeFront(h)
           gone == CarrierReads(h)
           a == In(reqIn, Reads)
           o == Owed(home)
<1>1. h.l2 # <<>>
  <2>1. h.l2 \in Seq([group : Nat, reads : Seq(Lines \cup Reads), data : Versions])
        /\ h.ready \in Nat /\ h.ready <= Len(h.l2)
    BY DEF ReadHolds, ReadSideType, BufferHolds
  <2>2. h.l2 = <<>> => Len(h.l2) = 0
    OBVIOUS
  <2> QED BY <2>1, <2>2
<1>2. /\ Settled(f) /\ Owed(f) = o /\ f.l2 = h.l2
      /\ f.frozen \/ Head(f.l2).group = 0
  BY <1>1, FreezeBooked
<1>3. ReadHolds(f, version)
  BY <1>1, FreezeFrontHolds
<1>4. CarrierReads(f) = gone
  BY <1>2 DEF CarrierReads
<1> HIDE DEF f
<1>5. /\ Settled(SendCarrier(f)) /\ Owed(SendCarrier(f)) = Owed(f) \ gone
      /\ gone \subseteq o
  BY <1>1, <1>2, <1>3, <1>4, SendBooked
<1>6. UNCHANGED <<sent, reqIn>>
  BY DEF L2Blocked, L2Sends, ringVars
<1>7. CASE L2Blocked(h)
  <2>1. home' = f /\ done' = done
    BY <1>7 DEF L2Blocked, f
  <2> QED BY <1>2, <1>6, <2>1, BooksUnchanged
<1>8. CASE L2Sends(h)
  <2>1. home' = SendCarrier(f) /\ done' = done \cup gone
    BY <1>8 DEF L2Sends, f
  <2>2. /\ a \cap (o \cup done) = {} /\ done \cap o = {} /\ Once(reqIn, Reads)
        /\ sent \cap Reads = a \cup o \cup (done \cap Reads)
    BY DEF BooksBalance
  <2>3. Settled(home') /\ Owed(home') = o \ gone
    BY <1>2, <1>5, <2>1
  <2> HIDE DEF gone, a, o
  <2>4. /\ a \cap ((o \ gone) \cup done') = {} /\ done' \cap (o \ gone) = {}
        /\ sent \cap Reads = a \cup (o \ gone) \cup (done' \cap Reads)
    BY <1>5, <2>1, <2>2
  <2> QED BY <1>6, <2>2, <2>3, <2>4 DEF BooksBalance, a
<1> QED BY <1>7, <1>8

LEMMA L2ServiceBooks ==
  ASSUME TargetInv, BooksBalance, L2Service
  PROVE  BooksBalance'
BY L2Books DEF L2Service, TargetInv, ReadSide, BooksBalance

LEMMA L2ReadyBooks ==
  ASSUME TargetInv, BooksBalance, L2Ready
  PROVE  BooksBalance'
<1> DEFINE h == [home EXCEPT !.ready = @ + 1]
<1>1. home.ready < Len(home.l2) /\ (L2Blocked(h) \/ L2Sends(h))
  BY DEF L2Ready
<1>2. ReadHolds(home, version) /\ Settled(home)
  BY DEF TargetInv, ReadSide, BooksBalance
<1>3. ReadHolds(h, version) /\ h.ready # 0
  BY <1>1, <1>2, ReadyHolds
<1>4. Settled(h) /\ Owed(h) = Owed(home)
  BY <1>2, ReadyBooked
<1> HIDE DEF h
<1> QED BY <1>1, <1>3, <1>4, L2Books

LEMMA MemReadBooks ==
  ASSUME TargetInv, BooksBalance, NEW c \in Ports, MemRead(c)
  PROVE  BooksBalance'
<1> DEFINE what == Head(home.toRd)
           line == IF what \in Reads THEN LineOf[what] ELSE what
           g == [home EXCEPT !.toRd = Tail(@),
                             !.rdRsp[c] = Append(@, [what |-> what,
                                                     data |-> version[line]])]
<1>1. home.toRd # <<>> /\ home' = g /\ UNCHANGED <<ringVars, writeVars, done>>
  BY DEF MemRead
<1>2. /\ version \in Contents /\ ReadHolds(home, version)
      /\ Settled(home)
  BY DEF TargetInv, OtherTypes, ReadSide, BooksBalance
<1>3. Settled(g) /\ Owed(g) = Owed(home)
  BY <1>1, <1>2, MemReadBooked
<1> HIDE DEF g
<1>4. UNCHANGED <<sent, reqIn, done>>
  BY <1>1 DEF ringVars
<1> QED BY <1>1, <1>3, <1>4, BooksUnchanged

LEMMA ResetBooks ==
  ASSUME TargetInv, BooksBalance, Reset
  PROVE  BooksBalance'
<1>1. /\ sent' = {} /\ reqIn' = <<>> /\ done' = {}
      /\ home' = [InitHome EXCEPT !.token = home.token, !.fault = home.fault,
                                  !.resets = home.resets + 1]
  BY DEF Reset
<1>2. home.fault = FALSE
  <2>1. ~home.fault
    BY DEF BooksBalance, Settled, Booked
  <2>2. home.fault \in BOOLEAN
    <3>1. home \in ReadSideType
      BY DEF TargetInv, ReadSide, ReadHolds
    <3> QED BY <3>1 DEF ReadSideType
  <2> QED BY <2>1, <2>2
<1>3. /\ home'.rdQ = <<>> /\ home'.entries = <<>> /\ home'.toRd = <<>>
      /\ home'.rdRsp = [c \in Ports |-> <<>>] /\ home'.l2 = <<>> /\ home'.open = {}
      /\ home'.frozen = FALSE /\ home'.summaries = <<>> /\ home'.pending = 0
      /\ home'.fault = FALSE
  BY <1>1, <1>2 DEF InitHome
<1>4. Settled(home') /\ Owed(home') = {}
  BY <1>3, VacantBooked
<1>5. In(<<>>, Reads) = {} /\ Once(<<>>, Reads)
  BY DEF In, Once
<1> QED BY <1>1, <1>4, <1>5 DEF BooksBalance

LEMMA BooksStep == TargetInv /\ BooksBalance /\ [Next]_vars => BooksBalance'
<1> SUFFICES ASSUME TargetInv, BooksBalance, [Next]_vars PROVE BooksBalance'
  OBVIOUS
<1>1. ASSUME NEW t \in Reads \cup Writes, DeliverRequest(t) PROVE BooksBalance'
  BY <1>1, DeliverRequestBooks
<1>2. CASE (\E w \in Writes : DeliverData(w)) \/ RecvRingDat
  BY <1>2, BooksAlone DEF DeliverData, RecvRingDat
<1>3. CASE RecvRingReq
  BY <1>3, RecvRingReqBooks
<1>4. CASE RecvWriteResponse
  BY <1>4, RecvWriteResponseBooks
<1>5. CASE MemWrite
  BY <1>5, BooksAlone DEF MemWrite, ringVars
<1>6. ASSUME NEW c \in Ports, MemRead(c) PROVE BooksBalance'
  BY <1>6, MemReadBooks
<1>7. CASE L2Ready
  BY <1>7, L2ReadyBooks
<1>8. CASE L2Service
  BY <1>8, L2ServiceBooks
<1>9. CASE ServiceWrite
  BY <1>9, BooksAlone DEF ServiceWrite, ringVars
<1>10. CASE ServiceHomeAgent
  BY <1>10, ServiceHomeAgentBooks
<1>11. CASE Reset
  BY <1>11, ResetBooks
<1>12. CASE UNCHANGED vars
  BY <1>12, BooksAlone DEF vars, ringVars
<1> QED BY <1>1, <1>2, <1>3, <1>4, <1>5, <1>6, <1>7, <1>8, <1>9, <1>10, <1>11,
           <1>12 DEF Next, Process

LEMMA BooksHold == Spec => [](TargetInv /\ BooksBalance)
<1>1. TargetInv /\ BooksBalance /\ [Next]_vars => (TargetInv /\ BooksBalance)'
  BY TargetStep, BooksStep
<1> QED BY <1>1, TargetInit, BooksInit, PTL DEF Spec

-----------------------------------------------------------------------------
(* Theorems about the books *)

(* The Home Agent, the L2 Buffer and the memory port never throw.          *)
THEOREM NothingThrows == Spec => []NoFault
<1>1. BooksBalance => NoFault
  BY DEF BooksBalance, Settled, Booked, NoFault
<1> QED BY <1>1, BooksHold, PTL

LEMMA PlacesOfReads ==
  ASSUME TargetInv
  PROVE  /\ WaitingReads = DueOf(home.entries)
         /\ DirectReads = DirectIn(home.toRd, home.rdRsp)
         /\ BufferedReads = ReadsIn(home.l2)
         /\ ToSet(home.rdQ) = In(home.rdQ, Reads)
         /\ ToSet(reqIn) \cap Reads = In(reqIn, Reads)
<1>1. /\ home.rdQ \in Seq(Reads) /\ home.rdRsp \in [Ports -> Seq(Rsp)]
      /\ home \in ReadSideType
  BY DEF TargetInv, ReadSide, ReadHolds, ReadSideType, Rsp
<1>2. WaitingReads = DueOf(home.entries)
  BY DEF WaitingReads, DueOf, Due
<1>3. BufferedReads = ReadsIn(home.l2)
  BY DEF BufferedReads, ReadsIn
<1>4. ToSet(home.rdQ) = In(home.rdQ, Reads)
  BY <1>1 DEF ToSet, In
<1>5. ToSet(reqIn) \cap Reads = In(reqIn, Reads)
  BY DEF ToSet, In
<1>6. DirectReads = DirectIn(home.toRd, home.rdRsp)
  <2> DEFINE toRd == home.toRd
             rdRsp == home.rdRsp
             on(c) == {rdRsp[c][k].what : k \in DOMAIN rdRsp[c]}
  <2>1. \A c \in Ports : Reads \cap on(c) = In(What(rdRsp[c]), Reads)
    BY <1>1, WhatParts DEF What, In
  <2>2. Reads \cap ToSet(toRd) = In(toRd, Reads)
    BY DEF ToSet, In
  <2>3. DirectReads = Reads \cap (ToSet(toRd) \cup UNION {on(c) : c \in Ports})
    BY DEF DirectReads
  <2>4. DirectIn(toRd, rdRsp) = In(toRd, Reads) \cup UNION {In(What(rdRsp[c]), Reads) : c \in Ports}
    BY DEF DirectIn
  <2> HIDE DEF on, toRd, rdRsp
  <2>5. Reads \cap UNION {on(c) : c \in Ports} = UNION {Reads \cap on(c) : c \in Ports}
    OBVIOUS
  <2>6. UNION {Reads \cap on(c) : c \in Ports} = UNION {In(What(rdRsp[c]), Reads) : c \in Ports}
    BY <2>1
  <2>7. DirectReads = DirectIn(toRd, rdRsp)
    BY <2>2, <2>3, <2>4, <2>5, <2>6
  <2> QED BY <2>7 DEF toRd, rdRsp
<1> QED BY <1>2, <1>3, <1>4, <1>5, <1>6

(* Each read is in one place, from the ring to its answer, and              *)
(* pending_rd_rsp_ counts those the agent or the memory still has.         *)
THEOREM EachReadIsAccounted == Spec => []ReadsAccounted
<1>1. TargetInv /\ BooksBalance => ReadsAccounted
  <2> SUFFICES ASSUME TargetInv, BooksBalance PROVE ReadsAccounted
    OBVIOUS
  <2> DEFINE due == DueOf(home.entries)
             direct == DirectIn(home.toRd, home.rdRsp)
             buffered == ReadsIn(home.l2)
             queued == In(home.rdQ, Reads)
             coming == In(reqIn, Reads)
  <2>1. /\ WaitingReads = due /\ DirectReads = direct /\ BufferedReads = buffered
        /\ ToSet(home.rdQ) = queued /\ ToSet(reqIn) \cap Reads = coming
    BY PlacesOfReads
  <2>2. Taken(home) = due \cup direct
    BY DEF Taken
  <2>3. Owed(home) = queued \cup Taken(home) \cup buffered
    BY DEF Owed
  <2>4. /\ due \cap direct = {} /\ queued \cap Taken(home) = {}
        /\ buffered \cap (queued \cup Taken(home)) = {}
        /\ IsFiniteSet(Taken(home)) /\ home.pending = Cardinality(Taken(home))
    BY DEF BooksBalance, Settled, Booked
  <2>5. /\ done \cap Owed(home) = {}
        /\ sent \cap Reads = coming \cup Owed(home) \cup (done \cap Reads)
    BY DEF BooksBalance
  <2> HIDE DEF due, direct, buffered, queued, coming
  <2>6. home.pending = Cardinality(due) + Cardinality(direct)
    <3>1. IsFiniteSet(due) /\ IsFiniteSet(direct)
      BY <2>2, <2>4, FS_Subset
    <3>2. Cardinality(due \cup direct) =
            Cardinality(due) + Cardinality(direct) - Cardinality(due \cap direct)
      BY <3>1, FS_Union
    <3>3. Cardinality(due \cap direct) = 0
      BY <2>4, FS_EmptySet
    <3>4. Cardinality(due) \in Nat /\ Cardinality(direct) \in Nat
      BY <3>1, FS_CardinalityType
    <3> QED BY <2>2, <2>4, <3>2, <3>3, <3>4
  <2>7. due \cap direct = {} /\ buffered \cap (due \cup direct) = {}
    BY <2>2, <2>4
  <2>8. done \cap (due \cup direct \cup buffered) = {}
    BY <2>2, <2>3, <2>5
  <2>9. sent \cap Reads = coming \cup queued \cup due \cup direct \cup buffered \cup (done \cap Reads)
    BY <2>2, <2>3, <2>5
  <2> QED BY <2>1, <2>6, <2>7, <2>8, <2>9 DEF ReadsAccounted
<1> QED BY <1>1, BooksHold, PTL

(* Every group of the L2 Buffer that is open, or closed without the Home    *)
(* Agent knowing it yet, belongs to exactly one entry, and an entry         *)
(* remembers no other group.                                               *)
THEOREM GroupsAreOwned == Spec => []GroupsHaveOwners
<1>1. TargetInv /\ BooksBalance => GroupsHaveOwners
  <2> SUFFICES ASSUME TargetInv, BooksBalance PROVE GroupsHaveOwners
    OBVIOUS
  <2> DEFINE table == home.entries
             known == home.open \cup ToSet(home.summaries)
             owners(g) == {i \in DOMAIN table : table[i].group = g}
  <2>1. TidyTable(table) /\ GroupsOf(table) = known
    BY DEF BooksBalance, Settled, Booked, Closing
  <2> HIDE DEF table, known
  <2>2. ASSUME NEW g \in known PROVE Cardinality(owners(g)) = 1
    <3>1. g \in GroupsOf(table)
      BY <2>1
    <3>2. PICK i \in DOMAIN table : table[i].group = g /\ g # 0
      BY <3>1 DEF GroupsOf
    <3>3. ASSUME NEW j \in owners(g) PROVE j = i
      <4>1. j \in DOMAIN table /\ table[j].group = g
        OBVIOUS
      <4> QED BY <2>1, <3>2, <4>1 DEF TidyTable
    <3>4. owners(g) = {i}
      BY <3>2, <3>3
    <3> HIDE DEF owners
    <3> QED BY <3>4, FS_Singleton
  <2>3. ASSUME NEW i \in DOMAIN table, table[i].group # 0
        PROVE  table[i].group \in known
    BY <2>1, <2>3 DEF GroupsOf
  <2> QED BY <2>2, <2>3 DEF GroupsHaveOwners, table, known
<1> QED BY <1>1, BooksHold, PTL
-----------------------------------------------------------------------------
(* The target implements AtomicMemory *)

(* Writes whose address has come, and that have not been answered. *)
UnderWay == In(reqIn, Writes) \cup In(wrQ, Writes) \cup tracked
              \cup In(toWr, Writes) \cup In(wrRsp, Writes)

(* A write is answered once, and then it is nowhere. *)
AnsweredOnce == done \cap Writes \subseteq sent \ UnderWay

(* Nothing happens to writes. *)
LEMMA AnsweredAlone ==
  ASSUME AnsweredOnce, UNCHANGED <<sent, reqIn, wrQ, tracked, toWr, wrRsp>>,
         done' \cap Writes = done \cap Writes
  PROVE  AnsweredOnce'
BY DEF AnsweredOnce, UnderWay

LEMMA DeliverRequestAnswered ==
  ASSUME TargetInv, AnsweredOnce, NEW t \in Reads \cup Writes, DeliverRequest(t)
  PROVE  AnsweredOnce'
<1>1. /\ t \notin sent /\ sent' = sent \cup {t} /\ reqIn' = Append(reqIn, t)
      /\ UNCHANGED <<wrQ, tracked, toWr, wrRsp, done>>
  BY DEF DeliverRequest, writeVars
<1>2. reqIn \in Seq(Reads \cup Writes) /\ Once(reqIn, Writes) /\ t \notin In(reqIn, Writes)
  BY <1>1 DEF TargetInv, WriteInv, WriteTypes, WritesApart
<1>3. In(Append(reqIn, t), Writes) = In(reqIn, Writes) \cup ({t} \cap Writes)
  BY <1>2, AppendOnce
<1>4. UnderWay' \subseteq UnderWay \cup {t}
  BY <1>1, <1>3 DEF UnderWay
<1> QED BY <1>1, <1>4 DEF AnsweredOnce

LEMMA RecvRingReqAnswered ==
  ASSUME TargetInv, AnsweredOnce, RecvRingReq
  PROVE  AnsweredOnce'
<1> DEFINE t == Head(reqIn)
<1>1. /\ reqIn # <<>> /\ reqIn' = Tail(reqIn)
      /\ (t \in Writes /\ wrQ' = Append(wrQ, t)) \/ wrQ' = wrQ
      /\ UNCHANGED <<sent, tracked, toWr, wrRsp, done>>
  BY DEF RecvRingReq
<1>2. /\ reqIn \in Seq(Reads \cup Writes) /\ Once(reqIn, Writes)
      /\ wrQ \in Seq(Writes) /\ Once(wrQ, Writes)
      /\ In(reqIn, Writes) \cap In(wrQ, Writes) = {}
  BY DEF TargetInv, WriteInv, WriteTypes, WritesApart
<1>3. /\ In(reqIn', Writes) = In(reqIn, Writes) \ {t}
      /\ t \in Writes => t \in In(reqIn, Writes)
  BY <1>1, <1>2, TailOnce
<1>4. In(wrQ', Writes) \subseteq In(wrQ, Writes) \cup In(reqIn, Writes)
  <2>1. CASE t \in Writes /\ wrQ' = Append(wrQ, t)
    <3>1. t \in In(reqIn, Writes) /\ t \notin In(wrQ, Writes)
      BY <1>2, <1>3, <2>1
    <3> HIDE DEF t
    <3>2. In(wrQ', Writes) = In(wrQ, Writes) \cup ({t} \cap Writes)
      BY <1>2, <2>1, <3>1, AppendOnce
    <3> QED BY <3>1, <3>2
  <2> QED BY <1>1, <2>1
<1>5. UnderWay' \subseteq UnderWay
  BY <1>1, <1>3, <1>4 DEF UnderWay
<1> QED BY <1>1, <1>5 DEF AnsweredOnce

LEMMA ServiceWriteAnswered ==
  ASSUME TargetInv, AnsweredOnce, ServiceWrite
  PROVE  AnsweredOnce'
<1> DEFINE w == Head(wrQ)
           d == Head(datQ)
           accepted == IF Accepts THEN {w} ELSE {}
           sends == Sends(tracked \cup accepted)
           sentOn == IF sends THEN {d} ELSE {}
<1>1. /\ wrQ' = (IF Accepts THEN Tail(wrQ) ELSE wrQ)
      /\ tracked' = (tracked \cup accepted) \ sentOn
      /\ toWr' = (IF sends THEN Append(toWr, d) ELSE toWr)
      /\ UNCHANGED <<sent, reqIn, wrRsp, done>>
  BY DEF ServiceWrite, ringVars
<1>2. /\ wrQ \in Seq(Writes) /\ datQ \in Seq(Writes) /\ toWr \in Seq(Writes)
      /\ Once(wrQ, Writes) /\ Once(toWr, Writes)
  BY DEF TargetInv, WriteInv, WriteTypes, WritesApart, OtherTypes
<1>3. accepted \subseteq In(wrQ, Writes) /\ In(wrQ', Writes) \subseteq In(wrQ, Writes)
  <2>1. CASE Accepts
    <3>1. wrQ # <<>>
      BY <2>1 DEF Accepts, Reserves
    <3>2. /\ In(Tail(wrQ), Writes) = In(wrQ, Writes) \ {w}
          /\ w \in Writes /\ w \in In(wrQ, Writes)
      BY <1>2, <3>1, TailOnce
    <3> QED BY <1>1, <2>1, <3>2
  <2>2. CASE ~Accepts
    BY <1>1, <2>2
  <2> QED BY <2>1, <2>2
<1>4. In(toWr', Writes) \subseteq In(toWr, Writes) \cup tracked \cup accepted
  <2>1. CASE sends
    <3>1. datQ # <<>> /\ d \in tracked \cup accepted
      BY <2>1 DEF Sends, HasMatchingAddress
    <3>2. d \in Writes
      BY <1>2, <3>1
    <3>3. d \notin In(toWr, Writes)
      BY <1>3, <3>1 DEF TargetInv, WritesApart
    <3> HIDE DEF d, accepted
    <3>4. In(Append(toWr, d), Writes) = In(toWr, Writes) \cup ({d} \cap Writes)
      BY <1>2, <3>2, <3>3, AppendOnce
    <3> QED BY <1>1, <2>1, <3>1, <3>4
  <2>2. CASE ~sends
    BY <1>1, <2>2
  <2> QED BY <2>1, <2>2
<1> HIDE DEF accepted, sentOn
<1>5. UnderWay' \subseteq UnderWay
  BY <1>1, <1>3, <1>4 DEF UnderWay
<1> QED BY <1>1, <1>5 DEF AnsweredOnce

LEMMA MemWriteAnswered ==
  ASSUME TargetInv, AnsweredOnce, MemWrite
  PROVE  AnsweredOnce'
<1> DEFINE w == Head(toWr)
<1>1. /\ toWr # <<>> /\ toWr' = Tail(toWr) /\ wrRsp' = Append(wrRsp, w)
      /\ UNCHANGED <<sent, reqIn, wrQ, tracked, done>>
  BY DEF MemWrite, ringVars
<1>2. /\ toWr \in Seq(Writes) /\ wrRsp \in Seq(Writes)
      /\ Once(toWr, Writes) /\ Once(wrRsp, Writes)
  BY DEF TargetInv, WritesApart, OtherTypes
<1>3. /\ In(toWr', Writes) = In(toWr, Writes) \ {w}
      /\ w \in Writes /\ w \in In(toWr, Writes)
  BY <1>1, <1>2, TailOnce
<1>4. w \notin In(wrRsp, Writes)
  BY <1>3 DEF TargetInv, WritesApart
<1> HIDE DEF w
<1>5. In(wrRsp', Writes) = In(wrRsp, Writes) \cup ({w} \cap Writes)
  BY <1>1, <1>2, <1>3, <1>4, AppendOnce
<1>6. UnderWay' \subseteq UnderWay
  BY <1>1, <1>3, <1>5 DEF UnderWay
<1> QED BY <1>1, <1>6 DEF AnsweredOnce

LEMMA RecvWriteResponseAnswered ==
  ASSUME TargetInv, AnsweredOnce, RecvWriteResponse
  PROVE  AnsweredOnce'
<1> DEFINE w == Head(wrRsp)
<1>1. /\ wrRsp # <<>> /\ wrRsp' = Tail(wrRsp) /\ done' = done \cup {w}
      /\ UNCHANGED <<sent, reqIn, wrQ, tracked, toWr>>
  BY DEF RecvWriteResponse, ringVars
<1>2. wrRsp \in Seq(Writes) /\ Once(wrRsp, Writes)
  BY DEF TargetInv, WritesApart, OtherTypes
<1>3. /\ In(wrRsp', Writes) = In(wrRsp, Writes) \ {w}
      /\ w \in In(wrRsp, Writes)
  BY <1>1, <1>2, TailOnce
<1> HIDE DEF w
<1>4. w \in sent /\ UnderWay' = UnderWay \ {w}
  BY <1>1, <1>3 DEF TargetInv, WritesApart, UnderWay
<1> QED BY <1>1, <1>4 DEF AnsweredOnce

(* The L2 Buffer answers reads only. *)
LEMMA L2Answers ==
  ASSUME NEW h, ReadHolds(h, version), h.ready # 0, L2Blocked(h) \/ L2Sends(h)
  PROVE  /\ UNCHANGED <<ringVars, writeVars>>
         /\ done' \cap Writes = done \cap Writes
<1>1. CarrierReads(h) \subseteq Reads
  BY SendCarrierHolds
<1>2. CarrierReads(h) \cap Writes = {}
  BY <1>1, HomeAssumption
<1>3. done' = done \/ done' = done \cup CarrierReads(h)
  BY DEF L2Blocked, L2Sends
<1>4. done' \cap Writes = done \cap Writes
  BY <1>2, <1>3
<1>5. UNCHANGED <<ringVars, writeVars>>
  BY DEF L2Blocked, L2Sends
<1> QED BY <1>4, <1>5

LEMMA L2Answered ==
  ASSUME TargetInv, AnsweredOnce, L2Ready \/ L2Service
  PROVE  AnsweredOnce'
<1> DEFINE h == [home EXCEPT !.ready = @ + 1]
<1>1. ReadHolds(home, version)
  BY DEF TargetInv, ReadSide
<1>2. /\ UNCHANGED <<ringVars, writeVars>>
      /\ done' \cap Writes = done \cap Writes
  <2>1. CASE L2Service
    BY <1>1, <2>1, L2Answers DEF L2Service
  <2>2. CASE L2Ready
    <3>1. home.ready < Len(home.l2) /\ (L2Blocked(h) \/ L2Sends(h))
      BY <2>2 DEF L2Ready
    <3>2. ReadHolds(h, version) /\ h.ready # 0
      BY <1>1, <3>1, ReadyHolds
    <3> HIDE DEF h
    <3> QED BY <3>1, <3>2, L2Answers
  <2> QED BY <2>1, <2>2
<1>3. UNCHANGED <<sent, reqIn, wrQ, tracked, toWr, wrRsp>>
  BY <1>2 DEF ringVars, writeVars
<1> QED BY <1>2, <1>3, AnsweredAlone

LEMMA AnsweredInit == Init => AnsweredOnce
<1>1. Init => done = {}
  BY DEF Init
<1> QED BY <1>1 DEF AnsweredOnce

LEMMA AnsweredStep == TargetInv /\ AnsweredOnce /\ [Next]_vars => AnsweredOnce'
<1> SUFFICES ASSUME TargetInv, AnsweredOnce, [Next]_vars PROVE AnsweredOnce'
  OBVIOUS
<1>1. ASSUME NEW t \in Reads \cup Writes, DeliverRequest(t) PROVE AnsweredOnce'
  BY <1>1, DeliverRequestAnswered
<1>2. CASE (\E w \in Writes : DeliverData(w)) \/ RecvRingDat
  BY <1>2, AnsweredAlone DEF DeliverData, RecvRingDat, writeVars
<1>3. CASE RecvRingReq
  BY <1>3, RecvRingReqAnswered
<1>4. CASE RecvWriteResponse
  BY <1>4, RecvWriteResponseAnswered
<1>5. CASE MemWrite
  BY <1>5, MemWriteAnswered
<1>6. CASE (\E c \in Ports : MemRead(c)) \/ ServiceHomeAgent
  BY <1>6, AnsweredAlone DEF MemRead, ServiceHomeAgent, ringVars, writeVars
<1>7. CASE L2Ready \/ L2Service
  BY <1>7, L2Answered
<1>8. CASE ServiceWrite
  BY <1>8, ServiceWriteAnswered
<1>9. CASE Reset
  BY <1>9 DEF Reset, AnsweredOnce
<1>10. CASE UNCHANGED vars
  BY <1>10, AnsweredAlone DEF vars, ringVars, writeVars
<1> QED BY <1>1, <1>2, <1>3, <1>4, <1>5, <1>6, <1>7, <1>8, <1>9, <1>10
           DEF Next, Process
-----------------------------------------------------------------------------
(* Steps that AtomicMemory knows, and those that it does not see *)

(* A read of an entry that is due, or one in the queue, is owed its answer. *)
LEMMA MemoryTake ==
  ASSUME BooksBalance, NEW r, r \in Owed(home),
         \A p \in HeldIn(home) : p[1] # r,
         NEW d, d \in VersionsOf(LineOf[r]),
         Memory!Exact(r) => d = version[LineOf[r]],
         HeldIn(home') = HeldIn(home) \cup {<<r, d>>},
         UNCHANGED <<sent, wrRsp, version, done>>
  PROVE  Memory!MemoryNext
<1>1. r \in sent /\ r \in Reads /\ r \notin done
  BY DEF BooksBalance
<1>2. r \notin Memory!ReadsOf(HeldIn(home))
  BY DEF Memory!ReadsOf
<1>3. Memory!Take(r)
  BY <1>1, <1>2 DEF Memory!Take, VersionsOf
<1> QED BY <1>1, <1>3 DEF Memory!MemoryNext

LEMMA DeliverRequestAsks ==
  ASSUME NEW t \in Reads \cup Writes, DeliverRequest(t)
  PROVE  Memory!MemoryNext
<1>1. Memory!Ask(t)
  BY DEF DeliverRequest, Memory!Ask, writeVars
<1> QED BY <1>1 DEF Memory!MemoryNext

LEMMA RecvRingReqUnseen ==
  ASSUME TargetInv, BooksBalance, RecvRingReq
  PROVE  UNCHANGED Memory!memoryVars
<1> DEFINE t == Head(reqIn)
<1>1. UNCHANGED <<sent, wrRsp, version, done>>
  BY DEF RecvRingReq
<1>2. ReadHolds(home, version)
  BY DEF TargetInv, ReadSide
<1>3. HeldIn(home') = HeldIn(home)
  <2>1. home' = home \/ home' = [home EXCEPT !.rdQ = Append(@, t)]
    BY DEF RecvRingReq
  <2>2. home \in ReadSideType
    BY <1>2 DEF ReadHolds
  <2> DEFINE q == Append(home.rdQ, t)
  <2>3. home' = home \/ home' = [home EXCEPT !.rdQ = q]
    BY <2>1
  <2> HIDE DEF q
  <2>4. home'.l2 = home.l2 /\ home'.rdRsp = home.rdRsp
    BY <2>2, <2>3 DEF ReadSideType
  <2> QED BY <2>4 DEF HeldIn
<1> QED BY <1>1, <1>3 DEF Memory!memoryVars

LEMMA RecvWriteResponseAnswers ==
  ASSUME TargetInv, RecvWriteResponse
  PROVE  Memory!MemoryNext
<1> DEFINE w == Head(wrRsp)
<1>1. /\ wrRsp # <<>> /\ wrRsp' = Tail(wrRsp) /\ done' = done \cup {w}
      /\ UNCHANGED <<sent, version, home>>
  BY DEF RecvWriteResponse, ringVars
<1>2. wrRsp \in Seq(Writes) /\ Once(wrRsp, Writes)
  BY DEF TargetInv, WritesApart, OtherTypes
<1>3. /\ In(wrRsp', Writes) = In(wrRsp, Writes) \ {w}
      /\ w \in Writes /\ w \in In(wrRsp, Writes) /\ wrRsp' \in Seq(Writes)
  BY <1>1, <1>2, TailOnce
<1>4. ToSet(wrRsp) = In(wrRsp, Writes) /\ ToSet(wrRsp') = In(wrRsp', Writes)
  BY <1>2, <1>3, ToSetIn
<1> HIDE DEF w
<1>5. Memory!AnswerWrite(w)
  BY <1>1, <1>3, <1>4 DEF Memory!AnswerWrite
<1> QED BY <1>3, <1>5 DEF Memory!MemoryNext

LEMMA MemWriteWrites ==
  ASSUME TargetInv, AnsweredOnce, MemWrite
  PROVE  Memory!MemoryNext
<1> DEFINE w == Head(toWr)
<1>1. /\ toWr # <<>> /\ wrRsp' = Append(wrRsp, w)
      /\ version' = [x \in Lines |-> IF x \in Span[w] THEN w ELSE version[x]]
      /\ UNCHANGED <<sent, done, home>>
  BY DEF MemWrite, ringVars
<1>2. /\ toWr \in Seq(Writes) /\ wrRsp \in Seq(Writes)
      /\ Once(toWr, Writes) /\ Once(wrRsp, Writes)
  BY DEF TargetInv, WritesApart, OtherTypes
<1>3. w \in Writes /\ w \in In(toWr, Writes)
  BY <1>1, <1>2, TailOnce
<1>4. w \notin In(wrRsp, Writes) /\ w \in sent
  BY <1>3 DEF TargetInv, WritesApart
<1>5. w \notin done
  BY <1>3 DEF AnsweredOnce, UnderWay
<1> HIDE DEF w
<1>6. /\ wrRsp' \in Seq(Writes)
      /\ In(wrRsp', Writes) = In(wrRsp, Writes) \cup ({w} \cap Writes)
  BY <1>1, <1>2, <1>3, <1>4, AppendOnce
<1>7. ToSet(wrRsp) = In(wrRsp, Writes) /\ ToSet(wrRsp') = In(wrRsp', Writes)
  BY <1>2, <1>6, ToSetIn
<1>8. Memory!Write(w)
  BY <1>1, <1>3, <1>4, <1>5, <1>6, <1>7 DEF Memory!Write
<1> QED BY <1>3, <1>8 DEF Memory!MemoryNext

(* A step of the read side takes at most one read to its data: the one     *)
(* that is handed over.                                                    *)
LEMMA ServiceHomeAgentTakes ==
  ASSUME TargetInv, BooksBalance, ServiceHomeAgent
  PROVE  Memory!MemoryNext \/ UNCHANGED Memory!memoryVars
<1>1. /\ home' = ReadSideStep(home, version)
      /\ UNCHANGED <<ringVars, writeVars, done>>
  BY DEF ServiceHomeAgent, ReadSideStep
<1>2. version \in Contents /\ ReadHolds(home, version)
  BY DEF TargetInv, OtherTypes, ReadSide
<1>3. Booked(home, Closing(home)) /\ Once(home.summaries, Nat)
  BY DEF BooksBalance, Settled
<1>4. PICK k : /\ ReadHolds(k, version) /\ Booked(k, {}) /\ Owed(k) = Owed(home)
               /\ HeldIn(k) = HeldIn(home) /\ Gives(k, home', version)
  BY <1>1, <1>2, <1>3, ReadSideStepBooked
<1>5. UNCHANGED <<sent, wrRsp, version, done>>
  BY <1>1 DEF ringVars, writeVars
<1>6. CASE Carries(k, home', {})
  <2>1. HeldIn(home') = HeldIn(home)
    BY <1>4, <1>6 DEF Carries
  <2> QED BY <1>5, <2>1 DEF Memory!memoryVars
<1>7. CASE Hands(k, home', version)
  <2>1. PICK r \in DueOf(k.entries), d \in Versions :
          /\ HeldIn(home') = HeldIn(k) \cup {<<r, d>>}
          /\ Current(d, LineOf[r], version) /\ InOneLine(r)
    BY <1>7 DEF Hands
  <2>2. r \in Owed(home)
    BY <1>4 DEF Owed, Taken
  <2>3. /\ r \notin ReadsIn(k.l2) /\ r \notin DirectIn(k.toRd, k.rdRsp)
    BY <1>4 DEF Booked, Taken
  <2>4. k.rdRsp \in [Ports -> Seq(Rsp)]
    BY <1>4 DEF ReadHolds, ReadSideType, Rsp
  <2>5. \A p \in HeldIn(k) : p[1] # r
    BY <2>3, <2>4, HeldWhere DEF HeldIn
  <2>6. /\ d \in VersionsOf(LineOf[r])
        /\ Memory!Exact(r) => d = version[LineOf[r]]
    BY <2>1 DEF Current, InOneLine, Memory!Exact
  <2> QED BY <1>4, <1>5, <2>1, <2>2, <2>5, <2>6, MemoryTake
<1> QED BY <1>4, <1>6, <1>7 DEF Gives

LEMMA L2AnswersReads ==
  ASSUME BooksBalance, NEW h, ReadHolds(h, version), Settled(h),
         Owed(h) = Owed(home), HeldIn(h) = HeldIn(home), h.ready # 0,
         L2Blocked(h) \/ L2Sends(h)
  PROVE  Memory!MemoryNext \/ UNCHANGED Memory!memoryVars
<1> DEFINE f == FreezeFront(h)
           gone == CarrierReads(h)
<1>1. h.l2 # <<>>
  <2>1. h.l2 \in Seq([group : Nat, reads : Seq(Lines \cup Reads), data : Versions])
        /\ h.ready \in Nat /\ h.ready <= Len(h.l2)
    BY DEF ReadHolds, ReadSideType, BufferHolds
  <2>2. h.l2 = <<>> => Len(h.l2) = 0
    OBVIOUS
  <2> QED BY <2>1, <2>2
<1>2. /\ Settled(f) /\ Owed(f) = Owed(home) /\ f.l2 = h.l2
      /\ f.frozen \/ Head(f.l2).group = 0
      /\ HeldIn(f) = HeldIn(home)
  BY <1>1, FreezeBooked
<1>3. ReadHolds(f, version)
  BY <1>1, FreezeFrontHolds
<1>4. CarrierReads(f) = gone
  BY <1>2 DEF CarrierReads
<1> HIDE DEF f
<1>5. Departs(f, SendCarrier(f)) /\ gone \subseteq Owed(home)
  BY <1>1, <1>2, <1>3, <1>4, SendBooked
<1>6. UNCHANGED <<sent, wrRsp, version>>
  BY DEF L2Blocked, L2Sends, ringVars, writeVars
<1>7. CASE L2Blocked(h)
  <2>1. home' = f /\ done' = done
    BY <1>7 DEF L2Blocked, f
  <2> QED BY <1>2, <1>6, <2>1 DEF Memory!memoryVars
<1>8. CASE L2Sends(h)
  <2>1. home' = SendCarrier(f) /\ done' = done \cup gone
    BY <1>8 DEF L2Sends, f
  <2>2. /\ HeldIn(home') = Staying(HeldIn(home), gone)
        /\ \A r \in gone : \E p \in HeldIn(home) : p[1] = r
    BY <1>2, <1>4, <1>5, <2>1 DEF Departs
  <2>3. gone \subseteq Reads
    BY <1>5 DEF BooksBalance
  <2> HIDE DEF gone
  <2>4. gone \subseteq Memory!ReadsOf(HeldIn(home))
    BY <2>2 DEF Memory!ReadsOf
  <2>5. HeldIn(home') = {p \in HeldIn(home) : p[1] \notin gone}
    BY <2>2 DEF Staying
  <2>6. Memory!AnswerReads(gone)
    BY <1>6, <2>1, <2>4, <2>5 DEF Memory!AnswerReads
  <2> QED BY <2>3, <2>6 DEF Memory!MemoryNext
<1> QED BY <1>7, <1>8

LEMMA L2ServiceAnswersReads ==
  ASSUME TargetInv, BooksBalance, L2Service
  PROVE  Memory!MemoryNext \/ UNCHANGED Memory!memoryVars
BY L2AnswersReads DEF L2Service, TargetInv, ReadSide, BooksBalance

LEMMA L2ReadyAnswersReads ==
  ASSUME TargetInv, BooksBalance, L2Ready
  PROVE  Memory!MemoryNext \/ UNCHANGED Memory!memoryVars
<1> DEFINE h == [home EXCEPT !.ready = @ + 1]
<1>1. home.ready < Len(home.l2) /\ (L2Blocked(h) \/ L2Sends(h))
  BY DEF L2Ready
<1>2. ReadHolds(home, version) /\ Settled(home)
  BY DEF TargetInv, ReadSide, BooksBalance
<1>3. ReadHolds(h, version) /\ h.ready # 0
  BY <1>1, <1>2, ReadyHolds
<1>4. Settled(h) /\ Owed(h) = Owed(home) /\ HeldIn(h) = HeldIn(home)
  BY <1>2, ReadyBooked
<1> HIDE DEF h
<1> QED BY <1>1, <1>3, <1>4, L2AnswersReads

(* The memory gives a read that bypasses the agent its data; that of a     *)
(* line is nobody's yet.                                                   *)
LEMMA MemReadTakes ==
  ASSUME TargetInv, BooksBalance, NEW c \in Ports, MemRead(c)
  PROVE  Memory!MemoryNext \/ UNCHANGED Memory!memoryVars
<1> DEFINE what == Head(home.toRd)
           line == IF what \in Reads THEN LineOf[what] ELSE what
           data == version[line]
           g == [home EXCEPT !.toRd = Tail(@),
                             !.rdRsp[c] = Append(@, [what |-> what,
                                                     data |-> version[line]])]
<1>1. home.toRd # <<>> /\ home' = g /\ UNCHANGED <<ringVars, writeVars, done>>
  BY DEF MemRead
<1>2. /\ version \in Contents /\ ReadHolds(home, version)
      /\ Settled(home)
  BY DEF TargetInv, OtherTypes, ReadSide, BooksBalance
<1>3. what \in Lines \cup Reads /\ Fetches(home, g, what, data)
  BY <1>1, <1>2, MemReadBooked
<1> HIDE DEF g
<1>4. UNCHANGED <<sent, wrRsp, version, done>>
  BY <1>1 DEF ringVars, writeVars
<1>5. line = IF what \in Reads THEN LineOf[what] ELSE what
  OBVIOUS
<1> HIDE DEF what, line
<1>6. CASE what \in Reads
  <2>1. PairOf([what |-> what, data |-> data]) = {<<what, data>>}
    BY <1>6 DEF PairOf
  <2>2. HeldIn(home') = HeldIn(home) \cup {<<what, version[LineOf[what]]>>}
    BY <1>1, <1>3, <1>5, <1>6, <2>1 DEF Fetches
  <2>3. what \in Owed(home) /\ \A p \in HeldIn(home) : p[1] # what
    BY <1>3, <1>6 DEF Fetches
  <2>4. version[LineOf[what]] \in VersionsOf(LineOf[what])
    <3>1. LineOf[what] \in Lines
      BY <1>6, HomeAssumption
    <3> QED BY <1>2, <3>1 DEF Contents, Current
  <2> QED BY <1>4, <2>2, <2>3, <2>4, MemoryTake
<1>7. CASE what \notin Reads
  <2>1. PairOf([what |-> what, data |-> data]) = {}
    BY <1>7 DEF PairOf
  <2>2. HeldIn(home') = HeldIn(home)
    BY <1>1, <1>3, <2>1 DEF Fetches
  <2> QED BY <1>4, <2>2 DEF Memory!memoryVars
<1> QED BY <1>6, <1>7

LEMMA ResetDrops ==
  ASSUME TargetInv, BooksBalance, Reset
  PROVE  Memory!MemoryNext
<1>1. /\ sent' = {} /\ wrRsp' = <<>> /\ done' = {} /\ version' = version
      /\ home' = [InitHome EXCEPT !.token = home.token, !.fault = home.fault,
                                  !.resets = home.resets + 1]
  BY DEF Reset
<1>2. home'.rdRsp = [c \in Ports |-> <<>>] /\ home'.l2 = <<>>
  BY <1>1 DEF InitHome
<1>3. HeldIn(home') = {}
  BY <1>2, NothingHeld
<1>4. ToSet(wrRsp') = {}
  BY <1>1 DEF ToSet
<1>5. Memory!Drop
  BY <1>1, <1>3, <1>4 DEF Memory!Drop
<1> QED BY <1>5 DEF Memory!MemoryNext

LEMMA MemoryStep ==
  TargetInv /\ BooksBalance /\ AnsweredOnce /\ [Next]_vars =>
    [Memory!MemoryNext]_Memory!memoryVars
<1> DEFINE Mapped == Memory!MemoryNext \/ UNCHANGED Memory!memoryVars
<1> SUFFICES ASSUME TargetInv, BooksBalance, AnsweredOnce, [Next]_vars
             PROVE  Mapped
  OBVIOUS
<1>1. ASSUME NEW t \in Reads \cup Writes, DeliverRequest(t) PROVE Mapped
  BY <1>1, DeliverRequestAsks
<1>2. CASE (\E w \in Writes : DeliverData(w)) \/ RecvRingDat
  BY <1>2 DEF DeliverData, RecvRingDat, writeVars, Memory!memoryVars
<1>3. CASE RecvRingReq
  BY <1>3, RecvRingReqUnseen
<1>4. CASE RecvWriteResponse
  BY <1>4, RecvWriteResponseAnswers
<1>5. CASE MemWrite
  BY <1>5, MemWriteWrites
<1>6. ASSUME NEW c \in Ports, MemRead(c) PROVE Mapped
  BY <1>6, MemReadTakes
<1>7. CASE L2Ready
  BY <1>7, L2ReadyAnswersReads
<1>8. CASE L2Service
  BY <1>8, L2ServiceAnswersReads
<1>9. CASE ServiceWrite
  BY <1>9 DEF ServiceWrite, ringVars, Memory!memoryVars
<1>10. CASE ServiceHomeAgent
  BY <1>10, ServiceHomeAgentTakes
<1>11. CASE Reset
  BY <1>11, ResetDrops
<1>12. CASE UNCHANGED vars
  BY <1>12 DEF vars, ringVars, writeVars, Memory!memoryVars
<1> HIDE DEF Mapped
<1> QED BY <1>1, <1>2, <1>3, <1>4, <1>5, <1>6, <1>7, <1>8, <1>9, <1>10, <1>11,
           <1>12 DEF Next, Process

LEMMA MemoryStart == Init => Memory!MemoryInit
<1> SUFFICES ASSUME Init PROVE Memory!MemoryInit
  OBVIOUS
<1>1. home.rdRsp = [c \in Ports |-> <<>>] /\ home.l2 = <<>>
  BY DEF Init, InitHome
<1>2. HeldIn(home) = {}
  BY <1>1, NothingHeld
<1>3. ToSet(wrRsp) = {}
  BY DEF Init, ToSet
<1> QED BY <1>2, <1>3 DEF Init, Memory!MemoryInit

(* The target is an atomic memory, which promises no more than some write  *)
(* of the line to reads of a line that writes run on into: every step of   *)
(* its processes is one that the memory takes, or none of its business.    *)
THEOREM TargetImplementsMemory == Spec => ImplementsMemory
<1> DEFINE Inv == TargetInv /\ BooksBalance /\ AnsweredOnce
<1>1. Init => Inv
  BY TargetInit, BooksInit, AnsweredInit
<1>2. Inv /\ [Next]_vars => Inv'
  BY TargetStep, BooksStep, AnsweredStep
<1>3. Init => Memory!MemoryInit
  BY MemoryStart
<1>4. Inv /\ [Next]_vars => [Memory!MemoryNext]_Memory!memoryVars
  BY MemoryStep
<1> HIDE DEF Inv
<1> QED BY <1>1, <1>2, <1>3, <1>4, PTL DEF Spec, ImplementsMemory, Memory!MemorySpec
=============================================================================
