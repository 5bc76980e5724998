---------------------------- MODULE RingTransport ----------------------------
(***************************************************************************)
(* What a ring promises its endpoints, without slots, tags, registers or   *)
(* links: a packet waits in its source's bank, is under way to each of its *)
(* destinations, and arrives at each of them once; a reset may drop        *)
(* everything.  In one turn a station starts at most one packet and ends   *)
(* at most one per direction.                                              *)
(***************************************************************************)
EXTENDS Naturals, Sequences

CONSTANTS Station, Dirs, Packets, InjectDepth, EjectDepth,
          Source(_),      \* station that sends a packet
          Destinations(_), \* stations it is for
          WaysOf(_),       \* directions it may travel in
          BankOf(_, _)     \* eject queue of a station for a direction

VARIABLES waiting,   \* inject banks, FIFO
          underway,  \* <<packet, destination, direction>> for all on the ring
          arrived    \* eject queues, FIFO

transportVars == <<waiting, underway, arrived>>

Entries(q) == {q[i] : i \in DOMAIN q}

Empty == /\ waiting = [d \in Dirs |-> [s \in Station |-> <<>>]]
         /\ underway = {}
         /\ arrived = [s \in Station |-> [b \in Dirs |-> <<>>]]

Known == {leg[1] : leg \in underway}
  \cup (UNION {Entries(waiting[d][s]) : d \in Dirs, s \in Station})
  \cup (UNION {Entries(arrived[s][b]) : b \in Dirs, s \in Station})

OfferPacket(p) ==
  LET s == Source(p)
  IN  /\ p \notin Known
      /\ \E d \in WaysOf(p) :
           /\ Len(waiting[d][s]) < InjectDepth
           /\ waiting' = [waiting EXCEPT ![d][s] = Append(@, p)]
      /\ UNCHANGED <<underway, arrived>>

(* At most the head of each bank of s starts, at most one packet per       *)
(* direction ends at s, and the eject queues take them in order.           *)
Ending(s, d) == {<<>>} \cup
  {<<leg[1]>> : leg \in {x \in underway : x[2] = s /\ x[3] = d}}

Turn(s) ==
  \E starts \in SUBSET {d \in Dirs : waiting[d][s] # <<>>},
     cw \in Ending(s, "CW"), ccw \in Ending(s, "CCW") :
    LET started == UNION {{<<Head(waiting[d][s]), t, d>> :
                             t \in Destinations(Head(waiting[d][s]))} :
                            d \in starts}
        ending == {<<p, s, "CW">> : p \in Entries(cw)} \cup
                  {<<p, s, "CCW">> : p \in Entries(ccw)}
        ended(b) == (IF BankOf(s, "CW") = b THEN cw ELSE <<>>)
                      \o (IF BankOf(s, "CCW") = b THEN ccw ELSE <<>>)
    IN  /\ waiting' = [d \in Dirs |->
             IF d \in starts THEN [waiting[d] EXCEPT ![s] = Tail(@)]
                             ELSE waiting[d]]
        /\ underway' = (underway \ ending) \cup started
        /\ arrived' = [arrived EXCEPT ![s] =
                         [b \in Dirs |-> arrived[s][b] \o ended(b)]]
        /\ \A b \in Dirs : Len(arrived'[s][b]) <= EjectDepth

ConsumePacket(s, b) ==
  /\ arrived[s][b] # <<>>
  /\ arrived' = [arrived EXCEPT ![s][b] = Tail(@)]
  /\ UNCHANGED <<waiting, underway>>

DropAll ==
  /\ waiting' = [d \in Dirs |-> [s \in Station |-> <<>>]]
  /\ underway' = {}
  /\ arrived' = [s \in Station |-> [b \in Dirs |-> <<>>]]

TransportNext ==
  \/ \E p \in Packets : OfferPacket(p)
  \/ \E s \in Station : Turn(s)
  \/ \E s \in Station, b \in Dirs : ConsumePacket(s, b)
  \/ DropAll

TransportSpec == Empty /\ [][TransportNext]_transportVars
=============================================================================
