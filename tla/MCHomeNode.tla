----------------------------- MODULE MCHomeNode -----------------------------
(* Small workloads for a target with two lines, la and then lb, and two or *)
(* three masters.                                                          *)
EXTENDS HomeNode

CONSTANTS r1, r2, r3, r4, w1, w2, la, lb

TwoLines == {la, lb}
Rings == [m \in 1 .. 3 |-> m % 2]

(* The lines of transactions that begin as given, those of which in S run  *)
(* on from la into lb.                                                     *)
SpanFrom(line, S) ==
  [t \in DOMAIN line |-> IF t \in S THEN TwoLines ELSE {line[t]}]

(* Two masters read line la and write it; the first also reads line lb, so *)
(* that two line reads are in flight, and across the end of line la, which *)
(* bypasses the Home Agent.  The write of the other also crosses it.       *)
SharedReads == {r1, r2, r3, r4}
SharedWrites == {w1, w2}
SharedLine == [t \in SharedReads \cup SharedWrites |-> IF t = r3 THEN lb ELSE la]
SharedSpan == SpanFrom(SharedLine, {r4, w2})
SharedMaster ==
  [t \in SharedReads \cup SharedWrites |-> IF t \in {r2, w2} THEN 2 ELSE 1]

(* A read of line la and one across its end, which bypasses the Home       *)
(* Agent; one write crosses it too, another is of line lb: while the first *)
(* is under way both reads are held back, and the address of the second    *)
(* may be behind them.                                                     *)
LiveReads == {r1, r2}
LiveWrites == {w1, w2}
LiveLine == [t \in LiveReads \cup LiveWrites |-> IF t = w2 THEN lb ELSE la]
LiveSpan == SpanFrom(LiveLine, {r2, w1})
LiveMaster ==
  [t \in LiveReads \cup LiveWrites |->
     IF t = r1 THEN 1 ELSE IF t = r2 THEN 2 ELSE 3]

(* Two masters write line la. *)
SameWrites == {w1, w2}
SameLine == [t \in SameWrites |-> la]
SameSpan == SpanFrom(SameLine, {})
SameMaster == [t \in SameWrites |-> IF t = w1 THEN 1 ELSE 2]

(* Two masters read line lb, which a write of the third runs on into.      *)
CrossReads == {r1, r2}
CrossWrites == {w1}
CrossLine == [t \in CrossReads \cup CrossWrites |-> IF t = w1 THEN la ELSE lb]
CrossSpan == SpanFrom(CrossLine, {w1})
CrossMaster ==
  [t \in CrossReads \cup CrossWrites |->
     IF t = r1 THEN 1 ELSE IF t = r2 THEN 2 ELSE 3]
=============================================================================
