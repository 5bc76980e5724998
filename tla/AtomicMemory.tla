---------------------------- MODULE AtomicMemory ----------------------------
(***************************************************************************)
(* What a target promises the masters, without agents, channels or         *)
(* buffers: a read has the data its line held at one moment between its    *)
(* request and its answer, a write takes effect at one moment between its  *)
(* request and its answer, and each is answered once.  A reset drops what  *)
(* is under way, but not what memory holds.  A line that a write runs on   *)
(* into from the one before is not guarded: a read of it alone has some    *)
(* write of the line, which need not be the last one.                      *)
(***************************************************************************)
EXTENDS Sequences

CONSTANTS Reads, Writes, Lines,
          LineOf,        \* line a transaction begins in
          Span,          \* all lines it covers
          Guarded,       \* lines in which all writes begin that cover them
          NoWrite        \* a line that was never written

VARIABLES asked,     \* transactions that have been requested
          taken,     \* <<read, data>> of reads with data, not answered yet
          written,   \* writes that have taken effect, not answered yet
          memory,    \* last write of each line
          answered   \* transactions that have been answered

memoryVars == <<asked, taken, written, memory, answered>>

MemoryInit ==
  /\ asked = {} /\ taken = {} /\ written = {} /\ answered = {}
  /\ memory = [x \in Lines |-> NoWrite]

ReadsOf(pairs) == {p[1] : p \in pairs}

Ask(t) ==
  /\ t \notin asked
  /\ asked' = asked \cup {t}
  /\ UNCHANGED <<taken, written, memory, answered>>

(* Reads that have what memory holds. *)
Exact(r) == LineOf[r] \in Guarded \/ Span[r] # {LineOf[r]}

Take(r) ==
  /\ r \in asked \ (answered \cup ReadsOf(taken))
  /\ \E data \in {w \in Writes : LineOf[r] \in Span[w]} \cup {NoWrite} :
       /\ Exact(r) => data = memory[LineOf[r]]
       /\ taken' = taken \cup {<<r, data>>}
  /\ UNCHANGED <<asked, written, memory, answered>>

Write(w) ==
  /\ w \in asked \ (answered \cup written)
  /\ memory' = [x \in Lines |-> IF x \in Span[w] THEN w ELSE memory[x]]
  /\ written' = written \cup {w}
  /\ UNCHANGED <<asked, taken, answered>>

(* The reads of one carrier are answered together. *)
AnswerReads(S) ==
  /\ S \subseteq ReadsOf(taken)
  /\ taken' = {p \in taken : p[1] \notin S}
  /\ answered' = answered \cup S
  /\ UNCHANGED <<asked, written, memory>>

AnswerWrite(w) ==
  /\ w \in written
  /\ written' = written \ {w}
  /\ answered' = answered \cup {w}
  /\ UNCHANGED <<asked, taken, memory>>

Drop ==
  /\ asked' = {} /\ taken' = {} /\ written' = {} /\ answered' = {}
  /\ UNCHANGED memory

MemoryNext ==
  \/ \E t \in Reads \cup Writes : Ask(t)
  \/ \E r \in Reads : Take(r)
  \/ \E w \in Writes : Write(w) \/ AnswerWrite(w)
  \/ \E S \in SUBSET Reads : AnswerReads(S)
  \/ Drop

MemorySpec == MemoryInit /\ [][MemoryNext]_memoryVars
=============================================================================
