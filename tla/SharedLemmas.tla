---------------------------- MODULE SharedLemmas -----------------------------
(* Facts about natural numbers, recursion and queues that the proof modules *)
(* share.                                                                  *)
EXTENDS Integers, Sequences, FiniteSetTheorems, WellFoundedInduction, TLAPS

(* Every nonempty set of naturals has a least element. *)
LEMMA LeastOf ==
  ASSUME NEW T \in SUBSET Nat, T # {}
  PROVE  \E x \in T : \A y \in T : x <= y
<1>1. PICK x \in T : \A y \in T : <<y, x>> \notin OpToRel(<, Nat)
  BY NatLessThanWellFounded, WFMin, Zenon
<1>2. \A y \in T : ~(y < x)
  BY <1>1 DEF OpToRel
<1> QED BY <1>2

(* The quotient of naturals. *)
LEMMA Quotient ==
  ASSUME NEW a \in Nat, NEW b \in Nat \ {0}
  PROVE  a \div b \in Nat /\ b * (a \div b) <= a /\ a < b * (a \div b) + b
OBVIOUS

(* The rest of a division. *)
LEMMA Rest ==
  ASSUME NEW a \in Nat, NEW b \in Nat \ {0}
  PROVE  a % b \in 0 .. b - 1 /\ a = b * (a \div b) + (a % b)
<1>1. ASSUME NEW m \in Int, NEW n \in Int, n > 0
      PROVE  m = n * (m \div n) + (m % n)
  BY <1>1
<1>2. a = b * (a \div b) + (a % b)
  BY <1>1
<1>3. a % b \in 0 .. b - 1
  OBVIOUS
<1> QED BY <1>2, <1>3

(* Multiples of different numbers are a whole multiplicand apart. *)
LEMMA Multiples ==
  ASSUME NEW a \in Nat, NEW b \in Nat, NEW n \in Nat, a < b
  PROVE  a * n \in Nat /\ b * n \in Nat /\ a * n + n <= b * n
OBVIOUS

(* The smaller multiple is that of the smaller number. *)
LEMMA Smaller ==
  ASSUME NEW a \in Nat, NEW b \in Nat, NEW n \in Nat, n * a < n * b
  PROVE  a < b
<1> SUFFICES ASSUME b <= a PROVE FALSE
  OBVIOUS
<1>1. n * b <= n * a
  OBVIOUS
<1> QED BY <1>1

(* The quotient is the only number between its bounds. *)
LEMMA QuotientIs ==
  ASSUME NEW a \in Nat, NEW b \in Nat \ {0}, NEW q \in Nat,
         b * q <= a, a < b * q + b
  PROVE  a \div b = q
<1> DEFINE d == a \div b
<1>1. d \in Nat /\ b * d <= a /\ a < b * d + b
  BY Quotient
<1> HIDE DEF d
<1>2. b * (q + 1) = b * q + b /\ b * (d + 1) = b * d + b
  BY <1>1
<1>3. b * q < b * (d + 1) /\ b * d < b * (q + 1)
  BY <1>1, <1>2
<1>4. q < d + 1 /\ d < q + 1
  <2>1. q + 1 \in Nat /\ d + 1 \in Nat
    BY <1>1
  <2> QED BY <1>1, <1>3, <2>1, Smaller
<1> QED BY <1>1, <1>4 DEF d

(* An interval of n numbers from zero. *)
LEMMA FromZero ==
  ASSUME NEW n \in Nat
  PROVE  IsFiniteSet(0 .. n - 1) /\ Cardinality(0 .. n - 1) = n
<1>1. 0 \in Int /\ n - 1 \in Int /\ (0 > n - 1 => n = 0)
  OBVIOUS
<1>2. /\ IsFiniteSet(0 .. n - 1)
      /\ Cardinality(0 .. n - 1) = IF 0 > n - 1 THEN 0 ELSE n - 1 - 0 + 1
  BY <1>1, FS_Interval, Zenon
<1> QED BY <1>1, <1>2

(* An interval of n numbers from one. *)
LEMMA FromOne ==
  ASSUME NEW n \in Nat
  PROVE  IsFiniteSet(1 .. n) /\ Cardinality(1 .. n) = n
<1>1. 1 \in Int /\ n \in Int /\ (1 > n => n = 0)
  OBVIOUS
<1>2. /\ IsFiniteSet(1 .. n)
      /\ Cardinality(1 .. n) = IF 1 > n THEN 0 ELSE n - 1 + 1
  BY <1>1, FS_Interval, Zenon
<1> QED BY <1>1, <1>2

-----------------------------------------------------------------------------
(* Recursion on the naturals *)

(* A set that holds zero and with a number the next one is all naturals. *)
LEMMA Counting ==
  ASSUME NEW P \in SUBSET Nat, 0 \in P, \A n \in P : n + 1 \in P
  PROVE  P = Nat
<1> SUFFICES ASSUME Nat \ P # {} PROVE FALSE
  OBVIOUS
<1>1. PICK m \in Nat \ P : \A n \in Nat \ P : m <= n
  <2>1. Nat \ P \in SUBSET Nat
    OBVIOUS
  <2> QED BY <2>1, LeastOf
<1>2. m # 0
  OBVIOUS
<1>3. m - 1 \in Nat /\ ~(m <= m - 1) /\ (m - 1) + 1 = m
  BY <1>2
<1>4. m - 1 \in P
  BY <1>1, <1>3
<1> QED BY <1>3, <1>4

(* The first n + 1 values of the sequence that starts with a and goes on   *)
(* with g.                                                                 *)
Chain(f, n, S, a, g) ==
  /\ f \in [0 .. n -> S] /\ f[0] = a
  /\ \A i \in 0 .. n - 1 : f[i + 1] = g[<<i, f[i]>>]

LEMMA ChainsAgree ==
  ASSUME NEW S, NEW a, NEW g, NEW n \in Nat, NEW m \in Nat, n <= m,
         NEW f, NEW h, Chain(f, n, S, a, g), Chain(h, m, S, a, g)
  PROVE  \A i \in 0 .. n : f[i] = h[i]
<1> DEFINE P == {i \in Nat : i <= n => f[i] = h[i]}
<1>1. 0 \in P
  BY DEF Chain
<1>2. ASSUME NEW i \in P PROVE i + 1 \in P
  <2> SUFFICES ASSUME i + 1 <= n PROVE f[i + 1] = h[i + 1]
    OBVIOUS
  <2>1. i \in 0 .. n - 1 /\ i \in 0 .. m - 1 /\ f[i] = h[i]
    OBVIOUS
  <2> QED BY <2>1 DEF Chain
<1>3. P \in SUBSET Nat
  OBVIOUS
<1> HIDE DEF P
<1>4. P = Nat
  BY <1>1, <1>2, <1>3, Counting
<1> QED BY <1>4 DEF P

LEMMA ChainsExist ==
  ASSUME NEW S, NEW a \in S, NEW g \in [Nat \X S -> S]
  PROVE  \A n \in Nat : \E f : Chain(f, n, S, a, g)
<1> DEFINE P == {n \in Nat : \E f : Chain(f, n, S, a, g)}
<1>1. 0 \in P
  <2>1. Chain([i \in 0 .. 0 |-> a], 0, S, a, g)
    BY DEF Chain
  <2> QED BY <2>1
<1>2. ASSUME NEW n \in P PROVE n + 1 \in P
  <2>1. PICK f : Chain(f, n, S, a, g)
    OBVIOUS
  <2> DEFINE h == [i \in 0 .. n + 1 |->
                     IF i = n + 1 THEN g[<<n, f[n]>>] ELSE f[i]]
  <2>2. n \in Nat /\ n \in 0 .. n /\ f \in [0 .. n -> S]
    BY <2>1 DEF Chain
  <2>3. <<n, f[n]>> \in Nat \X S
    BY <2>2
  <2>4. g[<<n, f[n]>>] \in S
    BY <2>3
  <2>5. \A i \in 0 .. n : i # n + 1 /\ i \in 0 .. n + 1 /\ h[i] = f[i]
    BY <2>2
  <2>6. h \in [0 .. n + 1 -> S]
    <3>1. \A i \in 0 .. n + 1 : i # n + 1 => i \in 0 .. n
      BY <2>2
    <3> QED BY <2>2, <2>4, <3>1
  <2>7. h[n + 1] = g[<<n, f[n]>>]
    BY <2>2
  <2> HIDE DEF h
  <2>8. ASSUME NEW i \in 0 .. (n + 1) - 1
        PROVE  h[i + 1] = g[<<i, h[i]>>]
    <3>1. i \in 0 .. n /\ h[i] = f[i]
      BY <2>2, <2>5
    <3>2. CASE i = n
      BY <2>7, <3>1, <3>2
    <3>3. CASE i # n
      <4>1. i \in 0 .. n - 1 /\ i + 1 \in 0 .. n
        BY <2>2, <3>1, <3>3
      <4>2. f[i + 1] = g[<<i, f[i]>>]
        BY <2>1, <4>1 DEF Chain
      <4> QED BY <2>5, <3>1, <4>1, <4>2
    <3> QED BY <3>2, <3>3
  <2>9. 0 \in 0 .. n /\ f[0] = a
    BY <2>1, <2>2 DEF Chain
  <2>10. h[0] = a
    BY <2>5, <2>9
  <2>11. Chain(h, n + 1, S, a, g)
    BY <2>6, <2>8, <2>10 DEF Chain
  <2> QED BY <2>2, <2>11
<1>3. P \in SUBSET Nat
  OBVIOUS
<1> HIDE DEF P
<1>4. P = Nat
  BY <1>1, <1>2, <1>3, Counting
<1> QED BY <1>4 DEF P

(* The whole sequence. *)
Follows(f, a, g) == f[0] = a /\ \A n \in Nat : f[n + 1] = g[<<n, f[n]>>]

(* What is defined by recursion is a function. *)
LEMMA Recursion ==
  ASSUME NEW S, NEW a \in S, NEW g \in [Nat \X S -> S]
  PROVE  \E f \in [Nat -> S] : Follows(f, a, g)
<1> DEFINE F(n) == CHOOSE f : Chain(f, n, S, a, g)
           W == [n \in Nat |-> F(n)[n]]
<1>1. ASSUME NEW n \in Nat PROVE Chain(F(n), n, S, a, g)
  BY ChainsExist
<1> HIDE DEF F
<1>2. ASSUME NEW n \in Nat PROVE F(n)[n] \in S
  <2>1. n \in 0 .. n
    OBVIOUS
  <2> QED BY <1>1, <2>1 DEF Chain
<1>3. W \in [Nat -> S]
  BY <1>2
<1>4. W[0] = a
  BY <1>1 DEF Chain
<1>5. ASSUME NEW n \in Nat PROVE W[n + 1] = g[<<n, W[n]>>]
  <2>1. n + 1 \in Nat /\ n <= n + 1 /\ n \in 0 .. n /\ n \in 0 .. (n + 1) - 1
    OBVIOUS
  <2>2. Chain(F(n), n, S, a, g) /\ Chain(F(n + 1), n + 1, S, a, g)
    BY <1>1, <2>1
  <2>3. F(n)[n] = F(n + 1)[n]
    BY <2>1, <2>2, ChainsAgree
  <2>4. F(n + 1)[n + 1] = g[<<n, F(n + 1)[n]>>]
    BY <2>1, <2>2 DEF Chain
  <2> QED BY <2>1, <2>3, <2>4
<1> HIDE DEF W
<1> QED BY <1>3, <1>4, <1>5 DEF Follows

-----------------------------------------------------------------------------
(* Queues *)

(* The elements of a queue that are in K. *)
In(s, K) == {s[k] : k \in DOMAIN s} \cap K

(* None of them is there twice. *)
Once(s, K) == \A i, j \in DOMAIN s : s[i] \in K /\ s[i] = s[j] => i = j

(* A queue that is popped. *)
LEMMA TailOnce ==
  ASSUME NEW S, NEW s \in Seq(S), s # <<>>, NEW K, Once(s, K)
  PROVE  /\ Head(s) \in S /\ Tail(s) \in Seq(S)
         /\ Once(Tail(s), K)
         /\ In(Tail(s), K) = In(s, K) \ {Head(s)}
         /\ Head(s) \in K => Head(s) \in In(s, K)
<1> DEFINE t == Tail(s)
           n == Len(s)
<1>1. /\ t \in Seq(S) /\ n \in Nat /\ n > 0 /\ DOMAIN s = 1 .. n
      /\ DOMAIN t = 1 .. n - 1 /\ Head(s) = s[1] /\ Head(s) \in S
  OBVIOUS
<1>2. \A i \in 1 .. n - 1 : t[i] = s[i + 1]
  OBVIOUS
<1> HIDE DEF t, n
<1>3. Once(t, K)
  <2> SUFFICES ASSUME NEW i \in DOMAIN t, NEW j \in DOMAIN t,
                      t[i] \in K, t[i] = t[j]
               PROVE  i = j
    BY DEF Once
  <2>1. /\ i + 1 \in DOMAIN s /\ j + 1 \in DOMAIN s
        /\ t[i] = s[i + 1] /\ t[j] = s[j + 1] /\ i \in Nat /\ j \in Nat
    BY <1>1, <1>2
  <2>2. i + 1 = j + 1
    BY <2>1 DEF Once
  <2> QED BY <2>1, <2>2
<1>4. ASSUME NEW x \in In(t, K)
      PROVE  x \in In(s, K) \ {Head(s)}
  <2>1. PICK i \in DOMAIN t : x = t[i]
    BY <1>4 DEF In
  <2>2. i + 1 \in DOMAIN s /\ 1 \in DOMAIN s /\ x = s[i + 1] /\ i + 1 # 1
    BY <1>1, <1>2, <2>1
  <2>3. x \in K
    BY <1>4 DEF In
  <2>4. x # s[1]
    BY <2>2, <2>3 DEF Once
  <2> QED BY <1>1, <2>2, <2>3, <2>4 DEF In
<1>5. ASSUME NEW x \in In(s, K), x # Head(s)
      PROVE  x \in In(t, K)
  <2>1. PICK i \in DOMAIN s : x = s[i]
    BY <1>5 DEF In
  <2>2. i # 1 /\ i \in 1 .. n
    BY <1>1, <1>5, <2>1
  <2>3. i - 1 \in DOMAIN t /\ (i - 1) + 1 = i
    BY <1>1, <2>2
  <2>4. t[i - 1] = s[i]
    BY <1>1, <1>2, <2>3
  <2> QED BY <1>5, <2>1, <2>3, <2>4 DEF In
<1>6. Head(s) \in K => Head(s) \in In(s, K)
  BY <1>1 DEF In
<1> QED BY <1>1, <1>3, <1>4, <1>5, <1>6 DEF t

(* A queue that is pushed. *)
LEMMA AppendOnce ==
  ASSUME NEW S, NEW s \in Seq(S), NEW x \in S, NEW K, Once(s, K),
         x \notin In(s, K)
  PROVE  /\ Append(s, x) \in Seq(S)
         /\ Once(Append(s, x), K)
         /\ In(Append(s, x), K) = In(s, K) \cup ({x} \cap K)
<1> DEFINE t == Append(s, x)
           n == Len(s) + 1
<1>1. /\ t \in Seq(S) /\ n \in Nat /\ n > 0 /\ DOMAIN s = 1 .. n - 1
      /\ DOMAIN t = 1 .. n /\ t[n] = x
  OBVIOUS
<1>2. \A i \in 1 .. n - 1 : t[i] = s[i]
  OBVIOUS
<1> HIDE DEF t, n
<1>3. \A i \in DOMAIN t : i = n \/ (i \in DOMAIN s /\ t[i] = s[i])
  BY <1>1, <1>2
<1>4. \A i \in DOMAIN s : i \in DOMAIN t /\ t[i] = s[i]
  BY <1>1, <1>2
<1>5. n \in DOMAIN t
  BY <1>1
<1>6. Once(t, K)
  <2> SUFFICES ASSUME NEW i \in DOMAIN t, NEW j \in DOMAIN t,
                      t[i] \in K, t[i] = t[j]
               PROVE  i = j
    BY DEF Once
  <2>1. \A k \in DOMAIN s : s[k] = x => x \notin K
    BY DEF In
  <2> QED BY <1>1, <1>3, <2>1 DEF Once
<1>7. \A y : y \in In(t, K) <=> y \in In(s, K) \cup ({x} \cap K)
  BY <1>1, <1>3, <1>4, <1>5 DEF In
<1> QED BY <1>1, <1>6, <1>7 DEF t
=============================================================================
