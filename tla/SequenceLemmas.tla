---------------------------- MODULE SequenceLemmas ----------------------------
(***************************************************************************)
(* What the proofs about sequences rest on: induction and recursion over   *)
(* the natural numbers, stated for sets and functions instead of for       *)
(* operators, and facts about prefixes.                                    *)
(***************************************************************************)
EXTENDS SequencesExt, Integers, SequenceTheorems, WellFoundedInduction, TLAPS

-----------------------------------------------------------------------------
(***************************************************************************)
(* Natural numbers.                                                        *)
(***************************************************************************)
LEMMA LeastNat ==
  ASSUME NEW T \in SUBSET Nat, T # {}
  PROVE  \E n \in T : \A m \in T : n <= m
<1> DEFINE R == {ss \in Nat \X Nat : ss[1] < ss[2]}
<1>0. IsWellFoundedOn(R, Nat)
  BY NatLessThanWellFounded DEF OpToRel
<1>1. \E x \in T : \A y \in T : ~(<<y, x>> \in R)
  <2> HIDE DEF R
  <2> QED BY <1>0, WFMin
<1>2. \A x, y \in Nat : y < x => <<y, x>> \in R
  OBVIOUS
<1> HIDE DEF R
<1>3. PICK n \in T : \A y \in T : ~(<<y, n>> \in R)
  BY <1>1
<1>4. \A m \in T : ~(m < n)
  BY <1>2, <1>3
<1> QED
  BY <1>4

LEMMA SetInduction ==
  ASSUME NEW T, 0 \in T, \A n \in Nat : n \in T => n + 1 \in T
  PROVE  Nat \subseteq T
<1> SUFFICES ASSUME Nat \ T # {} PROVE FALSE
  OBVIOUS
<1>1. PICK n \in Nat \ T : \A m \in Nat \ T : n <= m
  BY LeastNat
<1>2. n # 0
  OBVIOUS
<1>3. n - 1 \in Nat /\ n-1 \notin Nat \ T
  BY <1>1, <1>2
<1> QED BY <1>1, <1>3

(* A function given by its first value and its steps exists. *)
Steps(n, S, base, step) == n \in Nat /\ base \in S /\ step \in [1..n -> [S -> S]]

Recursive(n, S, base, step) ==
  \E f \in [0..n -> S] : f[0] = base /\ \A i \in 1..n : f[i] = step[i][f[i - 1]]

LEMMA Recursion ==
  ASSUME NEW n, NEW S, NEW base, NEW step, Steps(n, S, base, step)
  PROVE  Recursive(n, S, base, step)
<1> USE DEF Steps
<1> DEFINE Upto(m, f) == f[0] = base /\ \A i \in 1..m : f[i] = step[i][f[i - 1]]
           T == {m \in Nat : m <= n => \E f \in [0..m -> S] : Upto(m, f)}
<1>1. 0 \in T
  <2>1. Upto(0, [i \in 0..0 |-> base])
    OBVIOUS
  <2> QED
    BY <2>1
<1>2. ASSUME NEW m \in Nat, m \in T PROVE m + 1 \in T
  <2> SUFFICES ASSUME m + 1 <= n PROVE \E f \in [0..m + 1 -> S] : Upto(m + 1, f)
    OBVIOUS
  <2>1. PICK f \in [0..m -> S] : Upto(m, f)
    BY <1>2
  <2> DEFINE g == [i \in 0..m + 1 |-> IF i <= m THEN f[i] ELSE step[m + 1][f[m]]]
  <2>2. g \in [0..m + 1 -> S]
    OBVIOUS
  <2>3. g[0] = base
    BY <2>1
  <2>4. ASSUME NEW i \in 1..m + 1 PROVE g[i] = step[i][g[i - 1]]
    <3>1. i \in 0..m + 1 /\ i - 1 \in 0..m
      OBVIOUS
    <3>2. CASE i <= m
      BY <2>1, <3>1, <3>2
    <3>3. CASE i = m + 1
      <4>1. g[m] = f[m] /\ i - 1 = m
        BY <3>3
      <4>2. g[m + 1] = step[m + 1][f[m]]
        OBVIOUS
      <4> QED
        BY <3>3, <4>1, <4>2
    <3> QED
      BY <3>2, <3>3
  <2>5. Upto(m + 1, g)
    BY <2>3, <2>4
  <2> HIDE DEF g
  <2> QED
    BY <2>2, <2>5
<1> HIDE DEF T
<1>3. Nat \subseteq T
  BY <1>1, <1>2, SetInduction
<1>4. n \in T
  BY <1>3
<1> QED
  BY <1>4 DEF T, Recursive

LEMMA RunningSum ==
  ASSUME NEW n \in Nat, NEW c \in [1..n -> Nat]
  PROVE  \E f \in [0..n -> Nat] : f[0] = 0 /\ \A i \in 1..n : f[i] = f[i - 1] + c[i]
<1> DEFINE step == [i \in 1..n |-> [v \in Nat |-> v + c[i]]]
<1>1. step \in [1..n -> [Nat -> Nat]] /\ \A i \in 1..n, v \in Nat : step[i][v] = v + c[i]
  OBVIOUS
<1>2. Steps(n, Nat, 0, step)
  BY <1>1 DEF Steps
<1> HIDE DEF step
<1>3. Recursive(n, Nat, 0, step)
  BY <1>2, Recursion
<1>4. PICK f \in [0..n -> Nat] : f[0] = 0 /\ \A i \in 1..n : f[i] = step[i][f[i - 1]]
  BY <1>3 DEF Recursive
<1>5. ASSUME NEW i \in 1..n PROVE f[i] = f[i - 1] + c[i]
  <2>1. f[i - 1] \in Nat
    OBVIOUS
  <2> QED
    BY <1>1, <1>4, <2>1
<1> QED
  BY <1>4, <1>5

-----------------------------------------------------------------------------
(***************************************************************************)
(* Prefixes.                                                               *)
(***************************************************************************)
LEMMA PrefixMeans ==
  ASSUME NEW S, NEW p \in Seq(S), NEW q \in Seq(S)
  PROVE  IsPrefix(p, q) <=>
           Len(p) <= Len(q) /\ \A i \in 1..Len(p) : p[i] = q[i]
<1> DEFINE n == Len(p)  a == SubSeq(p, 1, n)  b == SubSeq(q, 1, n)
<1>1. n \in Nat /\ Len(q) \in Nat
  BY LenProperties
<1>2. \A i \in 1..n : p[i] \in S
  BY ElementOfSeq
<1>3. a \in Seq(S) /\ Len(a) = n /\ \A i \in 1..n : a[i] = p[i]
  <2>1. /\ a \in Seq(S) /\ Len(a) = IF 1 <= n THEN n - 1 + 1 ELSE 0
        /\ \A i \in 1..(n - 1 + 1) : a[i] = p[1 + i - 1]
    BY <1>1, <1>2, SubSeqProperties
  <2> QED
    BY <1>1, <2>1
<1>4. ASSUME n <= Len(q)
      PROVE  b \in Seq(S) /\ Len(b) = n /\ \A i \in 1..n : b[i] = q[i]
  <2>1. \A i \in 1..n : q[i] \in S
    BY <1>1, <1>4, ElementOfSeq
  <2>2. /\ b \in Seq(S) /\ Len(b) = IF 1 <= n THEN n - 1 + 1 ELSE 0
        /\ \A i \in 1..(n - 1 + 1) : b[i] = q[1 + i - 1]
    BY <1>1, <2>1, SubSeqProperties
  <2> QED
    BY <1>1, <2>2
<1>5. IsPrefix(p, q) <=> n <= Len(q) /\ a = b
  BY DEF IsPrefix
<1> HIDE DEF n, a, b
<1>6. ASSUME n <= Len(q)
      PROVE  a = b <=> \A i \in 1..n : p[i] = q[i]
  <2>1. ASSUME \A i \in 1..n : p[i] = q[i] PROVE a = b
    BY <1>3, <1>4, <1>6, <2>1, SeqEqual
  <2> QED
    BY <1>3, <1>4, <1>6, <2>1
<1> QED
  BY <1>5, <1>6 DEF n

LEMMA PrefixOfItself ==
  ASSUME NEW S, NEW q \in Seq(S)
  PROVE  IsPrefix(q, q)
  BY PrefixMeans, LenProperties

LEMMA PrefixOfAppend ==
  ASSUME NEW S, NEW p \in Seq(S), NEW q \in Seq(S), NEW e \in S, IsPrefix(p, q)
  PROVE  IsPrefix(p, Append(q, e))
<1>1. Len(p) \in Nat /\ Len(q) \in Nat
  BY LenProperties
<1>2. /\ Append(q, e) \in Seq(S) /\ Len(Append(q, e)) = Len(q) + 1
      /\ \A i \in 1..Len(q) : Append(q, e)[i] = q[i]
  BY AppendProperties
<1>3. Len(p) <= Len(q) /\ \A i \in 1..Len(p) : p[i] = q[i]
  BY PrefixMeans
<1>4. Len(p) <= Len(Append(q, e)) /\ \A i \in 1..Len(p) : p[i] = Append(q, e)[i]
  BY <1>1, <1>2, <1>3
<1> QED
  BY <1>2, <1>4, PrefixMeans

(* What lies past a prefix completes it. *)
LEMMA PrefixCompleted ==
  ASSUME NEW S, NEW p \in Seq(S), NEW q \in Seq(S), IsPrefix(p, q)
  PROVE  q = p \o SubSeq(q, Len(p) + 1, Len(q))
<1> DEFINE m == Len(p)  n == Len(q)  r == SubSeq(q, m + 1, n)
<1>1. m \in Nat /\ n \in Nat
  BY LenProperties
<1>2. m <= n /\ \A i \in 1..m : p[i] = q[i]
  BY PrefixMeans
<1>3. \A i \in m + 1 .. n : q[i] \in S
  BY <1>1, ElementOfSeq
<1>4. /\ r \in Seq(S) /\ Len(r) = IF m + 1 <= n THEN n - (m + 1) + 1 ELSE 0
      /\ \A i \in 1 .. n - (m + 1) + 1 : r[i] = q[m + 1 + i - 1]
  BY <1>1, <1>3, SubSeqProperties
<1>5. Len(r) = n - m /\ \A i \in 1 .. n - m : r[i] = q[m + i]
  BY <1>1, <1>2, <1>4
<1>6. /\ p \o r \in Seq(S) /\ Len(p \o r) = m + Len(r)
      /\ \A i \in 1 .. m + Len(r) : (p \o r)[i] = IF i <= m THEN p[i] ELSE r[i - m]
  BY <1>4, ConcatProperties
<1> HIDE DEF m, n, r
<1>7. Len(p \o r) = n
  BY <1>1, <1>5, <1>6
<1>8. \A i \in 1..n : (p \o r)[i] = q[i]
  <2> SUFFICES ASSUME NEW i \in 1..n PROVE (p \o r)[i] = q[i]
    OBVIOUS
  <2>1. i \in Nat /\ 1 <= i /\ i <= n
    BY <1>1
  <2>2. CASE i <= m
    BY <1>1, <1>2, <1>5, <1>6, <2>1, <2>2
  <2>3. CASE m < i
    BY <1>1, <1>2, <1>5, <1>6, <2>1, <2>3
  <2>4. i <= m \/ m < i
    BY <1>1, <2>1
  <2> QED
    BY <2>2, <2>3, <2>4
<1> QED
  BY <1>6, <1>7, <1>8, SeqEqual DEF m, n, r

(* The head of what is left moves behind what is there. *)
LEMMA HeadMoves ==
  ASSUME NEW S, NEW p \in Seq(S), NEW q \in Seq(S), q # <<>>
  PROVE  p \o q = Append(p, Head(q)) \o Tail(q)
<1>1. Head(q) \in S /\ Tail(q) \in Seq(S) /\ Len(Tail(q)) = Len(q) - 1
      /\ \A i \in 1..Len(Tail(q)) : Tail(q)[i] = q[i + 1]
  BY HeadTailProperties
<1>2. <<Head(q)>> \in Seq(S) /\ Append(p, Head(q)) = p \o <<Head(q)>>
  BY <1>1, AppendIsConcat
<1>3. q = <<Head(q)>> \o Tail(q)
  OBVIOUS
<1>4. (p \o <<Head(q)>>) \o Tail(q) = p \o (<<Head(q)>> \o Tail(q))
  BY <1>1, <1>2, ConcatAssociative
<1> QED
  BY <1>2, <1>3, <1>4

-----------------------------------------------------------------------------
(***************************************************************************)
(* Last elements, and sequences of sequences.                              *)
(***************************************************************************)
LEMMA GreatestNat ==
  ASSUME NEW n \in Nat, NEW T \in SUBSET (1..n), T # {}
  PROVE  Max(T) \in T /\ \A m \in T : m <= Max(T)
<1> DEFINE D == {n - i : i \in T}
<1>1. D \in SUBSET Nat /\ D # {}
  OBVIOUS
<1>2. PICK d \in D : \A e \in D : d <= e
  BY <1>1, LeastNat
<1>3. PICK i \in T : d = n - i
  BY <1>2
<1>4. \A m \in T : n - m \in D
  OBVIOUS
<1>5. \A m \in T : i >= m
  BY <1>2, <1>3, <1>4
<1>6. Max(T) \in T /\ \A m \in T : Max(T) >= m
  BY <1>3, <1>5 DEF Max
<1> HIDE DEF D
<1> QED
  BY <1>6

LEMMA FrontOfAppend ==
  ASSUME NEW S, NEW q \in Seq(S), NEW e \in S
  PROVE  Front(Append(q, e)) = q /\ Last(Append(q, e)) = e
<1> DEFINE n == Len(q)  a == Append(q, e)  f == SubSeq(a, 1, n)
<1>1. /\ n \in Nat /\ a \in Seq(S) /\ Len(a) = n + 1 /\ a[n + 1] = e
      /\ \A i \in 1..n : a[i] = q[i] /\ q[i] \in S
  BY LenProperties, ElementOfSeq, AppendProperties
<1> HIDE DEF n, a
<1>2. /\ f \in Seq(S) /\ Len(f) = IF 1 <= n THEN n - 1 + 1 ELSE 0
      /\ \A i \in 1..n - 1 + 1 : f[i] = a[1 + i - 1]
  BY <1>1, SubSeqProperties
<1>3. Len(f) = n /\ \A i \in 1..n : f[i] = q[i]
  BY <1>1, <1>2
<1> HIDE DEF f
<1>4. f = q
  BY <1>2, <1>3, SeqEqual DEF n
<1>5. Front(a) = f /\ Last(a) = a[n + 1]
  BY <1>1 DEF Front, Last, f
<1> QED
  BY <1>1, <1>4, <1>5 DEF a

LEMMA HeadOfAppend ==
  ASSUME NEW S, NEW q \in Seq(S), NEW e \in S, q # <<>>
  PROVE  Head(Append(q, e)) = Head(q) /\ Tail(Append(q, e)) = Append(Tail(q), e)
<1> DEFINE n == Len(q)  a == Append(q, e)  t == Tail(a)  u == Append(Tail(q), e)
<1>1. n \in Nat /\ n # 0 /\ \A i \in 1..n : q[i] \in S
  BY EmptySeq, LenProperties, ElementOfSeq
<1>2. /\ a \in Seq(S) /\ a # <<>> /\ Len(a) = n + 1 /\ a[n + 1] = e
      /\ \A i \in 1..n : a[i] = q[i]
  BY AppendProperties
<1>3. /\ Tail(q) \in Seq(S) /\ Len(Tail(q)) = n - 1
      /\ \A i \in 1..n - 1 : Tail(q)[i] = q[i + 1]
  BY HeadTailProperties
<1>4. /\ u \in Seq(S) /\ Len(u) = n - 1 + 1 /\ u[n - 1 + 1] = e
      /\ \A i \in 1..n - 1 : u[i] = Tail(q)[i]
  BY <1>3, AppendProperties
<1>5. Head(a) = a[1] /\ Head(q) = q[1]
  BY <1>1, <1>2
<1> HIDE DEF a, u, n
<1>6. t \in Seq(S) /\ Len(t) = n + 1 - 1 /\ \A i \in 1..n + 1 - 1 : t[i] = a[i + 1]
  <2>1. t \in Seq(S) /\ Len(t) = Len(a) - 1 /\ \A i \in 1..Len(t) : t[i] = a[i + 1]
    <3> HIDE DEF t
    <3>1. \A b \in Seq(S) : b # <<>> =>
            /\ Tail(b) \in Seq(S) /\ Len(Tail(b)) = Len(b) - 1
            /\ \A i \in 1..Len(Tail(b)) : Tail(b)[i] = b[i + 1]
      BY HeadTailProperties
    <3> QED
      BY <1>2, <3>1, Zenon DEF t
  <2> HIDE DEF t
  <2>2. Len(a) = n + 1 /\ Len(t) = Len(a) - 1
    BY <1>2, <2>1
  <2>3. Len(t) = n + 1 - 1
    BY <1>1, <2>2
  <2> QED
    BY <2>1, <2>3, Zenon
<1> HIDE DEF t
<1>7. Len(t) = n /\ Len(u) = n
  BY <1>1, <1>4, <1>6
<1>8. ASSUME NEW i \in 1..n PROVE t[i] = u[i]
  <2>1. i \in 1..n - 1 \/ i = n
    BY <1>1
  <2>2. CASE i \in 1..n - 1
    <3>1. i + 1 \in 1..n /\ i \in 1..n + 1 - 1
      BY <1>1, <2>2
    <3> QED
      BY <1>2, <1>3, <1>4, <1>6, <2>2, <3>1
  <2>3. CASE i = n
    <3>1. n \in 1..n + 1 - 1 /\ n - 1 + 1 = n
      BY <1>1
    <3> QED
      BY <1>2, <1>4, <1>6, <2>3, <3>1
  <2> QED
    BY <2>1, <2>2, <2>3
<1>9. t = u
  BY <1>4, <1>6, <1>7, <1>8, SeqEqual
<1>10. 1 \in 1..n
  BY <1>1
<1> QED
  BY <1>2, <1>5, <1>9, <1>10 DEF a, t, u

LEMMA AppendToConcat ==
  ASSUME NEW S, NEW p \in Seq(S), NEW q \in Seq(S), NEW e \in S
  PROVE  Append(p \o q, e) = p \o Append(q, e)
<1>1. <<e>> \in Seq(S) /\ p \o q \in Seq(S)
  BY ConcatProperties
<1>2. (p \o q) \o <<e>> = p \o (q \o <<e>>)
  BY <1>1, ConcatAssociative
<1> QED
  BY <1>1, <1>2, AppendIsConcat

(* Concatenation, under a name the provers leave alone. *)
Cat(p, q) == p \o q

Joined(S, ss, f) ==
  /\ f \in [0..Len(ss) -> Seq(S)]
  /\ f[0] = <<>> /\ \A i \in 1..Len(ss) : f[i] = Cat(f[i - 1], ss[i])

LEMMA FlattenJoins ==
  ASSUME NEW S, NEW ss \in Seq(Seq(S))
  PROVE  \E f : Joined(S, ss, f) /\ FlattenSeq(ss) = f[Len(ss)]
<1> DEFINE n == Len(ss)  Q == Seq(S)  none == <<>>
           step == [i \in 1..n |-> [q \in Q |-> Cat(q, ss[i])]]
           F(h) == [i \in 1..n |-> IF i = 1 THEN ss[i] ELSE Cat(h[i - 1], ss[i])]
<1>1. n \in Nat /\ none \in Q /\ \A i \in 1..n : ss[i] \in Q
  BY LenProperties, ElementOfSeq, EmptySeq
<1>2. \A p, q \in Q : Cat(p, q) \in Q
  BY ConcatProperties DEF Cat
<1>3. \A q \in Q : Cat(none, q) = q
  BY ConcatEmptySeq DEF Cat
<1> HIDE DEF n, Q, none, F
<1>4. step \in [1..n -> [Q -> Q]] /\ \A i \in 1..n, q \in Q : step[i][q] = Cat(q, ss[i])
  BY <1>1, <1>2
<1> HIDE DEF step
<1>5. Steps(n, Q, none, step)
  BY <1>1, <1>4 DEF Steps
<1>6. Recursive(n, Q, none, step)
  BY <1>5, Recursion
<1>7. PICK f \in [0..n -> Q] : f[0] = none /\ \A i \in 1..n : f[i] = step[i][f[i - 1]]
  BY <1>6 DEF Recursive
<1>8. \A i \in 1..n : i - 1 \in 0..n /\ f[i - 1] \in Q
  BY <1>1
<1>9. \A i \in 1..n : f[i] = Cat(f[i - 1], ss[i])
  BY <1>4, <1>7, <1>8
<1>10. Joined(S, ss, f)
  BY <1>7, <1>9 DEF Joined, n, Q, none
<1>11. CASE n = 0
  <2>1. ss = <<>>
    BY <1>11 DEF n
  <2>2. FlattenSeq(ss) = f[n]
    BY <1>7, <1>11, <2>1 DEF FlattenSeq, n, none
  <2> QED
    BY <1>10, <2>2 DEF n
<1>12. CASE n # 0
  <2> DEFINE h == [i \in 1..n |-> f[i]]
             g == CHOOSE e : e = F(e)
  <2>1. \A i \in 1..n : h[i] = IF i = 1 THEN ss[i] ELSE Cat(h[i - 1], ss[i])
    <3> SUFFICES ASSUME NEW i \in 1..n
                 PROVE  h[i] = IF i = 1 THEN ss[i] ELSE Cat(h[i - 1], ss[i])
      OBVIOUS
    <3>1. CASE i = 1
      BY <1>1, <1>3, <1>7, <1>9, <3>1
    <3>2. CASE i # 1
      BY <1>1, <1>9, <3>2
    <3> QED
      BY <3>1, <3>2
  <2> HIDE DEF h
  <2>2. h = F(h)
    BY <2>1 DEF F, h
  <2>3. g = F(g)
    BY <2>2
  <2>4. FlattenSeq(ss) = g[n]
    BY <1>12 DEF FlattenSeq, n, F, Cat
  <2> HIDE DEF g
  <2>5. \A i \in 1..n : g[i] = IF i = 1 THEN ss[i] ELSE Cat(g[i - 1], ss[i])
    BY <2>3 DEF F
  <2> DEFINE T == {i \in Nat : i + 1 <= n => g[i + 1] = f[i + 1]}
  <2>6. 0 \in T
    <3>1. 1 \in 1..n
      BY <1>1, <1>12
    <3>2. g[1] = ss[1]
      BY <2>5, <3>1
    <3>3. f[1] = Cat(f[0], ss[1])
      BY <1>9, <3>1
    <3>4. Cat(none, ss[1]) = ss[1]
      BY <1>1, <1>3, <3>1
    <3> QED
      BY <1>7, <3>2, <3>3, <3>4
  <2>7. ASSUME NEW i \in Nat, i \in T PROVE i + 1 \in T
    <3> SUFFICES ASSUME i + 1 + 1 <= n PROVE g[i + 1 + 1] = f[i + 1 + 1]
      OBVIOUS
    <3>1. i + 1 + 1 \in 1..n /\ i + 1 + 1 # 1 /\ i + 1 + 1 - 1 = i + 1 /\ g[i + 1] = f[i + 1]
      BY <1>1, <2>7
    <3> HIDE DEF T
    <3> QED
      BY <1>9, <2>5, <3>1
  <2> HIDE DEF T
  <2>8. Nat \subseteq T
    BY <2>6, <2>7, SetInduction
  <2>9. n - 1 \in T
    BY <1>1, <1>12, <2>8
  <2>10. g[n] = f[n]
    BY <1>1, <2>9 DEF T
  <2> QED
    BY <1>10, <2>4, <2>10 DEF n
<1> QED
  BY <1>11, <1>12

LEMMA FlattenAppend ==
  ASSUME NEW S, NEW ss \in Seq(Seq(S)), NEW q \in Seq(S)
  PROVE  FlattenSeq(ss) \in Seq(S) /\ FlattenSeq(Append(ss, q)) = FlattenSeq(ss) \o q
<1> DEFINE n == Len(ss)  more == Append(ss, q)
<1>1. /\ n \in Nat /\ more \in Seq(Seq(S)) /\ Len(more) = n + 1
      /\ more[n + 1] = q /\ \A i \in 1..n : more[i] = ss[i]
  BY LenProperties, AppendProperties
<1> HIDE DEF more
<1>2. PICK f : Joined(S, ss, f) /\ FlattenSeq(ss) = f[n]
  BY FlattenJoins
<1>3. PICK g : Joined(S, more, g) /\ FlattenSeq(more) = g[n + 1]
  BY <1>1, FlattenJoins
<1>4. f[0] = <<>> /\ \A i \in 1..n : f[i] = Cat(f[i - 1], ss[i])
  BY <1>2 DEF Joined
<1>5. g[0] = <<>> /\ \A i \in 1..n + 1 : g[i] = Cat(g[i - 1], more[i])
  BY <1>1, <1>3 DEF Joined
<1>6. f[n] \in Seq(S)
  <2>1. f \in [0..n -> Seq(S)]
    BY <1>2 DEF Joined
  <2>2. n \in 0..n
    BY <1>1
  <2> HIDE DEF n
  <2> QED
    BY <2>1, <2>2
<1> HIDE DEF n
<1> DEFINE T == {i \in Nat : i <= n => g[i] = f[i]}
<1>7. 0 \in T
  BY <1>4, <1>5
<1>8. ASSUME NEW i \in Nat, i \in T PROVE i + 1 \in T
  <2> SUFFICES ASSUME i + 1 <= n PROVE g[i + 1] = f[i + 1]
    OBVIOUS
  <2>1. i + 1 \in 1..n /\ i + 1 \in 1..n + 1 /\ i + 1 - 1 = i /\ g[i] = f[i]
    BY <1>1, <1>8
  <2> HIDE DEF T
  <2>2. more[i + 1] = ss[i + 1]
    BY <1>1, <2>1
  <2> QED
    BY <1>4, <1>5, <2>1, <2>2
<1> HIDE DEF T
<1>9. Nat \subseteq T
  BY <1>7, <1>8, SetInduction
<1>10. g[n] = f[n]
  <2>1. n \in T
    BY <1>1, <1>9
  <2> QED
    BY <1>1, <2>1 DEF T
<1>11. n + 1 \in 1..n + 1 /\ n + 1 - 1 = n
  BY <1>1
<1>12. g[n + 1] = Cat(g[n], q)
  BY <1>1, <1>5, <1>11
<1> QED
  BY <1>2, <1>3, <1>6, <1>10, <1>12 DEF more, Cat

LEMMA LastApart ==
  ASSUME NEW S, NEW q \in Seq(S), q # <<>>
  PROVE  /\ Front(q) \in Seq(S) /\ Last(q) \in S
         /\ q = Append(Front(q), Last(q)) /\ Len(Front(q)) = Len(q) - 1
<1> DEFINE n == Len(q)  f == SubSeq(q, 1, n - 1)  a == Append(f, q[n])
<1>1. n \in Nat /\ n # 0 /\ \A i \in 1..n : q[i] \in S
  BY EmptySeq, LenProperties, ElementOfSeq
<1> HIDE DEF n
<1>2. /\ f \in Seq(S) /\ Len(f) = IF 1 <= n - 1 THEN n - 1 - 1 + 1 ELSE 0
      /\ \A i \in 1..n - 1 - 1 + 1 : f[i] = q[1 + i - 1]
  <2>1. 1 \in 1..Len(q) + 1 /\ n - 1 \in 0..Len(q)
    BY <1>1 DEF n
  <2>2. \A i \in 1..n - 1 : q[i] \in S
    BY <1>1
  <2> QED
    BY <1>1, <2>1, <2>2, SubSeqProperties
<1>3. Len(f) = n - 1 /\ \A i \in 1..n - 1 : f[i] = q[i]
  BY <1>1, <1>2
<1> HIDE DEF f
<1>4. /\ a \in Seq(S) /\ Len(a) = n - 1 + 1 /\ a[n - 1 + 1] = q[n]
      /\ \A i \in 1..n - 1 : a[i] = f[i]
  BY <1>1, <1>2, <1>3, AppendProperties
<1> HIDE DEF a
<1>5. Len(a) = n /\ \A i \in 1..n : a[i] = q[i]
  BY <1>1, <1>3, <1>4
<1>6. a = q
  BY <1>4, <1>5, SeqEqual DEF n
<1>7. Front(q) = f /\ Last(q) = q[n]
  BY DEF Front, Last, f, n
<1> QED
  BY <1>1, <1>2, <1>3, <1>6, <1>7 DEF a, n

(* Induction over the sequences of a set, from their ends. *)
LEMMA SeqInduction ==
  ASSUME NEW S, NEW T, <<>> \in T,
         \A q \in Seq(S), e \in S : q \in T => Append(q, e) \in T
  PROVE  Seq(S) \subseteq T
<1> DEFINE N == {n \in Nat : \A q \in Seq(S) : Len(q) = n => q \in T}
<1>1. 0 \in N
  BY EmptySeq
<1>2. ASSUME NEW n \in Nat, n \in N PROVE n + 1 \in N
  <2> SUFFICES ASSUME NEW q \in Seq(S), Len(q) = n + 1 PROVE q \in T
    OBVIOUS
  <2>1. q # <<>>
    BY EmptySeq
  <2>2. /\ Front(q) \in Seq(S) /\ Last(q) \in S
        /\ q = Append(Front(q), Last(q)) /\ Len(Front(q)) = Len(q) - 1
    BY <2>1, LastApart
  <2>3. Len(Front(q)) = n
    BY <2>2
  <2>4. Front(q) \in T
    BY <1>2, <2>2, <2>3
  <2>5. Append(Front(q), Last(q)) \in T
    BY <2>2, <2>4
  <2> QED
    BY <2>2, <2>5, Zenon
<1> HIDE DEF N
<1>3. Nat \subseteq N
  BY <1>1, <1>2, SetInduction
<1> QED
  BY <1>3, LenProperties DEF N

LEMMA ReverseMeans ==
  ASSUME NEW S, NEW q \in Seq(S)
  PROVE  /\ Reverse(q) \in Seq(S) /\ Len(Reverse(q)) = Len(q)
         /\ \A i \in 1..Len(q) : Reverse(q)[i] = q[Len(q) - i + 1]
<1> DEFINE n == Len(q)  r == Reverse(q)
<1>1. n \in Nat /\ DOMAIN q = 1..n /\ \A i \in 1..n : q[i] \in S
  BY LenProperties, ElementOfSeq
<1>2. r = [i \in 1..n |-> q[n - i + 1]]
  BY DEF Reverse
<1> HIDE DEF n, r
<1>3. \A i \in 1..n : n - i + 1 \in 1..n
  BY <1>1
<1>4. r \in Seq(S) /\ Len(r) = n /\ \A i \in 1..n : r[i] = q[n - i + 1]
  BY <1>1, <1>2, <1>3
<1> QED
  BY <1>4 DEF n, r

LEMMA Reversed ==
  ASSUME NEW S, NEW q \in Seq(S)
  PROVE  /\ Reverse(<<>>) = <<>> /\ Reverse(q) \in Seq(S)
         /\ ToSet(Reverse(q)) = ToSet(q) /\ Reverse(Reverse(q)) = q
         /\ \A e \in S : Reverse(Append(q, e)) = <<e>> \o Reverse(q)
<1> DEFINE n == Len(q)  r == Reverse(q)
<1>1. n \in Nat /\ DOMAIN q = 1..n /\ \A i \in 1..n : q[i] \in S
  BY LenProperties, ElementOfSeq
<1>2. r \in Seq(S) /\ Len(r) = n /\ \A i \in 1..n : r[i] = q[n - i + 1]
  BY ReverseMeans
<1> HIDE DEF n, r
<1>3. \A i \in 1..n : n - i + 1 \in 1..n
  BY <1>1
<1>4. r \in Seq(S) /\ Len(r) = n /\ DOMAIN r = 1..n /\ \A i \in 1..n : r[i] = q[n - i + 1]
  BY <1>2, LenProperties
<1>5. Reverse(<<>>) = <<>>
  BY DEF Reverse
<1>6. ToSet(r) = ToSet(q)
  <2>1. \A i \in 1..n : r[i] \in ToSet(q)
    BY <1>1, <1>3, <1>4 DEF ToSet
  <2>2. \A i \in 1..n : q[i] = r[n - i + 1]
    BY <1>1, <1>3, <1>4
  <2>3. \A i \in 1..n : q[i] \in ToSet(r)
    BY <1>3, <1>4, <2>2 DEF ToSet
  <2> QED
    BY <1>1, <1>4, <2>1, <2>3 DEF ToSet
<1>7. Reverse(r) = q
  <2>1. Reverse(r) \in Seq(S) /\ Len(Reverse(r)) = n /\ \A i \in 1..n : Reverse(r)[i] = r[n - i + 1]
    BY <1>4, ReverseMeans
  <2>2. \A i \in 1..n : Reverse(r)[i] = q[i]
    BY <1>1, <1>3, <1>4, <2>1
  <2>3. Len(q) = n
    BY DEF n
  <2> QED
    BY <2>1, <2>2, <2>3, SeqEqual
<1>8. ASSUME NEW e \in S PROVE Reverse(Append(q, e)) = <<e>> \o r
  <2> DEFINE a == Append(q, e)
  <2>1. a \in Seq(S) /\ Len(a) = n + 1 /\ a[n + 1] = e /\ \A i \in 1..n : a[i] = q[i]
    BY <1>1, AppendProperties DEF n
  <2> HIDE DEF a
  <2>2. Reverse(a) \in Seq(S) /\ Len(Reverse(a)) = Len(a)
        /\ \A i \in 1..Len(a) : Reverse(a)[i] = a[Len(a) - i + 1]
    BY <2>1, ReverseMeans
  <2>5. Reverse(a) \in Seq(S) /\ Len(Reverse(a)) = n + 1
        /\ \A i \in 1..n + 1 : Reverse(a)[i] = a[n + 1 - i + 1]
    BY <1>1, <2>1, <2>2
  <2> DEFINE one == <<e>>  b == one \o r
  <2>6. one \in Seq(S) /\ Len(one) = 1 /\ one[1] = e
    OBVIOUS
  <2> HIDE DEF one
  <2>7. b \in Seq(S) /\ Len(b) = n + 1
        /\ \A i \in 1..n + 1 : b[i] = IF i <= 1 THEN one[i] ELSE r[i - 1]
    <3>1. /\ one \o r \in Seq(S) /\ Len(one \o r) = Len(one) + Len(r)
          /\ \A i \in 1..Len(one) + Len(r) : (one \o r)[i] = IF i <= Len(one) THEN one[i] ELSE r[i - Len(one)]
      BY <1>4, <2>6, ConcatProperties
    <3>2. 1 + n = n + 1
      BY <1>1
    <3> QED
      BY <1>4, <2>6, <3>1, <3>2
  <2> HIDE DEF b
  <2>8. ASSUME NEW i \in 1..n + 1 PROVE Reverse(a)[i] = b[i]
    <3>1. CASE i = 1
      <4>1. n + 1 - i + 1 = n + 1
        BY <1>1, <3>1
      <4> QED
        BY <2>1, <2>5, <2>6, <2>7, <3>1, <4>1
    <3>2. CASE i # 1
      <4>1. i - 1 \in 1..n /\ n + 1 - i + 1 \in 1..n /\ n - (i - 1) + 1 = n + 1 - i + 1
        BY <1>1, <3>2
      <4>2. b[i] = r[i - 1]
        BY <2>7, <3>2
      <4>3. r[i - 1] = q[n + 1 - i + 1]
        BY <1>4, <4>1
      <4>4. Reverse(a)[i] = a[n + 1 - i + 1]
        BY <2>5
      <4> QED
        BY <2>1, <4>1, <4>2, <4>3, <4>4
    <3> QED
      BY <3>1, <3>2
  <2>9. Reverse(a) = b
    BY <2>5, <2>7, <2>8, SeqEqual
  <2> QED
    BY <2>9 DEF a, b, one
<1> QED
  BY <1>4, <1>5, <1>6, <1>7, <1>8 DEF r

LEMMA FlattenCons ==
  ASSUME NEW S, NEW q \in Seq(S)
  PROVE  /\ FlattenSeq(<<>>) = <<>> /\ FlattenSeq(<<q>>) = q
         /\ \A ss \in Seq(Seq(S)) : FlattenSeq(<<q>> \o ss) = q \o FlattenSeq(ss)
<1> DEFINE Q == Seq(S)  one == <<q>>
           T == {ss \in Seq(Q) : FlattenSeq(one \o ss) = q \o FlattenSeq(ss)}
<1>1. FlattenSeq(<<>>) = <<>>
  BY DEF FlattenSeq
<1>2. <<>> \in Seq(Q) /\ one \in Seq(Q) /\ one = Append(<<>>, q)
  BY EmptySeq
<1>3. FlattenSeq(one) = <<>> \o q
  BY <1>1, <1>2, FlattenAppend
<1>4. FlattenSeq(one) = q
  BY <1>3, ConcatEmptySeq
<1>5. one \o <<>> = one /\ q \o <<>> = q
  BY <1>2, ConcatEmptySeq
<1>6. <<>> \in T
  BY <1>1, <1>2, <1>4, <1>5
<1>7. ASSUME NEW ss \in Seq(Q), NEW e \in Q, ss \in T PROVE Append(ss, e) \in T
  <2>1. Append(ss, e) \in Seq(Q) /\ one \o ss \in Seq(Q)
    BY <1>2, AppendProperties, ConcatProperties
  <2>2. one \o Append(ss, e) = Append(one \o ss, e)
    BY <1>2, AppendToConcat
  <2>3. FlattenSeq(Append(one \o ss, e)) = FlattenSeq(one \o ss) \o e
    BY <2>1, FlattenAppend
  <2>4. FlattenSeq(ss) \in Q /\ FlattenSeq(Append(ss, e)) = FlattenSeq(ss) \o e
    BY FlattenAppend
  <2>5. FlattenSeq(one \o ss) = q \o FlattenSeq(ss)
    BY <1>7
  <2>6. (q \o FlattenSeq(ss)) \o e = q \o (FlattenSeq(ss) \o e)
    BY <2>4, ConcatAssociative
  <2>7. FlattenSeq(one \o Append(ss, e)) = q \o FlattenSeq(Append(ss, e))
    BY <2>2, <2>3, <2>4, <2>5, <2>6, Zenon
  <2> QED
    BY <2>1, <2>7
<1> HIDE DEF T
<1>8. Seq(Q) \subseteq T
  BY <1>6, <1>7, SeqInduction
<1> QED
  BY <1>1, <1>4, <1>8 DEF T

-----------------------------------------------------------------------------
(***************************************************************************)
(* FoldLeft goes over all sets of positions, by their greatest member.     *)
(* That there is such a table of results is shown for steps given as       *)
(* functions; a chain is what it says about the sets 1..i.                 *)
(***************************************************************************)
Table(n, S, base, step, h) ==
  /\ h \in [SUBSET (1..n) -> S] /\ h[{}] = base
  /\ \A s \in SUBSET (1..n) : s # {} => h[s] = step[Max(s)][h[s \ {Max(s)}]]

LEMMA FoldTable ==
  ASSUME NEW n, NEW S, NEW base, NEW step, Steps(n, S, base, step)
  PROVE  \E h : Table(n, S, base, step, h)
<1>0. n \in Nat /\ base \in S /\ step \in [1..n -> [S -> S]]
  BY DEF Steps
<1> DEFINE T == {m \in Nat : m <= n => \E h : Table(m, S, base, step, h)}
<1>1. 0 \in T
  <2> DEFINE h == [s \in {{}} |-> base]
  <2>1. SUBSET (1..0) = {{}}
    OBVIOUS
  <2>2. h \in [{{}} -> S] /\ h[{}] = base /\ \A s \in {{}} : s = {}
    BY <1>0
  <2> HIDE DEF h
  <2>3. Table(0, S, base, step, h)
    BY <2>1, <2>2 DEF Table
  <2> QED
    BY <2>3
<1>2. ASSUME NEW m \in Nat, m \in T PROVE m + 1 \in T
  <2> SUFFICES ASSUME m + 1 <= n PROVE \E h : Table(m + 1, S, base, step, h)
    OBVIOUS
  <2>0. m + 1 \in 1..n
    BY <1>0
  <2>1. PICK h : Table(m, S, base, step, h)
    BY <1>0, <1>2
  <2>2. /\ h \in [SUBSET (1..m) -> S] /\ h[{}] = base
        /\ \A s \in SUBSET (1..m) : s # {} => h[s] = step[Max(s)][h[s \ {Max(s)}]]
    BY <2>1 DEF Table
  <2> HIDE DEF T
  <2> DEFINE g == [s \in SUBSET (1..m + 1) |->
                     IF m + 1 \in s THEN step[m + 1][h[s \ {m + 1}]] ELSE h[s]]
  <2>3. \A s \in SUBSET (1..m + 1) :
          /\ m + 1 \in s => s \ {m + 1} \in SUBSET (1..m)
          /\ m + 1 \notin s => s \in SUBSET (1..m)
    OBVIOUS
  <2>4. step[m + 1] \in [S -> S]
    BY <1>0, <2>0
  <2>5. g \in [SUBSET (1..m + 1) -> S]
    BY <2>2, <2>3, <2>4
  <2>6. \A s \in SUBSET (1..m) : s \in SUBSET (1..m + 1) /\ m + 1 \notin s /\ g[s] = h[s]
    OBVIOUS
  <2>7. \A s \in SUBSET (1..m + 1) : m + 1 \in s => g[s] = step[m + 1][h[s \ {m + 1}]]
    OBVIOUS
  <2> HIDE DEF g
  <2>8. g[{}] = base
    BY <2>2, <2>6
  <2>9. ASSUME NEW s \in SUBSET (1..m + 1), s # {}
        PROVE  g[s] = step[Max(s)][g[s \ {Max(s)}]]
    <3>1. Max(s) \in s /\ \A k \in s : k <= Max(s)
      <4>1. m + 1 \in Nat
        OBVIOUS
      <4> QED
        BY <2>9, <4>1, GreatestNat
    <3>2. CASE m + 1 \in s
      <4>1. Max(s) = m + 1
        <5>1. Max(s) \in 1..m + 1 /\ m + 1 <= Max(s)
          BY <3>1, <3>2
        <5> QED
          BY <5>1
      <4>2. s \ {m + 1} \in SUBSET (1..m)
        BY <2>3, <3>2
      <4>3. g[s \ {m + 1}] = h[s \ {m + 1}]
        BY <2>6, <4>2
      <4>4. g[s] = step[m + 1][h[s \ {m + 1}]]
        BY <2>7, <3>2
      <4> QED
        BY <4>1, <4>3, <4>4
    <3>3. CASE m + 1 \notin s
      <4>1. s \in SUBSET (1..m) /\ s \ {Max(s)} \in SUBSET (1..m)
        BY <2>3, <3>3
      <4> QED
        BY <2>2, <2>6, <2>9, <4>1
    <3> QED
      BY <3>2, <3>3
  <2>10. Table(m + 1, S, base, step, g)
    BY <2>5, <2>8, <2>9 DEF Table
  <2> QED
    BY <2>10
<1> HIDE DEF T
<1>3. n \in T
  BY <1>0, <1>1, <1>2, SetInduction
<1> QED
  BY <1>0, <1>3 DEF T

Chain(n, S, base, step, g) ==
  /\ g[{}] = base
  /\ \A i \in 1..n : g[1..i - 1] \in S => g[1..i] = step[i][g[1..i - 1]]

LEMMA Upto ==
  ASSUME NEW i \in Nat \ {0}
  PROVE  1..0 = {} /\ 1..i # {} /\ Max(1..i) = i /\ (1..i) \ {i} = 1..i - 1
<1>1. 1..i \in SUBSET (1..i) /\ i \in 1..i
  OBVIOUS
<1>2. Max(1..i) \in 1..i /\ \A m \in 1..i : m <= Max(1..i)
  BY <1>1, GreatestNat
<1>3. Max(1..i) = i
  BY <1>1, <1>2
<1> QED
  BY <1>1, <1>3

LEMMA ChainTyped ==
  ASSUME NEW n, NEW S, NEW base, NEW step, Steps(n, S, base, step),
         NEW g, Chain(n, S, base, step, g)
  PROVE  \A i \in 0..n : g[1..i] \in S
<1>0. n \in Nat /\ base \in S /\ step \in [1..n -> [S -> S]]
  BY DEF Steps
<1> DEFINE T == {i \in Nat : i <= n => g[1..i] \in S}
<1>1. 0 \in T
  BY <1>0, Upto DEF Chain
<1>2. ASSUME NEW i \in Nat, i \in T PROVE i + 1 \in T
  <2> SUFFICES ASSUME i + 1 <= n PROVE g[1..i + 1] \in S
    OBVIOUS
  <2>1. i + 1 \in 1..n /\ i + 1 - 1 = i /\ g[1..i] \in S
    BY <1>0, <1>2
  <2>2. g[1..i + 1] = step[i + 1][g[1..i]]
    BY <2>1 DEF Chain
  <2> QED
    BY <1>0, <2>1, <2>2
<1> HIDE DEF T
<1>3. Nat \subseteq T
  BY <1>1, <1>2, SetInduction
<1> QED
  BY <1>0, <1>3 DEF T

LEMMA ChainGrows ==
  ASSUME NEW n, NEW S, NEW base, NEW step, Steps(n, S, base, step),
         NEW more, Steps(n + 1, S, base, more), \A i \in 1..n : more[i] = step[i],
         NEW g, Chain(n, S, base, step, g), NEW h, Chain(n + 1, S, base, more, h)
  PROVE  h[1..n + 1] = more[n + 1][g[1..n]] /\ g[1..n] \in S
<1>0. n \in Nat
  BY DEF Steps
<1>1. \A i \in 0..n : g[1..i] \in S
  BY ChainTyped
<1>2. \A i \in 0..n + 1 : h[1..i] \in S
  BY ChainTyped
<1> DEFINE T == {i \in Nat : i <= n => h[1..i] = g[1..i]}
<1>3. 0 \in T
  BY Upto DEF Chain
<1>4. ASSUME NEW i \in Nat, i \in T PROVE i + 1 \in T
  <2> SUFFICES ASSUME i + 1 <= n PROVE h[1..i + 1] = g[1..i + 1]
    OBVIOUS
  <2>1. /\ i + 1 \in 1..n /\ i + 1 \in 1..n + 1 /\ i + 1 - 1 = i
        /\ i \in 0..n /\ i \in 0..n + 1 /\ h[1..i] = g[1..i]
    BY <1>0, <1>4
  <2>2. g[1..i + 1] = step[i + 1][g[1..i]]
    BY <1>1, <2>1 DEF Chain
  <2>3. h[1..i + 1] = more[i + 1][h[1..i]]
    BY <1>2, <2>1 DEF Chain
  <2> QED
    BY <2>1, <2>2, <2>3
<1> HIDE DEF T
<1>5. n \in T
  BY <1>0, <1>3, <1>4, SetInduction
<1>6. h[1..n] = g[1..n]
  BY <1>0, <1>5 DEF T
<1>7. n + 1 \in 1..n + 1 /\ n + 1 - 1 = n /\ n \in 0..n
  BY <1>0
<1>8. h[1..n] \in S
  BY <1>1, <1>6, <1>7
<1>9. h[1..n + 1] = more[n + 1][h[1..n + 1 - 1]]
  BY <1>7, <1>8 DEF Chain
<1> QED
  BY <1>1, <1>6, <1>7, <1>9

-----------------------------------------------------------------------------
(***************************************************************************)
(* What the elements of a sequence stand for, one behind the other.        *)
(***************************************************************************)
(* Elements of S stand for sequences over R. *)
Stands(S, R, f) == f \in [S -> Seq(R)]
Each(f, q) == FlattenSeq([i \in DOMAIN q |-> f[q[i]]])

LEMMA EachAppend ==
  ASSUME NEW S, NEW R, NEW f, Stands(S, R, f)
  PROVE  /\ Each(f, <<>>) = <<>>
         /\ \A q \in Seq(S) : Each(f, q) \in Seq(R)
         /\ \A q \in Seq(S), e \in S : Each(f, Append(q, e)) = Each(f, q) \o f[e]
<1> DEFINE Q == Seq(R)  Parts(q) == [i \in DOMAIN q |-> f[q[i]]]
<1>0. f \in [S -> Q]
  BY DEF Stands
<1>1. ASSUME NEW q \in Seq(S)
      PROVE  /\ Len(q) \in Nat /\ Parts(q) \in Seq(Q) /\ Len(Parts(q)) = Len(q)
             /\ \A i \in 1..Len(q) : Parts(q)[i] = f[q[i]]
  <2>1. Len(q) \in Nat /\ DOMAIN q = 1..Len(q) /\ \A i \in 1..Len(q) : q[i] \in S
    BY LenProperties, ElementOfSeq
  <2> HIDE DEF Q
  <2>3. Parts(q) \in [1..Len(q) -> Q]
    BY <1>0, <2>1
  <2> QED
    BY <2>1, <2>3, LenProperties
<1>2. \A q : Each(f, q) = FlattenSeq(Parts(q))
  BY DEF Each
<1>3. Each(f, <<>>) = <<>>
  <2>1. Parts(<<>>) = <<>>
    OBVIOUS
  <2>2. FlattenSeq(Parts(<<>>)) = FlattenSeq(<<>>)
    BY <2>1, Zenon
  <2>3. FlattenSeq(<<>>) = <<>>
    BY DEF FlattenSeq
  <2> HIDE DEF Parts
  <2> QED
    BY <1>2, <2>2, <2>3, Zenon
<1>4. \A q \in Seq(S) : Each(f, q) \in Seq(R)
  <2> SUFFICES ASSUME NEW q \in Seq(S) PROVE FlattenSeq(Parts(q)) \in Seq(R)
    BY <1>2
  <2> HIDE DEF Parts
  <2> QED
    BY <1>1, FlattenAppend, EmptySeq DEF Q
<1>5. ASSUME NEW q \in Seq(S), NEW e \in S
      PROVE  Each(f, Append(q, e)) = Each(f, q) \o f[e]
  <2> DEFINE n == Len(q)  a == Append(q, e)  p == Parts(q)  b == Append(p, f[e])  r == Parts(a)
  <2> HIDE DEF Q
  <2>1. n \in Nat /\ a \in Seq(S) /\ Len(a) = n + 1 /\ a[n + 1] = e /\ \A i \in 1..n : a[i] = q[i]
    BY <1>1, AppendProperties
  <2>2. p \in Seq(Q) /\ Len(p) = n /\ \A i \in 1..n : p[i] = f[q[i]]
    BY <1>1
  <2>3. f[e] \in Q
    BY <1>0
  <2>4. b \in Seq(Q) /\ Len(b) = n + 1 /\ b[n + 1] = f[e] /\ \A i \in 1..n : b[i] = p[i]
    BY <2>2, <2>3, AppendProperties
  <2>5. r \in Seq(Q) /\ Len(r) = n + 1 /\ \A i \in 1..n + 1 : r[i] = f[a[i]]
    BY <1>1, <2>1
  <2> HIDE DEF a, b, p, r, n
  <2>6. ASSUME NEW i \in 1..n + 1 PROVE r[i] = b[i]
    <3>1. CASE i = n + 1
      BY <2>1, <2>4, <2>5, <3>1
    <3>2. CASE i # n + 1
      <4>1. i \in 1..n
        BY <2>1, <3>2
      <4> QED
        <5>1. r[i] = f[a[i]]
          BY <2>5
        <5>2. a[i] = q[i] /\ b[i] = p[i] /\ p[i] = f[q[i]]
          BY <2>1, <2>2, <2>4, <4>1
        <5> QED
          BY <5>1, <5>2, Zenon
    <3> QED
      BY <3>1, <3>2
  <2>7. r = b
    BY <2>4, <2>5, <2>6, SeqEqual
  <2>8. FlattenSeq(b) = FlattenSeq(p) \o f[e]
    BY <2>2, <2>3, FlattenAppend DEF Q, b
  <2> QED
    BY <1>2, <2>7, <2>8 DEF a, p, r
<1> QED
  BY <1>3, <1>4, <1>5

LEMMA EachBoth ==
  ASSUME NEW S, NEW R, NEW f, Stands(S, R, f), NEW p \in Seq(S)
  PROVE  \A q \in Seq(S) : Each(f, p \o q) = Each(f, p) \o Each(f, q)
<1> DEFINE T == {q \in Seq(S) : Each(f, p \o q) = Each(f, p) \o Each(f, q)}
<1>1. <<>> \in T
  <2>1. p \o <<>> = p
    BY ConcatEmptySeq
  <2>2. Each(f, p) \o <<>> = Each(f, p) /\ Each(f, <<>>) = <<>>
    BY EachAppend, ConcatEmptySeq
  <2>3. Each(f, p \o <<>>) = Each(f, p) \o Each(f, <<>>)
    BY <2>1, <2>2, Zenon
  <2> QED
    BY <2>3
<1>2. ASSUME NEW q \in Seq(S), NEW e \in S, q \in T PROVE Append(q, e) \in T
  <2>1. Each(f, p \o q) = Each(f, p) \o Each(f, q)
    BY <1>2
  <2> HIDE DEF T
  <2>2. p \o Append(q, e) = Append(p \o q, e)
    BY AppendToConcat
  <2>3. p \o q \in Seq(S) /\ Append(q, e) \in Seq(S) /\ f[e] \in Seq(R)
        /\ Each(f, p) \in Seq(R) /\ Each(f, q) \in Seq(R)
    BY ConcatProperties, AppendProperties, EachAppend DEF Stands
  <2>4. Each(f, Append(p \o q, e)) = Each(f, p \o q) \o f[e]
    <3>1. \A x \in Seq(S) : Each(f, Append(x, e)) = Each(f, x) \o f[e]
      BY EachAppend
    <3> QED
      BY <2>3, <3>1, Zenon
  <2>5. Each(f, Append(q, e)) = Each(f, q) \o f[e]
    BY EachAppend
  <2>6. (Each(f, p) \o Each(f, q)) \o f[e] = Each(f, p) \o (Each(f, q) \o f[e])
    <3> DEFINE x == Each(f, p)  y == Each(f, q)  z == f[e]
    <3>1. x \in Seq(R) /\ y \in Seq(R) /\ z \in Seq(R)
      BY <2>3
    <3> HIDE DEF x, y, z
    <3>2. (x \o y) \o z = x \o (y \o z)
      BY <3>1, ConcatAssociative
    <3> QED
      BY <3>2 DEF x, y, z
  <2>7. Each(f, p \o Append(q, e)) = Each(f, p) \o Each(f, Append(q, e))
    BY <2>1, <2>2, <2>4, <2>5, <2>6, Zenon
  <2> QED
    BY <2>3, <2>7 DEF T
<1> HIDE DEF T
<1>3. Seq(S) \subseteq T
  BY <1>1, <1>2, SeqInduction
<1> QED
  BY <1>3 DEF T

LEMMA EachOne ==
  ASSUME NEW S, NEW R, NEW f, Stands(S, R, f), NEW e \in S
  PROVE  Each(f, <<e>>) = f[e]
<1> DEFINE none == <<>>
<1>1. <<e>> = Append(none, e) /\ none \in Seq(S)
  OBVIOUS
<1> HIDE DEF none
<1>2. Each(f, none) = <<>> /\ Each(f, Append(none, e)) = Each(f, none) \o f[e]
  <2>1. Each(f, <<>>) = <<>> /\ \A x \in Seq(S) : Each(f, Append(x, e)) = Each(f, x) \o f[e]
    BY EachAppend
  <2> QED
    BY <1>1, <2>1, Zenon DEF none
<1>3. f[e] \in Seq(R) /\ <<>> \o f[e] = f[e]
  BY ConcatEmptySeq DEF Stands
<1> QED
  BY <1>1, <1>2, <1>3, Zenon

(* Elements that stand for the same, or for nothing. *)
LEMMA EachSame ==
  ASSUME NEW f, NEW g, NEW q, \A i \in DOMAIN q : f[q[i]] = g[q[i]]
  PROVE  Each(f, q) = Each(g, q)
<1>1. [i \in DOMAIN q |-> f[q[i]]] = [i \in DOMAIN q |-> g[q[i]]]
  OBVIOUS
<1> QED
  BY <1>1, Zenon DEF Each

LEMMA EachNothing ==
  ASSUME NEW S, NEW q \in Seq(S), NEW f, \A i \in DOMAIN q : f[q[i]] = <<>>
  PROVE  Each(f, q) = <<>>
<1> DEFINE R == {}  g == [e \in S |-> <<>>]
           T == {r \in Seq(S) : Each(g, r) = <<>>}
<1>1. Stands(S, R, g) /\ \A e \in S : g[e] = <<>>
  BY DEF Stands
<1>2. \A i \in DOMAIN q : q[i] \in S
  BY LenProperties, ElementOfSeq
<1> HIDE DEF R, g
<1>3. Each(f, q) = Each(g, q)
  <2>1. \A i \in DOMAIN q : f[q[i]] = g[q[i]]
    BY <1>1, <1>2
  <2> QED
    BY <2>1, EachSame, Zenon
<1>4. <<>> \in T
  BY <1>1, EachAppend
<1>5. ASSUME NEW r \in Seq(S), NEW e \in S, r \in T PROVE Append(r, e) \in T
  <2>1. Each(g, Append(r, e)) = Each(g, r) \o g[e]
    BY <1>1, EachAppend
  <2>2. Each(g, r) = <<>> /\ g[e] = <<>>
    BY <1>1, <1>5
  <2>3. <<>> \o <<>> = <<>>
    OBVIOUS
  <2>4. Each(g, Append(r, e)) = <<>>
    BY <2>1, <2>2, <2>3, Zenon
  <2> QED
    BY <2>4, AppendProperties
<1> HIDE DEF T
<1>6. Seq(S) \subseteq T
  BY <1>4, <1>5, SeqInduction
<1> QED
  BY <1>3, <1>6 DEF T

(* What the elements of what elements stand for stand for. *)
LEMMA EachOfEach ==
  ASSUME NEW S, NEW R, NEW U, NEW f, Stands(S, R, f), NEW g, Stands(R, U, g),
         NEW h, \A e \in S : h[e] = Each(g, f[e])
  PROVE  \A q \in Seq(S) : Each(g, Each(f, q)) = Each(h, q)
<1> DEFINE k == [e \in S |-> Each(g, f[e])]
           T == {q \in Seq(S) : Each(g, Each(f, q)) = Each(k, q)}
<1>1. Stands(S, U, k) /\ \A e \in S : k[e] = Each(g, f[e])
  BY EachAppend DEF Stands
<1> HIDE DEF k
<1>2. <<>> \in T
  <2>1. Each(f, <<>>) = <<>> /\ Each(g, <<>>) = <<>> /\ Each(k, <<>>) = <<>>
    BY <1>1, EachAppend
  <2> QED
    BY <2>1
<1>3. ASSUME NEW q \in Seq(S), NEW e \in S, q \in T PROVE Append(q, e) \in T
  <2>1. Each(g, Each(f, q)) = Each(k, q)
    BY <1>3
  <2> HIDE DEF T
  <2>2. Each(f, Append(q, e)) = Each(f, q) \o f[e] /\ Each(f, q) \in Seq(R) /\ f[e] \in Seq(R)
    <3>1. f[e] \in Seq(R)
      BY DEF Stands
    <3> QED
      BY <3>1, EachAppend
  <2>3. Each(k, Append(q, e)) = Each(k, q) \o k[e]
    BY <1>1, EachAppend
  <2>4. Each(g, Each(f, q) \o f[e]) = Each(g, Each(f, q)) \o Each(g, f[e])
    BY <2>2, EachBoth
  <2>5. Each(g, Each(f, Append(q, e))) = Each(k, Append(q, e))
    BY <1>1, <2>1, <2>2, <2>3, <2>4, Zenon
  <2> QED
    BY <2>5, AppendProperties DEF T
<1> HIDE DEF T
<1>4. Seq(S) \subseteq T
  BY <1>2, <1>3, SeqInduction
<1>5. ASSUME NEW q \in Seq(S) PROVE Each(h, q) = Each(k, q)
  <2>1. \A i \in DOMAIN q : q[i] \in S
    BY LenProperties, ElementOfSeq
  <2>2. \A i \in DOMAIN q : h[q[i]] = k[q[i]]
    BY <1>1, <2>1
  <2> QED
    BY <2>2, EachSame
<1> QED
  BY <1>4, <1>5 DEF T

(* Elements that stand for themselves. *)
LEMMA EachItself ==
  ASSUME NEW S, NEW f, \A e \in S : f[e] = <<e>>
  PROVE  \A q \in Seq(S) : Each(f, q) = q
<1> DEFINE g == [e \in S |-> <<e>>]  T == {q \in Seq(S) : Each(g, q) = q}
<1>1. Stands(S, S, g) /\ \A e \in S : g[e] = <<e>>
  BY DEF Stands
<1> HIDE DEF g
<1>2. <<>> \in T
  BY <1>1, EachAppend
<1>3. ASSUME NEW q \in Seq(S), NEW e \in S, q \in T PROVE Append(q, e) \in T
  <2>1. Each(g, Append(q, e)) = Each(g, q) \o g[e]
    BY <1>1, EachAppend
  <2>2. Each(g, q) = q /\ g[e] = <<e>>
    BY <1>1, <1>3
  <2>3. q \o <<e>> = Append(q, e)
    BY AppendIsConcat
  <2>4. Each(g, Append(q, e)) = Append(q, e)
    BY <2>1, <2>2, <2>3, Zenon
  <2> QED
    BY <2>4, AppendProperties
<1> HIDE DEF T
<1>4. Seq(S) \subseteq T
  BY <1>2, <1>3, SeqInduction
<1>5. ASSUME NEW q \in Seq(S) PROVE Each(f, q) = Each(g, q)
  <2>1. \A i \in DOMAIN q : q[i] \in S
    BY LenProperties, ElementOfSeq
  <2>2. ASSUME NEW i \in DOMAIN q PROVE f[q[i]] = g[q[i]]
    <3>1. f[q[i]] = <<q[i]>> /\ g[q[i]] = <<q[i]>>
      BY <1>1, <2>1, Zenon
    <3> QED
      BY <3>1, Zenon
  <2> QED
    BY <2>2, EachSame
<1> QED
  BY <1>4, <1>5 DEF T

(* What is where in two sequences joined, and in one with one more element.*)
LEMMA Joins ==
  ASSUME NEW S, NEW p \in Seq(S), NEW q \in Seq(S)
  PROVE  /\ p \o q \in Seq(S) /\ Len(p) \in Nat /\ Len(q) \in Nat /\ Len(p \o q) = Len(p) + Len(q)
         /\ \A i \in 1..Len(p) : i \in 1..Len(p \o q) /\ (p \o q)[i] = p[i]
         /\ \A j \in 1..Len(q) : Len(p) + j \in 1..Len(p \o q) /\ (p \o q)[Len(p) + j] = q[j]
<1> DEFINE n == Len(p)  k == Len(q)  a == p \o q
<1>1. n \in Nat /\ k \in Nat /\ a \in Seq(S) /\ Len(a) = n + k
      /\ \A i \in 1..n + k : a[i] = IF i <= n THEN p[i] ELSE q[i - n]
  BY LenProperties, ConcatProperties
<1> HIDE DEF n, k, a
<1>2. \A i \in 1..n : i \in 1..n + k /\ i <= n
  BY <1>1
<1>3. \A j \in 1..k : n + j \in 1..n + k /\ ~(n + j <= n) /\ (n + j) - n = j
  BY <1>1
<1>4. /\ \A i \in 1..n : i \in 1..Len(a) /\ a[i] = p[i]
      /\ \A j \in 1..k : n + j \in 1..Len(a) /\ a[n + j] = q[j]
  BY <1>1, <1>2, <1>3
<1> QED
  BY <1>1, <1>4 DEF n, k, a

LEMMA OneBehind ==
  ASSUME NEW S, NEW q \in Seq(S), NEW e \in S
  PROVE  \E a \in Seq(S) :
           /\ a = Append(q, e) /\ Len(q) \in Nat /\ Len(a) = Len(q) + 1 /\ a[Len(q) + 1] = e
           /\ Len(q) + 1 \in 1..Len(a)
           /\ \A i \in 1..Len(q) : i \in 1..Len(a) /\ a[i] = q[i]
           /\ \A i \in 1..Len(a) : i \in 1..Len(q) \/ i = Len(q) + 1
<1> DEFINE n == Len(q)  a == Append(q, e)
<1>1. n \in Nat /\ a \in Seq(S) /\ Len(a) = n + 1 /\ a[n + 1] = e /\ \A i \in 1..n : a[i] = q[i]
  BY LenProperties, AppendProperties
<1> HIDE DEF n, a
<1>2. /\ n + 1 \in 1..Len(a) /\ \A i \in 1..n : i \in 1..Len(a)
      /\ \A i \in 1..Len(a) : i \in 1..n \/ i = n + 1
  BY <1>1
<1> QED
  BY <1>1, <1>2 DEF n, a
===============================================================================
