--------------------------- MODULE SessionMeta_proofs --------------------------
(***************************************************************************)
(* Proofs about SessionMeta: what a save writes is the record, a saved     *)
(* session stays on the list under one title, and its file holds no reply  *)
(* that was not paid for.                                                  *)
(***************************************************************************)
EXTENDS SessionMeta, SequenceLemmas, FiniteSetTheorems

Titled == Texts \union {NewTitle}
Files == [meta : Meta \union {NoMeta}, tmp : {NoMeta, Torn}, lines : Seq(Message)]
TurnState ==
  [pc : {"idle", "stream", "batch", "done"} \union SyncPCs, on : Sessions \union {NoOne},
   model : Models, cap : Caps, messages : Seq(Message), meta : Meta \union {NoMeta},
   left : Int]
Restored == [on : Sessions \union {NoOne}, meta : Meta \union {NoMeta}, lines : Seq(Message)]

TypeInv ==
  /\ available \in Offers
  /\ live \in [Sessions -> Record \union {NoMeta}]
  /\ disk \in [Sessions -> Files]
  /\ turn \in [Turns -> TurnState]
  /\ restore \in [Restores -> Restored]
  /\ clock \in Nat /\ changes \in Nat /\ crashes \in Nat
  /\ used \subseteq Sessions /\ saved \subseteq Sessions /\ stale \subseteq Sessions

-----------------------------------------------------------------------------
(***************************************************************************)
(* Titles and costs.                                                       *)
(***************************************************************************)
LEMMA SomeModel == available \in Offers => DefaultModel \in Models
  BY MetaAssumption DEF Models

LEMMA MessageTyped ==
  ASSUME NEW t \in Turns PROVE [text |-> Prompt[t].whole, cost |-> 0] \in Message
  BY DEF Message, Texts

LEMMA DerivedTitle ==
  ASSUME NEW h \in Seq(Message) PROVE DeriveSessionTitle(h) \in Titled
<1> DEFINE I == {i \in 1..Len(h) : h[i].text # NoTitle}
<1>1. CASE I = {}
  BY <1>1 DEF DeriveSessionTitle, SelectInSeq, Titled
<1>2. CASE I # {}
  <2>1. I \subseteq Nat /\ Len(h) \in Nat
    BY LenProperties
  <2>2. PICK n \in I : \A m \in I : n <= m
    BY <1>2, <2>1, LeastNat
  <2> DEFINE k == Min(I)
  <2>3. k \in I
    BY <2>2 DEF Min
  <2>4. h[k] \in Message
    BY <2>3, ElementOfSeq
  <2>5. k # 0 /\ DeriveSessionTitle(h) = h[k].text
    BY <1>2, <2>1, <2>3 DEF DeriveSessionTitle, SelectInSeq
  <2> HIDE DEF k
  <2> QED
    BY <2>3, <2>4, <2>5 DEF Message, Titled
<1> QED
  BY <1>1, <1>2

LEMMA PromptTitled ==
  ASSUME NEW t \in Turns, NEW h \in Seq(Message)
  PROVE  PromptTitle(Prompt[t], h) \in Titled
<1> DEFINE m == [text |-> Prompt[t].whole, cost |-> 0]
<1>1. Append(h, m) \in Seq(Message)
  BY MessageTyped, AppendProperties
<1>2. DeriveSessionTitle(Append(h, m)) \in Titled
  BY <1>1, DerivedTitle
<1> QED
  BY <1>2 DEF PromptTitle, Titled, Texts

LEMMA RestoredTitled ==
  ASSUME NEW m \in Meta, NEW h \in Seq(Message)
  PROVE  RestoredTitle(m, h) \in Titled
  BY DerivedTitle DEF RestoredTitle, Meta, Titled

LEMMA TitledIsTitle == NoTitle \notin Titled /\ Titled \subseteq Texts \union {NoTitle, NewTitle}
  BY MetaAssumption DEF Titled, Texts

(* What was paid, added up from the first message on. *)
Sums(lines, sum) ==
  sum[0] = 0 /\ \A i \in 1..Len(lines) : sum[i] = sum[i - 1] + lines[i].cost

LEMMA PaidSums ==
  ASSUME NEW lines \in Seq(Message)
  PROVE  \E sum \in [0..Len(lines) -> Nat] : Sums(lines, sum) /\ Paid(lines) = sum[Len(lines)]
<1> DEFINE n == Len(lines)
           F(sum) == [i \in 0..n |-> IF i = 0 THEN 0 ELSE sum[i - 1] + lines[i].cost]
           c == [i \in 1..n |-> lines[i].cost]
<1>0. \A m \in Message : m.cost \in Nat
  BY DEF Message
<1>1. n \in Nat /\ \A i \in 1..n : lines[i].cost \in Nat
  BY <1>0, LenProperties, ElementOfSeq
<1>2. c \in [1..n -> Nat]
  BY <1>1
<1> HIDE DEF n, F
<1>3. PICK f \in [0..n -> Nat] : f[0] = 0 /\ \A i \in 1..n : f[i] = f[i - 1] + c[i]
  BY <1>1, <1>2, RunningSum
<1>4. \A i \in 1..n : f[i] = f[i - 1] + lines[i].cost
  BY <1>3
<1>5. f = F(f)
  BY <1>1, <1>3, <1>4 DEF F
<1> DEFINE g == CHOOSE sum : sum = F(sum)
<1>6. g = F(g)
  BY <1>5
<1>7. Paid(lines) = g[n]
  BY DEF Paid, n, F
<1> HIDE DEF g
<1> USE DEF F
<1>8. g[0] = 0 /\ \A i \in 1..n : g[i] = g[i - 1] + lines[i].cost
  BY <1>1, <1>6
<1>9. \A i \in 0..n : g[i] \in Nat
  <2> DEFINE T == {i \in Nat : i <= n => g[i] \in Nat}
  <2>1. 0 \in T
    BY <1>8
  <2>2. ASSUME NEW i \in Nat, i \in T PROVE i + 1 \in T
    <3> SUFFICES ASSUME i + 1 <= n PROVE g[i + 1] \in Nat
      OBVIOUS
    <3>1. i + 1 \in 1..n /\ i + 1 - 1 = i /\ g[i] \in Nat
      BY <1>1, <2>2
    <3>2. g[i + 1] = g[i] + lines[i + 1].cost
      BY <1>8, <3>1
    <3> QED
      BY <1>1, <3>1, <3>2
  <2> HIDE DEF T
  <2>3. Nat \subseteq T
    BY <2>1, <2>2, SetInduction
  <2> QED
    BY <1>1, <2>3 DEF T
<1>10. g \in [0..n -> Nat]
  BY <1>1, <1>6, <1>9
<1> QED
  BY <1>7, <1>8, <1>10 DEF Sums, n

LEMMA PaidEmpty == Paid(<<>>) = 0
<1>1. <<>> \in Seq(Message) /\ Len(<<>>) = 0
  OBVIOUS
<1> QED
  BY <1>1, PaidSums DEF Sums

LEMMA PaidAppend ==
  ASSUME NEW lines \in Seq(Message), NEW m \in Message
  PROVE  Paid(lines) \in Nat /\ Paid(Append(lines, m)) = Paid(lines) + m.cost
<1> DEFINE n == Len(lines)  more == Append(lines, m)
<1>1. /\ n \in Nat /\ more \in Seq(Message) /\ Len(more) = n + 1
      /\ more[n + 1] = m /\ \A i \in 1..n : more[i] = lines[i]
  BY LenProperties, AppendProperties
<1> HIDE DEF more
<1>2. PICK f \in [0..n -> Nat] : Sums(lines, f) /\ Paid(lines) = f[n]
  BY PaidSums
<1>3. PICK g \in [0..n + 1 -> Nat] : Sums(more, g) /\ Paid(more) = g[n + 1]
  BY <1>1, PaidSums
<1> HIDE DEF n
<1> DEFINE T == {i \in Nat : i <= n => g[i] = f[i]}
<1>4. 0 \in T
  BY <1>2, <1>3 DEF Sums
<1>5. ASSUME NEW i \in Nat, i \in T PROVE i + 1 \in T
  <2> SUFFICES ASSUME i + 1 <= n PROVE g[i + 1] = f[i + 1]
    OBVIOUS
  <2>1. i + 1 \in 1..n /\ i + 1 \in 1..n + 1 /\ i + 1 - 1 = i /\ g[i] = f[i]
    BY <1>1, <1>5
  <2>2. f[i + 1] = f[i] + lines[i + 1].cost
    BY <1>2, <2>1 DEF Sums, n
  <2>3. g[i + 1] = g[i] + lines[i + 1].cost
    <3>1. i + 1 \in 1..Len(more) /\ more[i + 1] = lines[i + 1]
      BY <1>1, <2>1
    <3> QED
      BY <1>3, <2>1, <3>1 DEF Sums
  <2> QED
    BY <2>1, <2>2, <2>3
<1> HIDE DEF T
<1>6. Nat \subseteq T
  BY <1>4, <1>5, SetInduction
<1>7. g[n] = f[n]
  BY <1>1, <1>6 DEF T
<1>8. n + 1 \in 1..n + 1 /\ n + 1 - 1 = n
  BY <1>1
<1>9. g[n + 1] = g[n] + m.cost
  BY <1>1, <1>3, <1>8 DEF Sums
<1>10. f[n] \in Nat
  BY <1>1
<1> QED
  BY <1>2, <1>3, <1>7, <1>9, <1>10 DEF more

(* What the messages of a turn add to a file is no more than what the turn *)
(* has paid beyond the history it began with.                              *)
LEMMA PaidTail ==
  ASSUME NEW p \in Seq(Message), NEW h \in Seq(Message), NEW q \in Seq(Message),
         IsPrefix(h, q), NEW n \in Len(h)..Len(q)
  PROVE  /\ p \o SubSeq(q, Len(h) + 1, n) \in Seq(Message)
         /\ Paid(p \o SubSeq(q, Len(h) + 1, n)) + Paid(h) <= Paid(p) + Paid(q)
<1> DEFINE L == Len(h)  N == Len(q)
           tail(k) == SubSeq(q, L + 1, k)
           part(k) == SubSeq(q, 1, k)
           T == {k \in Nat : L + k <= N => Paid(p \o tail(L + k)) + Paid(h) = Paid(p) + Paid(part(L + k))}
           U == {k \in Nat : n + k <= N => Paid(part(n)) <= Paid(part(n + k))}
<1>1. L \in Nat /\ N \in Nat /\ L <= N /\ n \in Nat /\ L <= n /\ n <= N
  BY LenProperties
<1>2. \A k \in Nat : k <= N => tail(k) \in Seq(Message) /\ part(k) \in Seq(Message)
                             /\ p \o tail(k) \in Seq(Message)
  <2> TAKE k \in Nat
  <2> SUFFICES ASSUME k <= N PROVE tail(k) \in Seq(Message) /\ part(k) \in Seq(Message)
    BY ConcatProperties
  <2>1. \A i \in 1..k : q[i] \in Message
    BY <1>1, ElementOfSeq
  <2> QED
    BY <1>1, <2>1, SubSeqProperties
<1>3. \A s \in Seq(Message) : Paid(s) \in Nat
  <2>1. [text |-> NoTitle, cost |-> 0] \in Message
    BY DEF Message
  <2> QED
    BY <2>1, PaidAppend
<1>4. ASSUME NEW j \in (L + 1)..N
      PROVE  /\ tail(j) = Append(tail(j - 1), q[j]) /\ part(j) = Append(part(j - 1), q[j])
             /\ q[j] \in Message
  <2>1. q[j] \in Message /\ j \in 1..N /\ L + 1 \in 1..N /\ 1 \in 1..N
    BY <1>1, ElementOfSeq
  <2>2. \A i \in 1..N : \A m \in i..N : SubSeq(q, i, m) = SubSeq(q, i, m - 1) \o <<q[m]>>
    BY SubSeqRecursiveSecond
  <2>3. j - 1 \in Nat /\ j - 1 <= N
    BY <1>1
  <2>4. tail(j - 1) \in Seq(Message) /\ part(j - 1) \in Seq(Message)
    BY <1>2, <2>3
  <2> HIDE DEF L, N
  <2>5. tail(j) = tail(j - 1) \o <<q[j]>>
    BY <2>1, <2>2, Zenon
  <2>6. part(j) = part(j - 1) \o <<q[j]>>
    BY <2>1, <2>2, Zenon
  <2> HIDE DEF tail, part
  <2> QED
    BY <2>1, <2>4, <2>5, <2>6, AppendIsConcat
<1>5. 0 \in T
  <2>1. tail(L) = <<>> /\ p \o <<>> = p
    BY <1>1, SubSeqEmpty, ConcatEmptySeq
  <2>2. part(L) = h
    BY SubSeqFull DEF IsPrefix
  <2> HIDE DEF tail, part
  <2> QED
    BY <1>1, <1>3, <2>1, <2>2
<1>6. ASSUME NEW k \in Nat, k \in T PROVE k + 1 \in T
  <2> SUFFICES ASSUME L + (k + 1) <= N
               PROVE  Paid(p \o tail(L + (k + 1))) + Paid(h) = Paid(p) + Paid(part(L + (k + 1)))
    OBVIOUS
  <2> DEFINE i == L + k
  <2>1. i \in Nat /\ L <= i /\ i + 1 <= N /\ i <= N /\ L + (k + 1) = i + 1
    BY <1>1
  <2>2. Paid(p \o tail(i)) + Paid(h) = Paid(p) + Paid(part(i))
    BY <1>6, <2>1
  <2> HIDE DEF T, L, N, tail, part, i
  <2>3. /\ tail(i + 1) = Append(tail(i), q[i + 1]) /\ part(i + 1) = Append(part(i), q[i + 1])
        /\ q[i + 1] \in Message
    <3>1. PICK j \in (L + 1)..N : j = i + 1
      BY <1>1, <2>1
    <3>2. j - 1 = i
      BY <2>1, <3>1
    <3> QED
      BY <1>4, <3>1, <3>2
  <2>4. tail(i) \in Seq(Message) /\ part(i) \in Seq(Message) /\ p \o tail(i) \in Seq(Message)
    BY <1>2, <2>1
  <2>5. p \o tail(i + 1) = Append(p \o tail(i), q[i + 1])
    <3>1. PICK a \in Seq(Message) : a = tail(i)
      BY <2>4
    <3>2. PICK e \in Message : e = q[i + 1]
      BY <2>3
    <3>3. p \o Append(a, e) = Append(p \o a, e)
      BY AppendToConcat, SMTT(30)
    <3> QED
      BY <2>3, <3>1, <3>2, <3>3
  <2>6. /\ Paid(p \o tail(i + 1)) = Paid(p \o tail(i)) + q[i + 1].cost
        /\ Paid(part(i + 1)) = Paid(part(i)) + q[i + 1].cost
    BY <2>3, <2>4, <2>5, PaidAppend
  <2>7. /\ Paid(p \o tail(i)) \in Nat /\ Paid(part(i)) \in Nat /\ Paid(h) \in Nat
        /\ Paid(p) \in Nat /\ q[i + 1].cost \in Nat
    BY <1>3, <2>3, <2>4 DEF Message
  <2>8. Paid(p \o tail(i + 1)) + Paid(h) = Paid(p) + Paid(part(i + 1))
    <3> DEFINE a == Paid(p \o tail(i))  b == Paid(p \o tail(i + 1))
               c == Paid(part(i))  d == Paid(part(i + 1))
    <3>1. b = a + q[i + 1].cost /\ d = c + q[i + 1].cost /\ a + Paid(h) = Paid(p) + c
      BY <2>2, <2>6
    <3>2. a \in Nat /\ c \in Nat
      BY <2>7
    <3> HIDE DEF a, b, c, d
    <3>3. PICK e \in Nat, x \in Nat, y \in Nat : e = q[i + 1].cost /\ x = Paid(h) /\ y = Paid(p)
      BY <2>7
    <3>4. b = a + e /\ d = c + e /\ a + x = y + c
      BY <3>1, <3>3
    <3>5. b + x = y + d
      BY <3>2, <3>4
    <3> QED
      BY <3>3, <3>5 DEF b, d
  <2> QED
    BY <2>1, <2>8
<1>7. ASSUME NEW k \in Nat, k \in U PROVE k + 1 \in U
  <2> SUFFICES ASSUME n + (k + 1) <= N PROVE Paid(part(n)) <= Paid(part(n + (k + 1)))
    OBVIOUS
  <2> DEFINE i == n + k
  <2>1. i \in Nat /\ L <= i /\ i + 1 <= N /\ i <= N /\ n + (k + 1) = i + 1
    BY <1>1
  <2>2. Paid(part(n)) <= Paid(part(i))
    BY <1>7, <2>1
  <2> HIDE DEF U, L, N, tail, part, i
  <2>3. part(i + 1) = Append(part(i), q[i + 1]) /\ q[i + 1] \in Message
    <3>1. PICK j \in (L + 1)..N : j = i + 1
      BY <1>1, <2>1
    <3>2. j - 1 = i
      BY <2>1, <3>1
    <3> QED
      BY <1>4, <3>1, <3>2
  <2>4. part(i) \in Seq(Message) /\ part(n) \in Seq(Message)
    BY <1>1, <1>2, <2>1
  <2>5. Paid(part(i + 1)) = Paid(part(i)) + q[i + 1].cost
    BY <2>3, <2>4, PaidAppend
  <2>6. Paid(part(i)) \in Nat /\ Paid(part(n)) \in Nat /\ q[i + 1].cost \in Nat
    BY <1>3, <2>3, <2>4 DEF Message
  <2> QED
    BY <2>1, <2>2, <2>5, <2>6
<1>8. 0 \in U
  <2>1. part(n) \in Seq(Message) /\ n + 0 = n
    BY <1>1, <1>2
  <2>2. Paid(part(n)) \in Nat
    BY <1>3, <2>1
  <2>3. Paid(part(n)) <= Paid(part(n + 0))
    BY <2>1, <2>2
  <2> QED
    BY <2>3
<1>9. part(N) = q
  BY SubSeqFull
<1> HIDE DEF T, U
<1>10. Nat \subseteq T /\ Nat \subseteq U
  BY <1>5, <1>6, <1>7, <1>8, SetInduction
<1>11. n - L \in Nat /\ L + (n - L) = n /\ N - n \in Nat /\ n + (N - n) = N
  BY <1>1
<1>12. Paid(p \o tail(n)) + Paid(h) = Paid(p) + Paid(part(n))
  <2>1. n - L \in T
    BY <1>10, <1>11
  <2> QED
    BY <1>1, <1>11, <2>1 DEF T
<1>13. Paid(part(n)) <= Paid(q)
  <2>1. N - n \in U
    BY <1>10, <1>11
  <2> QED
    <3>1. Paid(part(n)) <= Paid(part(n + (N - n)))
      BY <1>11, <2>1 DEF U
    <3> QED
      BY <1>9, <1>11, <3>1
<1>14. p \o tail(n) \in Seq(Message) /\ part(n) \in Seq(Message)
  BY <1>1, <1>2
<1> HIDE DEF part
<1> QED
  BY <1>3, <1>12, <1>13, <1>14

-----------------------------------------------------------------------------
(***************************************************************************)
(* Types.                                                                  *)
(***************************************************************************)
LEMMA Distinct ==
  /\ NoMeta \notin Record /\ NoMeta \notin Meta /\ Torn \notin Meta /\ NoMeta # Torn
  /\ NoOne \notin Sessions /\ NoOne \notin Turns
  BY MetaAssumption

LEMMA IdleTyped ==
  ASSUME available \in Offers
  PROVE  IdleTurn \in TurnState /\ [IdleTurn EXCEPT !.pc = "done"] \in TurnState
<1>1. DefaultModel \in Models /\ Uncapped \in Caps /\ <<>> \in Seq(Message)
  BY SomeModel, MetaAssumption
<1>2. IdleTurn \in TurnState
  BY <1>1 DEF IdleTurn, TurnState
<1> QED
  BY <1>2 DEF TurnState

LEMMA IdleRestoreTyped == IdleRestore \in Restored
  BY DEF IdleRestore, Restored

LEMMA NoFilesTyped == NoFiles \in Files
  BY DEF NoFiles, Files

LEMMA OldTyped ==
  ASSUME NEW d \in Dirs, NEW lines \in Seq(Message), available \in Offers
  PROVE  OldFiles(d, lines) \in Files
<1>1. [cwd |-> d, model |-> DefaultModel, cap |-> Uncapped, title |-> NoTitle,
       updated |-> NoTime, cost |-> 0] \in Meta
  BY SomeModel, MetaAssumption DEF Meta
<1> QED
  BY <1>1 DEF OldFiles, NoFiles, Files

LEMMA OldLines ==
  ASSUME NEW t \in Turns, NEW lines \in {<<>>, <<[text |-> Prompt[t].whole, cost |-> 0]>>}
  PROVE  lines \in Seq(Message) /\ Paid(lines) = 0
<1> DEFINE m == [text |-> Prompt[t].whole, cost |-> 0]
<1>1. m \in Message /\ m.cost = 0
  BY MessageTyped
<1> HIDE DEF m
<1>2. <<>> \in Seq(Message) /\ <<m>> = Append(<<>>, m)
  OBVIOUS
<1>3. <<m>> \in Seq(Message) /\ Paid(<<m>>) = 0
  <2> DEFINE none == <<>>
  <2> HIDE DEF none
  <2>1. Append(none, m) \in Seq(Message) /\ Paid(Append(none, m)) = Paid(none) + m.cost
    BY <1>1, <1>2, PaidAppend, AppendProperties DEF none
  <2>2. Paid(none) = 0
    BY PaidEmpty DEF none
  <2> QED
    BY <1>1, <1>2, <2>1, <2>2 DEF none
<1> QED
  BY <1>2, <1>3, PaidEmpty DEF m

LEMMA InitTyped == Init => TypeInv
<1> SUFFICES ASSUME Init PROVE TypeInv
  OBVIOUS
<1>1. disk \in [Sessions -> Files] /\ used \subseteq Sessions /\ saved \subseteq Sessions
  BY OldTyped, OldLines, NoFilesTyped DEF Init
<1> QED
  BY <1>1, IdleTyped, IdleRestoreTyped DEF Init, TypeInv

(* The record after a turn has begun. *)
LEMMA BegunRecord ==
  ASSUME NEW t \in Turns, NEW s \in Sessions, TypeInv, BeginTurn(t, s)
  PROVE  LET titled == TitleAfter(live[s], Prompt[t])
             begun == [live[s].meta EXCEPT !.updated = clock + 1, !.title = titled] IN
         /\ live[s] \in Record /\ live'[s] \in Record /\ live'[s].meta \in Meta
         /\ titled \in Titled \/ titled = live[s].meta.title
         /\ live' = [live EXCEPT ![s] = live'[s]]
         /\ live'[s] = [meta |-> begun, history |-> live[s].history, active |-> t]
<1>1. live[s] \in Record /\ live[s].meta \in Meta /\ live[s].history \in Seq(Message)
  BY DEF TypeInv, BeginTurn, Record
<1>2. TitleAfter(live[s], Prompt[t]) \in Titled \/ TitleAfter(live[s], Prompt[t]) = live[s].meta.title
  BY <1>1, PromptTitled DEF TitleAfter
<1>3. TitleAfter(live[s], Prompt[t]) \in Texts \union {NoTitle, NewTitle}
  BY <1>1, <1>2, TitledIsTitle DEF Meta
<1> DEFINE titled == TitleAfter(live[s], Prompt[t])
<1> HIDE DEF titled
<1> DEFINE begun == [live[s].meta EXCEPT !.updated = clock + 1, !.title = titled]
<1>4. begun \in Meta
  <2>1. titled \in Texts \union {NoTitle, NewTitle} /\ clock + 1 \in Nat
    BY <1>3 DEF TypeInv, titled
  <2> QED
    BY <1>1, <2>1 DEF Meta
<1>5. live'[s] = [[[live[s] EXCEPT !.active = t] EXCEPT !.meta.updated = clock + 1]
                    EXCEPT !.meta.title = titled]
  BY DEF BeginTurn, TypeInv, titled
<1>6. live'[s] = [meta |-> begun, history |-> live[s].history, active |-> t]
  BY <1>1, <1>5 DEF Record, Meta
<1>7. live'[s] \in Record
  BY <1>1, <1>4, <1>6 DEF Record
<1>8. live' = [live EXCEPT ![s] = live'[s]]
  BY DEF BeginTurn, TypeInv
<1> HIDE DEF begun
<1> QED
  BY <1>1, <1>2, <1>4, <1>6, <1>7, <1>8 DEF titled, begun

LEMMA TailTyped ==
  ASSUME NEW h \in Seq(Message), NEW k \in Nat, NEW n \in Nat, n <= Len(h)
  PROVE  SubSeq(h, k + 1, n) \in Seq(Message)
<1>1. Len(h) \in Nat /\ \A i \in k + 1 .. n : h[i] \in Message
  BY LenProperties, ElementOfSeq
<1> QED
  BY <1>1, SubSeqProperties

LEMMA RequestsTyped ==
  ASSUME TypeInv, NEW s \in Sessions,
         \/ \E d \in Dirs : NewSession(s, d)
         \/ \E m \in Models, c \in Caps : SetOption(s, m, c)
         \/ CloseSession(s) \/ DeleteSession(s)
         \/ \E r \in Restores : ReadRecord(r, s)
         \/ \E t \in Turns : BeginTurn(t, s)
  PROVE  TypeInv'
<1> USE DEF TypeInv
<1>1. ASSUME NEW d \in Dirs, NewSession(s, d) PROVE TypeInv'
  <2>1. [cwd |-> d, model |-> DefaultModel, cap |-> Uncapped, title |-> NoTitle,
         updated |-> clock, cost |-> 0] \in Meta
    BY SomeModel, MetaAssumption DEF Meta
  <2>2. live'[s] \in Record
    BY <1>1, <2>1 DEF NewSession, Record
  <2> QED
    BY <1>1, <2>2 DEF NewSession
<1>2. ASSUME NEW m \in Models, NEW c \in Caps, SetOption(s, m, c) PROVE TypeInv'
  <2>1. live[s] \in Record
    BY <1>2 DEF SetOption
  <2>2. [live[s] EXCEPT !.meta.model = m] \in Record /\ [live[s] EXCEPT !.meta.cap = c] \in Record
    BY <2>1 DEF Record, Meta
  <2>3. live'[s] = [live[s] EXCEPT !.meta.model = m] \/ live'[s] = [live[s] EXCEPT !.meta.cap = c]
    BY <1>2 DEF SetOption
  <2>4. live'[s] \in Record
    BY <2>2, <2>3
  <2> QED
    BY <1>2, <2>4 DEF SetOption
<1>3. CASE CloseSession(s)
  BY <1>3 DEF CloseSession, ghosts
<1>4. CASE DeleteSession(s)
  BY <1>4, NoFilesTyped DEF DeleteSession
<1>5. ASSUME NEW r \in Restores, ReadRecord(r, s) PROVE TypeInv'
  <2>1. disk[s] \in Files
    OBVIOUS
  <2>2. restore'[r] = [on |-> s, meta |-> disk[s].meta, lines |-> disk[s].lines]
    BY <1>5 DEF ReadRecord
  <2>3. restore'[r] \in Restored
    BY <2>1, <2>2 DEF Files, Restored
  <2> QED
    BY <1>5, <2>3 DEF ReadRecord, ghosts
<1>6. ASSUME NEW t \in Turns, BeginTurn(t, s) PROVE TypeInv'
  <2> DEFINE m == [text |-> Prompt[t].whole, cost |-> 0]
  <2>1. live[s] \in Record /\ live'[s] \in Record /\ live' = [live EXCEPT ![s] = live'[s]]
    BY <1>6, BegunRecord
  <2>2. Append(live[s].history, m) \in Seq(Message)
    BY <2>1, MessageTyped, AppendProperties DEF Record
  <2>3. turn'[t] = [pc |-> "stream", on |-> s, model |-> live[s].meta.model,
                    cap |-> live[s].meta.cap, messages |-> Append(live[s].history, m),
                    meta |-> NoMeta, left |-> MaxReplies[t]]
    BY <1>6 DEF BeginTurn
  <2> HIDE DEF m
  <2>4. turn'[t] \in TurnState
    <3>1. live[s].meta.model \in Models /\ live[s].meta.cap \in Caps /\ MaxReplies[t] \in Int
      BY <2>1, MetaAssumption DEF Record, Meta
    <3> QED
      BY <2>2, <2>3, <3>1 DEF TurnState
  <2>5. /\ turn' = [turn EXCEPT ![t] = turn'[t]] /\ clock' = clock + 1
        /\ UNCHANGED <<available, disk, restore, changes, crashes, used, saved, stale>>
    BY <1>6 DEF BeginTurn, ghosts
  <2> QED
    BY <2>1, <2>4, <2>5
<1> QED
  BY <1>1, <1>2, <1>3, <1>4, <1>5, <1>6

LEMMA RestoresTyped ==
  ASSUME TypeInv, NEW r \in Restores, ConnectFails(r) \/ InsertRestored(r),
         restore[r].on # NoOne => restore[r].meta # NoMeta
  PROVE  TypeInv'
<1> USE DEF TypeInv
<1>1. CASE ConnectFails(r)
  BY <1>1, IdleRestoreTyped DEF ConnectFails, ghosts
<1>2. CASE InsertRestored(r)
  <2> DEFINE s == restore[r].on
             title == RestoredTitle(restore[r].meta, restore[r].lines)
             meta == [restore[r].meta EXCEPT !.title = title,
                                             !.updated = IF @ = NoTime THEN clock ELSE @]
  <2>1. s \in Sessions /\ restore[r].meta \in Meta /\ restore[r].lines \in Seq(Message)
    BY <1>2 DEF InsertRestored, Restored
  <2>2. title \in Texts \union {NoTitle, NewTitle}
    BY <2>1, RestoredTitled, TitledIsTitle
  <2>3. live'[s] = [meta |-> meta, history |-> restore[r].lines, active |-> NoOne]
    BY <1>2, <2>1 DEF InsertRestored
  <2>4. live' = [live EXCEPT ![s] = live'[s]] /\ stale' \subseteq stale \union {s}
        /\ restore' = [restore EXCEPT ![r] = IdleRestore]
    BY <1>2, <2>1 DEF InsertRestored
  <2>5. UNCHANGED <<available, disk, turn, clock, changes, crashes, used, saved>>
    BY <1>2 DEF InsertRestored
  <2> HIDE DEF title, s
  <2>6. meta \in Meta
    BY <2>1, <2>2 DEF Meta
  <2> HIDE DEF meta
  <2>7. live'[s] \in Record
    BY <2>1, <2>3, <2>6 DEF Record
  <2> QED
    BY <2>1, <2>4, <2>5, <2>7, IdleRestoreTyped
<1> QED
  BY <1>1, <1>2

LEMMA ChargedTyped ==
  ASSUME NEW record \in Record, NEW cost \in Nat
  PROVE  LET charged == [record EXCEPT !.meta.cost = @ + cost] IN
         /\ charged \in Record /\ [charged EXCEPT !.active = NoOne] \in Record
         /\ charged = [record EXCEPT !.meta = [record.meta EXCEPT !.cost = record.meta.cost + cost]]
<1> DEFINE meta == [record.meta EXCEPT !.cost = @ + cost]
           charged == [record EXCEPT !.meta.cost = @ + cost]
<1>1. meta \in Meta
  <2>1. record.meta \in Meta
    BY DEF Record
  <2> QED
    BY <2>1 DEF Meta
<1>2. charged = [record EXCEPT !.meta = meta]
  OBVIOUS
<1> HIDE DEF meta, charged
<1>3. charged \in Record /\ [charged EXCEPT !.active = NoOne] \in Record
  BY <1>1, <1>2 DEF Record
<1>4. charged = [record EXCEPT !.meta = [record.meta EXCEPT !.cost = record.meta.cost + cost]]
  BY <1>2 DEF meta
<1> QED
  BY <1>3, <1>4 DEF charged

LEMMA RepliesTyped ==
  ASSUME TypeInv, NEW t \in Turns, turn[t].on # NoOne,
         ModelAnswers(t) \/ TurnFails(t) \/ ToolsDone(t) \/ SaveSnapshot(t)
  PROVE  TypeInv'
<1> USE DEF TypeInv
<1> DEFINE s == turn[t].on
<1>a. turn[t] \in TurnState /\ s \in Sessions
  BY DEF TurnState
<1>b. Price[turn[t].model] \in Nat
  BY <1>a, MetaAssumption DEF TurnState
<1>c. End(t) \in [Turns -> TurnState]
  BY IdleTyped DEF End
<1>1. CASE ModelAnswers(t)
  <2>1. PICK cost \in {0, Price[turn[t].model]}, pc \in {"batch", "save"} :
          /\ live' = IF live[s] = NoMeta THEN live ELSE [live EXCEPT ![s].meta.cost = @ + cost]
          /\ turn' = [turn EXCEPT ![t].pc = pc,
               ![t].left = IF pc = "save" THEN 0 ELSE @ - 1,
               ![t].messages = Append(@, [text |-> NoTitle, cost |-> cost])]
    BY <1>1 DEF ModelAnswers
  <2>2. cost \in Nat /\ [text |-> NoTitle, cost |-> cost] \in Message
    BY <1>b DEF Message
  <2>3. Append(turn[t].messages, [text |-> NoTitle, cost |-> cost]) \in Seq(Message)
    BY <1>a, <2>2, AppendProperties DEF TurnState
  <2>4. turn' \in [Turns -> TurnState]
    <3> DEFINE more == Append(turn[t].messages, [text |-> NoTitle, cost |-> cost])
               left == IF pc = "save" THEN 0 ELSE turn[t].left - 1
    <3>1. more \in Seq(Message) /\ left \in Int
      BY <1>a, <2>3 DEF TurnState
    <3>2. turn' = [turn EXCEPT ![t] = turn'[t]]
          /\ turn'[t] = [turn[t] EXCEPT !.pc = pc, !.left = left, !.messages = more]
      BY <2>1
    <3> HIDE DEF more, left
    <3>3. turn'[t] \in TurnState
      BY <1>a, <3>1, <3>2 DEF TurnState, SyncPCs
    <3> QED
      BY <3>2, <3>3
  <2>5. ASSUME live[s] # NoMeta PROVE [live[s] EXCEPT !.meta.cost = @ + cost] \in Record
    BY <1>a, <2>2, <2>5, ChargedTyped
  <2>6. live' \in [Sessions -> Record \union {NoMeta}]
    BY <1>a, <2>1, <2>5
  <2>7. UNCHANGED <<available, disk, restore, clock, ghosts>>
    BY <1>1 DEF ModelAnswers
  <2> QED
    BY <2>4, <2>6, <2>7 DEF ghosts
<1>2. CASE TurnFails(t)
  <2>1. PICK charged \in {0, Price[turn[t].model]} :
          live' = IF live[s] = NoMeta THEN live
                  ELSE [live EXCEPT ![s].meta.cost = @ + charged, ![s].active = NoOne]
    BY <1>2 DEF TurnFails
  <2>2. charged \in Nat
    BY <1>b
  <2>3. ASSUME live[s] # NoMeta
        PROVE  [[live[s] EXCEPT !.meta.cost = @ + charged] EXCEPT !.active = NoOne] \in Record
    BY <1>a, <2>2, <2>3, ChargedTyped
  <2>4. live' \in [Sessions -> Record \union {NoMeta}]
    BY <1>a, <2>1, <2>3
  <2>5. UNCHANGED <<available, disk, restore, clock, ghosts>> /\ turn' = End(t)
    BY <1>2 DEF TurnFails
  <2> QED
    BY <1>c, <2>4, <2>5 DEF ghosts
<1>3. CASE ToolsDone(t)
  BY <1>3, <1>a DEF ToolsDone, ghosts, TurnState, SyncPCs
<1>4. CASE SaveSnapshot(t)
  <2>1. UNCHANGED <<available, live, disk, restore, clock, ghosts>>
    BY <1>4 DEF SaveSnapshot
  <2>2. CASE live[s] = NoMeta
    BY <1>4, <1>c, <2>1, <2>2 DEF SaveSnapshot, ghosts
  <2>3. CASE live[s] # NoMeta
    <3>1. live[s].meta \in Meta
      BY <1>a, <2>3 DEF Record
    <3>2. turn' = [turn EXCEPT ![t].pc = "write", ![t].meta = live[s].meta]
      BY <1>4, <2>3 DEF SaveSnapshot, MetaToSave
    <3>3. turn' \in [Turns -> TurnState]
      BY <1>a, <3>1, <3>2 DEF TurnState, SyncPCs
    <3> QED
      BY <2>1, <3>3 DEF ghosts
  <2> QED
    BY <2>2, <2>3
<1> QED
  BY <1>1, <1>2, <1>3, <1>4

(* What a failed save leaves: the old record, and old lines or some more.  *)
LEMMA LeftTyped ==
  ASSUME TypeInv, NEW t \in Turns, NEW s \in Sessions, s = turn[t].on, live[s] # NoMeta,
         turn[t].pc \in {"write", "first", "second"}, NEW files \in LeftBehind(t)
  PROVE  /\ files \in Files /\ files.meta = disk[s].meta
         /\ \/ files.lines = disk[s].lines
            \/ /\ turn[t].pc = "second"
               /\ \E n \in Len(live[s].history) .. Len(turn[t].messages) :
                    files.lines = disk[s].lines \o
                                    SubSeq(turn[t].messages, Len(live[s].history) + 1, n)
<1>1. /\ disk[s] \in Files /\ live[s] \in Record /\ turn[t] \in TurnState
      /\ turn[t].messages \in Seq(Message) /\ live[s].history \in Seq(Message)
      /\ disk[s].lines \in Seq(Message)
  BY DEF TypeInv, Record, TurnState, Files
<1>2. CASE files \in {disk[s], BesideIt(disk[s])}
  BY <1>1, <1>2 DEF BesideIt, Files
<1>3. CASE turn[t].pc = "second"
  <2> DEFINE tail(n) == SubSeq(turn[t].messages, Len(live[s].history) + 1, n)
  <2>1. PICK n \in Len(live[s].history) .. Len(turn[t].messages) : files = AppendedTo(t, n)
    BY <1>3 DEF LeftBehind
  <2>2. Len(live[s].history) \in Nat /\ n \in Nat /\ n <= Len(turn[t].messages)
    BY <1>1, LenProperties
  <2>3. tail(n) \in Seq(Message)
    BY <1>1, <2>2, TailTyped
  <2>4. files = [disk[s] EXCEPT !.lines = disk[s].lines \o tail(n)]
    BY <2>1 DEF AppendedTo
  <2> DEFINE lines == disk[s].lines \o tail(n)
  <2>5. lines \in Seq(Message)
    BY <1>1, <2>3, ConcatProperties
  <2>6. files = [disk[s] EXCEPT !.lines = lines]
    BY <2>4
  <2> HIDE DEF lines
  <2>7. files \in Files /\ files.meta = disk[s].meta /\ files.lines = lines
    BY <1>1, <2>5, <2>6 DEF Files
  <2> QED
    BY <1>3, <2>1, <2>7 DEF lines
<1> QED
  BY <1>2, <1>3 DEF LeftBehind

LEMMA SavesTyped ==
  ASSUME TypeInv, NEW t \in Turns, turn[t].on # NoOne,
         turn[t].pc \in {"write", "first", "second"} => live[turn[t].on] # NoMeta,
         turn[t].pc \in {"write", "first"} => turn[t].meta # NoMeta,
         WriteMeta(t) \/ RenameMeta(t) \/ AppendHistory(t) \/ SaveFails(t)
  PROVE  TypeInv'
<1> USE DEF TypeInv
<1> DEFINE s == turn[t].on
<1>a. turn[t] \in TurnState /\ s \in Sessions /\ disk[s] \in Files
  BY DEF TurnState
<1>1. CASE WriteMeta(t)
  <2>1. BesideIt(disk[s]) \in Files
    BY <1>a DEF BesideIt, Files
  <2> QED
    BY <1>1, <1>a, <2>1 DEF WriteMeta, ghosts, TurnState, SyncPCs
<1>2. CASE RenameMeta(t)
  <2>1. Renamed(t) \in Files
    BY <1>2, <1>a DEF RenameMeta, Renamed, Files, TurnState
  <2>2. disk' = [disk EXCEPT ![s] = Renamed(t)]
    BY <1>2 DEF RenameMeta, MetaFirst
  <2> QED
    BY <1>2, <1>a, <2>1, <2>2, ZenonT(30) DEF RenameMeta, TurnState, SyncPCs
<1>3. CASE AppendHistory(t)
  <2>1. live[s] \in Record /\ turn[t].messages \in Seq(Message)
    BY <1>3, <1>a DEF AppendHistory, TurnState
  <2>2. Len(live[s].history) \in Nat
    BY <2>1, LenProperties DEF Record
  <2>3. SubSeq(turn[t].messages, Len(live[s].history) + 1, Len(turn[t].messages)) \in Seq(Message)
    BY <2>1, <2>2, LenProperties, TailTyped
  <2>4. disk[s].lines \o SubSeq(turn[t].messages, Len(live[s].history) + 1, Len(turn[t].messages))
          \in Seq(Message)
    BY <1>a, <2>3, ConcatProperties DEF Files
  <2>5. Appended(t) \in Files
    BY <1>a, <2>4 DEF Appended, AppendedTo, Files
  <2>6. disk' = [disk EXCEPT ![s] = Appended(t)]
    BY <1>3 DEF AppendHistory, MetaFirst
  <2>7. live'[s] = [[live[s] EXCEPT !.history = turn[t].messages]
                      EXCEPT !.active = IF LastSave(t) THEN NoOne ELSE @]
    BY <1>3, <1>a DEF AppendHistory
  <2>8. live'[s] \in Record
    BY <2>1, <2>7 DEF Record
  <2>9. live' = [live EXCEPT ![s] = live'[s]]
    BY <1>3, <1>a DEF AppendHistory
  <2>10. turn' \in [Turns -> TurnState]
    BY <1>3, <1>a, IdleTyped DEF AppendHistory, End, TurnState
  <2>11. UNCHANGED <<available, restore, clock, ghosts>>
    BY <1>3 DEF AppendHistory
  <2> QED
    BY <2>5, <2>6, <2>8, <2>9, <2>10, <2>11 DEF ghosts
<1>4. CASE SaveFails(t)
  <2>1. PICK files \in LeftBehind(t) : disk' = [disk EXCEPT ![s] = files]
    BY <1>4 DEF SaveFails
  <2>2. live[s] \in Record /\ live[s] # NoMeta /\ turn[t].pc \in {"write", "first", "second"}
    BY <1>4, <1>a DEF SaveFails
  <2>3. files \in Files
    <3> HIDE DEF TypeInv, s
    <3> QED
      BY <1>a, <2>1, <2>2, LeftTyped DEF s
  <2>4. live' = [live EXCEPT ![s] = [live[s] EXCEPT !.active = NoOne]]
    BY <1>4, <1>a DEF SaveFails
  <2>5. [live[s] EXCEPT !.active = NoOne] \in Record
    BY <2>2 DEF Record
  <2>6. turn' \in [Turns -> TurnState]
    BY <1>4, <1>a, IdleTyped DEF SaveFails, End, TurnState
  <2>7. UNCHANGED <<available, restore, clock, ghosts>>
    BY <1>4 DEF SaveFails
  <2> QED
    BY <1>a, <2>1, <2>3, <2>4, <2>5, <2>6, <2>7 DEF ghosts
<1> QED
  BY <1>1, <1>2, <1>3, <1>4

LEMMA CrashTyped == ASSUME TypeInv, Crash PROVE TypeInv'
<1> USE DEF TypeInv
<1>1. IdleTurn' = IdleTurn /\ IdleTurn \in TurnState /\ [IdleTurn EXCEPT !.pc = "done"] \in TurnState
  BY IdleTyped DEF IdleTurn
<1>2. turn' \in [Turns -> TurnState] /\ restore' \in [Restores -> Restored]
  BY <1>1, IdleRestoreTyped DEF Crash
<1> QED
  BY <1>2 DEF Crash

-----------------------------------------------------------------------------
(***************************************************************************)
(* The invariant.  One save at a time is past its snapshot, and until it   *)
(* ends the record is what it writes.  A session keeps its directory and,  *)
(* from its first turn on, its title, wherever they are read.  Unless a    *)
(* load set it back, the record has paid for what the file holds (which a  *)
(* failed save may have left longer than the record's history), a turn     *)
(* that runs on it holds its slot, and what the turn would add to the file *)
(* is paid for too.                                                        *)
(***************************************************************************)
OneSaves == \A t, u \in Turns : turn[t].pc \in SyncPCs /\ turn[u].pc \in SyncPCs => t = u
Placed == \A t \in Turns : turn[t].on = NoOne => turn[t].pc \in {"idle", "done"}

Known(s) ==
  /\ s \in used \/ /\ live[s] = NoMeta /\ disk[s] = NoFiles
                   /\ \A r \in Restores : restore[r].on # s
                   /\ \A t \in Turns : turn[t].on # s
  /\ s \in saved <=> disk[s].meta # NoMeta
  /\ disk[s].meta = NoMeta => disk[s].lines = <<>>
  /\ \A r \in Restores : restore[r].on = s => restore[r].meta # NoMeta

SavesRecord(s) ==
  \A t \in Turns : turn[t].on = s =>
    /\ turn[t].pc \notin {"idle", "done"}
    /\ turn[t].pc \in {"write", "first"} => live[s] # NoMeta /\ turn[t].meta = live[s].meta
    /\ turn[t].pc = "second" => live[s] # NoMeta /\ disk[s].meta = live[s].meta

HomeIs(s, d) ==
  /\ live[s] # NoMeta => live[s].meta.cwd = d
  /\ disk[s].meta # NoMeta => disk[s].meta.cwd = d
  /\ \A r \in Restores : restore[r].on = s => restore[r].meta.cwd = d

OneHome(s) == s \in used => \E d \in Dirs : HomeIs(s, d)

Unnamed(s) ==
  /\ live[s] # NoMeta /\ live[s].meta.title = NoTitle
  /\ disk[s].meta = NoMeta
  /\ \A r \in Restores : restore[r].on # s
  /\ \A t \in Turns : turn[t].on # s

TitleIs(s, x) ==
  /\ live[s] # NoMeta => live[s].meta.title = x
  /\ disk[s].meta # NoMeta => RestoredTitle(disk[s].meta, disk[s].lines) = x
  /\ \A r \in Restores : restore[r].on = s => RestoredTitle(restore[r].meta, restore[r].lines) = x

OneTitle(s) == s \in used => Unnamed(s) \/ \E x \in Titled : TitleIs(s, x)

DiskPaid(s) == disk[s].meta # NoMeta => Paid(disk[s].lines) <= disk[s].meta.cost

LivePaid(s) == live[s] # NoMeta =>
  /\ Paid(disk[s].lines) <= live[s].meta.cost
  /\ disk[s].meta # NoMeta => disk[s].meta.cost <= live[s].meta.cost

TurnPaid(s) == \A t \in Turns : live[s] # NoMeta /\ turn[t].on = s =>
  /\ live[s].active = t
  /\ IsPrefix(live[s].history, turn[t].messages)
  /\ Paid(disk[s].lines) + Paid(turn[t].messages) <= live[s].meta.cost + Paid(live[s].history)

RepliesPaid(s) == s \in used \ stale => DiskPaid(s) /\ LivePaid(s) /\ TurnPaid(s)

Good(s) == Known(s) /\ SavesRecord(s) /\ OneHome(s) /\ OneTitle(s) /\ RepliesPaid(s)

MetaInv == TypeInv /\ OneSaves /\ Placed /\ \A s \in Sessions : Good(s)

LEMMA InitInv == Init => MetaInv
<1> SUFFICES ASSUME Init PROVE MetaInv
  OBVIOUS
<1>1. TypeInv
  BY InitTyped
<1>2. OneSaves /\ Placed
  BY DEF Init, IdleTurn, OneSaves, Placed, SyncPCs
<1>3. ASSUME NEW s \in Sessions PROVE Good(s)
  <2>0. PICK old \in SUBSET Sessions, d \in Dirs, t \in Turns :
          /\ \E lines \in {<<>>, <<[text |-> Prompt[t].whole, cost |-> 0]>>} :
               disk = [z \in Sessions |-> IF z \in old THEN OldFiles(d, lines) ELSE NoFiles]
          /\ saved = old /\ used = old
    BY DEF Init
  <2>1. PICK lines \in {<<>>, <<[text |-> Prompt[t].whole, cost |-> 0]>>} :
          /\ disk = [z \in Sessions |-> IF z \in old THEN OldFiles(d, lines) ELSE NoFiles]
          /\ saved = old /\ used = old
    BY <2>0
  <2>2. lines \in Seq(Message) /\ Paid(lines) = 0
    BY OldLines
  <2>3. /\ live[s] = NoMeta /\ \A u \in Turns : turn[u].on # s
        /\ \A r \in Restores : restore[r].on # s
    BY Distinct DEF Init, IdleTurn, IdleRestore
  <2>4. CASE s \notin old
    <3>1. disk[s] = NoFiles /\ s \notin used /\ s \notin saved
      BY <2>1, <2>4
    <3> QED
      BY <2>3, <3>1 DEF Good, Known, SavesRecord, OneHome, OneTitle, RepliesPaid, NoFiles
  <2>5. CASE s \in old
    <3>1. disk[s] = OldFiles(d, lines) /\ s \in used /\ s \in saved
      BY <2>1, <2>5
    <3>2. disk[s] \in Files
      BY <1>1 DEF TypeInv
    <3>3. disk[s].meta # NoMeta /\ disk[s].meta.cwd = d /\ disk[s].meta.cost = 0 /\ disk[s].lines = lines
      <4>1. [cwd |-> d, model |-> DefaultModel, cap |-> Uncapped, title |-> NoTitle,
             updated |-> NoTime, cost |-> 0] \in Meta
        BY <1>1, SomeModel, MetaAssumption DEF Meta, TypeInv
      <4> QED
        BY <3>1, <4>1, Distinct DEF OldFiles, NoFiles
    <3>4. RestoredTitle(disk[s].meta, disk[s].lines) \in Titled
      BY <3>2, <3>3, RestoredTitled DEF Files
    <3>5. Known(s) /\ SavesRecord(s)
      BY <2>3, <3>1, <3>3 DEF Known, SavesRecord
    <3>6. OneHome(s)
      BY <2>3, <3>3 DEF OneHome, HomeIs
    <3>7. OneTitle(s)
      BY <2>3, <3>4 DEF OneTitle, TitleIs
    <3>8. RepliesPaid(s)
      BY <2>2, <2>3, <3>3 DEF RepliesPaid, DiskPaid, LivePaid, TurnPaid
    <3> QED
      BY <3>5, <3>6, <3>7, <3>8 DEF Good
  <2> QED
    BY <2>4, <2>5
<1> QED
  BY <1>1, <1>2, <1>3 DEF MetaInv

(* A step that leaves a session alone keeps what is known of it. *)
Untouched(s) ==
  /\ live'[s] = live[s] /\ disk'[s] = disk[s]
  /\ (s \in used' <=> s \in used) /\ (s \in saved' <=> s \in saved) /\ (s \in stale => s \in stale')
  /\ \A t \in Turns : turn'[t].on = s => turn'[t] = turn[t]
  /\ \A r \in Restores : restore'[r].on = s => restore'[r] = restore[r]

LEMMA UntouchedKeeps ==
  ASSUME NEW s \in Sessions, Good(s), Untouched(s)
  PROVE  Good(s)'
<1> USE DEF Untouched, Good
<1>1. Known(s)'
  BY DEF Known
<1>2. SavesRecord(s)'
  BY DEF SavesRecord
<1>3. OneHome(s)'
  BY DEF OneHome, HomeIs
<1>4. OneTitle(s)'
  BY DEF OneTitle, TitleIs, Unnamed
<1>5. RepliesPaid(s)'
  BY DEF RepliesPaid, DiskPaid, LivePaid, TurnPaid
<1> QED
  BY <1>1, <1>2, <1>3, <1>4, <1>5

LEMMA RequestsKeep ==
  ASSUME MetaInv, NEW s0 \in Sessions, NEW s \in Sessions,
         \/ \E d \in Dirs : NewSession(s0, d)
         \/ \E m \in Models, c \in Caps : SetOption(s0, m, c)
         \/ CloseSession(s0) \/ DeleteSession(s0)
  PROVE  Good(s)'
<1> USE DEF MetaInv, TypeInv
<1>a. Good(s) /\ Good(s0)
  OBVIOUS
<1>b. CASE s # s0
  <2>1. Untouched(s)
    BY <1>b DEF Untouched, NewSession, SetOption, CloseSession, DeleteSession, ghosts
  <2> QED
    BY <1>a, <2>1, UntouchedKeeps
<1>c. ASSUME s = s0, NEW d \in Dirs, NewSession(s, d) PROVE Good(s)'
  <2>1. /\ live[s] = NoMeta /\ disk[s] = NoFiles /\ s \notin used
        /\ \A r \in Restores : restore[r].on # s
        /\ \A t \in Turns : turn[t].on # s
    BY <1>a, <1>c DEF Good, Known, NewSession
  <2>2. /\ live'[s] = [meta |-> [cwd |-> d, model |-> DefaultModel, cap |-> Uncapped,
                                 title |-> NoTitle, updated |-> clock, cost |-> 0],
                       history |-> <<>>, active |-> NoOne]
        /\ s \in used' /\ UNCHANGED <<disk, turn, restore, saved>>
    BY <1>c DEF NewSession
  <2>3. /\ live'[s] # NoMeta /\ live'[s].meta.cwd = d /\ live'[s].meta.title = NoTitle
        /\ live'[s].meta.cost = 0 /\ live'[s].history = <<>>
    <3>1. [cwd |-> d, model |-> DefaultModel, cap |-> Uncapped, title |-> NoTitle,
           updated |-> clock, cost |-> 0] \in Meta
      BY SomeModel, MetaAssumption DEF Meta
    <3>2. live'[s] \in Record
      BY <2>2, <3>1 DEF Record
    <3> QED
      BY <2>2, <3>2, Distinct
  <2>4. disk'[s].meta = NoMeta /\ disk'[s].lines = <<>>
    BY <2>1, <2>2 DEF NoFiles
  <2>5. Known(s)' /\ SavesRecord(s)'
    BY <1>a, <2>1, <2>2, <2>4 DEF Good, Known, SavesRecord
  <2>6. OneHome(s)'
    BY <2>1, <2>2, <2>3, <2>4 DEF OneHome, HomeIs
  <2>7. OneTitle(s)'
    BY <2>1, <2>2, <2>3, <2>4 DEF OneTitle, Unnamed
  <2>8. RepliesPaid(s)'
    BY <2>1, <2>2, <2>3, <2>4, PaidEmpty DEF RepliesPaid, DiskPaid, LivePaid, TurnPaid
  <2> QED
    BY <2>5, <2>6, <2>7, <2>8 DEF Good
<1>d. ASSUME s = s0, NEW m \in Models, NEW c \in Caps, SetOption(s, m, c) PROVE Good(s)'
  <2>1. live[s] \in Record /\ live[s].meta \in Meta
    BY <1>d DEF SetOption, Record
  <2>2. live'[s] = [live[s] EXCEPT !.meta.model = m] \/ live'[s] = [live[s] EXCEPT !.meta.cap = c]
    BY <1>d DEF SetOption
  <2>3. /\ live'[s] # NoMeta /\ live'[s].history = live[s].history /\ live'[s].active = live[s].active
        /\ live'[s].meta.cwd = live[s].meta.cwd /\ live'[s].meta.title = live[s].meta.title
        /\ live'[s].meta.cost = live[s].meta.cost
    <3>1. [live[s] EXCEPT !.meta.model = m] \in Record /\ [live[s] EXCEPT !.meta.cap = c] \in Record
      BY <2>1 DEF Record, Meta
    <3> QED
      BY <2>1, <2>2, <3>1, Distinct DEF Record, Meta
  <2>4. live[s] # NoMeta /\ UNCHANGED <<disk, turn, restore, used, saved, stale>>
        /\ \A t \in Turns : turn[t].pc \notin SyncPCs
    BY <1>d DEF SetOption, AtAwait
  <2>5. Known(s)' /\ SavesRecord(s)'
    BY <1>a, <2>3, <2>4 DEF Good, Known, SavesRecord, SyncPCs
  <2>6. OneHome(s)'
    BY <1>a, <2>3, <2>4 DEF Good, OneHome, HomeIs
  <2>7. OneTitle(s)'
    BY <1>a, <2>3, <2>4 DEF Good, OneTitle, TitleIs, Unnamed
  <2>8. RepliesPaid(s)'
    BY <1>a, <2>3, <2>4 DEF Good, RepliesPaid, DiskPaid, LivePaid, TurnPaid
  <2> QED
    BY <2>5, <2>6, <2>7, <2>8 DEF Good
<1>e. ASSUME s = s0, CloseSession(s) \/ DeleteSession(s) PROVE Good(s)'
  <2>1. /\ live'[s] = NoMeta /\ UNCHANGED <<turn, restore, used, stale>>
        /\ \/ disk'[s] = disk[s] /\ saved' = saved
           \/ disk'[s] = NoFiles /\ saved' = saved \ {s}
        /\ \A t \in Turns : turn[t].pc \notin SyncPCs
    BY <1>e DEF CloseSession, DeleteSession, ghosts, AtAwait
  <2>2. disk'[s] = disk[s] \/ (disk'[s].meta = NoMeta /\ disk'[s].lines = <<>>)
    BY <2>1 DEF NoFiles
  <2>3. s \in used
    BY <1>a, <1>e DEF Good, Known, CloseSession, DeleteSession
  <2>4. Known(s)' /\ SavesRecord(s)'
    BY <1>a, <2>1, <2>2, <2>3 DEF Good, Known, SavesRecord, SyncPCs, NoFiles
  <2>5. OneHome(s)'
    BY <1>a, <2>1, <2>2 DEF Good, OneHome, HomeIs
  <2>6. OneTitle(s)'
    <3>1. CASE Unnamed(s)
      <4>1. \A x \in Titled : TitleIs(s, x)'
        BY <2>1, <2>2, <3>1 DEF Unnamed, TitleIs
      <4> QED
        BY <4>1 DEF OneTitle, Titled
    <3>2. ASSUME NEW x \in Titled, TitleIs(s, x) PROVE OneTitle(s)'
      BY <2>1, <2>2, <3>2 DEF OneTitle, TitleIs
    <3> QED
      BY <1>a, <2>3, <3>1, <3>2 DEF Good, OneTitle
  <2>7. RepliesPaid(s)'
    BY <1>a, <2>1, <2>2 DEF Good, RepliesPaid, DiskPaid, LivePaid, TurnPaid
  <2> QED
    BY <2>4, <2>5, <2>6, <2>7 DEF Good
<1> QED
  BY <1>b, <1>c, <1>d, <1>e

LEMMA RestoresKeep ==
  ASSUME MetaInv, NEW r \in Restores, NEW s \in Sessions,
         ConnectFails(r) \/ InsertRestored(r) \/ \E z \in Sessions : ReadRecord(r, z)
  PROVE  Good(s)'
<1> USE DEF MetaInv, TypeInv
<1>a. Good(s)
  OBVIOUS
<1>1. ASSUME NEW z \in Sessions, ReadRecord(r, z) PROVE Good(s)'
  <2>1. /\ UNCHANGED <<live, disk, turn, used, saved, stale>> /\ disk[z].meta \notin {NoMeta, Torn}
        /\ restore' = [restore EXCEPT ![r] =
             [on |-> z, meta |-> disk[z].meta, lines |-> disk[z].lines]]
    BY <1>1 DEF ReadRecord, Readable, ghosts
  <2>2. CASE s # z
    <3>1. Untouched(s)
      BY <2>1, <2>2 DEF Untouched
    <3> QED
      BY <1>a, <3>1, UntouchedKeeps
  <2>3. CASE s = z
    <3>1. disk[s].meta # NoMeta /\ disk[s] # NoFiles
      BY <2>1, <2>3 DEF NoFiles
    <3>2. \A q \in Restores : restore'[q].on = s =>
            \/ restore'[q] = restore[q]
            \/ restore'[q].meta = disk[s].meta /\ restore'[q].lines = disk[s].lines
      BY <2>1, <2>3
    <3> HIDE DEF TypeInv
    <3>3. Known(s)' /\ SavesRecord(s)'
      BY <1>a, <2>1, <3>1, <3>2 DEF Good, Known, SavesRecord
    <3>4. OneHome(s)'
      BY <1>a, <2>1, <3>1, <3>2 DEF Good, OneHome, HomeIs
    <3>5. OneTitle(s)'
      <4>1. ~Unnamed(s)
        BY <3>1 DEF Unnamed
      <4>2. ASSUME NEW x \in Titled, TitleIs(s, x) PROVE TitleIs(s, x)'
        BY <2>1, <3>1, <3>2, <4>2 DEF TitleIs
      <4> QED
        BY <1>a, <2>1, <4>1, <4>2 DEF Good, OneTitle
    <3>6. RepliesPaid(s)'
      BY <1>a, <2>1 DEF Good, RepliesPaid, DiskPaid, LivePaid, TurnPaid
    <3> QED
      BY <3>3, <3>4, <3>5, <3>6 DEF Good
  <2> QED
    BY <2>2, <2>3
<1>2. CASE ConnectFails(r)
  <2>1. Untouched(s)
    BY <1>2, Distinct DEF ConnectFails, Untouched, IdleRestore, ghosts
  <2> QED
    BY <1>a, <2>1, UntouchedKeeps
<1>3. CASE InsertRestored(r)
  <2> DEFINE z == restore[r].on
             title == RestoredTitle(restore[r].meta, restore[r].lines)
             meta == [restore[r].meta EXCEPT !.title = title,
                                             !.updated = IF @ = NoTime THEN clock ELSE @]
  <2>1. z \in Sessions /\ restore[r] \in Restored /\ Good(z)
    BY <1>3 DEF InsertRestored, Restored
  <2>2. /\ UNCHANGED <<disk, turn, used, saved>>
        /\ restore' = [restore EXCEPT ![r] = IdleRestore]
        /\ live' = [live EXCEPT ![z] = live'[z]]
        /\ live'[z] = [meta |-> meta, history |-> restore[r].lines, active |-> NoOne]
        /\ stale' = stale \union (IF \/ Running(z) # {}
                                     \/ disk[z].lines # restore[r].lines
                                     \/ disk[z].meta # restore[r].meta THEN {z} ELSE {})
        /\ \A t \in Turns : turn[t].pc \notin SyncPCs
    BY <1>3, <2>1 DEF InsertRestored, AtAwait
  <2>3. restore'[r].on = NoOne
    BY <2>2 DEF IdleRestore
  <2>4. restore[r].meta \in Meta
    BY <2>1 DEF Good, Known, Restored
  <2> HIDE DEF TypeInv
  <2>5. CASE s # z
    <3>1. Untouched(s)
      BY <2>1, <2>2, <2>3, <2>5, Distinct DEF Untouched, TypeInv
    <3> QED
      BY <1>a, <3>1, UntouchedKeeps
  <2>6. CASE s = z
    <3>1. s \in used
      BY <2>1, <2>6 DEF Good, Known
    <3>2. /\ live'[s] # NoMeta /\ live'[s].meta.title = title
          /\ live'[s].meta.cwd = restore[r].meta.cwd /\ live'[s].meta.cost = restore[r].meta.cost
          /\ live'[s].history = restore[r].lines
      <4>1. /\ meta.title = title /\ meta.cwd = restore[r].meta.cwd
            /\ meta.cost = restore[r].meta.cost
        BY <2>4 DEF Meta
      <4> HIDE DEF meta, title
      <4>2. /\ live'[s].meta = meta /\ live'[s].history = restore[r].lines
        BY <2>2, <2>6
      <4>3. live'[s] # NoMeta
        <5>1. meta \in Meta
          <6>1. title \in Texts \union {NoTitle, NewTitle}
            BY <2>1, <2>4, RestoredTitled, TitledIsTitle DEF Restored, title
          <6> QED
            BY <2>4, <6>1 DEF meta, Meta, TypeInv
        <5>2. live'[s] \in Record
          BY <2>1, <2>2, <2>6, <5>1 DEF Record, Restored
        <5> QED
          BY <5>2, Distinct
      <4> QED
        BY <4>1, <4>2, <4>3
    <3> HIDE DEF title, meta
    <3>3. \A q \in Restores : restore'[q].on = s => restore'[q] = restore[q]
      BY <2>1, <2>2, <2>3, <2>6, Distinct DEF TypeInv
    <3>4. Known(s)' /\ SavesRecord(s)'
      BY <2>1, <2>2, <2>6, <3>1, <3>3, SMTT(30) DEF Good, Known, SavesRecord, SyncPCs
    <3>5. OneHome(s)'
      BY <1>a, <2>2, <2>6, <3>1, <3>2, <3>3, SMTT(60) DEF Good, OneHome, HomeIs
    <3>6. OneTitle(s)'
      <4>1. ~Unnamed(s)
        BY <2>6 DEF Unnamed
      <4>2. ASSUME NEW x \in Titled, TitleIs(s, x) PROVE TitleIs(s, x)'
        BY <2>2, <2>6, <3>2, <3>3, <4>2 DEF TitleIs, title
      <4> QED
        BY <1>a, <2>2, <4>1, <4>2 DEF Good, OneTitle
    <3>7. RepliesPaid(s)'
      <4> SUFFICES ASSUME s \notin stale' PROVE (DiskPaid(s) /\ LivePaid(s) /\ TurnPaid(s))'
        BY DEF RepliesPaid
      <4>1. /\ s \notin stale /\ Running(s) = {}
            /\ disk[s].lines = restore[r].lines /\ disk[s].meta = restore[r].meta
        BY <2>2, <2>6
      <4>2. DiskPaid(s)
        BY <1>a, <3>1, <4>1 DEF Good, RepliesPaid
      <4>3. DiskPaid(s)'
        BY <2>2, <4>2 DEF DiskPaid
      <4>4. Paid(restore[r].lines) <= restore[r].meta.cost /\ restore[r].meta.cost \in Nat
        BY <2>4, <4>1, <4>2, Distinct DEF DiskPaid, Meta
      <4>5. LivePaid(s)'
        BY <2>2, <3>2, <4>1, <4>4 DEF LivePaid
      <4>6. \A t \in Turns : turn[t].on # s
        BY <1>a, <4>1 DEF Running, Good, SavesRecord
      <4>7. TurnPaid(s)'
        BY <2>2, <4>6 DEF TurnPaid
      <4> QED
        BY <4>3, <4>5, <4>7
    <3> QED
      BY <3>4, <3>5, <3>6, <3>7 DEF Good
  <2> QED
    BY <2>5, <2>6
<1> QED
  BY <1>1, <1>2, <1>3

LEMMA BeginKeeps ==
  ASSUME MetaInv, NEW t \in Turns, NEW z \in Sessions, NEW s \in Sessions, BeginTurn(t, z)
  PROVE  Good(s)'
<1> USE DEF MetaInv
<1>a. Good(s) /\ TypeInv
  OBVIOUS
<1> DEFINE title == TitleAfter(live[z], Prompt[t])
           prompt == [text |-> Prompt[t].whole, cost |-> 0]
           messages == Append(live[z].history, prompt)
<1>1. /\ live[z] \in Record /\ live'[z] \in Record
      /\ title \in Titled \/ title = live[z].meta.title
      /\ live' = [live EXCEPT ![z] = live'[z]]
      /\ live'[z] = [meta |-> [live[z].meta EXCEPT !.updated = clock + 1, !.title = title],
                     history |-> live[z].history, active |-> t]
  BY <1>a, BegunRecord
<1>2. /\ live'[z].meta.title = title /\ live'[z].meta.cwd = live[z].meta.cwd
      /\ live'[z].meta.cost = live[z].meta.cost /\ live'[z].history = live[z].history
      /\ live'[z].active = t /\ live'[z] # NoMeta /\ live[z] # NoMeta
  <2>1. live[z].meta \in Meta
    BY <1>1 DEF Record
  <2> HIDE DEF title
  <2> DEFINE begun == [live[z].meta EXCEPT !.updated = clock + 1, !.title = title]
  <2>2. begun.title = title /\ begun.cwd = live[z].meta.cwd /\ begun.cost = live[z].meta.cost
    BY <2>1 DEF Meta
  <2> HIDE DEF begun
  <2>3. live'[z] = [meta |-> begun, history |-> live[z].history, active |-> t]
    BY <1>1 DEF begun
  <2>4. live'[z].meta = begun /\ live'[z].history = live[z].history /\ live'[z].active = t
    BY <2>3
  <2>5. live'[z] # NoMeta /\ live[z] # NoMeta
    BY <1>1, Distinct
  <2> QED
    BY <2>2, <2>4, <2>5
<1>3. /\ turn'[t].on = z /\ turn'[t].pc = "stream" /\ turn'[t].messages = messages
      /\ turn' = [turn EXCEPT ![t] = turn'[t]]
  BY <1>a DEF BeginTurn, TypeInv
<1>4. /\ UNCHANGED <<disk, restore, used, saved, stale>>
      /\ turn[t].on = NoOne /\ live[z].active = NoOne
      /\ \A u \in Turns : turn[u].pc \notin SyncPCs
  BY DEF BeginTurn, ghosts, AtAwait, IdleTurn
<1> HIDE DEF title, MetaInv
<1>5. CASE s # z
  <2>1. Untouched(s)
    BY <1>a, <1>1, <1>3, <1>4, <1>5 DEF Untouched, TypeInv
  <2> QED
    BY <1>a, <2>1, UntouchedKeeps
<1>6. CASE s = z
  <2>1. s \in used
    BY <1>a, <1>2, <1>6 DEF Good, Known
  <2>2. \A u \in Turns : u # t => turn'[u] = turn[u]
    BY <1>a, <1>3 DEF TypeInv
  <2>3. Known(s)' /\ SavesRecord(s)'
    BY <1>a, <1>2, <1>3, <1>4, <1>6, <2>1, <2>2 DEF Good, Known, SavesRecord, SyncPCs
  <2>4. OneHome(s)'
    BY <1>a, <1>2, <1>4, <1>6 DEF Good, OneHome, HomeIs
  <2>5. OneTitle(s)'
    <3>1. CASE Unnamed(s)
      <4>1. PICK x \in Titled : x = title
        BY <1>1, <1>6, <3>1, PromptTitled DEF Unnamed, title, TitleAfter, Record
      <4>2. TitleIs(s, x)'
        BY <1>2, <1>4, <1>6, <3>1, <4>1 DEF Unnamed, TitleIs
      <4> QED
        BY <4>1, <4>2 DEF OneTitle, Titled
    <3>2. ASSUME NEW x \in Titled, TitleIs(s, x) PROVE OneTitle(s)'
      <4>1. live[s].meta.title = x /\ x # NoTitle
        BY <1>2, <1>6, <3>2, TitledIsTitle DEF TitleIs
      <4>2. title = x
        BY <1>6, <4>1 DEF title, TitleAfter
      <4>3. TitleIs(s, x)'
        BY <1>2, <1>4, <1>6, <3>2, <4>2 DEF TitleIs
      <4> QED
        BY <4>3 DEF OneTitle, Titled
    <3> QED
      BY <1>a, <2>1, <3>1, <3>2 DEF Good, OneTitle
  <2>6. RepliesPaid(s)'
    <3> SUFFICES ASSUME s \notin stale PROVE (DiskPaid(s) /\ LivePaid(s) /\ TurnPaid(s))'
      BY <1>4 DEF RepliesPaid
    <3>1. DiskPaid(s) /\ LivePaid(s) /\ TurnPaid(s)
      BY <1>a, <2>1 DEF Good, RepliesPaid
    <3>2. DiskPaid(s)' /\ LivePaid(s)'
      BY <1>2, <1>4, <1>6, <3>1 DEF DiskPaid, LivePaid
    <3>3. \A u \in Turns : turn[u].on # s
      BY <1>2, <1>4, <1>6, <3>1, Distinct DEF TurnPaid
    <3>4. /\ live[s].history \in Seq(Message) /\ prompt \in Message /\ prompt.cost = 0
      BY <1>1, <1>6, MessageTyped DEF Record
    <3> HIDE DEF prompt
    <3>5. /\ IsPrefix(live[s].history, messages)
          /\ Paid(messages) = Paid(live[s].history)
      BY <1>6, <3>4, PrefixOfItself, PrefixOfAppend, PaidAppend
    <3>6. /\ live'[s].history = live[s].history /\ live'[s].active = t
          /\ Paid(disk[s].lines) + Paid(turn'[t].messages) <= live'[s].meta.cost + Paid(live'[s].history)
          /\ IsPrefix(live'[s].history, turn'[t].messages)
      <4>1. disk[s].lines \in Seq(Message) /\ live[s].meta.cost \in Nat
        BY <1>1, <1>6, <1>a DEF TypeInv, Files, Record, Meta
      <4>2. Paid(disk[s].lines) \in Nat /\ Paid(live[s].history) \in Nat
        BY <3>4, <4>1, PaidAppend
      <4>3. Paid(disk[s].lines) <= live[s].meta.cost
        BY <1>2, <1>6, <3>1 DEF LivePaid
      <4>4. Paid(disk[s].lines) + Paid(messages) <= live[s].meta.cost + Paid(live[s].history)
        BY <3>5, <4>1, <4>2, <4>3
      <4> QED
        BY <1>2, <1>3, <1>6, <3>5, <4>4
    <3>7. \A u \in Turns : turn'[u].on = s => u = t
      BY <2>2, <3>3
    <3>8. TurnPaid(s)'
      BY <1>4, <3>6, <3>7 DEF TurnPaid
    <3> QED
      BY <3>2, <3>8
  <2> QED
    BY <2>3, <2>4, <2>5, <2>6 DEF Good
<1> QED
  BY <1>5, <1>6

LEMMA RepliesKeep ==
  ASSUME MetaInv, NEW t \in Turns, NEW s \in Sessions,
         ModelAnswers(t) \/ TurnFails(t) \/ ToolsDone(t)
  PROVE  Good(s)'
<1> USE DEF MetaInv
<1> DEFINE z == turn[t].on
<1>a. Good(s) /\ TypeInv /\ turn[t].pc \in {"stream", "batch"}
      /\ \A u \in Turns : turn[u].pc \notin SyncPCs
  BY DEF ModelAnswers, TurnFails, ToolsDone, AtAwait
<1>b. z \in Sessions /\ turn[t] \in TurnState
  BY <1>a DEF Placed, TypeInv, TurnState
<1>c. Price[turn[t].model] \in Nat
  BY <1>b, MetaAssumption DEF TurnState
<1>d. Good(z)
  BY <1>b
<1>e. UNCHANGED <<disk, restore, used, saved, stale>>
  BY DEF ModelAnswers, TurnFails, ToolsDone, ghosts
<1>f. /\ \A u \in Turns : u # t => turn'[u] = turn[u]
      /\ turn'[t].on \in {z, NoOne}
      /\ turn'[t].pc \notin {"write", "first", "second"}
      /\ turn'[t].on = z => turn'[t].pc \notin {"idle", "done"}
  BY <1>a, <1>b, Distinct, SMTT(60) DEF ModelAnswers, TurnFails, ToolsDone, End, IdleTurn, TypeInv, TurnState
(* What every one of them does to the record and to the messages. *)
<1>g. \E cost \in Nat :
        /\ \/ live' = live /\ (live[z] # NoMeta => cost = 0)
           \/ /\ live[z] # NoMeta /\ live'[z] # NoMeta
              /\ live' = [live EXCEPT ![z] = live'[z]]
              /\ live'[z].meta.cwd = live[z].meta.cwd
              /\ live'[z].meta.title = live[z].meta.title
              /\ live'[z].meta.cost = live[z].meta.cost + cost
              /\ live'[z].history = live[z].history
              /\ turn'[t].on = z => live'[z].active = live[z].active
        /\ turn'[t].on = z =>
             \/ turn'[t].messages = turn[t].messages
             \/ turn'[t].messages = Append(turn[t].messages, [text |-> NoTitle, cost |-> cost])
  <2>1. ASSUME NEW cost \in Nat, live[z] # NoMeta,
               NEW record, \/ record = [live[z] EXCEPT !.meta.cost = @ + cost]
                           \/ record = [[live[z] EXCEPT !.meta.cost = @ + cost]
                                          EXCEPT !.active = NoOne]
        PROVE  /\ record # NoMeta /\ record.meta.cwd = live[z].meta.cwd
               /\ record.meta.title = live[z].meta.title
               /\ record.meta.cost = live[z].meta.cost + cost
               /\ record.history = live[z].history
    <3>1. live[z] \in Record
      BY <1>a, <1>b, <2>1 DEF TypeInv
    <3>2. record \in Record
      BY <2>1, <3>1, ChargedTyped
    <3>3. live[z].meta \in Meta
      BY <3>1 DEF Record
    <3> DEFINE meta == [live[z].meta EXCEPT !.cost = live[z].meta.cost + cost]
    <3>4. meta.cwd = live[z].meta.cwd /\ meta.title = live[z].meta.title
          /\ meta.cost = live[z].meta.cost + cost
      BY <3>3 DEF Meta
    <3>5. record.meta = meta /\ record.history = live[z].history
      BY <2>1, <3>1 DEF Record
    <3> HIDE DEF meta
    <3> QED
      BY <3>2, <3>4, <3>5, Distinct
  <2>2. CASE ModelAnswers(t)
    <3>1. PICK cost \in {0, Price[turn[t].model]}, pc \in {"batch", "save"} :
            /\ live[z] # NoMeta \/ cost = 0
            /\ live' = IF live[z] = NoMeta THEN live ELSE [live EXCEPT ![z].meta.cost = @ + cost]
            /\ turn' = [turn EXCEPT ![t].pc = pc,
                 ![t].left = IF pc = "save" THEN 0 ELSE @ - 1,
                 ![t].messages = Append(@, [text |-> NoTitle, cost |-> cost])]
      BY <2>2 DEF ModelAnswers
    <3>2. cost \in Nat
      BY <1>c, <3>1
    <3>3. turn'[t].messages = Append(turn[t].messages, [text |-> NoTitle, cost |-> cost])
      BY <1>a, <1>b, <3>1 DEF TypeInv, TurnState
    <3>4. CASE live[z] = NoMeta
      BY <3>1, <3>2, <3>3, <3>4
    <3>5. CASE live[z] # NoMeta
      <4>1. live'[z] = [live[z] EXCEPT !.meta.cost = @ + cost]
            /\ live' = [live EXCEPT ![z] = live'[z]]
        BY <1>a, <1>b, <3>1, <3>5 DEF TypeInv
      <4>2. live'[z].active = live[z].active
        BY <1>a, <1>b, <3>5, <4>1 DEF TypeInv, Record
      <4> QED
        BY <2>1, <3>2, <3>3, <3>5, <4>1, <4>2, ZenonT(30)
    <3> QED
      BY <3>4, <3>5
  <2>3. CASE TurnFails(t)
    <3>1. PICK charged \in {0, Price[turn[t].model]} :
            live' = IF live[z] = NoMeta THEN live
                    ELSE [live EXCEPT ![z].meta.cost = @ + charged, ![z].active = NoOne]
      BY <2>3 DEF TurnFails
    <3>2. charged \in Nat
      BY <1>c, <3>1
    <3>3. turn'[t].on # z
      BY <1>a, <1>b, <2>3, Distinct DEF TurnFails, End, IdleTurn, TypeInv
    <3>4. CASE live[z] = NoMeta
      BY <3>1, <3>2, <3>3, <3>4
    <3>5. CASE live[z] # NoMeta
      <4>1. live'[z] = [[live[z] EXCEPT !.meta.cost = @ + charged] EXCEPT !.active = NoOne]
            /\ live' = [live EXCEPT ![z] = live'[z]]
        BY <1>a, <1>b, <3>1, <3>5 DEF TypeInv
      <4> QED
        BY <2>1, <3>2, <3>3, <3>5, <4>1, ZenonT(30)
    <3> QED
      BY <3>4, <3>5
  <2>4. CASE ToolsDone(t)
    <3>1. live' = live /\ turn'[t].messages = turn[t].messages
      BY <1>a, <1>b, <2>4 DEF ToolsDone, TypeInv, TurnState
    <3> QED
      BY <3>1
  <2> QED
    BY <2>2, <2>3, <2>4
<1>1. CASE s # z
  <2>1. live'[s] = live[s]
    BY <1>a, <1>b, <1>g, <1>1 DEF TypeInv
  <2>2. Untouched(s)
    BY <1>e, <1>f, <1>1, <2>1, Distinct DEF Untouched
  <2> QED
    BY <1>a, <2>2, UntouchedKeeps
<1>2. CASE s = z
  <2>1. PICK cost \in Nat :
        /\ \/ live' = live /\ (live[s] # NoMeta => cost = 0)
           \/ /\ live[s] # NoMeta /\ live'[s] # NoMeta
              /\ live'[s].meta.cwd = live[s].meta.cwd
              /\ live'[s].meta.title = live[s].meta.title
              /\ live'[s].meta.cost = live[s].meta.cost + cost
              /\ live'[s].history = live[s].history
              /\ turn'[t].on = s => live'[s].active = live[s].active
        /\ turn'[t].on = s =>
             \/ turn'[t].messages = turn[t].messages
             \/ turn'[t].messages = Append(turn[t].messages, [text |-> NoTitle, cost |-> cost])
    BY <1>g, <1>2
  <2>2. live'[s] # NoMeta <=> live[s] # NoMeta
    BY <2>1
  <2>3. s \in used /\ ~Unnamed(s)
    BY <1>a, <1>2 DEF Good, Known, Unnamed
  <2>4. Known(s)' /\ SavesRecord(s)'
    BY <1>a, <1>e, <1>f, <1>2, <2>3 DEF Good, Known, SavesRecord, SyncPCs
  <2>5. OneHome(s)'
    BY <1>a, <1>e, <2>1 DEF Good, OneHome, HomeIs
  <2>6. OneTitle(s)'
    <3>1. ASSUME NEW x \in Titled, TitleIs(s, x) PROVE TitleIs(s, x)'
      BY <1>e, <2>1, <3>1 DEF TitleIs
    <3> QED
      BY <1>a, <1>e, <2>3, <3>1 DEF Good, OneTitle
  <2>7. RepliesPaid(s)'
    <3> SUFFICES ASSUME s \notin stale PROVE (DiskPaid(s) /\ LivePaid(s) /\ TurnPaid(s))'
      BY <1>e DEF RepliesPaid
    <3>1. DiskPaid(s) /\ LivePaid(s) /\ TurnPaid(s)
      BY <1>a, <2>3 DEF Good, RepliesPaid
    <3>2. DiskPaid(s)'
      BY <1>e, <3>1 DEF DiskPaid
    <3>3. /\ Paid(disk[s].lines) \in Nat
          /\ live[s] # NoMeta =>
               /\ live[s].meta.cost \in Nat /\ live[s].history \in Seq(Message)
               /\ Paid(live[s].history) \in Nat
      <4>1. \A h \in Seq(Message) : Paid(h) \in Nat
        BY PaidAppend, MessageTyped
      <4> QED
        BY <1>a, <4>1 DEF TypeInv, Record, Meta, Files
    <3>4. disk[s].meta # NoMeta => disk[s].meta.cost \in Nat
      BY <1>a DEF TypeInv, Files, Meta
    <3>5. LivePaid(s)'
      BY <1>e, <2>1, <3>1, <3>3, <3>4 DEF LivePaid
    <3>6. ASSUME live'[s] # NoMeta, NEW u \in Turns, turn'[u].on = s
          PROVE  /\ live'[s].active = u
                 /\ IsPrefix(live'[s].history, turn'[u].messages)
                 /\ Paid(disk[s].lines) + Paid(turn'[u].messages)
                      <= live'[s].meta.cost + Paid(live'[s].history)
      <4>1. turn[u].on = s
        BY <1>b, <1>f, <1>2, <3>6, Distinct
      <4>2. u = t /\ live[s].active = t
        BY <1>2, <2>2, <3>1, <3>6, <4>1 DEF TurnPaid
      <4>3. /\ IsPrefix(live[s].history, turn[t].messages)
            /\ Paid(disk[s].lines) + Paid(turn[t].messages)
                 <= live[s].meta.cost + Paid(live[s].history)
            /\ turn[t].messages \in Seq(Message)
        BY <1>b, <1>2, <2>2, <3>1, <3>6 DEF TurnPaid, TurnState
      <4> DEFINE m == [text |-> NoTitle, cost |-> cost]
      <4>4. m \in Message /\ m.cost = cost
        BY DEF Message
      <4> HIDE DEF m
      <4>5. Paid(Append(turn[t].messages, m)) = Paid(turn[t].messages) + cost
            /\ Paid(turn[t].messages) \in Nat
        BY <4>3, <4>4, PaidAppend
      <4>6. IsPrefix(live[s].history, Append(turn[t].messages, m))
        BY <2>2, <3>3, <3>6, <4>3, <4>4, PrefixOfAppend
      <4>7. /\ live'[s].history = live[s].history /\ live'[s].active = live[s].active
            /\ live'[s].meta.cost = live[s].meta.cost + cost
        BY <2>1, <2>2, <3>3, <3>6, <4>2
      <4>8. \/ turn'[t].messages = turn[t].messages
            \/ turn'[t].messages = Append(turn[t].messages, m)
        BY <2>1, <3>6, <4>2 DEF m
      <4>9. live[s].meta.cost \in Nat
        BY <2>2, <3>3, <3>6
      <4>10. Paid(disk[s].lines) + Paid(turn'[t].messages)
               <= live[s].meta.cost + cost + Paid(live[s].history)
        <5>1. \/ Paid(turn'[t].messages) = Paid(turn[t].messages)
              \/ Paid(turn'[t].messages) = Paid(turn[t].messages) + cost
          BY <4>5, <4>8
        <5> HIDE DEF z
        <5>2. Paid(disk[s].lines) \in Nat /\ Paid(live[s].history) \in Nat
          BY <2>2, <3>3, <3>6
        <5> QED
          BY <4>3, <4>5, <4>9, <5>1, <5>2, SMTT(30)
      <4> QED
        BY <4>2, <4>3, <4>6, <4>7, <4>8, <4>10
    <3>7. TurnPaid(s)'
      BY <1>e, <3>6 DEF TurnPaid
    <3> QED
      BY <3>2, <3>5, <3>7
  <2> QED
    BY <2>4, <2>5, <2>6, <2>7 DEF Good
<1> QED
  BY <1>1, <1>2

LEMMA SavesKeep ==
  ASSUME MetaInv, NEW t \in Turns, NEW s \in Sessions,
         SaveSnapshot(t) \/ WriteMeta(t) \/ RenameMeta(t) \/ AppendHistory(t) \/ SaveFails(t)
  PROVE  Good(s)'
<1> USE DEF MetaInv
<1> DEFINE z == turn[t].on
<1>a. Good(s) /\ TypeInv /\ turn[t].pc \in SyncPCs
  BY DEF SaveSnapshot, WriteMeta, RenameMeta, AppendHistory, SaveFails, SyncPCs
<1>b. z \in Sessions /\ turn[t] \in TurnState
  BY <1>a DEF Placed, TypeInv, TurnState, SyncPCs
<1>c. Good(z)
  BY <1>b
<1>d. \A u \in Turns : u # t => turn[u].pc \notin SyncPCs
  BY <1>a DEF OneSaves
<1>e. /\ UNCHANGED <<restore, used, stale>>
      /\ turn' = [turn EXCEPT ![t] = turn'[t]]
      /\ turn'[t].on \in {z, NoOne}
      /\ turn'[t].on = z => turn'[t].pc \notin {"idle", "done"}
  BY <1>a, <1>b, Distinct DEF SaveSnapshot, WriteMeta, RenameMeta, AppendHistory, SaveFails, End,
     IdleTurn, TypeInv, TurnState, ghosts
<1>f. \A u \in Turns : u # t => turn'[u] = turn[u]
  BY <1>a, <1>e DEF TypeInv
<1>g. /\ live' = [live EXCEPT ![z] = live'[z]] /\ disk' = [disk EXCEPT ![z] = disk'[z]]
      /\ saved' = saved \/ saved' = saved \union {z}
  BY <1>a, <1>b DEF SaveSnapshot, WriteMeta, RenameMeta, AppendHistory, SaveFails, TypeInv, ghosts
<1>1. CASE s # z
  <2>1. Untouched(s)
    BY <1>a, <1>b, <1>e, <1>f, <1>g, <1>1, Distinct DEF Untouched, TypeInv
  <2> QED
    BY <1>a, <2>1, UntouchedKeeps
<1>h. ASSUME s = z PROVE s \in used /\ ~Unnamed(s)
  BY <1>a, <1>h DEF Good, Known, Unnamed
<1>2. CASE s = z /\ SaveSnapshot(t)
  <2>1. /\ UNCHANGED <<live, disk, saved>>
        /\ turn'[t].on = s =>
             /\ live[s] # NoMeta /\ turn'[t].meta = live[s].meta /\ turn'[t].pc = "write"
             /\ turn'[t].messages = turn[t].messages
    BY <1>a, <1>b, <1>2, Distinct DEF SaveSnapshot, MetaToSave, End, IdleTurn, TypeInv, TurnState, ghosts
  <2>2. Known(s)' /\ SavesRecord(s)'
    BY <1>a, <1>d, <1>e, <1>f, <1>h, <1>2, <2>1 DEF Good, Known, SavesRecord, SyncPCs
  <2>3. OneHome(s)' /\ OneTitle(s)'
    BY <1>a, <1>e, <1>h, <1>2, <2>1 DEF Good, OneHome, HomeIs, OneTitle, TitleIs
  <2>4. \A u \in Turns : turn'[u].on = s =>
          turn[u].on = s /\ turn'[u].messages = turn[u].messages
    BY <1>f, <1>2, <2>1
  <2>5. RepliesPaid(s)'
    BY <1>a, <1>e, <2>1, <2>4 DEF Good, RepliesPaid, DiskPaid, LivePaid, TurnPaid
  <2> QED
    BY <2>2, <2>3, <2>5 DEF Good
<1>3. CASE s = z /\ WriteMeta(t)
  <2>1. /\ UNCHANGED <<live, saved>> /\ turn[t].pc = "write"
        /\ disk'[s].meta = disk[s].meta /\ disk'[s].lines = disk[s].lines
        /\ turn'[t].on = s /\ turn'[t].meta = turn[t].meta /\ turn'[t].pc = "first"
        /\ turn'[t].messages = turn[t].messages
    BY <1>a, <1>b, <1>3 DEF WriteMeta, BesideIt, TypeInv, TurnState, Files, ghosts
  <2>2. Known(s)' /\ SavesRecord(s)'
    BY <1>a, <1>d, <1>e, <1>f, <1>h, <1>3, <2>1 DEF Good, Known, SavesRecord, SyncPCs
  <2>3. OneHome(s)' /\ OneTitle(s)'
    BY <1>a, <1>e, <1>h, <1>3, <2>1 DEF Good, OneHome, HomeIs, OneTitle, TitleIs
  <2>4. \A u \in Turns : turn'[u].on = s =>
          turn[u].on = s /\ turn'[u].messages = turn[u].messages
    BY <1>f, <1>3, <2>1
  <2>5. RepliesPaid(s)'
    BY <1>a, <1>e, <2>1, <2>4 DEF Good, RepliesPaid, DiskPaid, LivePaid, TurnPaid
  <2> QED
    BY <2>2, <2>3, <2>5 DEF Good
<1>4. CASE s = z /\ RenameMeta(t)
  <2>1. /\ live' = live /\ saved' = saved \union {s} /\ turn[t].pc = "first"
        /\ disk'[s].meta = turn[t].meta /\ disk'[s].lines = disk[s].lines
        /\ turn'[t].on = s /\ turn'[t].pc = "second"
        /\ turn'[t].messages = turn[t].messages
    BY <1>a, <1>b, <1>4 DEF RenameMeta, MetaFirst, Renamed, TypeInv, TurnState, Files
  <2>2. live[s] # NoMeta /\ turn[t].meta = live[s].meta
    BY <1>a, <1>4, <2>1 DEF Good, SavesRecord
  <2>3. live[s] \in Record /\ live[s].meta \in Meta /\ disk[s].lines \in Seq(Message)
    BY <1>a, <2>2 DEF TypeInv, Record, Files
  <2>4. disk'[s].meta = live[s].meta /\ disk'[s].meta # NoMeta
    BY <2>1, <2>2, <2>3, Distinct
  <2>5. Known(s)' /\ SavesRecord(s)'
    BY <1>a, <1>d, <1>e, <1>f, <1>h, <1>4, <2>1, <2>2, <2>4 DEF Good, Known, SavesRecord, SyncPCs
  <2>6. OneHome(s)'
    BY <1>a, <1>e, <2>1, <2>2, <2>4 DEF Good, OneHome, HomeIs
  <2>7. OneTitle(s)'
    <3>1. ASSUME NEW x \in Titled, TitleIs(s, x) PROVE TitleIs(s, x)'
      <4>1. live[s].meta.title = x /\ x # NoTitle
        BY <2>2, <3>1, TitledIsTitle DEF TitleIs
      <4>2. RestoredTitle(disk'[s].meta, disk'[s].lines) = x
        BY <2>4, <4>1 DEF RestoredTitle
      <4> QED
        BY <1>e, <2>1, <3>1, <4>2 DEF TitleIs
    <3> QED
      BY <1>a, <1>e, <1>h, <1>4, <3>1 DEF Good, OneTitle
  <2>8. \A u \in Turns : turn'[u].on = s =>
          turn[u].on = s /\ turn'[u].messages = turn[u].messages
    BY <1>f, <1>4, <2>1
  <2>9. RepliesPaid(s)'
    <3> SUFFICES ASSUME s \notin stale PROVE (DiskPaid(s) /\ LivePaid(s) /\ TurnPaid(s))'
      BY <1>e DEF RepliesPaid
    <3>1. LivePaid(s) /\ TurnPaid(s)
      BY <1>a, <1>h, <1>4 DEF Good, RepliesPaid
    <3>2. live[s].meta.cost \in Nat
      BY <2>3 DEF Meta
    <3>3. DiskPaid(s)' /\ LivePaid(s)'
      BY <2>1, <2>2, <2>4, <3>1, <3>2 DEF DiskPaid, LivePaid
    <3>4. TurnPaid(s)'
      BY <2>1, <2>8, <3>1 DEF TurnPaid
    <3> QED
      BY <3>3, <3>4
  <2> QED
    BY <2>5, <2>6, <2>7, <2>9 DEF Good
<1>5. CASE s = z /\ AppendHistory(t)
  <2> DEFINE m == turn[t].messages
             tail == SubSeq(m, Len(live[s].history) + 1, Len(m))
  <2>1. turn[t].pc = "second" /\ saved' = saved
    BY <1>5 DEF AppendHistory, ghosts
  <2>2. live[s] # NoMeta /\ disk[s].meta = live[s].meta
    BY <1>a, <1>5, <2>1 DEF Good, SavesRecord
  <2>3. live[s] \in Record /\ live[s].meta \in Meta /\ disk[s] \in Files /\ m \in Seq(Message)
    BY <1>a, <1>b, <2>2 DEF TypeInv, Record, TurnState
  <2>4. /\ live'[s].history = m /\ live'[s].meta = live[s].meta
        /\ turn'[t].on = s => live'[s].active = live[s].active
    <3>1. live'[s] = [[live[s] EXCEPT !.history = m]
                        EXCEPT !.active = IF LastSave(t) THEN NoOne ELSE @]
      BY <1>a, <1>5 DEF AppendHistory, TypeInv
    <3>2. turn'[t].on = s => ~LastSave(t)
      BY <1>a, <1>5, Distinct DEF AppendHistory, End, IdleTurn, TypeInv
    <3> QED
      BY <2>3, <3>1, <3>2 DEF Record
  <2>5. live'[s] # NoMeta
    <3>1. live'[s] = [[live[s] EXCEPT !.history = m]
                        EXCEPT !.active = IF LastSave(t) THEN NoOne ELSE @]
      BY <1>a, <1>5 DEF AppendHistory, TypeInv
    <3>2. live'[s] \in Record
      BY <2>3, <3>1 DEF Record
    <3> QED
      BY <3>2, Distinct
  <2>6. /\ disk'[s].meta = disk[s].meta /\ disk'[s].lines = disk[s].lines \o tail
    BY <1>a, <1>5, <2>1, <2>3 DEF AppendHistory, MetaFirst, Appended, AppendedTo, TypeInv, Files
  <2>7. /\ turn'[t].on = s => turn'[t].messages = m /\ turn'[t].pc = "stream"
    BY <1>a, <1>b, <1>5, Distinct DEF AppendHistory, End, IdleTurn, TypeInv, TurnState
  <2>8. disk[s].meta # NoMeta
    BY <2>2, <2>3, Distinct
  <2> HIDE DEF m, tail
  <2>9. Known(s)' /\ SavesRecord(s)'
    <3>1. Known(s)'
      BY <1>a, <1>d, <1>e, <1>f, <1>h, <1>5, <2>1, <2>5, <2>6, <2>7, <2>8, ZenonT(60)
         DEF Good, Known, SavesRecord, SyncPCs
    <3>2. SavesRecord(s)'
      BY <1>a, <1>d, <1>e, <1>f, <1>h, <1>5, <2>1, <2>5, <2>6, <2>7, <2>8, ZenonT(60)
         DEF Good, Known, SavesRecord, SyncPCs
    <3> QED
      BY <3>1, <3>2
  <2>10. OneHome(s)'
    BY <1>a, <1>e, <2>2, <2>4, <2>6 DEF Good, OneHome, HomeIs
  <2>11. OneTitle(s)'
    <3>1. ASSUME NEW x \in Titled, TitleIs(s, x) PROVE TitleIs(s, x)'
      <4>1. disk[s].meta.title = x /\ x # NoTitle
        BY <2>2, <3>1, TitledIsTitle DEF TitleIs
      <4>2. RestoredTitle(disk'[s].meta, disk'[s].lines) = x
        BY <2>6, <4>1 DEF RestoredTitle
      <4> QED
        BY <1>e, <2>2, <2>4, <3>1, <4>2 DEF TitleIs
    <3> QED
      BY <1>a, <1>e, <1>h, <1>5, <3>1 DEF Good, OneTitle
  <2>12. RepliesPaid(s)'
    <3> SUFFICES ASSUME s \notin stale PROVE (DiskPaid(s) /\ LivePaid(s) /\ TurnPaid(s))'
      BY <1>e DEF RepliesPaid
    <3>1. DiskPaid(s) /\ LivePaid(s) /\ TurnPaid(s)
      BY <1>a, <1>h, <1>5 DEF Good, RepliesPaid
    <3>2. /\ IsPrefix(live[s].history, m) /\ live[s].active = t
          /\ Paid(disk[s].lines) + Paid(m) <= live[s].meta.cost + Paid(live[s].history)
      BY <1>5, <2>2, <3>1 DEF TurnPaid, m
    <3>3. /\ live[s].history \in Seq(Message) /\ live[s].meta.cost \in Nat
          /\ disk[s].lines \in Seq(Message)
      BY <2>3 DEF Record, Meta, Files
    <3>4. Paid(disk'[s].lines) \in Nat /\ Paid(disk'[s].lines) <= live[s].meta.cost
      <4> DEFINE more == disk[s].lines \o tail
      <4>1. Len(m) \in Len(live[s].history) .. Len(m)
        BY <2>3, <3>2, <3>3, PrefixMeans, LenProperties
      <4>2. /\ more \in Seq(Message)
            /\ Paid(more) + Paid(live[s].history) <= Paid(disk[s].lines) + Paid(m)
        BY <2>3, <3>2, <3>3, <4>1, PaidTail DEF tail
      <4> HIDE DEF more
      <4>3. /\ Paid(more) \in Nat /\ Paid(live[s].history) \in Nat
            /\ Paid(disk[s].lines) \in Nat /\ Paid(m) \in Nat
        BY <2>3, <3>3, <4>2, PaidAppend, MessageTyped
      <4>4. Paid(more) <= live[s].meta.cost
        BY <3>2, <3>3, <4>2, <4>3
      <4> QED
        BY <2>6, <4>3, <4>4 DEF more
    <3>5. DiskPaid(s)'
      BY <2>2, <2>6, <3>4 DEF DiskPaid
    <3>6. LivePaid(s)'
      BY <2>2, <2>4, <2>6, <3>3, <3>4 DEF LivePaid
    <3>7. \A u \in Turns : turn'[u].on = s => u = t
      BY <1>f, <2>2, <3>1, <3>2 DEF TurnPaid
    <3>8. TurnPaid(s)'
      <4>1. Paid(m) \in Nat
        BY <2>3, PaidAppend, MessageTyped
      <4>2. Paid(disk'[s].lines) + Paid(m) <= live[s].meta.cost + Paid(m)
        BY <3>3, <3>4, <4>1
      <4> QED
        BY <2>3, <2>4, <2>7, <3>2, <3>7, <4>2, PrefixOfItself DEF TurnPaid
    <3> QED
      BY <3>5, <3>6, <3>8
  <2> QED
    BY <2>9, <2>10, <2>11, <2>12 DEF Good
<1>6. CASE s = z /\ SaveFails(t)
  <2> DEFINE m == turn[t].messages  h == live[s].history
             more(n) == disk[s].lines \o SubSeq(m, Len(h) + 1, n)
  <2>1. turn[t].pc \in {"write", "first", "second"} /\ saved' = saved
    BY <1>6 DEF SaveFails, ghosts
  <2>2. /\ live[s] # NoMeta
        /\ turn[t].pc = "second" => disk[s].meta = live[s].meta
    BY <1>a, <1>6, <2>1 DEF Good, SavesRecord
  <2>3. /\ live[s] \in Record /\ live[s].meta \in Meta /\ disk[s] \in Files
        /\ m \in Seq(Message) /\ h \in Seq(Message) /\ disk[s].lines \in Seq(Message)
    BY <1>a, <1>b, <2>2 DEF TypeInv, Record, TurnState, Files
  <2>4. /\ live'[s].history = h /\ live'[s].meta = live[s].meta /\ live'[s] # NoMeta
    <3>1. live'[s] = [live[s] EXCEPT !.active = NoOne]
      BY <1>a, <1>6 DEF SaveFails, TypeInv
    <3>2. live'[s] \in Record
      BY <2>3, <3>1 DEF Record
    <3> QED
      BY <2>3, <3>1, <3>2, Distinct DEF Record
  <2>5. PICK files \in LeftBehind(t) : disk'[s] = files
    <3>1. PICK files \in LeftBehind(t) : disk' = [disk EXCEPT ![z] = files]
      BY <1>6 DEF SaveFails
    <3> QED
      BY <1>a, <1>6, <3>1 DEF TypeInv
  <2>6. /\ disk'[s].meta = disk[s].meta
        /\ \/ disk'[s].lines = disk[s].lines
           \/ turn[t].pc = "second" /\ \E n \in Len(h)..Len(m) : disk'[s].lines = more(n)
    BY <1>a, <1>6, <2>1, <2>2, <2>5, LeftTyped
  <2>7. \A u \in Turns : turn'[u].on = s => u # t /\ turn[u].on = s /\ turn'[u] = turn[u]
    <3>1. turn'[t].on = NoOne
      BY <1>a, <1>6 DEF SaveFails, End, IdleTurn, TypeInv
    <3> QED
      BY <1>f, <3>1, Distinct
  <2>8. turn[t].pc = "second" => disk[s].meta # NoMeta
    BY <2>2, <2>3, Distinct
  <2> HIDE DEF m, h, more
  <2>9. Known(s)' /\ SavesRecord(s)'
    <3>1. Known(s)'
      BY <1>a, <1>d, <1>e, <1>h, <1>6, <2>1, <2>4, <2>6, <2>7, <2>8, SMTT(60)
         DEF Good, Known, SavesRecord, SyncPCs
    <3>2. SavesRecord(s)'
      BY <1>a, <1>d, <1>e, <1>h, <1>6, <2>1, <2>4, <2>6, <2>7, <2>8, SMTT(60)
         DEF Good, Known, SavesRecord, SyncPCs
    <3> QED
      BY <3>1, <3>2
  <2>10. OneHome(s)'
    BY <1>a, <1>e, <2>2, <2>4, <2>6 DEF Good, OneHome, HomeIs
  <2>11. OneTitle(s)'
    <3>1. ASSUME NEW x \in Titled, TitleIs(s, x) PROVE TitleIs(s, x)'
      <4>1. CASE disk'[s].lines = disk[s].lines
        BY <1>e, <2>2, <2>4, <2>6, <3>1, <4>1 DEF TitleIs
      <4>2. CASE turn[t].pc = "second"
        <5>1. disk[s].meta.title = x /\ x # NoTitle
          BY <2>2, <3>1, <4>2, TitledIsTitle DEF TitleIs
        <5>2. RestoredTitle(disk'[s].meta, disk'[s].lines) = x
          BY <2>6, <5>1 DEF RestoredTitle
        <5> QED
          BY <1>e, <2>2, <2>4, <3>1, <5>2 DEF TitleIs
      <4> QED
        BY <2>6, <4>1, <4>2
    <3> QED
      BY <1>a, <1>e, <1>h, <1>6, <3>1 DEF Good, OneTitle
  <2>12. RepliesPaid(s)'
    <3> SUFFICES ASSUME s \notin stale PROVE (DiskPaid(s) /\ LivePaid(s) /\ TurnPaid(s))'
      BY <1>e DEF RepliesPaid
    <3>1. DiskPaid(s) /\ LivePaid(s) /\ TurnPaid(s)
      BY <1>a, <1>h, <1>6 DEF Good, RepliesPaid
    <3>2. /\ IsPrefix(h, m) /\ live[s].active = t
          /\ Paid(disk[s].lines) + Paid(m) <= live[s].meta.cost + Paid(h)
      BY <1>6, <2>2, <3>1 DEF TurnPaid, m, h
    <3>3. \A q \in Seq(Message) : Paid(q) \in Nat
      BY PaidAppend, MessageTyped
    <3>4. live[s].meta.cost \in Nat
      BY <2>3 DEF Meta
    <3>5. /\ Paid(disk'[s].lines) <= live[s].meta.cost
          /\ disk'[s].lines = disk[s].lines \/ turn[t].pc = "second"
      <4>1. CASE disk'[s].lines = disk[s].lines
        BY <2>2, <3>1, <4>1 DEF LivePaid
      <4>2. ASSUME NEW n \in Len(h)..Len(m), turn[t].pc = "second", disk'[s].lines = more(n)
            PROVE  Paid(disk'[s].lines) <= live[s].meta.cost
        <5>1. more(n) \in Seq(Message) /\ Paid(more(n)) + Paid(h) <= Paid(disk[s].lines) + Paid(m)
          BY <2>3, <3>2, PaidTail DEF more
        <5>2. Paid(more(n)) \in Nat /\ Paid(h) \in Nat /\ Paid(disk[s].lines) \in Nat /\ Paid(m) \in Nat
          BY <2>3, <3>3, <5>1
        <5>3. Paid(more(n)) <= live[s].meta.cost
          <6> DEFINE a == Paid(more(n))  b == Paid(h)  c == Paid(disk[s].lines)  d == Paid(m)
                     e == live[s].meta.cost
          <6>1. a + b <= c + d /\ c + d <= e + b
            BY <3>2, <5>1
          <6>2. a \in Nat /\ b \in Nat /\ c \in Nat /\ d \in Nat /\ e \in Nat
            BY <3>4, <5>2
          <6> HIDE DEF a, b, c, d, e
          <6>3. a <= e
            BY <6>1, <6>2
          <6> QED
            BY <6>3 DEF a, e
        <5> QED
          BY <4>2, <5>3
      <4> QED
        BY <2>6, <4>1, <4>2
    <3>6. DiskPaid(s)'
      BY <2>2, <2>6, <3>1, <3>5 DEF DiskPaid
    <3>7. LivePaid(s)'
      BY <2>2, <2>4, <2>6, <3>1, <3>5 DEF LivePaid
    <3>8. \A u \in Turns : turn'[u].on # s
      BY <2>2, <2>7, <3>1, <3>2 DEF TurnPaid
    <3>9. TurnPaid(s)'
      BY <3>8 DEF TurnPaid
    <3> QED
      BY <3>6, <3>7, <3>9
  <2> QED
    BY <2>9, <2>10, <2>11, <2>12 DEF Good
<1> QED
  BY <1>1, <1>2, <1>3, <1>4, <1>5, <1>6

LEMMA CrashKeeps ==
  ASSUME MetaInv, NEW s \in Sessions, Crash
  PROVE  Good(s)'
<1>a. Good(s) /\ TypeInv
  BY DEF MetaInv
<1>1. /\ UNCHANGED <<disk, used, saved, stale>> /\ live'[s] = NoMeta
      /\ \A t \in Turns : turn'[t].on # s
      /\ \A r \in Restores : restore'[r].on # s
  BY Distinct DEF Crash, IdleTurn, IdleRestore
<1>2. Known(s)' /\ SavesRecord(s)'
  BY <1>a, <1>1 DEF Good, Known, SavesRecord
<1>3. OneHome(s)'
  BY <1>a, <1>1 DEF Good, OneHome, HomeIs
<1>4. OneTitle(s)'
  <2>1. CASE Unnamed(s)
    <3>1. TitleIs(s, NewTitle)'
      BY <1>1, <2>1 DEF Unnamed, TitleIs
    <3> QED
      BY <3>1 DEF OneTitle, Titled
  <2>2. ASSUME NEW x \in Titled, TitleIs(s, x) PROVE OneTitle(s)'
    BY <1>1, <2>2 DEF TitleIs, OneTitle
  <2> QED
    BY <1>a, <1>1, <2>1, <2>2 DEF Good, OneTitle
<1>5. RepliesPaid(s)'
  BY <1>a, <1>1 DEF Good, RepliesPaid, DiskPaid, LivePaid, TurnPaid
<1> QED
  BY <1>2, <1>3, <1>4, <1>5 DEF Good

LEMMA StepKeeps == MetaInv /\ [Next]_vars => MetaInv'
<1> SUFFICES ASSUME MetaInv, [Next]_vars PROVE MetaInv'
  OBVIOUS
<1>a. TypeInv /\ OneSaves /\ Placed /\ \A s \in Sessions : Good(s)
  BY DEF MetaInv
<1>b. turn \in [Turns -> TurnState]
  BY <1>a DEF TypeInv
<1>1. ASSUME NEW z \in Sessions,
             \/ \E d \in Dirs : NewSession(z, d)
             \/ \E m \in Models, c \in Caps : SetOption(z, m, c)
             \/ CloseSession(z) \/ DeleteSession(z)
      PROVE  MetaInv'
  <2>1. turn' = turn
    BY <1>1 DEF NewSession, SetOption, CloseSession, DeleteSession
  <2>2. OneSaves' /\ Placed'
    BY <1>a, <2>1 DEF OneSaves, Placed
  <2> QED
    BY <1>a, <1>1, <2>2, RequestsTyped, RequestsKeep DEF MetaInv
<1>2. ASSUME NEW r \in Restores,
             ConnectFails(r) \/ InsertRestored(r) \/ \E z \in Sessions : ReadRecord(r, z)
      PROVE  MetaInv'
  <2>1. turn' = turn
    BY <1>2 DEF ConnectFails, InsertRestored, ReadRecord
  <2>2. OneSaves' /\ Placed'
    BY <1>a, <2>1 DEF OneSaves, Placed
  <2>3. restore[r].on # NoOne => restore[r].meta # NoMeta
    BY <1>a DEF Good, Known, TypeInv, Restored
  <2>4. TypeInv'
    BY <1>a, <1>2, <2>3, RequestsTyped, RestoresTyped
  <2> QED
    BY <1>2, <2>2, <2>4, RestoresKeep DEF MetaInv
<1>3. ASSUME NEW t \in Turns, NEW z \in Sessions, BeginTurn(t, z) PROVE MetaInv'
  <2>1. /\ turn'[t].pc = "stream" /\ turn'[t].on = z
        /\ \A u \in Turns : u # t => turn'[u] = turn[u]
    BY <1>b, <1>3 DEF BeginTurn
  <2>2. OneSaves' /\ Placed'
    BY <1>a, <2>1, Distinct DEF OneSaves, Placed, SyncPCs
  <2> QED
    BY <1>a, <1>3, <2>2, RequestsTyped, BeginKeeps DEF MetaInv
<1>4. ASSUME NEW t \in Turns, ModelAnswers(t) \/ TurnFails(t) \/ ToolsDone(t) PROVE MetaInv'
  <2>1. /\ \A u \in Turns : turn[u].pc \notin SyncPCs
        /\ turn[t].pc \in {"stream", "batch"}
        /\ turn'[t].on = turn[t].on \/ turn'[t].pc = "done"
        /\ \A u \in Turns : u # t => turn'[u] = turn[u]
    <3>1. turn[t] \in TurnState
      BY <1>b
    <3>2. turn'[t].on = turn[t].on \/ turn'[t].pc = "done"
      <4>1. CASE ModelAnswers(t)
        <5>1. PICK cost, pc :
                turn' = [turn EXCEPT ![t].pc = pc,
                           ![t].left = IF pc = "save" THEN 0 ELSE turn[t].left - 1,
                           ![t].messages = Append(turn[t].messages, [text |-> NoTitle, cost |-> cost])]
          BY <4>1 DEF ModelAnswers
        <5>2. PICK messages : messages = Append(turn[t].messages, [text |-> NoTitle, cost |-> cost])
          OBVIOUS
        <5> QED
          BY <1>b, <3>1, <5>1, <5>2 DEF TurnState
      <4>2. CASE TurnFails(t)
        <5>1. turn' = [turn EXCEPT ![t] = [IdleTurn EXCEPT !.pc = "done"]]
          BY <4>2 DEF TurnFails, End
        <5> QED
          BY <1>b, <5>1 DEF IdleTurn
      <4>3. CASE ToolsDone(t)
        <5>1. turn' = [turn EXCEPT ![t].pc = "save"]
          BY <4>3 DEF ToolsDone
        <5> QED
          BY <1>b, <3>1, <5>1 DEF TurnState
      <4> QED
        BY <1>4, <4>1, <4>2, <4>3
    <3>3. \A u \in Turns : u # t => turn'[u] = turn[u]
      <4>1. CASE ModelAnswers(t)
        BY <1>b, <4>1 DEF ModelAnswers
      <4>2. CASE TurnFails(t) \/ ToolsDone(t)
        BY <1>b, <4>2 DEF TurnFails, ToolsDone, End
      <4> QED
        BY <1>4, <4>1, <4>2
    <3> QED
      BY <1>4, <3>2, <3>3 DEF ModelAnswers, TurnFails, ToolsDone, AtAwait
  <2>2. turn[t].on # NoOne
    BY <1>a, <2>1 DEF Placed
  <2>3. OneSaves' /\ Placed'
    BY <1>a, <2>1, <2>2 DEF OneSaves, Placed
  <2> QED
    BY <1>a, <1>4, <2>2, <2>3, RepliesTyped, RepliesKeep DEF MetaInv
<1>5. ASSUME NEW t \in Turns,
             \/ SaveSnapshot(t) \/ WriteMeta(t) \/ RenameMeta(t) \/ AppendHistory(t)
             \/ SaveFails(t)
      PROVE  MetaInv'
  <2>1. turn[t].pc \in SyncPCs
    BY <1>5 DEF SaveSnapshot, WriteMeta, RenameMeta, AppendHistory, SaveFails, SyncPCs
  <2>2. /\ turn'[t].on = turn[t].on \/ turn'[t].pc = "done"
        /\ \A u \in Turns : u # t => turn'[u] = turn[u]
    <3>1. turn[t] \in TurnState
      BY <1>b
    <3>2. turn'[t].on = turn[t].on \/ turn'[t].pc = "done"
      BY <1>b, <1>5, <3>1 DEF SaveSnapshot, WriteMeta, RenameMeta, AppendHistory, SaveFails, End,
         IdleTurn, TurnState
    <3> QED
      BY <1>b, <1>5, <3>2 DEF SaveSnapshot, WriteMeta, RenameMeta, AppendHistory, SaveFails, End
  <2>3. turn[t].on # NoOne /\ turn[t].on \in Sessions
    BY <1>a, <1>b, <2>1 DEF Placed, SyncPCs, TurnState
  <2>4. OneSaves' /\ Placed'
    BY <1>a, <2>1, <2>2, <2>3 DEF OneSaves, Placed
  <2>5. /\ turn[t].pc \in {"write", "first", "second"} => live[turn[t].on] # NoMeta
        /\ turn[t].pc \in {"write", "first"} => turn[t].meta = live[turn[t].on].meta
    BY <1>a, <2>3 DEF Good, SavesRecord
  <2>6. turn[t].pc \in {"write", "first"} => turn[t].meta # NoMeta
    BY <1>a, <2>3, <2>5, Distinct DEF TypeInv, Record
  <2>7. TypeInv'
    BY <1>a, <1>5, <2>3, <2>5, <2>6, RepliesTyped, SavesTyped
  <2> QED
    BY <1>5, <2>4, <2>7, SavesKeep DEF MetaInv
<1>6. CASE Crash
  <2>1. \A t \in Turns : turn'[t].pc \in {"idle", "done"}
    BY <1>6 DEF Crash, IdleTurn
  <2>2. OneSaves' /\ Placed'
    BY <2>1 DEF OneSaves, Placed, SyncPCs
  <2> QED
    BY <1>a, <1>6, <2>2, CrashTyped, CrashKeeps DEF MetaInv
<1>7. CASE UNCHANGED vars
  <2>1. TypeInv' /\ OneSaves' /\ Placed'
    BY <1>a, <1>7 DEF vars, ghosts, TypeInv, OneSaves, Placed
  <2>2. \A s \in Sessions : Untouched(s)
    BY <1>7 DEF vars, ghosts, Untouched
  <2> QED
    BY <1>a, <2>1, <2>2, UntouchedKeeps DEF MetaInv
<1> QED
  BY <1>1, <1>2, <1>3, <1>4, <1>5, <1>6, <1>7 DEF Next

(* Every variable of SessionMeta keeps its type. *)
THEOREM MetaTyped == Spec => []TypeInv
<1>1. MetaInv => TypeInv
  BY DEF MetaInv
<1> QED
  BY <1>1, InitInv, StepKeeps, PTL DEF Spec

-----------------------------------------------------------------------------
(***************************************************************************)
(* What the runs check.                                                    *)
(***************************************************************************)
LEMMA ListedOnce ==
  ASSUME TypeInv, NEW s \in Sessions, Good(s)
  PROVE  Cardinality(UNION {{d} \X {info \in ListSessions(d) : info.id = s} : d \in Dirs})
           = IF live[s] # NoMeta \/ s \in saved THEN 1 ELSE 0
<1> DEFINE L == UNION {{d} \X {info \in ListSessions(d) : info.id = s} : d \in Dirs}
<1>1. \A d \in Dirs : \A info : info \in ListSessions(d) /\ info.id = s <=>
        \/ s \in InMemory(d) /\ info = Info(s, live[s].meta)
        \/ s \in OnlyOnDisk(d) /\ info = Info(s, disk[s].meta)
  BY DEF ListSessions, Info
<1>2. disk[s].meta # NoMeta <=> Readable(disk[s].meta)
  BY Distinct DEF TypeInv, Files, Readable
<1>3. s \in saved <=> disk[s].meta # NoMeta
  BY DEF Good, Known
<1>4. CASE live[s] # NoMeta
  <2>1. live[s].meta.cwd \in Dirs
    BY <1>4 DEF TypeInv, Record, Meta
  <2>2. s \in used
    BY <1>4 DEF Good, Known
  <2>3. PICK d \in Dirs : HomeIs(s, d)
    BY <2>2 DEF Good, OneHome
  <2>4. \A e \in Dirs : (s \in InMemory(e) <=> e = d) /\ s \notin OnlyOnDisk(e)
    BY <1>2, <1>4, <2>3 DEF HomeIs, InMemory, OnlyOnDisk
  <2>5. L = {<<d, Info(s, live[s].meta)>>}
    BY <1>1, <2>4
  <2> QED
    BY <1>4, <2>5, FS_Singleton
<1>5. CASE live[s] = NoMeta /\ s \in saved
  <2>1. disk[s].meta.cwd \in Dirs
    BY <1>3, <1>5 DEF TypeInv, Files, Meta
  <2>2. PICK d \in Dirs : d = disk[s].meta.cwd
    BY <2>1
  <2>3. \A e \in Dirs : s \notin InMemory(e) /\ (s \in OnlyOnDisk(e) <=> e = d)
    BY <1>2, <1>3, <1>5, <2>2 DEF InMemory, OnlyOnDisk
  <2>4. L = {<<d, Info(s, disk[s].meta)>>}
    BY <1>1, <2>3
  <2> QED
    BY <1>5, <2>4, FS_Singleton
<1>6. CASE live[s] = NoMeta /\ s \notin saved
  <2>1. \A e \in Dirs : s \notin InMemory(e) /\ s \notin OnlyOnDisk(e)
    BY <1>2, <1>3, <1>6 DEF InMemory, OnlyOnDisk
  <2>2. L = {}
    BY <1>1, <2>1
  <2> QED
    BY <1>6, <2>2, FS_EmptySet
<1> QED
  BY <1>4, <1>5, <1>6

(* A session the client has seen saved is on the list of its directory     *)
(* exactly once until it is deleted, and so is every open one, whatever    *)
(* save a crash or an I/O error cut short (list_sessions, write_meta).     *)
THEOREM ListCorrect == Spec => []SavedStaysListed
<1>1. MetaInv => SavedStaysListed
  BY ListedOnce DEF MetaInv, SavedStaysListed
<1> QED
  BY <1>1, InitInv, StepKeeps, PTL DEF Spec

(* Memory, meta.json and the loads in flight never disagree about the      *)
(* title of a session (begin_turn, restore_persisted_session).             *)
THEOREM TitleCorrect == Spec => []TitleKept
<1>1. ASSUME MetaInv, NEW s \in Sessions PROVE Cardinality(Titles(s)) <= 1
  <2>1. Good(s) /\ TypeInv
    BY <1>1 DEF MetaInv
  <2>2. PICK x : Titles(s) \subseteq {x}
    <3>1. CASE s \notin used \/ Unnamed(s)
      <4>1. Titles(s) = {}
        BY <2>1, <3>1 DEF Good, Known, NoFiles, Unnamed, Titles, Readable
      <4> QED
        BY <4>1
    <3>2. ASSUME NEW x \in Titled, TitleIs(s, x) PROVE Titles(s) \subseteq {x}
      BY <3>2 DEF TitleIs, Titles, Readable
    <3> QED
      BY <2>1, <3>1, <3>2 DEF Good, OneTitle
  <2>3. IsFiniteSet({x}) /\ Cardinality({x}) = 1
    BY FS_Singleton
  <2>4. Cardinality(Titles(s)) <= Cardinality({x})
    BY <2>2, <2>3, FS_Subset
  <2> QED
    BY <2>3, <2>4
<1>2. MetaInv => TitleKept
  BY <1>1 DEF TitleKept
<1> QED
  BY <1>2, InitInv, StepKeeps, PTL DEF Spec

(* Unless a load overlapped a turn, the cost of a session covers every     *)
(* reply in its file, and the record is never behind the file              *)
(* (add_cost_micros, save_history).                                        *)
THEOREM CostCorrect == Spec => []SavedRepliesPaid
<1>1. MetaInv => SavedRepliesPaid
  BY DEF MetaInv, TypeInv, Good, RepliesPaid, DiskPaid, LivePaid, SavedRepliesPaid, Readable
<1> QED
  BY <1>1, InitInv, StepKeeps, PTL DEF Spec

(* What a save writes is the record at that moment, with the options       *)
(* selected while the turn ran (save_history).                             *)
THEOREM SavesCurrentRecord == Spec => MetaIsRecord
<1> DEFINE Writes(s) ==
      disk'[s].meta # disk[s].meta /\ Readable(disk'[s].meta) =>
        live[s] # NoMeta /\ disk'[s].meta = live[s].meta
<1>1. ASSUME MetaInv, Next, NEW s \in Sessions PROVE Writes(s)
  <2>1. TypeInv /\ Placed /\ \A z \in Sessions : Good(z)
    BY <1>1 DEF MetaInv
  <2>2. ASSUME NEW t \in Turns, RenameMeta(t) PROVE Writes(s)
    <3>1. turn[t].on \in Sessions /\ turn[t].pc = "first"
      BY <2>1, <2>2 DEF RenameMeta, Placed, TypeInv, TurnState
    <3>2. CASE s = turn[t].on
      <4>1. disk'[s].meta = turn[t].meta
        BY <2>1, <2>2, <3>1, <3>2 DEF RenameMeta, MetaFirst, Renamed, TypeInv, Files
      <4> QED
        BY <2>1, <3>1, <3>2, <4>1 DEF Good, SavesRecord
    <3>3. CASE s # turn[t].on
      BY <2>1, <2>2, <3>3 DEF RenameMeta, TypeInv
    <3> QED
      BY <3>2, <3>3
  <2>3. ASSUME NEW t \in Turns, WriteMeta(t) \/ AppendHistory(t) PROVE disk'[s].meta = disk[s].meta
    <3>1. CASE s # turn[t].on
      BY <2>1, <2>3, <3>1 DEF WriteMeta, AppendHistory, TypeInv
    <3>2. CASE s = turn[t].on
      <4>1. disk[s] \in Files
        BY <2>1 DEF TypeInv
      <4>2. disk'[s] \in {BesideIt(disk[s]), Appended(t)}
        BY <2>1, <2>3, <3>2 DEF WriteMeta, AppendHistory, MetaFirst, TypeInv
      <4> QED
        BY <3>2, <4>1, <4>2 DEF BesideIt, Appended, AppendedTo, Files
    <3> QED
      BY <3>1, <3>2
  <2>4. ASSUME NEW z \in Sessions, DeleteSession(z)
        PROVE  disk'[s] = disk[s] \/ disk'[s].meta = NoMeta
    BY <2>1, <2>4 DEF DeleteSession, TypeInv, NoFiles
  <2>5. ASSUME NEW t \in Turns, SaveFails(t) PROVE disk'[s].meta = disk[s].meta
    <3>1. PICK files \in LeftBehind(t) : disk' = [disk EXCEPT ![turn[t].on] = files]
      BY <2>5 DEF SaveFails
    <3>2. turn[t].on \in Sessions /\ turn[t].pc \in {"write", "first", "second"}
      BY <2>1, <2>5 DEF SaveFails, Placed, TypeInv, TurnState
    <3>3. live[turn[t].on] # NoMeta
      BY <2>1, <3>2 DEF Good, SavesRecord
    <3>4. files.meta = disk[turn[t].on].meta
      BY <2>1, <3>2, <3>3, LeftTyped
    <3> QED
      BY <2>1, <3>1, <3>2, <3>4 DEF TypeInv
  <2>6. \/ \E t \in Turns : RenameMeta(t) \/ WriteMeta(t) \/ AppendHistory(t) \/ SaveFails(t)
        \/ \E z \in Sessions : DeleteSession(z)
        \/ disk' = disk
    BY <1>1, ZenonT(30) DEF Next, NewSession, SetOption, CloseSession, ReadRecord, BeginTurn, ConnectFails,
       InsertRestored, ModelAnswers, TurnFails, ToolsDone, SaveSnapshot, Crash
  <2> QED
    BY <2>2, <2>3, <2>4, <2>5, <2>6 DEF Readable
<1>2. MetaInv /\ [Next]_vars => [\A s \in Sessions : Writes(s)]_vars
  BY <1>1
<1> QED
  BY <1>2, InitInv, StepKeeps, PTL DEF Spec, MetaIsRecord
===============================================================================
