-------------------------- MODULE Conversation_proofs --------------------------
(***************************************************************************)
(* Proofs about Conversation, for messages of any length and any budget:   *)
(* what is cut off and repaired before a request is sent.                  *)
(***************************************************************************)
EXTENDS Conversation, SequenceLemmas, TLAPS

-----------------------------------------------------------------------------
(***************************************************************************)
(* Types.                                                                  *)
(***************************************************************************)
Regular(m) ==
  /\ m.calls # <<>> => m.role = "assistant"
  /\ m.role = "tool" <=> m.answers # NoCall
Message ==
  {m \in [role : {"user", "assistant", "tool", "system"}, calls : Seq(Nat),
          answers : Nat \union {NoCall}, content : Nat, from : Seq(Nat)] : Regular(m)}
Messages == Seq(Message)
Groups == Seq(Messages)
Walks == [left : Nat, kept : Groups]

Walk(groups, budget) == FoldLeft(TakeIfFits, [left |-> budget, kept |-> <<>>], groups)

LEMMA SizeTyped == \A m \in Message : EstimateSize(m) \in Nat \ {0}
<1> SUFFICES ASSUME NEW m \in Message PROVE EstimateSize(m) \in Nat \ {0}
  OBVIOUS
<1>1. m.content \in Nat /\ Len(m.calls) \in Nat
  BY LenProperties DEF Message
<1>2. CallSize * Len(m.calls) \in Nat
  BY <1>1, ConversationAssumption DEF ConversationAssumption
<1> QED
  BY <1>1, <1>2 DEF EstimateSize

LEMMA AddSizeTyped == \A v \in Nat, m \in Message : AddSize(v, m) \in Nat
  BY SizeTyped DEF AddSize

LEMMA GatherTyped == \A v \in Groups, m \in Message : Gather(v, m) \in Groups
<1> SUFFICES ASSUME NEW v \in Groups, NEW m \in Message PROVE Gather(v, m) \in Groups
  OBVIOUS
<1>1. <<m>> \in Messages
  BY DEF Messages
<1>2. CASE JoinsGroup(v, m)
  <2>1. v # <<>>
    BY <1>2 DEF JoinsGroup
  <2>2. Front(v) \in Groups /\ Last(v) \in Messages
    BY <2>1, LastApart DEF Groups
  <2>3. Append(Last(v), m) \in Messages
    BY <2>2, AppendProperties DEF Messages
  <2> QED
    BY <1>2, <2>2, <2>3, AppendProperties DEF Gather, Groups
<1>3. CASE ~JoinsGroup(v, m)
  BY <1>1, <1>3, AppendProperties DEF Gather, Groups
<1> QED
  BY <1>2, <1>3

LEMMA MergeTyped == \A a, b \in Message : Merge(a, b) \in Message
<1> SUFFICES ASSUME NEW a \in Message, NEW b \in Message PROVE Merge(a, b) \in Message
  OBVIOUS
<1>1. a.from \o b.from \in Seq(Nat)
  BY ConcatProperties DEF Message
<1>2. PICK f : f = a.from \o b.from
  OBVIOUS
<1>3. a.content + b.content \in Nat
  BY DEF Message
<1>4. Merge(a, b) = [a EXCEPT !.content = a.content + b.content, !.from = f]
  BY <1>2 DEF Merge
<1> QED
  BY <1>1, <1>2, <1>3, <1>4 DEF Message, Regular

LEMMA RepairTyped == \A v \in Messages, m \in Message : Repair(v, m) \in Messages
<1> SUFFICES ASSUME NEW v \in Messages, NEW m \in Message PROVE Repair(v, m) \in Messages
  OBVIOUS
<1>1. CASE MergesWithLast(v, m)
  <2>1. v # <<>>
    BY <1>1 DEF MergesWithLast
  <2>2. Front(v) \in Messages /\ Last(v) \in Message
    BY <2>1, LastApart DEF Messages
  <2>3. Append(Front(v), Merge(Last(v), m)) \in Messages
    BY <2>2, MergeTyped, AppendProperties DEF Messages
  <2> QED
    BY <1>1, <2>3 DEF Repair
<1>2. CASE ~MergesWithLast(v, m)
  BY <1>2, AppendProperties DEF Repair, Messages
<1> QED
  BY <1>1, <1>2

-----------------------------------------------------------------------------
(***************************************************************************)
(* The four loops: what they do with one message or group more.            *)
(***************************************************************************)
SizeSteps(q) == [i \in 1..Len(q) |-> [v \in Nat |-> AddSize(v, q[i])]]
GatherSteps(q) == [i \in 1..Len(q) |-> [v \in Groups |-> Gather(v, q[i])]]
RepairSteps(q) == [i \in 1..Len(q) |-> [v \in Messages |-> Repair(v, q[i])]]
TakeSteps(q) == [i \in 1..Len(q) |-> [v \in Walks |-> TakeIfFits(v, q[i])]]

LEMMA TotalSizeChain ==
  ASSUME NEW q \in Seq(Message)
  PROVE  \E g : /\ Chain(Len(q), Nat, 0, SizeSteps(q), g)
                /\ TotalSize(q) = g[1..Len(q)]
<1> DEFINE n == Len(q)  base == 0
           F(h) == [s \in SUBSET (DOMAIN q) |->
                      IF s = {} THEN base ELSE AddSize(h[s \ {Max(s)}], q[Max(s)])]
           g == CHOOSE h : h = F(h)
<1>1. n \in Nat /\ DOMAIN q = 1..n /\ \A i \in 1..n : q[i] \in Message
  BY LenProperties, ElementOfSeq
<1>2. base \in Nat /\ \A v \in Nat, e \in Message : AddSize(v, e) \in Nat
  BY AddSizeTyped
<1>3. TotalSize(q) = g[1..n]
  BY <1>1 DEF TotalSize, FoldLeft, MapThenFoldSet
<1> HIDE DEF base, g
<1>4. /\ \A i \in 1..n, v \in Nat : SizeSteps(q)[i][v] = AddSize(v, q[i])
      /\ Steps(n, Nat, base, SizeSteps(q))
  BY <1>1, <1>2 DEF Steps, SizeSteps
<1>5. PICK h : Table(n, Nat, base, SizeSteps(q), h)
  BY <1>4, FoldTable
<1>6. h = F(h)
  <2>1. h \in [SUBSET (1..n) -> Nat] /\ h[{}] = base
    BY <1>5 DEF Table
  <2>2. ASSUME NEW s \in SUBSET (1..n), s # {}
        PROVE  h[s] = AddSize(h[s \ {Max(s)}], q[Max(s)])
    <3>1. Max(s) \in 1..n
      BY <1>1, <2>2, GreatestNat
    <3>2. h[s \ {Max(s)}] \in Nat
      BY <2>1
    <3>3. h[s] = SizeSteps(q)[Max(s)][h[s \ {Max(s)}]]
      BY <1>5, <2>2 DEF Table
    <3> QED
      BY <1>4, <3>1, <3>2, <3>3
  <2>3. \A s \in SUBSET (1..n) : h[s] = IF s = {} THEN base ELSE AddSize(h[s \ {Max(s)}], q[Max(s)])
    BY <2>1, <2>2
  <2> QED
    BY <1>1, <2>1, <2>3
<1>7. g = F(g)
  BY <1>6 DEF g
<1>8. \A s \in SUBSET (1..n) : g[s] = IF s = {} THEN base ELSE AddSize(g[s \ {Max(s)}], q[Max(s)])
  BY <1>1, <1>7
<1>9. g[{}] = base
  BY <1>8
<1>10. ASSUME NEW i \in 1..n, g[1..i - 1] \in Nat
       PROVE  g[1..i] = SizeSteps(q)[i][g[1..i - 1]]
  <2>1. 1..i # {} /\ Max(1..i) = i /\ (1..i) \ {i} = 1..i - 1
    BY <1>1, Upto
  <2>2. 1..i \in SUBSET (1..n)
    BY <1>1
  <2>3. g[1..i] = AddSize(g[1..i - 1], q[i])
    BY <1>8, <2>1, <2>2
  <2> QED
    BY <1>4, <1>10, <2>3
<1>11. Chain(n, Nat, base, SizeSteps(q), g)
  BY <1>9, <1>10 DEF Chain
<1> QED
  BY <1>3, <1>11 DEF n, base

LEMMA TotalSizeAppend ==
  /\ TotalSize(<<>>) = 0
  /\ \A q \in Seq(Message) : TotalSize(q) \in Nat
  /\ \A q \in Seq(Message), e \in Message : TotalSize(Append(q, e)) = AddSize(TotalSize(q), e)
<1> DEFINE base == 0
<1>0. base \in Nat /\ \A v \in Nat, e \in Message : AddSize(v, e) \in Nat
  BY AddSizeTyped
<1> HIDE DEF base
<1>1. ASSUME NEW q \in Seq(Message)
      PROVE  Len(q) \in Nat /\ Steps(Len(q), Nat, base, SizeSteps(q))
  <2>1. Len(q) \in Nat /\ \A i \in 1..Len(q) : q[i] \in Message
    BY LenProperties, ElementOfSeq
  <2> QED
    BY <1>0, <2>1 DEF Steps, SizeSteps
<1>2. ASSUME NEW q \in Seq(Message)
      PROVE  \E g : Chain(Len(q), Nat, base, SizeSteps(q), g) /\ TotalSize(q) = g[1..Len(q)]
  BY TotalSizeChain DEF base
<1>3. TotalSize(<<>>) = base
  <2>1. <<>> \in Seq(Message) /\ Len(<<>>) = 0
    OBVIOUS
  <2>2. PICK g : Chain(0, Nat, base, SizeSteps(<<>>), g) /\ TotalSize(<<>>) = g[1..0]
    BY <1>2, <2>1
  <2> QED
    BY <2>2, Upto DEF Chain
<1>4. ASSUME NEW q \in Seq(Message) PROVE TotalSize(q) \in Nat
  <2>1. PICK g : Chain(Len(q), Nat, base, SizeSteps(q), g) /\ TotalSize(q) = g[1..Len(q)]
    BY <1>2
  <2>2. \A i \in 0..Len(q) : g[1..i] \in Nat
    BY <1>1, <2>1, ChainTyped
  <2> QED
    BY <1>1, <2>1, <2>2
<1>5. ASSUME NEW q \in Seq(Message), NEW e \in Message
      PROVE  TotalSize(Append(q, e)) = AddSize(TotalSize(q), e)
  <2> DEFINE n == Len(q)  a == Append(q, e)
  <2>1. n \in Nat /\ a \in Seq(Message) /\ Len(a) = n + 1 /\ a[n + 1] = e /\ \A i \in 1..n : a[i] = q[i]
    BY <1>1, AppendProperties
  <2>2. PICK g : Chain(n, Nat, base, SizeSteps(q), g) /\ TotalSize(q) = g[1..n]
    BY <1>2
  <2> HIDE DEF a
  <2>3. PICK h : Chain(n + 1, Nat, base, SizeSteps(a), h) /\ TotalSize(a) = h[1..n + 1]
    BY <1>2, <2>1
  <2>4. Steps(n, Nat, base, SizeSteps(q)) /\ Steps(n + 1, Nat, base, SizeSteps(a))
    BY <1>1, <2>1
  <2>5. /\ \A i \in 1..n : SizeSteps(a)[i] = SizeSteps(q)[i]
        /\ \A v \in Nat : SizeSteps(a)[n + 1][v] = AddSize(v, e)
    BY <2>1 DEF SizeSteps
  <2> HIDE DEF n
  <2>6. h[1..n + 1] = SizeSteps(a)[n + 1][g[1..n]] /\ g[1..n] \in Nat
    BY <2>2, <2>3, <2>4, <2>5, ChainGrows
  <2>7. TotalSize(a) = AddSize(TotalSize(q), e)
    BY <2>2, <2>3, <2>5, <2>6
  <2> QED
    BY <2>7 DEF a
<1> QED
  BY <1>3, <1>4, <1>5 DEF base

LEMMA GatherChain ==
  ASSUME NEW q \in Seq(Message)
  PROVE  \E g : /\ Chain(Len(q), Groups, <<>>, GatherSteps(q), g)
                /\ GroupToolCallUnits(q) = g[1..Len(q)]
<1> DEFINE n == Len(q)  base == <<>>
           F(h) == [s \in SUBSET (DOMAIN q) |->
                      IF s = {} THEN base ELSE Gather(h[s \ {Max(s)}], q[Max(s)])]
           g == CHOOSE h : h = F(h)
<1>1. n \in Nat /\ DOMAIN q = 1..n /\ \A i \in 1..n : q[i] \in Message
  BY LenProperties, ElementOfSeq
<1>2. base \in Groups /\ \A v \in Groups, e \in Message : Gather(v, e) \in Groups
  BY GatherTyped, EmptySeq DEF Groups
<1>3. GroupToolCallUnits(q) = g[1..n]
  BY <1>1 DEF GroupToolCallUnits, FoldLeft, MapThenFoldSet
<1> HIDE DEF base, g
<1>4. /\ \A i \in 1..n, v \in Groups : GatherSteps(q)[i][v] = Gather(v, q[i])
      /\ Steps(n, Groups, base, GatherSteps(q))
  BY <1>1, <1>2 DEF Steps, GatherSteps
<1>5. PICK h : Table(n, Groups, base, GatherSteps(q), h)
  BY <1>4, FoldTable
<1>6. h = F(h)
  <2>1. h \in [SUBSET (1..n) -> Groups] /\ h[{}] = base
    BY <1>5 DEF Table
  <2>2. ASSUME NEW s \in SUBSET (1..n), s # {}
        PROVE  h[s] = Gather(h[s \ {Max(s)}], q[Max(s)])
    <3>1. Max(s) \in 1..n
      BY <1>1, <2>2, GreatestNat
    <3>2. h[s \ {Max(s)}] \in Groups
      BY <2>1
    <3>3. h[s] = GatherSteps(q)[Max(s)][h[s \ {Max(s)}]]
      BY <1>5, <2>2 DEF Table
    <3> QED
      BY <1>4, <3>1, <3>2, <3>3
  <2>3. \A s \in SUBSET (1..n) : h[s] = IF s = {} THEN base ELSE Gather(h[s \ {Max(s)}], q[Max(s)])
    BY <2>1, <2>2
  <2> QED
    BY <1>1, <2>1, <2>3
<1>7. g = F(g)
  BY <1>6 DEF g
<1>8. \A s \in SUBSET (1..n) : g[s] = IF s = {} THEN base ELSE Gather(g[s \ {Max(s)}], q[Max(s)])
  BY <1>1, <1>7
<1>9. g[{}] = base
  BY <1>8
<1>10. ASSUME NEW i \in 1..n, g[1..i - 1] \in Groups
       PROVE  g[1..i] = GatherSteps(q)[i][g[1..i - 1]]
  <2>1. 1..i # {} /\ Max(1..i) = i /\ (1..i) \ {i} = 1..i - 1
    BY <1>1, Upto
  <2>2. 1..i \in SUBSET (1..n)
    BY <1>1
  <2>3. g[1..i] = Gather(g[1..i - 1], q[i])
    BY <1>8, <2>1, <2>2
  <2> QED
    BY <1>4, <1>10, <2>3
<1>11. Chain(n, Groups, base, GatherSteps(q), g)
  BY <1>9, <1>10 DEF Chain
<1> QED
  BY <1>3, <1>11 DEF n, base

LEMMA GatherAppend ==
  /\ GroupToolCallUnits(<<>>) = <<>>
  /\ \A q \in Seq(Message) : GroupToolCallUnits(q) \in Groups
  /\ \A q \in Seq(Message), e \in Message : GroupToolCallUnits(Append(q, e)) = Gather(GroupToolCallUnits(q), e)
<1> DEFINE base == <<>>
<1>0. base \in Groups /\ \A v \in Groups, e \in Message : Gather(v, e) \in Groups
  BY GatherTyped, EmptySeq DEF Groups
<1> HIDE DEF base
<1>1. ASSUME NEW q \in Seq(Message)
      PROVE  Len(q) \in Nat /\ Steps(Len(q), Groups, base, GatherSteps(q))
  <2>1. Len(q) \in Nat /\ \A i \in 1..Len(q) : q[i] \in Message
    BY LenProperties, ElementOfSeq
  <2> QED
    BY <1>0, <2>1 DEF Steps, GatherSteps
<1>2. ASSUME NEW q \in Seq(Message)
      PROVE  \E g : Chain(Len(q), Groups, base, GatherSteps(q), g) /\ GroupToolCallUnits(q) = g[1..Len(q)]
  BY GatherChain DEF base
<1>3. GroupToolCallUnits(<<>>) = base
  <2>1. <<>> \in Seq(Message) /\ Len(<<>>) = 0
    OBVIOUS
  <2>2. PICK g : Chain(0, Groups, base, GatherSteps(<<>>), g) /\ GroupToolCallUnits(<<>>) = g[1..0]
    BY <1>2, <2>1
  <2> QED
    BY <2>2, Upto DEF Chain
<1>4. ASSUME NEW q \in Seq(Message) PROVE GroupToolCallUnits(q) \in Groups
  <2>1. PICK g : Chain(Len(q), Groups, base, GatherSteps(q), g) /\ GroupToolCallUnits(q) = g[1..Len(q)]
    BY <1>2
  <2>2. \A i \in 0..Len(q) : g[1..i] \in Groups
    BY <1>1, <2>1, ChainTyped
  <2> QED
    BY <1>1, <2>1, <2>2
<1>5. ASSUME NEW q \in Seq(Message), NEW e \in Message
      PROVE  GroupToolCallUnits(Append(q, e)) = Gather(GroupToolCallUnits(q), e)
  <2> DEFINE n == Len(q)  a == Append(q, e)
  <2>1. n \in Nat /\ a \in Seq(Message) /\ Len(a) = n + 1 /\ a[n + 1] = e /\ \A i \in 1..n : a[i] = q[i]
    BY <1>1, AppendProperties
  <2>2. PICK g : Chain(n, Groups, base, GatherSteps(q), g) /\ GroupToolCallUnits(q) = g[1..n]
    BY <1>2
  <2> HIDE DEF a
  <2>3. PICK h : Chain(n + 1, Groups, base, GatherSteps(a), h) /\ GroupToolCallUnits(a) = h[1..n + 1]
    BY <1>2, <2>1
  <2>4. Steps(n, Groups, base, GatherSteps(q)) /\ Steps(n + 1, Groups, base, GatherSteps(a))
    BY <1>1, <2>1
  <2>5. /\ \A i \in 1..n : GatherSteps(a)[i] = GatherSteps(q)[i]
        /\ \A v \in Groups : GatherSteps(a)[n + 1][v] = Gather(v, e)
    BY <2>1 DEF GatherSteps
  <2> HIDE DEF n
  <2>6. h[1..n + 1] = GatherSteps(a)[n + 1][g[1..n]] /\ g[1..n] \in Groups
    BY <2>2, <2>3, <2>4, <2>5, ChainGrows
  <2>7. GroupToolCallUnits(a) = Gather(GroupToolCallUnits(q), e)
    BY <2>2, <2>3, <2>5, <2>6
  <2> QED
    BY <2>7 DEF a
<1> QED
  BY <1>3, <1>4, <1>5 DEF base

LEMMA RepairChain ==
  ASSUME NEW q \in Seq(Message)
  PROVE  \E g : /\ Chain(Len(q), Messages, <<>>, RepairSteps(q), g)
                /\ SanitizeConversation(q) = g[1..Len(q)]
<1> DEFINE n == Len(q)  base == <<>>
           F(h) == [s \in SUBSET (DOMAIN q) |->
                      IF s = {} THEN base ELSE Repair(h[s \ {Max(s)}], q[Max(s)])]
           g == CHOOSE h : h = F(h)
<1>1. n \in Nat /\ DOMAIN q = 1..n /\ \A i \in 1..n : q[i] \in Message
  BY LenProperties, ElementOfSeq
<1>2. base \in Messages /\ \A v \in Messages, e \in Message : Repair(v, e) \in Messages
  BY RepairTyped, EmptySeq DEF Messages
<1>3. SanitizeConversation(q) = g[1..n]
  BY <1>1 DEF SanitizeConversation, FoldLeft, MapThenFoldSet
<1> HIDE DEF base, g
<1>4. /\ \A i \in 1..n, v \in Messages : RepairSteps(q)[i][v] = Repair(v, q[i])
      /\ Steps(n, Messages, base, RepairSteps(q))
  BY <1>1, <1>2 DEF Steps, RepairSteps
<1>5. PICK h : Table(n, Messages, base, RepairSteps(q), h)
  BY <1>4, FoldTable
<1>6. h = F(h)
  <2>1. h \in [SUBSET (1..n) -> Messages] /\ h[{}] = base
    BY <1>5 DEF Table
  <2>2. ASSUME NEW s \in SUBSET (1..n), s # {}
        PROVE  h[s] = Repair(h[s \ {Max(s)}], q[Max(s)])
    <3>1. Max(s) \in 1..n
      BY <1>1, <2>2, GreatestNat
    <3>2. h[s \ {Max(s)}] \in Messages
      BY <2>1
    <3>3. h[s] = RepairSteps(q)[Max(s)][h[s \ {Max(s)}]]
      BY <1>5, <2>2 DEF Table
    <3> QED
      BY <1>4, <3>1, <3>2, <3>3
  <2>3. \A s \in SUBSET (1..n) : h[s] = IF s = {} THEN base ELSE Repair(h[s \ {Max(s)}], q[Max(s)])
    BY <2>1, <2>2
  <2> QED
    BY <1>1, <2>1, <2>3
<1>7. g = F(g)
  BY <1>6 DEF g
<1>8. \A s \in SUBSET (1..n) : g[s] = IF s = {} THEN base ELSE Repair(g[s \ {Max(s)}], q[Max(s)])
  BY <1>1, <1>7
<1>9. g[{}] = base
  BY <1>8
<1>10. ASSUME NEW i \in 1..n, g[1..i - 1] \in Messages
       PROVE  g[1..i] = RepairSteps(q)[i][g[1..i - 1]]
  <2>1. 1..i # {} /\ Max(1..i) = i /\ (1..i) \ {i} = 1..i - 1
    BY <1>1, Upto
  <2>2. 1..i \in SUBSET (1..n)
    BY <1>1
  <2>3. g[1..i] = Repair(g[1..i - 1], q[i])
    BY <1>8, <2>1, <2>2
  <2> QED
    BY <1>4, <1>10, <2>3
<1>11. Chain(n, Messages, base, RepairSteps(q), g)
  BY <1>9, <1>10 DEF Chain
<1> QED
  BY <1>3, <1>11 DEF n, base

LEMMA RepairAppend ==
  /\ SanitizeConversation(<<>>) = <<>>
  /\ \A q \in Seq(Message) : SanitizeConversation(q) \in Messages
  /\ \A q \in Seq(Message), e \in Message : SanitizeConversation(Append(q, e)) = Repair(SanitizeConversation(q), e)
<1> DEFINE base == <<>>
<1>0. base \in Messages /\ \A v \in Messages, e \in Message : Repair(v, e) \in Messages
  BY RepairTyped, EmptySeq DEF Messages
<1> HIDE DEF base
<1>1. ASSUME NEW q \in Seq(Message)
      PROVE  Len(q) \in Nat /\ Steps(Len(q), Messages, base, RepairSteps(q))
  <2>1. Len(q) \in Nat /\ \A i \in 1..Len(q) : q[i] \in Message
    BY LenProperties, ElementOfSeq
  <2> QED
    BY <1>0, <2>1 DEF Steps, RepairSteps
<1>2. ASSUME NEW q \in Seq(Message)
      PROVE  \E g : Chain(Len(q), Messages, base, RepairSteps(q), g) /\ SanitizeConversation(q) = g[1..Len(q)]
  BY RepairChain DEF base
<1>3. SanitizeConversation(<<>>) = base
  <2>1. <<>> \in Seq(Message) /\ Len(<<>>) = 0
    OBVIOUS
  <2>2. PICK g : Chain(0, Messages, base, RepairSteps(<<>>), g) /\ SanitizeConversation(<<>>) = g[1..0]
    BY <1>2, <2>1
  <2> QED
    BY <2>2, Upto DEF Chain
<1>4. ASSUME NEW q \in Seq(Message) PROVE SanitizeConversation(q) \in Messages
  <2>1. PICK g : Chain(Len(q), Messages, base, RepairSteps(q), g) /\ SanitizeConversation(q) = g[1..Len(q)]
    BY <1>2
  <2>2. \A i \in 0..Len(q) : g[1..i] \in Messages
    BY <1>1, <2>1, ChainTyped
  <2> QED
    BY <1>1, <2>1, <2>2
<1>5. ASSUME NEW q \in Seq(Message), NEW e \in Message
      PROVE  SanitizeConversation(Append(q, e)) = Repair(SanitizeConversation(q), e)
  <2> DEFINE n == Len(q)  a == Append(q, e)
  <2>1. n \in Nat /\ a \in Seq(Message) /\ Len(a) = n + 1 /\ a[n + 1] = e /\ \A i \in 1..n : a[i] = q[i]
    BY <1>1, AppendProperties
  <2>2. PICK g : Chain(n, Messages, base, RepairSteps(q), g) /\ SanitizeConversation(q) = g[1..n]
    BY <1>2
  <2> HIDE DEF a
  <2>3. PICK h : Chain(n + 1, Messages, base, RepairSteps(a), h) /\ SanitizeConversation(a) = h[1..n + 1]
    BY <1>2, <2>1
  <2>4. Steps(n, Messages, base, RepairSteps(q)) /\ Steps(n + 1, Messages, base, RepairSteps(a))
    BY <1>1, <2>1
  <2>5. /\ \A i \in 1..n : RepairSteps(a)[i] = RepairSteps(q)[i]
        /\ \A v \in Messages : RepairSteps(a)[n + 1][v] = Repair(v, e)
    BY <2>1 DEF RepairSteps
  <2> HIDE DEF n
  <2>6. h[1..n + 1] = RepairSteps(a)[n + 1][g[1..n]] /\ g[1..n] \in Messages
    BY <2>2, <2>3, <2>4, <2>5, ChainGrows
  <2>7. SanitizeConversation(a) = Repair(SanitizeConversation(q), e)
    BY <2>2, <2>3, <2>5, <2>6
  <2> QED
    BY <2>7 DEF a
<1> QED
  BY <1>3, <1>4, <1>5 DEF base

LEMMA TotalSizeTyped == \A g \in Messages : TotalSize(g) \in Nat
  BY TotalSizeAppend DEF Messages

LEMMA TakeTyped == \A v \in Walks, g \in Messages : TakeIfFits(v, g) \in Walks
<1> SUFFICES ASSUME NEW v \in Walks, NEW g \in Messages PROVE TakeIfFits(v, g) \in Walks
  OBVIOUS
<1>1. TotalSize(g) \in Nat /\ v.left \in Nat /\ v.kept \in Groups
  BY TotalSizeTyped DEF Walks
<1>2. <<g>> \in Groups
  BY DEF Groups
<1>3. <<g>> \o v.kept \in Groups
  BY <1>1, <1>2, ConcatProperties DEF Groups
<1> QED
  BY <1>1, <1>3 DEF TakeIfFits, Taken, Walks

LEMMA WalkChain ==
  ASSUME NEW budget \in Nat, NEW q \in Seq(Messages)
  PROVE  \E g : /\ Chain(Len(q), Walks, [left |-> budget, kept |-> <<>>], TakeSteps(q), g)
                /\ Walk(q, budget) = g[1..Len(q)]
<1> DEFINE n == Len(q)  base == [left |-> budget, kept |-> <<>>]
           F(h) == [s \in SUBSET (DOMAIN q) |->
                      IF s = {} THEN base ELSE TakeIfFits(h[s \ {Max(s)}], q[Max(s)])]
           g == CHOOSE h : h = F(h)
<1>1. n \in Nat /\ DOMAIN q = 1..n /\ \A i \in 1..n : q[i] \in Messages
  BY LenProperties, ElementOfSeq
<1>2. base \in Walks /\ \A v \in Walks, e \in Messages : TakeIfFits(v, e) \in Walks
  BY TakeTyped, EmptySeq DEF Walks, Groups
<1>3. Walk(q, budget) = g[1..n]
  BY <1>1 DEF Walk, FoldLeft, MapThenFoldSet
<1> HIDE DEF base, g
<1>4. /\ \A i \in 1..n, v \in Walks : TakeSteps(q)[i][v] = TakeIfFits(v, q[i])
      /\ Steps(n, Walks, base, TakeSteps(q))
  BY <1>1, <1>2 DEF Steps, TakeSteps
<1>5. PICK h : Table(n, Walks, base, TakeSteps(q), h)
  BY <1>4, FoldTable
<1>6. h = F(h)
  <2>1. h \in [SUBSET (1..n) -> Walks] /\ h[{}] = base
    BY <1>5 DEF Table
  <2>2. ASSUME NEW s \in SUBSET (1..n), s # {}
        PROVE  h[s] = TakeIfFits(h[s \ {Max(s)}], q[Max(s)])
    <3>1. Max(s) \in 1..n
      BY <1>1, <2>2, GreatestNat
    <3>2. h[s \ {Max(s)}] \in Walks
      BY <2>1
    <3>3. h[s] = TakeSteps(q)[Max(s)][h[s \ {Max(s)}]]
      BY <1>5, <2>2 DEF Table
    <3> QED
      BY <1>4, <3>1, <3>2, <3>3
  <2>3. \A s \in SUBSET (1..n) : h[s] = IF s = {} THEN base ELSE TakeIfFits(h[s \ {Max(s)}], q[Max(s)])
    BY <2>1, <2>2
  <2> QED
    BY <1>1, <2>1, <2>3
<1>7. g = F(g)
  BY <1>6 DEF g
<1>8. \A s \in SUBSET (1..n) : g[s] = IF s = {} THEN base ELSE TakeIfFits(g[s \ {Max(s)}], q[Max(s)])
  BY <1>1, <1>7
<1>9. g[{}] = base
  BY <1>8
<1>10. ASSUME NEW i \in 1..n, g[1..i - 1] \in Walks
       PROVE  g[1..i] = TakeSteps(q)[i][g[1..i - 1]]
  <2>1. 1..i # {} /\ Max(1..i) = i /\ (1..i) \ {i} = 1..i - 1
    BY <1>1, Upto
  <2>2. 1..i \in SUBSET (1..n)
    BY <1>1
  <2>3. g[1..i] = TakeIfFits(g[1..i - 1], q[i])
    BY <1>8, <2>1, <2>2
  <2> QED
    BY <1>4, <1>10, <2>3
<1>11. Chain(n, Walks, base, TakeSteps(q), g)
  BY <1>9, <1>10 DEF Chain
<1> QED
  BY <1>3, <1>11 DEF n, base

LEMMA WalkAppend ==
  ASSUME NEW budget \in Nat
  PROVE  /\ Walk(<<>>, budget) = [left |-> budget, kept |-> <<>>]
         /\ \A q \in Seq(Messages) : Walk(q, budget) \in Walks
         /\ \A q \in Seq(Messages), e \in Messages : Walk(Append(q, e), budget) = TakeIfFits(Walk(q, budget), e)
<1> DEFINE base == [left |-> budget, kept |-> <<>>]
<1>0. base \in Walks /\ \A v \in Walks, e \in Messages : TakeIfFits(v, e) \in Walks
  BY TakeTyped, EmptySeq DEF Walks, Groups
<1> HIDE DEF base
<1>1. ASSUME NEW q \in Seq(Messages)
      PROVE  Len(q) \in Nat /\ Steps(Len(q), Walks, base, TakeSteps(q))
  <2>1. Len(q) \in Nat /\ \A i \in 1..Len(q) : q[i] \in Messages
    BY LenProperties, ElementOfSeq
  <2> QED
    BY <1>0, <2>1 DEF Steps, TakeSteps
<1>2. ASSUME NEW q \in Seq(Messages)
      PROVE  \E g : Chain(Len(q), Walks, base, TakeSteps(q), g) /\ Walk(q, budget) = g[1..Len(q)]
  BY WalkChain DEF base
<1>3. Walk(<<>>, budget) = base
  <2>1. <<>> \in Seq(Messages) /\ Len(<<>>) = 0
    OBVIOUS
  <2>2. PICK g : Chain(0, Walks, base, TakeSteps(<<>>), g) /\ Walk(<<>>, budget) = g[1..0]
    BY <1>2, <2>1
  <2> QED
    BY <2>2, Upto DEF Chain
<1>4. ASSUME NEW q \in Seq(Messages) PROVE Walk(q, budget) \in Walks
  <2>1. PICK g : Chain(Len(q), Walks, base, TakeSteps(q), g) /\ Walk(q, budget) = g[1..Len(q)]
    BY <1>2
  <2>2. \A i \in 0..Len(q) : g[1..i] \in Walks
    BY <1>1, <2>1, ChainTyped
  <2> QED
    BY <1>1, <2>1, <2>2
<1>5. ASSUME NEW q \in Seq(Messages), NEW e \in Messages
      PROVE  Walk(Append(q, e), budget) = TakeIfFits(Walk(q, budget), e)
  <2> DEFINE n == Len(q)  a == Append(q, e)
  <2>1. n \in Nat /\ a \in Seq(Messages) /\ Len(a) = n + 1 /\ a[n + 1] = e /\ \A i \in 1..n : a[i] = q[i]
    BY <1>1, AppendProperties
  <2>2. PICK g : Chain(n, Walks, base, TakeSteps(q), g) /\ Walk(q, budget) = g[1..n]
    BY <1>2
  <2> HIDE DEF a
  <2>3. PICK h : Chain(n + 1, Walks, base, TakeSteps(a), h) /\ Walk(a, budget) = h[1..n + 1]
    BY <1>2, <2>1
  <2>4. Steps(n, Walks, base, TakeSteps(q)) /\ Steps(n + 1, Walks, base, TakeSteps(a))
    BY <1>1, <2>1
  <2>5. /\ \A i \in 1..n : TakeSteps(a)[i] = TakeSteps(q)[i]
        /\ \A v \in Walks : TakeSteps(a)[n + 1][v] = TakeIfFits(v, e)
    BY <2>1 DEF TakeSteps
  <2> HIDE DEF n
  <2>6. h[1..n + 1] = TakeSteps(a)[n + 1][g[1..n]] /\ g[1..n] \in Walks
    BY <2>2, <2>3, <2>4, <2>5, ChainGrows
  <2>7. Walk(a, budget) = TakeIfFits(Walk(q, budget), e)
    BY <2>2, <2>3, <2>5, <2>6
  <2> QED
    BY <2>7 DEF a
<1> QED
  BY <1>3, <1>4, <1>5 DEF base

-----------------------------------------------------------------------------
(***************************************************************************)
(* What the repair leaves behind.                                          *)
(***************************************************************************)
Clash(a, b) == Mergeable(a) /\ Mergeable(b) /\ a.role = b.role

WellShaped(done) ==
  /\ \A i \in 1..Len(done) : ~Blank(done[i])
  /\ \A i \in 1..Len(done) - 1 : ~Clash(done[i], done[i + 1])

LEMMA AppendShapes ==
  ASSUME NEW v \in Messages, NEW m \in Message, WellShaped(v), ~Blank(m),
         v # <<>> => ~Clash(Last(v), m)
  PROVE  WellShaped(Append(v, m))
<1> DEFINE n == Len(v)  a == Append(v, m)
<1>1. n \in Nat /\ Len(a) = n + 1 /\ a[n + 1] = m /\ \A i \in 1..n : a[i] = v[i]
  BY LenProperties, AppendProperties DEF Messages
<1>2. n # 0 => v # <<>> /\ Last(v) = v[n]
  BY <1>1 DEF Last
<1> HIDE DEF a, n
<1>3. \A i \in 1..n + 1 : ~Blank(a[i])
  <2>1. \A i \in 1..n : ~Blank(v[i])
    BY DEF WellShaped, n
  <2> QED
    BY <1>1, <2>1
<1>4. ASSUME NEW i \in 1..n PROVE ~Clash(a[i], a[i + 1])
  <2>1. CASE i = n
    BY <1>1, <1>2, <2>1
  <2>2. CASE i # n
    <3>1. i \in 1..n - 1 /\ i + 1 \in 1..n
      BY <1>1, <2>2
    <3>2. ~Clash(v[i], v[i + 1])
      BY <3>1 DEF WellShaped, n
    <3> QED
      BY <1>1, <3>1, <3>2
  <2> QED
    BY <2>1, <2>2
<1>5. \A i \in 1..Len(a) - 1 : i \in 1..n
  BY <1>1
<1> QED
  BY <1>1, <1>3, <1>4, <1>5 DEF WellShaped, a

LEMMA PartShapes ==
  ASSUME NEW v \in Messages, NEW m \in Message, WellShaped(Append(v, m))
  PROVE  WellShaped(v) /\ ~Blank(m) /\ (v # <<>> => ~Clash(Last(v), m))
<1> DEFINE n == Len(v)  a == Append(v, m)
<1>1. n \in Nat /\ Len(a) = n + 1 /\ a[n + 1] = m /\ \A i \in 1..n : a[i] = v[i]
  BY LenProperties, AppendProperties DEF Messages
<1>2. v # <<>> => n # 0 /\ Last(v) = v[n]
  BY EmptySeq DEF Last, Messages
<1> HIDE DEF a, n
<1>3. \A i \in 1..n + 1 : ~Blank(a[i])
  BY <1>1 DEF WellShaped, a
<1>4. \A i \in 1..n + 1 - 1 : ~Clash(a[i], a[i + 1])
  BY <1>1 DEF WellShaped, a
<1>5. \A i \in 1..n - 1 : i \in 1..n /\ i + 1 \in 1..n /\ i \in 1..n + 1 - 1
  BY <1>1
<1>6. \A i \in 1..n : ~Blank(v[i])
  BY <1>1, <1>3
<1>7. \A i \in 1..n - 1 : ~Clash(v[i], v[i + 1])
  BY <1>1, <1>4, <1>5
<1>8. n + 1 \in 1..n + 1 /\ (n # 0 => n \in 1..n /\ n \in 1..n + 1 - 1)
  BY <1>1
<1> QED
  BY <1>1, <1>2, <1>3, <1>4, <1>6, <1>7, <1>8 DEF WellShaped, n

LEMMA RepairShapes ==
  ASSUME NEW v \in Messages, NEW m \in Message, WellShaped(v)
  PROVE  WellShaped(Repair(v, m))
<1>1. CASE Blank(m)
  BY <1>1 DEF Repair
<1>2. CASE ~Blank(m) /\ MergesWithLast(v, m)
  <2> DEFINE f == Front(v)  l == Last(v)  j == Merge(l, m)
  <2>1. v # <<>> /\ Mergeable(m) /\ l.role = m.role /\ l.calls = <<>>
    BY <1>2 DEF MergesWithLast
  <2>2. f \in Messages /\ l \in Message /\ v = Append(f, l)
    BY <2>1, LastApart DEF Messages
  <2> HIDE DEF f, l
  <2>3. WellShaped(f) /\ ~Blank(l) /\ (f # <<>> => ~Clash(Last(f), l))
    BY <2>2, PartShapes
  <2>4. j \in Message /\ j.role = l.role /\ j.calls = l.calls /\ j.content = l.content + m.content
    BY <2>2, MergeTyped DEF Merge, Message
  <2> HIDE DEF j
  <2>5. ~Blank(j)
    BY <2>1, <2>2, <2>3, <2>4 DEF Blank, Message
  <2>6. f # <<>> => ~Clash(Last(f), j)
    BY <2>3, <2>4 DEF Clash, Mergeable
  <2>7. Repair(v, m) = Append(f, j)
    BY <1>2 DEF Repair, f, l, j
  <2> QED
    BY <2>2, <2>3, <2>4, <2>5, <2>6, <2>7, AppendShapes
<1>3. CASE ~Blank(m) /\ ~MergesWithLast(v, m)
  <2>1. Repair(v, m) = Append(v, m)
    BY <1>3 DEF Repair
  <2>2. v # <<>> => ~Clash(Last(v), m)
    BY <1>3 DEF MergesWithLast, Clash, Mergeable
  <2> QED
    BY <1>3, <2>1, <2>2, AppendShapes
<1> QED
  BY <1>1, <1>2, <1>3

LEMMA RequestShaped == \A ms \in Messages : WellShaped(SanitizeConversation(ms))
<1> DEFINE T == {ms \in Messages : WellShaped(SanitizeConversation(ms))}
<1>1. <<>> \in T
  BY RepairAppend DEF WellShaped, Messages
<1>2. \A ms \in Messages, m \in Message : ms \in T => Append(ms, m) \in T
  BY RepairAppend, RepairShapes, AppendProperties DEF Messages
<1>3. Messages \subseteq T
  BY <1>1, <1>2, SeqInduction DEF Messages
<1> QED
  BY <1>3

-----------------------------------------------------------------------------
(***************************************************************************)
(* Filters, and the size and the origins of messages put together.         *)
(***************************************************************************)
LEMMA OnlyAppend ==
  ASSUME NEW kept
  PROVE  /\ Only(<<>>, kept) = <<>>
         /\ \A ms \in Messages : Only(ms, kept) \in Messages
         /\ \A ms \in Messages, m \in Message :
              Only(Append(ms, m), kept) = IF m \in kept THEN Append(Only(ms, kept), m) ELSE Only(ms, kept)
<1> DEFINE P(m) == IF m \in kept THEN <<m>> ELSE <<>>
           Parts(ms) == [i \in DOMAIN ms |-> P(ms[i])]
<1>1. \A m \in Message : P(m) \in Messages
  BY DEF Messages
<1>2. ASSUME NEW ms \in Messages
      PROVE  /\ Len(ms) \in Nat /\ DOMAIN ms = 1..Len(ms)
             /\ Parts(ms) \in Seq(Messages) /\ Len(Parts(ms)) = Len(ms)
  <2>1. Len(ms) \in Nat /\ DOMAIN ms = 1..Len(ms) /\ \A i \in 1..Len(ms) : ms[i] \in Message
    BY LenProperties, ElementOfSeq DEF Messages
  <2>2. Parts(ms) \in [1..Len(ms) -> Messages]
    BY <1>1, <2>1
  <2> QED
    BY <2>1, <2>2, LenProperties
<1>3. \A ms : Only(ms, kept) = FlattenSeq(Parts(ms))
  BY DEF Only
<1>4. Only(<<>>, kept) = <<>>
  <2>1. Parts(<<>>) = <<>>
    OBVIOUS
  <2>2. FlattenSeq(Parts(<<>>)) = FlattenSeq(<<>>)
    BY <2>1, Zenon
  <2>3. FlattenSeq(<<>>) = <<>>
    BY DEF FlattenSeq
  <2> HIDE DEF Parts
  <2> QED
    BY <1>3, <2>2, <2>3, Zenon
<1>5. ASSUME NEW ms \in Messages, NEW m \in Message
      PROVE  /\ Only(ms, kept) \in Messages
             /\ Only(Append(ms, m), kept) = Only(ms, kept) \o P(m)
  <2> DEFINE n == Len(ms)  a == Append(ms, m)  p == Parts(ms)  b == Append(p, P(m))  r == Parts(a)
  <2>1. n \in Nat /\ a \in Messages /\ Len(a) = n + 1 /\ a[n + 1] = m /\ \A i \in 1..n : a[i] = ms[i]
    BY <1>2, AppendProperties DEF Messages
  <2>2. p \in Seq(Messages) /\ Len(p) = n /\ \A i \in 1..n : p[i] = P(ms[i])
    BY <1>2
  <2>3. b \in Seq(Messages) /\ Len(b) = n + 1 /\ b[n + 1] = P(m) /\ \A i \in 1..n : b[i] = p[i]
    BY <1>1, <2>1, <2>2, AppendProperties
  <2>4. r \in Seq(Messages) /\ Len(r) = n + 1 /\ \A i \in 1..n + 1 : r[i] = P(a[i])
    BY <1>2, <2>1
  <2> HIDE DEF a, b, p, r, n, P
  <2>5. \A i \in 1..n + 1 : r[i] = b[i]
    BY <2>1, <2>2, <2>3, <2>4
  <2>6. r = b
    BY <2>3, <2>4, <2>5, SeqEqual
  <2>7. FlattenSeq(p) \in Messages /\ FlattenSeq(b) = FlattenSeq(p) \o P(m)
    BY <1>1, <2>2, FlattenAppend DEF Messages, b
  <2> QED
    BY <1>3, <2>6, <2>7 DEF a, p, r
<1>6. ASSUME NEW ms \in Messages, NEW m \in Message
      PROVE  Only(Append(ms, m), kept) = IF m \in kept THEN Append(Only(ms, kept), m) ELSE Only(ms, kept)
  <2>1. Only(ms, kept) \in Messages /\ Only(Append(ms, m), kept) = Only(ms, kept) \o P(m)
    BY <1>5
  <2>2. Only(ms, kept) \o <<>> = Only(ms, kept)
    BY <2>1, ConcatEmptySeq DEF Messages
  <2>3. Append(Only(ms, kept), m) = Only(ms, kept) \o <<m>>
    BY <2>1, AppendIsConcat DEF Messages
  <2> QED
    BY <2>1, <2>2, <2>3
<1>7. \A ms \in Messages : Only(ms, kept) \in Messages
  <2> SUFFICES ASSUME NEW ms \in Messages PROVE FlattenSeq(Parts(ms)) \in Messages
    BY <1>3
  <2> QED
    BY <1>2, FlattenAppend, EmptySeq DEF Messages
<1> QED
  BY <1>4, <1>6, <1>7

LEMMA TotalOfBoth ==
  ASSUME NEW p \in Messages
  PROVE  \A q \in Messages : TotalSize(p \o q) = TotalSize(p) + TotalSize(q)
<1> DEFINE T == {q \in Messages : TotalSize(p \o q) = TotalSize(p) + TotalSize(q)}
<1>1. <<>> \in T
  <2>1. p \o <<>> = p /\ <<>> \in Messages
    BY ConcatEmptySeq, EmptySeq DEF Messages
  <2> QED
    BY <2>1, TotalSizeAppend, TotalSizeTyped
<1>2. ASSUME NEW q \in Messages, NEW e \in Message, q \in T PROVE Append(q, e) \in T
  <2>1. Append(p \o q, e) = p \o Append(q, e) /\ Append(q, e) \in Messages /\ p \o q \in Messages
    <3>1. Append(p \o q, e) = p \o Append(q, e)
      <4>1. p \in Seq(Message) /\ q \in Seq(Message) /\ e \in Message
        BY DEF Messages
      <4> HIDE DEF T
      <4>2. p \o Append(q, e) = Append(p \o q, e)
        BY <4>1, AppendToConcat
      <4> QED
        BY <4>2, Zenon
    <3>2. Append(q, e) \in Messages
      BY AppendProperties DEF Messages
    <3>3. p \o q \in Messages
      BY ConcatProperties DEF Messages
    <3> QED
      BY <3>1, <3>2, <3>3, Zenon
  <2>2. TotalSize(Append(p \o q, e)) = TotalSize(p \o q) + EstimateSize(e)
    BY <2>1, TotalSizeAppend DEF AddSize, Messages
  <2>3. TotalSize(Append(q, e)) = TotalSize(q) + EstimateSize(e)
    BY TotalSizeAppend DEF AddSize, Messages
  <2>4. TotalSize(p \o q) = TotalSize(p) + TotalSize(q)
    BY <1>2
  <2>5. TotalSize(p) \in Nat /\ TotalSize(q) \in Nat /\ EstimateSize(e) \in Nat
    BY TotalSizeTyped, SizeTyped
  <2>6. TotalSize(p \o Append(q, e)) = TotalSize(p) + TotalSize(Append(q, e))
    <3>1. TotalSize(p \o Append(q, e)) = TotalSize(p) + TotalSize(q) + EstimateSize(e)
      BY <2>1, <2>2, <2>4, Zenon
    <3> QED
      BY <2>3, <2>5, <3>1
  <2> QED
    BY <2>1, <2>6
<1> HIDE DEF T
<1>3. Messages \subseteq T
  BY <1>1, <1>2, SeqInduction DEF Messages
<1> QED
  BY <1>3 DEF T

LEMMA OnlyIsNoBigger ==
  ASSUME NEW kept
  PROVE  \A ms \in Messages : TotalSize(Only(ms, kept)) <= TotalSize(ms)
<1> DEFINE T == {ms \in Messages : TotalSize(Only(ms, kept)) <= TotalSize(ms)}
<1>1. <<>> \in T
  BY OnlyAppend, TotalSizeAppend, EmptySeq DEF Messages
<1>2. ASSUME NEW ms \in Messages, NEW m \in Message, ms \in T PROVE Append(ms, m) \in T
  <2>1. Append(ms, m) \in Messages /\ Only(ms, kept) \in Messages
    BY OnlyAppend, AppendProperties DEF Messages
  <2>2. /\ TotalSize(Append(ms, m)) = TotalSize(ms) + EstimateSize(m)
        /\ TotalSize(Append(Only(ms, kept), m)) = TotalSize(Only(ms, kept)) + EstimateSize(m)
    BY <2>1, TotalSizeAppend DEF AddSize, Messages
  <2>3. TotalSize(ms) \in Nat /\ TotalSize(Only(ms, kept)) \in Nat /\ EstimateSize(m) \in Nat
    BY <2>1, TotalSizeTyped, SizeTyped
  <2>4. \/ Only(Append(ms, m), kept) = Append(Only(ms, kept), m)
        \/ Only(Append(ms, m), kept) = Only(ms, kept)
    BY OnlyAppend
  <2>5. TotalSize(Only(ms, kept)) <= TotalSize(ms)
    BY <1>2
  <2>6. TotalSize(Only(Append(ms, m), kept)) <= TotalSize(Append(ms, m))
    <3>1. \/ TotalSize(Only(Append(ms, m), kept)) = TotalSize(Only(ms, kept)) + EstimateSize(m)
          \/ TotalSize(Only(Append(ms, m), kept)) = TotalSize(Only(ms, kept))
      BY <2>2, <2>4, Zenon
    <3> QED
      BY <2>2, <2>3, <2>5, <3>1
  <2> QED
    BY <2>1, <2>6
<1>3. Messages \subseteq T
  BY <1>1, <1>2, SeqInduction DEF Messages
<1> QED
  BY <1>3

-----------------------------------------------------------------------------
(***************************************************************************)
(* The members of sequences that were put together.                        *)
(***************************************************************************)
LEMMA MembersOfAppend ==
  ASSUME NEW S, NEW q \in Seq(S), NEW e \in S
  PROVE  ToSet(<<>>) = {} /\ ToSet(q) \in SUBSET S /\ ToSet(Append(q, e)) = ToSet(q) \union {e}
<1> DEFINE n == Len(q)  a == Append(q, e)
<1>1. n \in Nat /\ DOMAIN q = 1..n /\ \A i \in 1..n : q[i] \in S
  BY LenProperties, ElementOfSeq
<1>2. a \in Seq(S) /\ Len(a) = n + 1 /\ a[n + 1] = e /\ \A i \in 1..n : a[i] = q[i]
  BY <1>1, AppendProperties
<1>3. DOMAIN a = 1..n + 1
  BY <1>2, LenProperties
<1> HIDE DEF a, n
<1>4. ToSet(a) = {a[i] : i \in 1..n + 1} /\ ToSet(q) = {q[i] : i \in 1..n}
  BY <1>1, <1>3 DEF ToSet
<1>5. 1..n + 1 = (1..n) \union {n + 1}
  BY <1>1 DEF n
<1>6. ToSet(a) = ToSet(q) \union {e}
  BY <1>2, <1>4, <1>5
<1>7. ToSet(<<>>) = {}
  BY DEF ToSet
<1> QED
  BY <1>1, <1>4, <1>6, <1>7 DEF a

LEMMA MembersOfBoth ==
  ASSUME NEW S, NEW p \in Seq(S)
  PROVE  \A q \in Seq(S) : ToSet(p \o q) = ToSet(p) \union ToSet(q)
<1> DEFINE T == {q \in Seq(S) : ToSet(p \o q) = ToSet(p) \union ToSet(q)}
<1>1. <<>> \in T
  <2>1. p \o <<>> = p
    BY ConcatEmptySeq
  <2>2. ToSet(<<>>) = {} /\ <<>> \in Seq(S)
    BY DEF ToSet
  <2> QED
    BY <2>1, <2>2
<1>2. ASSUME NEW q \in Seq(S), NEW e \in S, q \in T PROVE Append(q, e) \in T
  <2>1. ToSet(p \o q) = ToSet(p) \union ToSet(q)
    BY <1>2
  <2> HIDE DEF T
  <2>2. p \o Append(q, e) = Append(p \o q, e)
    BY AppendToConcat
  <2>3. p \o q \in Seq(S)
    BY ConcatProperties
  <2>4. ToSet(Append(p \o q, e)) = ToSet(p \o q) \union {e}
    <3>1. PICK pq : pq = p \o q
      OBVIOUS
    <3>2. pq \in Seq(S)
      BY <2>3, <3>1, Zenon
    <3>3. ToSet(Append(pq, e)) = ToSet(pq) \union {e}
      BY <3>2, MembersOfAppend
    <3> QED
      BY <3>1, <3>3, Zenon
  <2>5. ToSet(Append(q, e)) = ToSet(q) \union {e}
    BY MembersOfAppend
  <2>6. ToSet(p \o Append(q, e)) = ToSet(p) \union ToSet(Append(q, e))
    <3>1. ToSet(p \o Append(q, e)) = (ToSet(p) \union ToSet(q)) \union {e}
      BY <2>1, <2>2, <2>4, Zenon
    <3> QED
      BY <2>5, <3>1
  <2>7. Append(q, e) \in Seq(S)
    BY AppendProperties
  <2> QED
    BY <2>6, <2>7 DEF T
<1> HIDE DEF T
<1>3. Seq(S) \subseteq T
  BY <1>1, <1>2, SeqInduction
<1> QED
  BY <1>3 DEF T

LEMMA MembersOfAll ==
  ASSUME NEW S
  PROVE  \A ss \in Seq(Seq(S)) : ToSet(FlattenSeq(ss)) = UNION {ToSet(q) : q \in ToSet(ss)}
<1> DEFINE Q == Seq(S)
           T == {ss \in Seq(Q) : ToSet(FlattenSeq(ss)) = UNION {ToSet(q) : q \in ToSet(ss)}}
<1>1. <<>> \in T
  <2>1. FlattenSeq(<<>>) = <<>>
    BY DEF FlattenSeq
  <2>2. ToSet(<<>>) = {} /\ <<>> \in Seq(Q)
    BY DEF ToSet
  <2> QED
    BY <2>1, <2>2
<1>2. ASSUME NEW ss \in Seq(Q), NEW e \in Q, ss \in T PROVE Append(ss, e) \in T
  <2>1. ToSet(FlattenSeq(ss)) = UNION {ToSet(q) : q \in ToSet(ss)}
    BY <1>2
  <2> HIDE DEF T
  <2>2. FlattenSeq(ss) \in Seq(S) /\ FlattenSeq(Append(ss, e)) = FlattenSeq(ss) \o e
    BY FlattenAppend
  <2>3. ToSet(FlattenSeq(Append(ss, e))) = ToSet(FlattenSeq(ss)) \union ToSet(e)
    BY <2>2, MembersOfBoth
  <2>4. ToSet(Append(ss, e)) = ToSet(ss) \union {e}
    BY MembersOfAppend
  <2>5. Append(ss, e) \in Seq(Q)
    BY AppendProperties
  <2> QED
    BY <2>1, <2>3, <2>4, <2>5 DEF T
<1> HIDE DEF T
<1>3. Seq(Q) \subseteq T
  BY <1>1, <1>2, SeqInduction
<1> QED
  BY <1>3 DEF T

LEMMA OnlyAll ==
  ASSUME NEW kept
  PROVE  \A ms \in Messages : ToSet(ms) \subseteq kept => Only(ms, kept) = ms
<1> DEFINE T == {ms \in Messages : ToSet(ms) \subseteq kept => Only(ms, kept) = ms}
<1>1. <<>> \in T
  BY OnlyAppend, EmptySeq DEF Messages
<1>2. ASSUME NEW ms \in Messages, NEW m \in Message, ms \in T PROVE Append(ms, m) \in T
  <2>1. ToSet(Append(ms, m)) = ToSet(ms) \union {m} /\ Append(ms, m) \in Messages
    BY MembersOfAppend, AppendProperties DEF Messages
  <2>2. m \in kept => Only(Append(ms, m), kept) = Append(Only(ms, kept), m)
    BY OnlyAppend
  <2> QED
    BY <1>2, <2>1, <2>2
<1>3. Messages \subseteq T
  BY <1>1, <1>2, SeqInduction DEF Messages
<1> QED
  BY <1>3

-----------------------------------------------------------------------------
(***************************************************************************)
(* Calls and answers.  OpenCalls are the calls a tool result at the end    *)
(* would stand behind with only results in between.                        *)
(***************************************************************************)
Calls(ms) == UNION {ToSet(m.calls) : m \in ToSet(ms)}

OpenBy(ms, j) == \A k \in j + 1..Len(ms) : ms[k].role = "tool"
OpenCalls(ms) == UNION {ToSet(ms[j].calls) : j \in {j \in 1..Len(ms) : OpenBy(ms, j)}}

Paired(ms) ==
  \A i \in 1..Len(ms) : ms[i].role = "tool" =>
    \E j \in 1..i - 1 : /\ ms[i].answers \in ToSet(ms[j].calls)
                        /\ \A k \in j + 1..i : ms[k].role = "tool"

LEMMA OpenAppend ==
  ASSUME NEW ms \in Messages, NEW m \in Message
  PROVE  /\ OpenCalls(<<>>) = {}
         /\ OpenCalls(Append(ms, m)) =
              ToSet(m.calls) \union (IF m.role = "tool" THEN OpenCalls(ms) ELSE {})
<1> DEFINE n == Len(ms)  a == Append(ms, m)
<1>1. n \in Nat /\ Len(a) = n + 1 /\ a[n + 1] = m /\ \A i \in 1..n : a[i] = ms[i]
  BY LenProperties, AppendProperties DEF Messages
<1> HIDE DEF a, n
<1>2. OpenBy(a, n + 1)
  BY <1>1 DEF OpenBy
<1>3. ASSUME NEW j \in 1..n PROVE OpenBy(a, j) <=> m.role = "tool" /\ OpenBy(ms, j)
  <2>1. \A k \in j + 1..n + 1 : k \in j + 1..n \/ k = n + 1
    BY <1>1
  <2>2. n + 1 \in j + 1..n + 1 /\ \A k \in j + 1..n : k \in j + 1..n + 1 /\ k \in 1..n
    BY <1>1
  <2> QED
    BY <1>1, <2>1, <2>2 DEF OpenBy, n
<1>4. \A j \in 1..n + 1 : j \in 1..n \/ j = n + 1
  BY <1>1
<1>5. n + 1 \in 1..n + 1 /\ \A j \in 1..n : j \in 1..n + 1
  BY <1>1
<1>6. \A c : c \in OpenCalls(a) <=> \E j \in 1..n + 1 : OpenBy(a, j) /\ c \in ToSet(a[j].calls)
  BY <1>1 DEF OpenCalls
<1>7. \A c : c \in OpenCalls(ms) <=> \E j \in 1..n : OpenBy(ms, j) /\ c \in ToSet(ms[j].calls)
  BY DEF OpenCalls, n
<1>8. \A c : c \in OpenCalls(a) <=>
         c \in ToSet(m.calls) \/ (m.role = "tool" /\ c \in OpenCalls(ms))
  BY <1>1, <1>2, <1>3, <1>4, <1>5, <1>6, <1>7
<1>9. OpenCalls(<<>>) = {}
  BY DEF OpenCalls
<1> QED
  BY <1>8, <1>9 DEF a

LEMMA PairedAppend ==
  ASSUME NEW ms \in Messages, NEW m \in Message
  PROVE  /\ Paired(<<>>)
         /\ Paired(Append(ms, m)) <=>
              Paired(ms) /\ (m.role = "tool" => m.answers \in OpenCalls(ms))
<1> DEFINE n == Len(ms)  a == Append(ms, m)
           Pair(q, i) == \E j \in 1..i - 1 : /\ q[i].answers \in ToSet(q[j].calls)
                                             /\ \A k \in j + 1..i : q[k].role = "tool"
<1>1. n \in Nat /\ Len(a) = n + 1 /\ a[n + 1] = m /\ \A i \in 1..n : a[i] = ms[i]
  BY LenProperties, AppendProperties DEF Messages
<1> HIDE DEF a, n
<1>2. ASSUME NEW i \in 1..n PROVE Pair(a, i) <=> Pair(ms, i)
  <2>1. \A j \in 1..i - 1 : j \in 1..n /\ \A k \in j + 1..i : k \in 1..n
    BY <1>1
  <2> QED
    BY <1>1, <2>1
<1>3. Pair(a, n + 1) /\ m.role = "tool" <=> m.role = "tool" /\ m.answers \in OpenCalls(ms)
  <2>1. n + 1 - 1 = n
    BY <1>1
  <2>2. ASSUME NEW j \in 1..n, m.role = "tool"
        PROVE  (\A k \in j + 1..n + 1 : a[k].role = "tool") <=> OpenBy(ms, j)
    <3>1. \A k \in j + 1..n + 1 : k \in j + 1..n \/ k = n + 1
      BY <1>1
    <3>2. \A k \in j + 1..n : k \in j + 1..n + 1 /\ k \in 1..n
      BY <1>1
    <3> QED
      BY <1>1, <2>2, <3>1, <3>2 DEF OpenBy, n
  <2>3. m.answers \in OpenCalls(ms) <=> \E j \in 1..n : OpenBy(ms, j) /\ m.answers \in ToSet(ms[j].calls)
    BY DEF OpenCalls, n
  <2> QED
    BY <1>1, <2>1, <2>2, <2>3
<1> HIDE DEF Pair
<1>4. Paired(a) <=> \A i \in 1..n + 1 : a[i].role = "tool" => Pair(a, i)
  BY <1>1 DEF Paired, Pair
<1>5. Paired(ms) <=> \A i \in 1..n : ms[i].role = "tool" => Pair(ms, i)
  BY DEF Paired, Pair, n
<1>6. n + 1 \in 1..n + 1 /\ (\A j \in 1..n : j \in 1..n + 1)
      /\ \A j \in 1..n + 1 : j \in 1..n \/ j = n + 1
  BY <1>1
<1>7. Paired(a) <=> Paired(ms) /\ (m.role = "tool" => m.answers \in OpenCalls(ms))
  BY <1>1, <1>2, <1>3, <1>4, <1>5, <1>6
<1>8. Paired(<<>>)
  BY DEF Paired
<1> QED
  BY <1>7, <1>8 DEF a

LEMMA PairedBoth ==
  ASSUME NEW p \in Messages, Paired(p)
  PROVE  \A q \in Messages : Paired(q) => Paired(p \o q) /\ OpenCalls(q) \subseteq OpenCalls(p \o q)
<1> DEFINE T == {q \in Messages : Paired(q) => Paired(p \o q) /\ OpenCalls(q) \subseteq OpenCalls(p \o q)}
<1>1. <<>> \in T
  <2>1. p \o <<>> = p /\ <<>> \in Messages
    BY ConcatEmptySeq, EmptySeq DEF Messages
  <2>2. OpenCalls(<<>>) = {}
    BY DEF OpenCalls
  <2> QED
    BY <2>1, <2>2
<1>2. ASSUME NEW q \in Messages, NEW e \in Message, q \in T PROVE Append(q, e) \in T
  <2>1. Paired(q) => Paired(p \o q) /\ OpenCalls(q) \subseteq OpenCalls(p \o q)
    BY <1>2
  <2> HIDE DEF T
  <2>2. p \o Append(q, e) = Append(p \o q, e)
    BY AppendToConcat DEF Messages
  <2>3. p \o q \in Messages /\ Append(q, e) \in Messages
    BY ConcatProperties, AppendProperties DEF Messages
  <2>4. ASSUME Paired(Append(q, e))
        PROVE  Paired(Append(p \o q, e)) /\ OpenCalls(Append(q, e)) \subseteq OpenCalls(Append(p \o q, e))
    <3>1. Paired(q) /\ (e.role = "tool" => e.answers \in OpenCalls(q))
      BY <2>4, PairedAppend
    <3>2. Paired(Append(p \o q, e))
      BY <2>1, <2>3, <3>1, PairedAppend
    <3>3. OpenCalls(Append(q, e)) = ToSet(e.calls) \union (IF e.role = "tool" THEN OpenCalls(q) ELSE {})
      BY OpenAppend
    <3>4. OpenCalls(Append(p \o q, e)) =
            ToSet(e.calls) \union (IF e.role = "tool" THEN OpenCalls(p \o q) ELSE {})
      BY <2>3, OpenAppend
    <3> QED
      BY <2>1, <3>1, <3>2, <3>3, <3>4
  <2>5. Paired(Append(q, e)) =>
          Paired(p \o Append(q, e)) /\ OpenCalls(Append(q, e)) \subseteq OpenCalls(p \o Append(q, e))
    BY <2>2, <2>4, Zenon
  <2> QED
    BY <2>3, <2>5 DEF T
<1> HIDE DEF T
<1>3. Messages \subseteq T
  BY <1>1, <1>2, SeqInduction DEF Messages
<1> QED
  BY <1>3 DEF T

-----------------------------------------------------------------------------
(***************************************************************************)
(* Groups.  A group holds the results of the calls it starts with; no two  *)
(* groups share a call.                                                    *)
(***************************************************************************)
AllCalls(groups) == UNION {Calls(g) : g \in ToSet(groups)}

Apart(ms) == \A i, j \in 1..Len(ms) : i < j => ToSet(ms[i].calls) \intersect ToSet(ms[j].calls) = {}
GroupsApart(groups) == \A i, j \in 1..Len(groups) : i < j => Calls(groups[i]) \intersect Calls(groups[j]) = {}

Unit(g) ==
  /\ g # <<>> /\ Paired(g)
  /\ Calls(g) = ToSet(Head(g).calls) /\ Calls(g) \subseteq OpenCalls(g)
  /\ \A m \in ToSet(g) : m.role = "tool" => m.answers \in Calls(g)

Grouped(ms, groups) ==
  /\ \A g \in ToSet(groups) : Unit(g)
  /\ FlattenSeq(groups) = ms
  /\ OpenCalls(ms) \subseteq IF groups = <<>> THEN {} ELSE Calls(Last(groups))
  /\ GroupsApart(groups)

LEMMA CallsAppend ==
  ASSUME NEW ms \in Messages, NEW m \in Message
  PROVE  Calls(<<>>) = {} /\ Calls(Append(ms, m)) = Calls(ms) \union ToSet(m.calls)
<1>1. ToSet(<<>>) = {} /\ ToSet(Append(ms, m)) = ToSet(ms) \union {m}
  BY MembersOfAppend DEF Messages
<1> QED
  BY <1>1 DEF Calls

LEMMA ToolsCallNothing ==
  ASSUME NEW m \in Message, m.role = "tool"
  PROVE  ToSet(m.calls) = {}
<1>1. m.calls = <<>>
  BY DEF Message, Regular
<1>2. ToSet(<<>>) = {}
  BY DEF ToSet
<1> QED
  BY <1>1, <1>2

LEMMA UnitAlone ==
  ASSUME NEW m \in Message, m.role # "tool"
  PROVE  Unit(<<m>>) /\ Calls(<<m>>) = ToSet(m.calls) /\ <<m>> \in Messages
<1> DEFINE none == <<>>  g == Append(none, m)
<1>1. <<m>> = g /\ none \in Messages /\ <<m>> \in Messages /\ Head(<<m>>) = m
  BY DEF Messages
<1> HIDE DEF g
<1>2. Calls(g) = ToSet(m.calls) /\ OpenCalls(g) = ToSet(m.calls) /\ Paired(g) /\ ToSet(g) = {m}
  <2>1. Calls(none) = {} /\ Calls(g) = Calls(none) \union ToSet(m.calls)
    BY <1>1, CallsAppend DEF g
  <2>2. OpenCalls(g) = ToSet(m.calls)
    BY <1>1, OpenAppend DEF g
  <2>3. Paired(g)
    BY <1>1, PairedAppend DEF g
  <2>4. ToSet(none) = {} /\ ToSet(g) = ToSet(none) \union {m}
    <3>1. none \in Seq(Message)
      OBVIOUS
    <3>2. \A q \in Seq(Message) : ToSet(Append(q, m)) = ToSet(q) \union {m}
      BY MembersOfAppend
    <3>3. ToSet(none) = {}
      BY DEF ToSet
    <3> QED
      BY <3>1, <3>2, <3>3, Zenon DEF g
  <2> QED
    BY <2>1, <2>2, <2>3, <2>4
<1>3. Unit(<<m>>)
  BY <1>1, <1>2 DEF Unit
<1> QED
  BY <1>1, <1>2, <1>3

LEMMA UnitGrows ==
  ASSUME NEW g \in Messages, Unit(g), NEW m \in Message, m.role = "tool", m.answers \in Calls(g)
  PROVE  Unit(Append(g, m)) /\ Calls(Append(g, m)) = Calls(g)
<1> DEFINE a == Append(g, m)
<1>1. a # <<>> /\ Head(a) = Head(g)
  BY HeadOfAppend, AppendProperties DEF Messages, Unit
<1>2. Calls(a) = Calls(g)
  BY CallsAppend, ToolsCallNothing
<1>3. OpenCalls(a) = OpenCalls(g)
  BY OpenAppend, ToolsCallNothing
<1>4. Paired(a)
  BY PairedAppend DEF Unit
<1>5. ToSet(a) = ToSet(g) \union {m}
  BY MembersOfAppend DEF Messages
<1> HIDE DEF a
<1>6. Unit(a)
  BY <1>1, <1>2, <1>3, <1>4, <1>5 DEF Unit
<1> QED
  BY <1>2, <1>6 DEF a

(* One set more at the end of a sequence of sets. *)
LEMMA OneMoreApart ==
  ASSUME NEW n \in Nat, NEW c, NEW d, \A i \in 1..n : d[i] = c[i]
  PROVE  (\A i, j \in 1..n + 1 : i < j => d[i] \intersect d[j] = {}) <=>
           /\ \A i, j \in 1..n : i < j => c[i] \intersect c[j] = {}
           /\ \A i \in 1..n : c[i] \intersect d[n + 1] = {}
<1>1. n + 1 \in 1..n + 1 /\ (\A i \in 1..n : i \in 1..n + 1 /\ i < n + 1)
      /\ \A j \in 1..n + 1 : j \in 1..n \/ j = n + 1
  OBVIOUS
<1>2. \A i \in 1..n + 1 : i < n + 1 => i \in 1..n
  OBVIOUS
<1>3. \A i, j \in 1..n + 1 : i < j => i \in 1..n
  OBVIOUS
<1> QED
  BY <1>1, <1>2, <1>3

LEMMA GroupsApartAppend ==
  ASSUME NEW groups \in Groups, NEW g \in Messages
  PROVE  /\ GroupsApart(<<>>)
         /\ GroupsApart(Append(groups, g)) <=>
              GroupsApart(groups) /\ Calls(g) \intersect AllCalls(groups) = {}
<1> DEFINE n == Len(groups)  a == Append(groups, g)
           c == [i \in 1..n |-> Calls(groups[i])]
           d == [i \in 1..n + 1 |-> Calls(a[i])]
<1>1. n \in Nat /\ DOMAIN groups = 1..n
      /\ Len(a) = n + 1 /\ a[n + 1] = g /\ \A i \in 1..n : a[i] = groups[i]
  BY LenProperties, AppendProperties DEF Groups
<1> HIDE DEF a, n
<1>2. \A i \in 1..n : c[i] = Calls(groups[i]) /\ d[i] = c[i]
  BY <1>1
<1>3. \A i \in 1..n + 1 : d[i] = Calls(a[i])
  OBVIOUS
<1>4. d[n + 1] = Calls(g)
  BY <1>1
<1> HIDE DEF c, d
<1>5. GroupsApart(a) <=> \A i, j \in 1..n + 1 : i < j => d[i] \intersect d[j] = {}
  BY <1>1, <1>3 DEF GroupsApart
<1>6. GroupsApart(groups) <=> \A i, j \in 1..n : i < j => c[i] \intersect c[j] = {}
  BY <1>2 DEF GroupsApart, n
<1>7. AllCalls(groups) = UNION {c[i] : i \in 1..n}
  BY <1>1, <1>2 DEF AllCalls, ToSet
<1>8. Calls(g) \intersect AllCalls(groups) = {} <=> \A i \in 1..n : c[i] \intersect d[n + 1] = {}
  BY <1>4, <1>7
<1>9. (\A i, j \in 1..n + 1 : i < j => d[i] \intersect d[j] = {}) <=>
           /\ \A i, j \in 1..n : i < j => c[i] \intersect c[j] = {}
           /\ \A i \in 1..n : c[i] \intersect d[n + 1] = {}
  BY <1>1, <1>2, OneMoreApart
<1>10. GroupsApart(<<>>)
  BY DEF GroupsApart
<1> QED
  BY <1>5, <1>6, <1>8, <1>9, <1>10 DEF a

LEMMA ApartAppend ==
  ASSUME NEW ms \in Messages, NEW m \in Message
  PROVE  Apart(Append(ms, m)) <=> Apart(ms) /\ ToSet(m.calls) \intersect Calls(ms) = {}
<1> DEFINE n == Len(ms)  a == Append(ms, m)
           c == [i \in 1..n |-> ToSet(ms[i].calls)]
           d == [i \in 1..n + 1 |-> ToSet(a[i].calls)]
<1>1. n \in Nat /\ DOMAIN ms = 1..n
      /\ Len(a) = n + 1 /\ a[n + 1] = m /\ \A i \in 1..n : a[i] = ms[i]
  BY LenProperties, AppendProperties DEF Messages
<1> HIDE DEF a, n
<1>2. \A i \in 1..n : c[i] = ToSet(ms[i].calls) /\ d[i] = c[i]
  BY <1>1
<1>3. \A i \in 1..n + 1 : d[i] = ToSet(a[i].calls)
  OBVIOUS
<1>4. d[n + 1] = ToSet(m.calls)
  BY <1>1
<1> HIDE DEF c, d
<1>5. Apart(a) <=> \A i, j \in 1..n + 1 : i < j => d[i] \intersect d[j] = {}
  BY <1>1, <1>3 DEF Apart
<1>6. Apart(ms) <=> \A i, j \in 1..n : i < j => c[i] \intersect c[j] = {}
  BY <1>2 DEF Apart, n
<1>7. Calls(ms) = UNION {c[i] : i \in 1..n}
  <2>1. ToSet(ms) = {ms[i] : i \in 1..n}
    BY <1>1 DEF ToSet
  <2> QED
    BY <1>2, <2>1 DEF Calls
<1>8. ToSet(m.calls) \intersect Calls(ms) = {} <=> \A i \in 1..n : c[i] \intersect d[n + 1] = {}
  BY <1>4, <1>7
<1>9. (\A i, j \in 1..n + 1 : i < j => d[i] \intersect d[j] = {}) <=>
           /\ \A i, j \in 1..n : i < j => c[i] \intersect c[j] = {}
           /\ \A i \in 1..n : c[i] \intersect d[n + 1] = {}
  <2>1. n \in Nat /\ \A i \in 1..n : d[i] = c[i]
    BY <1>1, <1>2
  <2> QED
    BY <2>1, OneMoreApart
<1> QED
  BY <1>5, <1>6, <1>8, <1>9 DEF a

LEMMA CallsOfGroups ==
  ASSUME NEW groups \in Groups
  PROVE  Calls(FlattenSeq(groups)) = AllCalls(groups)
<1>1. ToSet(FlattenSeq(groups)) = UNION {ToSet(g) : g \in ToSet(groups)}
  BY MembersOfAll DEF Groups, Messages
<1> QED
  BY <1>1 DEF Calls, AllCalls

LEMMA GatherKeeps ==
  ASSUME NEW ms \in Messages, NEW groups \in Groups, Grouped(ms, groups),
         NEW m \in Message, Paired(Append(ms, m)), Apart(Append(ms, m))
  PROVE  Grouped(Append(ms, m), Gather(groups, m))
<1>0. (m.role = "tool" => m.answers \in OpenCalls(ms)) /\ ToSet(m.calls) \intersect Calls(ms) = {}
  BY PairedAppend, ApartAppend
<1>1. OpenCalls(Append(ms, m)) = ToSet(m.calls) \union (IF m.role = "tool" THEN OpenCalls(ms) ELSE {})
  BY OpenAppend
<1>2. CASE m.role = "tool"
  <2> DEFINE f == Front(groups)  l == Last(groups)  k == Append(l, m)
  <2>1. groups # <<>> /\ m.answers \in Calls(l)
    BY <1>0, <1>2 DEF Grouped
  <2>2. f \in Groups /\ l \in Messages /\ groups = Append(f, l)
    BY <2>1, LastApart DEF Groups
  <2> HIDE DEF f, l
  <2>3. ToSet(groups) = ToSet(f) \union {l}
    BY <2>2, MembersOfAppend DEF Groups
  <2>4. Unit(l)
    BY <2>3 DEF Grouped
  <2>5. JoinsGroup(groups, m)
    <3>1. ToSet(Head(l).calls) # {}
      BY <2>1, <2>4 DEF Unit
    <3>2. Head(l).calls # <<>>
      BY <3>1 DEF ToSet
    <3>3. Head(l) \in Message
      BY <2>2, <2>4, HeadTailProperties DEF Unit, Messages
    <3>4. CallsTools(Head(l))
      BY <3>2, <3>3 DEF CallsTools, Message, Regular
    <3> QED
      BY <1>2, <2>1, <3>4 DEF JoinsGroup, l
  <2>6. Unit(k) /\ Calls(k) = Calls(l)
    BY <1>2, <2>1, <2>2, <2>4, UnitGrows
  <2>7. Gather(groups, m) = Append(f, k)
    BY <2>5 DEF Gather, f, l
  <2>8. k \in Messages
    BY <2>2, AppendProperties DEF Messages
  <2> HIDE DEF k
  <2>9. ToSet(Append(f, k)) = ToSet(f) \union {k}
    BY <2>2, <2>8, MembersOfAppend DEF Groups
  <2>10. \A g \in ToSet(Append(f, k)) : Unit(g)
    BY <2>3, <2>6, <2>9 DEF Grouped
  <2>11. FlattenSeq(Append(f, k)) = Append(ms, m)
    <3>1. FlattenSeq(f) \in Messages /\ FlattenSeq(groups) = FlattenSeq(f) \o l
      BY <2>2, FlattenAppend DEF Groups, Messages
    <3>2. FlattenSeq(Append(f, k)) = FlattenSeq(f) \o k
      BY <2>2, <2>8, FlattenAppend DEF Groups, Messages
    <3>3. FlattenSeq(f) \o k = Append(FlattenSeq(f) \o l, m)
      <4>1. \A p, q \in Messages, e \in Message : p \o Append(q, e) = Append(p \o q, e)
        BY DEF Messages
      <4> QED
        BY <2>2, <3>1, <4>1, Zenon DEF k
    <3>4. FlattenSeq(groups) = ms
      BY DEF Grouped
    <3> QED
      BY <3>1, <3>2, <3>3, <3>4, Zenon
  <2>12. Append(f, k) # <<>> /\ Last(Append(f, k)) = k
    BY <2>2, <2>8, FrontOfAppend, AppendProperties DEF Groups
  <2>13. OpenCalls(Append(ms, m)) \subseteq Calls(k)
    BY <1>1, <1>2, <2>1, <2>6, ToolsCallNothing DEF Grouped, l
  <2>14. GroupsApart(Append(f, k))
    <3>1. GroupsApart(f) /\ Calls(l) \intersect AllCalls(f) = {}
      BY <2>2, GroupsApartAppend DEF Grouped
    <3> QED
      BY <2>2, <2>6, <2>8, <3>1, GroupsApartAppend
  <2> QED
    BY <2>7, <2>10, <2>11, <2>12, <2>13, <2>14 DEF Grouped
<1>3. CASE m.role # "tool"
  <2> DEFINE k == <<m>>
  <2>1. Gather(groups, m) = Append(groups, k)
    BY <1>3 DEF Gather, JoinsGroup
  <2>2. Unit(k) /\ Calls(k) = ToSet(m.calls) /\ k \in Messages
    BY <1>3, UnitAlone
  <2> HIDE DEF k
  <2>3. ToSet(Append(groups, k)) = ToSet(groups) \union {k}
    BY <2>2, MembersOfAppend DEF Groups
  <2>4. \A g \in ToSet(Append(groups, k)) : Unit(g)
    BY <2>2, <2>3 DEF Grouped
  <2>5. FlattenSeq(Append(groups, k)) = Append(ms, m)
    <3>1. FlattenSeq(Append(groups, k)) = FlattenSeq(groups) \o k
      BY <2>2, FlattenAppend DEF Groups, Messages
    <3>2. FlattenSeq(groups) = ms
      BY DEF Grouped
    <3>3. Append(ms, m) = ms \o k
      BY AppendIsConcat DEF Messages, k
    <3> QED
      BY <3>1, <3>2, <3>3, Zenon
  <2>6. Append(groups, k) # <<>> /\ Last(Append(groups, k)) = k
    BY <2>2, FrontOfAppend, AppendProperties DEF Groups
  <2>7. OpenCalls(Append(ms, m)) \subseteq Calls(k)
    BY <1>1, <1>3, <2>2
  <2>8. GroupsApart(Append(groups, k))
    <3>1. Calls(ms) = AllCalls(groups)
      BY CallsOfGroups DEF Grouped
    <3> QED
      BY <1>0, <2>2, <3>1, GroupsApartAppend DEF Grouped
  <2> QED
    BY <2>1, <2>4, <2>5, <2>6, <2>7, <2>8 DEF Grouped
<1> QED
  BY <1>2, <1>3

LEMMA GroupsRight ==
  \A ms \in Messages : Paired(ms) /\ Apart(ms) => Grouped(ms, GroupToolCallUnits(ms))
<1> DEFINE T == {ms \in Messages : Paired(ms) /\ Apart(ms) => Grouped(ms, GroupToolCallUnits(ms))}
<1>1. <<>> \in T
  <2>1. GroupToolCallUnits(<<>>) = <<>> /\ <<>> \in Messages
    BY GatherAppend DEF Messages
  <2>2. ToSet(<<>>) = {} /\ FlattenSeq(<<>>) = <<>>
    BY DEF ToSet, FlattenSeq
  <2>3. OpenCalls(<<>>) = {}
    BY DEF OpenCalls
  <2>4. GroupsApart(<<>>)
    BY DEF GroupsApart
  <2>5. Grouped(<<>>, <<>>)
    BY <2>2, <2>3, <2>4 DEF Grouped
  <2> QED
    BY <2>1, <2>5
<1>2. ASSUME NEW ms \in Messages, NEW m \in Message, ms \in T PROVE Append(ms, m) \in T
  <2>1. Paired(ms) /\ Apart(ms) => Grouped(ms, GroupToolCallUnits(ms))
    BY <1>2
  <2> HIDE DEF T
  <2>2. /\ GroupToolCallUnits(ms) \in Groups
        /\ GroupToolCallUnits(Append(ms, m)) = Gather(GroupToolCallUnits(ms), m)
        /\ Append(ms, m) \in Messages
    BY GatherAppend, AppendProperties DEF Messages
  <2>3. ASSUME Paired(Append(ms, m)), Apart(Append(ms, m))
        PROVE  Grouped(Append(ms, m), GroupToolCallUnits(Append(ms, m)))
    <3>1. Paired(ms) /\ Apart(ms)
      BY <2>3, PairedAppend, ApartAppend
    <3> QED
      BY <2>1, <2>2, <2>3, <3>1, GatherKeeps
  <2> QED
    BY <2>2, <2>3 DEF T
<1> HIDE DEF T
<1>3. Messages \subseteq T
  BY <1>1, <1>2, SeqInduction DEF Messages
<1> QED
  BY <1>3 DEF T

-----------------------------------------------------------------------------
(***************************************************************************)
(* The walk over the groups, newest first.                                 *)
(***************************************************************************)
LEMMA WalkKeeps ==
  ASSUME NEW budget \in Nat
  PROVE  \A rs \in Groups :
           /\ ToSet(Walk(rs, budget).kept) \subseteq ToSet(rs)
           /\ Walk(rs, budget).left + TotalSize(FlattenSeq(Walk(rs, budget).kept)) = budget
<1> DEFINE T == {rs \in Groups :
                   /\ ToSet(Walk(rs, budget).kept) \subseteq ToSet(rs)
                   /\ Walk(rs, budget).left + TotalSize(FlattenSeq(Walk(rs, budget).kept)) = budget}
<1>1. <<>> \in T
  <2>1. Walk(<<>>, budget) = [left |-> budget, kept |-> <<>>] /\ <<>> \in Groups
    BY WalkAppend DEF Groups
  <2>2. FlattenSeq(<<>>) = <<>> /\ TotalSize(<<>>) = 0
    BY TotalSizeAppend DEF FlattenSeq
  <2> QED
    BY <2>1, <2>2
<1>2. ASSUME NEW rs \in Groups, NEW g \in Messages, rs \in T PROVE Append(rs, g) \in T
  <2>1. PICK w \in Walks : w = Walk(rs, budget)
    BY WalkAppend DEF Groups
  <2>2. Walk(Append(rs, g), budget) = TakeIfFits(w, g) /\ Append(rs, g) \in Groups
    BY <2>1, WalkAppend, AppendProperties DEF Groups
  <2>3. ToSet(w.kept) \subseteq ToSet(rs) /\ w.left + TotalSize(FlattenSeq(w.kept)) = budget
    BY <1>2, <2>1
  <2> HIDE DEF T
  <2>4. ToSet(Append(rs, g)) = ToSet(rs) \union {g}
    BY MembersOfAppend DEF Groups
  <2>5. w.left \in Nat /\ w.kept \in Seq(Messages) /\ FlattenSeq(w.kept) \in Messages
    BY FlattenAppend DEF Walks, Groups, Messages
  <2>6. CASE TotalSize(g) > w.left
    BY <2>2, <2>3, <2>4, <2>6 DEF TakeIfFits, T
  <2>7. CASE ~ TotalSize(g) > w.left
    <3> DEFINE k == <<g>> \o w.kept
    <3>1. TakeIfFits(w, g) = [left |-> w.left - TotalSize(g), kept |-> k]
      BY <2>7 DEF TakeIfFits, Taken
    <3>2. FlattenSeq(k) = g \o FlattenSeq(w.kept)
      BY <2>5, FlattenCons DEF Messages
    <3>3. ToSet(k) = {g} \union ToSet(w.kept)
      <4>1. <<g>> \in Seq(Messages) /\ ToSet(<<g>>) = {g}
        BY DEF ToSet
      <4>2. \A p, q \in Seq(Messages) : ToSet(p \o q) = ToSet(p) \union ToSet(q)
        BY MembersOfBoth
      <4> QED
        BY <2>5, <4>1, <4>2, Zenon
    <3> HIDE DEF k
    <3>4. TotalSize(FlattenSeq(k)) = TotalSize(g) + TotalSize(FlattenSeq(w.kept))
      BY <2>5, <3>2, TotalOfBoth
    <3>5. TotalSize(g) \in Nat /\ TotalSize(FlattenSeq(w.kept)) \in Nat
      BY <2>5, TotalSizeTyped
    <3>6. w.left - TotalSize(g) + TotalSize(FlattenSeq(k)) = budget
      BY <2>3, <2>5, <3>4, <3>5
    <3> QED
      BY <2>2, <2>3, <2>4, <3>1, <3>3, <3>6 DEF T
  <2> QED
    BY <2>6, <2>7
<1> HIDE DEF T
<1>3. Groups \subseteq T
  BY <1>1, <1>2, SeqInduction DEF Groups
<1> QED
  BY <1>3 DEF T

LEMMA FirstTyped ==
  \A m \in Message : RestOfBudget(m) \in Nat
BY SizeTyped, ConversationAssumption DEF RestOfBudget, ConversationAssumption

(* Taking the first message off a conversation. *)
LEMMA FirstApart ==
  ASSUME NEW ms \in Messages, ms # <<>>
  PROVE  /\ Head(ms) \in Message /\ Tail(ms) \in Messages /\ ms = <<Head(ms)>> \o Tail(ms)
         /\ <<Head(ms)>> \in Messages
<1>1. Head(ms) \in Message /\ Tail(ms) \in Messages
  BY HeadTailProperties DEF Messages
<1>2. <<>> \o ms = Append(<<>>, Head(ms)) \o Tail(ms)
  BY HeadMoves DEF Messages
<1>3. <<>> \o ms = ms
  BY ConcatEmptySeq DEF Messages
<1>4. Append(<<>>, Head(ms)) = <<Head(ms)>> /\ <<Head(ms)>> \in Messages
  BY <1>1 DEF Messages
<1> QED
  BY <1>1, <1>2, <1>3, <1>4

(* What is cut out of a conversation that is too long, before the results  *)
(* without a call are dropped.                                             *)
CutGroups(ms) == KeepGroups(GroupToolCallUnits(Tail(ms)), RestOfBudget(Head(ms)))
Cut(ms) == <<Head(ms)>> \o FlattenSeq(CutGroups(ms))

LEMMA CutRight ==
  ASSUME NEW ms \in Messages, ms # <<>>
  PROVE  /\ CutGroups(ms) \in Groups /\ FlattenSeq(CutGroups(ms)) \in Messages /\ Cut(ms) \in Messages
         /\ ToSet(CutGroups(ms)) \subseteq ToSet(GroupToolCallUnits(Tail(ms)))
         /\ TotalSize(FlattenSeq(CutGroups(ms))) <= RestOfBudget(Head(ms))
<1> DEFINE gs == GroupToolCallUnits(Tail(ms))  b == RestOfBudget(Head(ms))  w == Walk(Reverse(gs), b)
<1>1. Head(ms) \in Message /\ Tail(ms) \in Messages /\ <<Head(ms)>> \in Messages
  BY FirstApart
<1>2. b \in Nat /\ gs \in Groups
  BY <1>1, FirstTyped, GatherAppend DEF Messages
<1> HIDE DEF gs, b
<1>3. Reverse(gs) \in Groups /\ ToSet(Reverse(gs)) = ToSet(gs)
  BY <1>2, Reversed DEF Groups
<1>4. w \in Walks /\ ToSet(w.kept) \subseteq ToSet(Reverse(gs))
      /\ w.left + TotalSize(FlattenSeq(w.kept)) = b
  BY <1>2, <1>3, WalkAppend, WalkKeeps DEF Groups
<1> HIDE DEF w
<1>5. CutGroups(ms) = w.kept
  BY DEF CutGroups, KeepGroups, Walk, w, gs, b
<1>6. w.left \in Nat /\ w.kept \in Groups
  BY <1>4 DEF Walks
<1>7. FlattenSeq(w.kept) \in Messages
  BY <1>6, FlattenAppend DEF Groups, Messages
<1>8. Cut(ms) \in Messages
  BY <1>1, <1>5, <1>7, ConcatProperties DEF Cut, Messages
<1>9. TotalSize(FlattenSeq(w.kept)) <= b
  BY <1>2, <1>4, <1>6, <1>7, TotalSizeTyped
<1> QED
  BY <1>3, <1>4, <1>5, <1>6, <1>7, <1>8, <1>9 DEF gs, b

LEMMA FilterIs ==
  ASSUME NEW ms \in Messages
  PROVE  FilterMessages(ms) = IF TotalSize(ms) <= MaxBytes THEN ms ELSE ValidateToolResults(Cut(ms))
BY DEF FilterMessages, Cut, CutGroups

LEMMA NothingIsNothing == \A ms \in Messages : TotalSize(ms) = 0 => ms = <<>>
<1> DEFINE T == {ms \in Messages : TotalSize(ms) = 0 => ms = <<>>}
<1>1. <<>> \in T
  BY DEF Messages
<1>2. ASSUME NEW ms \in Messages, NEW m \in Message PROVE Append(ms, m) \in T
  <2>1. TotalSize(Append(ms, m)) = TotalSize(ms) + EstimateSize(m) /\ Append(ms, m) \in Messages
    BY TotalSizeAppend, AppendProperties DEF Messages, AddSize
  <2>2. TotalSize(ms) \in Nat /\ EstimateSize(m) \in Nat \ {0}
    BY TotalSizeTyped, SizeTyped
  <2> QED
    BY <2>1, <2>2
<1> HIDE DEF T
<1>3. Messages \subseteq T
  BY <1>1, <1>2, SeqInduction DEF Messages
<1> QED
  BY <1>3 DEF T

LEMMA FilterFits ==
  ASSUME NEW ms \in Messages, ms # <<>>, Head(ms).role # "tool"
  PROVE  TotalSize(FilterMessages(ms)) <= MaxBytes \/ Len(FilterMessages(ms)) = 1
<1> DEFINE h == Head(ms)  c == Cut(ms)  f == FlattenSeq(CutGroups(ms))
<1>1. h \in Message /\ <<h>> \in Messages /\ f \in Messages /\ c \in Messages
      /\ TotalSize(f) <= RestOfBudget(h) /\ c = <<h>> \o f
  BY FirstApart, CutRight DEF Cut
<1>2. EstimateSize(h) \in Nat /\ TotalSize(f) \in Nat /\ MaxBytes \in Nat
  BY <1>1, SizeTyped, TotalSizeTyped, ConversationAssumption DEF ConversationAssumption
<1>3. TotalSize(<<h>>) = EstimateSize(h)
  <2> DEFINE none == <<>>
  <2>1. <<h>> = Append(none, h) /\ none \in Seq(Message)
    OBVIOUS
  <2> HIDE DEF h, none
  <2>2. TotalSize(Append(none, h)) = TotalSize(none) + EstimateSize(h)
    BY <1>1, <2>1, TotalSizeAppend DEF AddSize
  <2>3. TotalSize(none) = 0
    BY TotalSizeAppend DEF none
  <2>4. TotalSize(Append(none, h)) = EstimateSize(h)
    BY <1>2, <2>2, <2>3
  <2> QED
    BY <2>1, <2>4, Zenon
<1>4. TotalSize(c) = EstimateSize(h) + TotalSize(f)
  BY <1>1, <1>3, TotalOfBoth
<1> HIDE DEF h, c, f
<1>5. TotalSize(ValidateToolResults(c)) <= TotalSize(c) /\ ValidateToolResults(c) \in Messages
  BY <1>1, OnlyIsNoBigger, OnlyAppend DEF ValidateToolResults
<1>6. CASE EstimateSize(h) <= MaxBytes
  <2>1. RestOfBudget(h) = MaxBytes - EstimateSize(h)
    BY <1>2, <1>6 DEF RestOfBudget
  <2>2. TotalSize(c) <= MaxBytes /\ TotalSize(c) \in Nat
    BY <1>1, <1>2, <1>4, <2>1
  <2>3. TotalSize(ValidateToolResults(c)) \in Nat
    BY <1>5, TotalSizeTyped
  <2> QED
    BY <1>2, <1>5, <2>2, <2>3, FilterIs DEF c
<1>7. CASE ~ EstimateSize(h) <= MaxBytes
  <2>1. RestOfBudget(h) = 0
    BY <1>2, <1>7 DEF RestOfBudget
  <2>2. f = <<>>
    BY <1>1, <1>2, <2>1, NothingIsNothing
  <2>3. c = <<h>>
    BY <1>1, <2>2, ConcatEmptySeq DEF Messages
  <2>4. ValidateToolResults(c) = c
    <3>1. ToSet(c) = {h}
      BY <2>3 DEF ToSet
    <3>2. h.role # "tool"
      BY DEF h
    <3> QED
      BY <1>1, <3>1, <3>2, OnlyAll DEF ValidateToolResults
  <2>5. Len(ValidateToolResults(c)) = 1
    BY <2>3, <2>4
  <2> QED
    BY <2>5, FilterIs DEF c
<1> QED
  BY <1>6, <1>7

-----------------------------------------------------------------------------
(***************************************************************************)
(* A request that is cut keeps its calls and results together.             *)
(***************************************************************************)
Opens(ms) ==
  /\ ms # <<>> /\ Head(ms).role # "tool" /\ Head(ms).calls = <<>>
  /\ Paired(ms) /\ Apart(ms)

LEMMA TailPaired ==
  ASSUME NEW ms \in Messages, Opens(ms)
  PROVE  Paired(Tail(ms)) /\ Apart(Tail(ms))
<1> DEFINE t == Tail(ms)  n == Len(ms)
<1>1. ms # <<>> /\ ms[1].role # "tool" /\ ms[1].calls = <<>> /\ Paired(ms) /\ Apart(ms)
  BY DEF Opens, Messages
<1>2. n \in Nat \ {0} /\ DOMAIN ms = 1..n
  BY <1>1, EmptySeq, LenProperties DEF Messages
<1>3. t \in Messages /\ Len(t) = n - 1 /\ \A i \in 1..n - 1 : t[i] = ms[i + 1]
  BY <1>1, HeadTailProperties DEF Messages
<1> HIDE DEF t
<1>4. ToSet(ms[1].calls) = {}
  BY <1>1 DEF ToSet
<1>5. Paired(t)
  <2> SUFFICES ASSUME NEW i \in 1..Len(t), t[i].role = "tool"
               PROVE  \E j \in 1..i - 1 : /\ t[i].answers \in ToSet(t[j].calls)
                                          /\ \A k \in j + 1..i : t[k].role = "tool"
    BY DEF Paired
  <2>1. i + 1 \in 1..Len(ms) /\ ms[i + 1].role = "tool" /\ i \in Nat
    BY <1>2, <1>3
  <2>2. PICK j \in 1..(i + 1) - 1 : /\ ms[i + 1].answers \in ToSet(ms[j].calls)
                                    /\ \A k \in j + 1..i + 1 : ms[k].role = "tool"
    BY <1>1, <2>1 DEF Paired
  <2>3. j # 1
    BY <1>4, <2>2
  <2>4. j - 1 \in 1..i - 1 /\ j - 1 \in 1..n - 1 /\ (j - 1) + 1 = j
    BY <1>2, <1>3, <2>1, <2>2, <2>3
  <2>5. t[i].answers \in ToSet(t[j - 1].calls)
    BY <1>3, <2>2, <2>4
  <2>6. ASSUME NEW k \in (j - 1) + 1..i PROVE t[k].role = "tool"
    <3>1. k + 1 \in j + 1..i + 1 /\ k \in 1..n - 1
      BY <1>2, <1>3, <2>1, <2>2, <2>3
    <3> QED
      BY <1>3, <2>2, <3>1
  <2> QED
    BY <2>4, <2>5, <2>6
<1>6. Apart(t)
  <2> SUFFICES ASSUME NEW i \in 1..Len(t), NEW j \in 1..Len(t), i < j
               PROVE  ToSet(t[i].calls) \intersect ToSet(t[j].calls) = {}
    BY DEF Apart
  <2>1. i + 1 \in 1..Len(ms) /\ j + 1 \in 1..Len(ms) /\ i + 1 < j + 1
    BY <1>2, <1>3
  <2> QED
    BY <1>1, <1>3, <2>1 DEF Apart
<1> QED
  BY <1>5, <1>6 DEF t

LEMMA UnitsPaired ==
  \A ks \in Groups : (\A g \in ToSet(ks) : Unit(g)) => Paired(FlattenSeq(ks))
<1> DEFINE T == {ks \in Groups : (\A g \in ToSet(ks) : Unit(g)) => Paired(FlattenSeq(ks))}
<1>1. <<>> \in T
  <2>1. FlattenSeq(<<>>) = <<>> /\ <<>> \in Groups
    BY DEF FlattenSeq, Groups
  <2>2. Paired(<<>>)
    BY DEF Paired
  <2> QED
    BY <2>1, <2>2
<1>2. ASSUME NEW ks \in Groups, NEW g \in Messages, ks \in T PROVE Append(ks, g) \in T
  <2>1. (\A k \in ToSet(ks) : Unit(k)) => Paired(FlattenSeq(ks))
    BY <1>2
  <2> HIDE DEF T
  <2>2. FlattenSeq(ks) \in Messages /\ FlattenSeq(Append(ks, g)) = FlattenSeq(ks) \o g
    BY FlattenAppend DEF Groups, Messages
  <2>3. ToSet(Append(ks, g)) = ToSet(ks) \union {g} /\ Append(ks, g) \in Groups
    BY MembersOfAppend, AppendProperties DEF Groups
  <2>4. ASSUME \A k \in ToSet(Append(ks, g)) : Unit(k) PROVE Paired(FlattenSeq(Append(ks, g)))
    <3>1. Paired(FlattenSeq(ks)) /\ Paired(g)
      BY <2>1, <2>3, <2>4 DEF Unit
    <3> QED
      BY <2>2, <3>1, PairedBoth
  <2> QED
    BY <2>3, <2>4 DEF T
<1> HIDE DEF T
<1>3. Groups \subseteq T
  BY <1>1, <1>2, SeqInduction DEF Groups
<1> QED
  BY <1>3 DEF T

LEMMA ResultsHaveCalls ==
  ASSUME NEW ms \in Messages, Paired(ms)
  PROVE  ValidateToolResults(ms) = ms
<1> DEFINE called == UNION {ToSet(m.calls) : m \in ToSet(ms)}
           fine == {m \in ToSet(ms) : m.role = "tool" => m.answers \in called}
<1>1. DOMAIN ms = 1..Len(ms) /\ Len(ms) \in Nat
  BY LenProperties DEF Messages
<1>2. ASSUME NEW m \in ToSet(ms), m.role = "tool" PROVE m.answers \in called
  <2>1. PICK i \in 1..Len(ms) : m = ms[i]
    BY <1>1 DEF ToSet
  <2>2. PICK j \in 1..i - 1 : ms[i].answers \in ToSet(ms[j].calls)
    BY <1>2, <2>1 DEF Paired
  <2>3. j \in 1..Len(ms)
    BY <1>1, <2>1, <2>2
  <2>4. ms[j] \in ToSet(ms)
    BY <1>1, <2>3 DEF ToSet
  <2> QED
    BY <2>1, <2>2, <2>4
<1>3. ToSet(ms) \subseteq fine
  BY <1>2
<1>4. ValidateToolResults(ms) = Only(ms, fine)
  BY DEF ValidateToolResults
<1> HIDE DEF fine
<1> QED
  BY <1>3, <1>4, OnlyAll

(* The groups are those of a conversation whose calls have one result      *)
(* each place, and what is kept of them is a part of them.                 *)
LEMMA CutPaired ==
  ASSUME NEW ms \in Messages, Opens(ms)
  PROVE  /\ Paired(Cut(ms)) /\ ToSet(Cut(ms)) \subseteq ToSet(ms)
         /\ \A m \in ToSet(Cut(ms)), t \in ToSet(ms) :
              t.role = "tool" /\ t.answers \in ToSet(m.calls) => t \in ToSet(Cut(ms))
<1> DEFINE h == Head(ms)  gs == GroupToolCallUnits(Tail(ms))  ks == CutGroups(ms)
<1>1. h \in Message /\ h.role # "tool" /\ h.calls = <<>> /\ <<h>> \in Messages
      /\ Tail(ms) \in Messages /\ ms = <<h>> \o Tail(ms)
  BY FirstApart DEF Opens
<1>2. Grouped(Tail(ms), gs) /\ gs \in Groups
  BY <1>1, TailPaired, GroupsRight, GatherAppend DEF Messages
<1>3. ks \in Groups /\ ToSet(ks) \subseteq ToSet(gs) /\ FlattenSeq(ks) \in Messages
      /\ Cut(ms) = <<h>> \o FlattenSeq(ks)
  BY CutRight DEF Cut, Opens
<1> HIDE DEF h, gs, ks
<1>4. Paired(Cut(ms))
  <2>1. Paired(FlattenSeq(ks))
    BY <1>2, <1>3, UnitsPaired DEF Grouped
  <2>2. Paired(<<h>>)
    BY <1>1, UnitAlone DEF Unit
  <2> QED
    BY <1>1, <1>3, <2>1, <2>2, PairedBoth
<1>5. ToSet(<<h>>) = {h}
  BY DEF ToSet
<1>6. ToSet(Cut(ms)) = {h} \union ToSet(FlattenSeq(ks)) /\ ToSet(ms) = {h} \union ToSet(Tail(ms))
  <2>1. \A p, q \in Messages : ToSet(p \o q) = ToSet(p) \union ToSet(q)
    BY MembersOfBoth DEF Messages
  <2> QED
    BY <1>1, <1>3, <1>5, <2>1, Zenon
<1>7. ToSet(FlattenSeq(ks)) = UNION {ToSet(g) : g \in ToSet(ks)}
  BY <1>3, MembersOfAll DEF Groups, Messages
<1>8. ToSet(Tail(ms)) = UNION {ToSet(g) : g \in ToSet(gs)}
  <2>1. ToSet(FlattenSeq(gs)) = UNION {ToSet(g) : g \in ToSet(gs)}
    BY <1>2, MembersOfAll DEF Groups, Messages
  <2> QED
    BY <1>2, <2>1 DEF Grouped
<1>9. ASSUME NEW m \in ToSet(Cut(ms)), NEW t \in ToSet(ms),
             t.role = "tool", t.answers \in ToSet(m.calls)
      PROVE  t \in ToSet(Cut(ms))
  <2>1. m # h
    <3>1. ToSet(h.calls) = {}
      BY <1>1 DEF ToSet
    <3> QED
      BY <1>9, <3>1
  <2>2. PICK g \in ToSet(ks) : m \in ToSet(g)
    BY <1>6, <1>7, <2>1
  <2>3. PICK k \in ToSet(gs) : t \in ToSet(k)
    BY <1>1, <1>6, <1>8, <1>9
  <2>4. t.answers \in Calls(g)
    BY <1>9, <2>2 DEF Calls
  <2>5. t.answers \in Calls(k)
    BY <1>2, <1>9, <2>3 DEF Grouped, Unit
  <2>6. g = k
    <3>1. Len(gs) \in Nat /\ DOMAIN gs = 1..Len(gs)
      BY <1>2, LenProperties DEF Groups
    <3>2. PICK i, j \in 1..Len(gs) : g = gs[i] /\ k = gs[j]
      BY <1>3, <2>2, <2>3, <3>1 DEF ToSet
    <3>3. ~ i < j /\ ~ j < i
      BY <1>2, <2>4, <2>5, <3>2 DEF Grouped, GroupsApart
    <3>4. i = j
      BY <3>1, <3>2, <3>3
    <3> QED
      BY <3>2, <3>4
  <2> QED
    BY <1>6, <1>7, <2>2, <2>3, <2>6
<1>10. ToSet(Cut(ms)) \subseteq ToSet(ms)
  BY <1>3, <1>6, <1>7, <1>8
<1> QED
  BY <1>4, <1>9, <1>10

LEMMA MembersTyped == \A ms \in Messages : ToSet(ms) \subseteq Message
BY LenProperties, ElementOfSeq DEF Messages, ToSet

LEMMA FilterPairs ==
  ASSUME NEW ms \in Messages, Opens(ms)
  PROVE  /\ FilterMessages(ms) = ms \/ FilterMessages(ms) = Cut(ms)
         /\ FilterMessages(ms) \in Messages /\ Paired(FilterMessages(ms))
         /\ ToSet(FilterMessages(ms)) \subseteq ToSet(ms)
         /\ \A m \in ToSet(FilterMessages(ms)) :
              ToSet(m.calls) \intersect Answered(ms) \subseteq Answered(FilterMessages(ms))
<1> DEFINE f == FilterMessages(ms)
<1>1. Cut(ms) \in Messages /\ Paired(Cut(ms)) /\ Paired(ms)
  BY CutRight, CutPaired DEF Opens
<1>2. f = ms \/ f = Cut(ms)
  BY <1>1, FilterIs, ResultsHaveCalls
<1> HIDE DEF f
<1>3. f \in Messages /\ Paired(f) /\ ToSet(f) \subseteq ToSet(ms)
  BY <1>1, <1>2, CutPaired
<1>4. ASSUME NEW m \in ToSet(f), NEW c \in ToSet(m.calls), c \in Answered(ms)
      PROVE  c \in Answered(f)
  <2>1. PICK t \in ToSet(ms) : t.answers = c /\ c # NoCall
    BY <1>4 DEF Answered
  <2>2. t \in Message
    BY <2>1, MembersTyped
  <2>3. t.role = "tool"
    BY <2>1, <2>2 DEF Message, Regular
  <2>4. t \in ToSet(f)
    BY <1>2, <1>4, <2>1, <2>3, CutPaired
  <2> QED
    BY <2>1, <2>4 DEF Answered
<1> QED
  BY <1>2, <1>3, <1>4 DEF f

(* Repairing joins and drops only messages without calls or results.       *)
Repaired(ms, v) ==
  /\ OpenCalls(ms) \subseteq OpenCalls(v) /\ Paired(v) /\ Answered(v) = Answered(ms)
  /\ \A m \in ToSet(v) : m.calls # <<>> => m \in ToSet(ms)

LEMMA AnsweredAppend ==
  ASSUME NEW ms \in Messages, NEW m \in Message
  PROVE  /\ Answered(Append(ms, m)) = Answered(ms) \union ({m.answers} \ {NoCall})
         /\ m.role # "tool" => Answered(Append(ms, m)) = Answered(ms)
<1>1. ToSet(Append(ms, m)) = ToSet(ms) \union {m}
  BY MembersOfAppend DEF Messages
<1>2. m.role # "tool" => m.answers = NoCall
  BY DEF Message, Regular
<1> QED
  BY <1>1, <1>2 DEF Answered

LEMMA RepairPairs ==
  ASSUME NEW ms \in Messages, NEW v \in Messages, Repaired(ms, v),
         NEW m \in Message, Paired(Append(ms, m))
  PROVE  Repaired(Append(ms, m), Repair(v, m))
<1>1. m.role = "tool" => m.answers \in OpenCalls(ms)
  BY PairedAppend
<1>2. OpenCalls(Append(ms, m)) = ToSet(m.calls) \union (IF m.role = "tool" THEN OpenCalls(ms) ELSE {})
  BY OpenAppend
<1>3. ToSet(Append(ms, m)) = ToSet(ms) \union {m}
  BY MembersOfAppend DEF Messages
<1>4. m.calls = <<>> => ToSet(m.calls) = {}
  BY DEF ToSet
<1>5. CASE Blank(m)
  <2>1. OpenCalls(Append(ms, m)) = {} /\ m.role # "tool"
    BY <1>2, <1>4, <1>5 DEF Blank
  <2>2. Repair(v, m) = v
    BY <1>5 DEF Repair
  <2> QED
    BY <1>3, <2>1, <2>2, AnsweredAppend DEF Repaired
<1>6. CASE ~Blank(m) /\ MergesWithLast(v, m)
  <2> DEFINE f == Front(v)  l == Last(v)
  <2>1. v # <<>> /\ m.role # "tool" /\ m.calls = <<>> /\ l.role = m.role /\ l.calls = <<>>
    BY <1>6 DEF MergesWithLast, Mergeable
  <2>2. f \in Messages /\ l \in Message /\ v = Append(f, l)
    BY <2>1, LastApart DEF Messages
  <2> HIDE DEF f, l
  <2>3. Merge(l, m) \in Message /\ Merge(l, m).role = l.role /\ Merge(l, m).calls = <<>>
    <3>1. Merge(l, m) \in Message
      BY <2>2, MergeTyped
    <3>2. l.role \in {"user", "assistant", "tool", "system"}
      BY <2>2 DEF Message
    <3> QED
      BY <2>1, <2>2, <3>1 DEF Merge, Message
  <2>4. Repair(v, m) = Append(f, Merge(l, m))
    BY <1>6 DEF Repair, f, l
  <2>5. OpenCalls(Append(ms, m)) = {}
    BY <1>2, <1>4, <2>1
  <2>6. Paired(Append(f, Merge(l, m)))
    <3>1. Paired(f)
      BY <2>2, PairedAppend DEF Repaired
    <3> QED
      BY <2>1, <2>2, <2>3, <3>1, PairedAppend
  <2>7. Answered(Append(f, Merge(l, m))) = Answered(f) /\ Answered(v) = Answered(f)
        /\ Answered(Append(ms, m)) = Answered(ms)
    BY <2>1, <2>2, <2>3, AnsweredAppend
  <2>8. ToSet(Append(f, Merge(l, m))) = ToSet(f) \union {Merge(l, m)} /\ ToSet(v) = ToSet(f) \union {l}
    BY <2>2, <2>3, MembersOfAppend DEF Messages
  <2> QED
    BY <1>3, <2>3, <2>4, <2>5, <2>6, <2>7, <2>8 DEF Repaired
<1>7. CASE ~Blank(m) /\ ~MergesWithLast(v, m)
  <2>1. Repair(v, m) = Append(v, m)
    BY <1>7 DEF Repair
  <2>2. OpenCalls(Append(v, m)) = ToSet(m.calls) \union (IF m.role = "tool" THEN OpenCalls(v) ELSE {})
    BY OpenAppend
  <2>3. Paired(Append(v, m))
    BY <1>1, PairedAppend DEF Repaired
  <2>4. Answered(Append(v, m)) = Answered(Append(ms, m))
    <3>1. Answered(v) = Answered(ms)
      BY DEF Repaired
    <3>2. Answered(Append(v, m)) = Answered(v) \union ({m.answers} \ {NoCall})
      BY AnsweredAppend
    <3>3. Answered(Append(ms, m)) = Answered(ms) \union ({m.answers} \ {NoCall})
      BY AnsweredAppend
    <3> QED
      BY <3>1, <3>2, <3>3, Zenon
  <2>5. ToSet(Append(v, m)) = ToSet(v) \union {m}
    BY MembersOfAppend DEF Messages
  <2>6. OpenCalls(Append(ms, m)) \subseteq OpenCalls(Append(v, m))
    BY <1>2, <2>2 DEF Repaired
  <2> QED
    BY <1>3, <2>1, <2>3, <2>4, <2>5, <2>6 DEF Repaired
<1> QED
  BY <1>5, <1>6, <1>7

LEMMA SanitizePairs ==
  \A ms \in Messages : Paired(ms) => Repaired(ms, SanitizeConversation(ms))
<1> DEFINE T == {ms \in Messages : Paired(ms) => Repaired(ms, SanitizeConversation(ms))}
<1>1. <<>> \in T
  <2>1. SanitizeConversation(<<>>) = <<>> /\ <<>> \in Messages
    BY RepairAppend DEF Messages
  <2>2. Repaired(<<>>, <<>>)
    BY DEF Repaired, Paired
  <2> QED
    BY <2>1, <2>2
<1>2. ASSUME NEW ms \in Messages, NEW m \in Message, ms \in T PROVE Append(ms, m) \in T
  <2>1. Paired(ms) => Repaired(ms, SanitizeConversation(ms))
    BY <1>2
  <2> HIDE DEF T
  <2>2. /\ SanitizeConversation(ms) \in Messages
        /\ SanitizeConversation(Append(ms, m)) = Repair(SanitizeConversation(ms), m)
        /\ Append(ms, m) \in Messages
    BY RepairAppend, AppendProperties DEF Messages
  <2>3. ASSUME Paired(Append(ms, m)) PROVE Repaired(Append(ms, m), SanitizeConversation(Append(ms, m)))
    <3>1. Paired(ms)
      BY <2>3, PairedAppend
    <3> QED
      BY <2>1, <2>2, <2>3, <3>1, RepairPairs
  <2> QED
    BY <2>2, <2>3 DEF T
<1> HIDE DEF T
<1>3. Messages \subseteq T
  BY <1>1, <1>2, SeqInduction DEF Messages
<1> QED
  BY <1>3 DEF T

-----------------------------------------------------------------------------
(***************************************************************************)
(* Order.  Where the messages of a request come from rises from the first  *)
(* to the last: cutting and repairing keep the order of the conversation,  *)
(* and say nothing twice.                                                  *)
(***************************************************************************)
Rising(o) == \A i, j \in 1..Len(o) : i < j => o[i] < o[j]
InOrder(ms) == Rising(Origins(ms))
Places(ms) == ToSet(Origins(ms))
Before(p, q) == \A x \in Places(p), y \in Places(q) : x < y

LEMMA OriginsAppend ==
  /\ Origins(<<>>) = <<>>
  /\ \A ms \in Messages : Origins(ms) \in Seq(Nat)
  /\ \A ms \in Messages, m \in Message : Origins(Append(ms, m)) = Origins(ms) \o m.from
<1> DEFINE N == Seq(Nat)  Parts(ms) == [i \in DOMAIN ms |-> ms[i].from]
<1>1. \A m \in Message : m.from \in N
  BY DEF Message
<1>2. ASSUME NEW ms \in Messages
      PROVE  /\ Len(ms) \in Nat /\ DOMAIN ms = 1..Len(ms)
             /\ Parts(ms) \in Seq(N) /\ Len(Parts(ms)) = Len(ms)
  <2>1. Len(ms) \in Nat /\ DOMAIN ms = 1..Len(ms) /\ \A i \in 1..Len(ms) : ms[i] \in Message
    BY LenProperties, ElementOfSeq DEF Messages
  <2> HIDE DEF N
  <2>2. Parts(ms) \in [1..Len(ms) -> N]
    BY <1>1, <2>1
  <2> QED
    BY <2>1, <2>2, LenProperties
<1>3. \A ms : Origins(ms) = FlattenSeq(Parts(ms))
  BY DEF Origins
<1>4. Origins(<<>>) = <<>>
  <2>1. Parts(<<>>) = <<>>
    OBVIOUS
  <2>2. FlattenSeq(Parts(<<>>)) = FlattenSeq(<<>>)
    BY <2>1, Zenon
  <2>3. FlattenSeq(<<>>) = <<>>
    BY DEF FlattenSeq
  <2> HIDE DEF Parts
  <2> QED
    BY <1>3, <2>2, <2>3, Zenon
<1>5. ASSUME NEW ms \in Messages, NEW m \in Message
      PROVE  /\ Origins(ms) \in N
             /\ Origins(Append(ms, m)) = Origins(ms) \o m.from
  <2> DEFINE n == Len(ms)  a == Append(ms, m)  p == Parts(ms)  b == Append(p, m.from)  r == Parts(a)
  <2> HIDE DEF N
  <2>1. n \in Nat /\ a \in Messages /\ Len(a) = n + 1 /\ a[n + 1] = m /\ \A i \in 1..n : a[i] = ms[i]
    BY <1>2, AppendProperties DEF Messages
  <2>2. p \in Seq(N) /\ Len(p) = n /\ \A i \in 1..n : p[i] = ms[i].from
    BY <1>2
  <2>3. b \in Seq(N) /\ Len(b) = n + 1 /\ b[n + 1] = m.from /\ \A i \in 1..n : b[i] = p[i]
    BY <1>1, <2>1, <2>2, AppendProperties
  <2>4. r \in Seq(N) /\ Len(r) = n + 1 /\ \A i \in 1..n + 1 : r[i] = a[i].from
    BY <1>2, <2>1
  <2> HIDE DEF a, b, p, r, n
  <2>5. \A i \in 1..n + 1 : r[i] = b[i]
    BY <2>1, <2>2, <2>3, <2>4
  <2>6. r = b
    BY <2>3, <2>4, <2>5, SeqEqual
  <2>7. FlattenSeq(p) \in N /\ FlattenSeq(b) = FlattenSeq(p) \o m.from
    BY <1>1, <2>2, FlattenAppend DEF N, b
  <2> QED
    BY <1>3, <2>6, <2>7 DEF a, p, r
<1>6. \A ms \in Messages : Origins(ms) \in N
  <2> SUFFICES ASSUME NEW ms \in Messages PROVE FlattenSeq(Parts(ms)) \in N
    BY <1>3
  <2> HIDE DEF Parts
  <2> QED
    BY <1>1, <1>2, FlattenAppend, EmptySeq DEF N
<1> QED
  BY <1>4, <1>5, <1>6

LEMMA PlacesJoin ==
  ASSUME NEW x \in Seq(Nat), NEW y \in Seq(Nat), NEW z \in Seq(Nat)
  PROVE  (x \o y) \o z = x \o (y \o z)
<1> DEFINE N == Nat
<1>1. x \in Seq(N) /\ y \in Seq(N) /\ z \in Seq(N)
  OBVIOUS
<1> HIDE DEF N
<1> QED
  BY <1>1, ConcatAssociative

LEMMA OriginsBoth ==
  ASSUME NEW p \in Messages
  PROVE  \A q \in Messages : Origins(p \o q) = Origins(p) \o Origins(q)
<1> DEFINE T == {q \in Messages : Origins(p \o q) = Origins(p) \o Origins(q)}
<1>1. <<>> \in T
  <2>1. p \o <<>> = p /\ <<>> \in Messages
    BY ConcatEmptySeq, EmptySeq DEF Messages
  <2>2. Origins(p) \o <<>> = Origins(p) /\ Origins(<<>>) = <<>>
    BY OriginsAppend, ConcatEmptySeq
  <2>3. Origins(p \o <<>>) = Origins(p) \o Origins(<<>>)
    BY <2>1, <2>2, Zenon
  <2> QED
    BY <2>1, <2>3
<1>2. ASSUME NEW q \in Messages, NEW e \in Message, q \in T PROVE Append(q, e) \in T
  <2>1. Origins(p \o q) = Origins(p) \o Origins(q)
    BY <1>2
  <2> HIDE DEF T
  <2>2. p \o Append(q, e) = Append(p \o q, e)
    BY AppendToConcat DEF Messages
  <2>3. p \o q \in Messages /\ Append(q, e) \in Messages /\ e.from \in Seq(Nat)
        /\ Origins(p) \in Seq(Nat) /\ Origins(q) \in Seq(Nat)
    BY ConcatProperties, AppendProperties, OriginsAppend DEF Messages, Message
  <2>4. Origins(Append(p \o q, e)) = Origins(p \o q) \o e.from
    BY <2>3, OriginsAppend
  <2>5. Origins(Append(q, e)) = Origins(q) \o e.from
    BY OriginsAppend
  <2>6. (Origins(p) \o Origins(q)) \o e.from = Origins(p) \o (Origins(q) \o e.from)
    BY <2>3, PlacesJoin, Zenon
  <2>7. Origins(p \o Append(q, e)) = Origins(p) \o Origins(Append(q, e))
    BY <2>1, <2>2, <2>4, <2>5, <2>6, Zenon
  <2> QED
    BY <2>3, <2>7 DEF T
<1> HIDE DEF T
<1>3. Messages \subseteq T
  BY <1>1, <1>2, SeqInduction DEF Messages
<1> QED
  BY <1>3 DEF T

LEMMA RisingBoth ==
  ASSUME NEW o \in Seq(Nat), NEW p \in Seq(Nat)
  PROVE  /\ ToSet(o \o p) = ToSet(o) \union ToSet(p)
         /\ Rising(o \o p) <=> Rising(o) /\ Rising(p) /\ \A x \in ToSet(o), y \in ToSet(p) : x < y
<1> DEFINE n == Len(o)  k == Len(p)  b == o \o p
<1>1. n \in Nat /\ k \in Nat /\ DOMAIN o = 1..n /\ DOMAIN p = 1..k
      /\ (\A i \in 1..n : o[i] \in Nat) /\ (\A i \in 1..k : p[i] \in Nat)
  BY LenProperties, ElementOfSeq
<1>2. Len(b) = n + k /\ \A i \in 1..n + k : b[i] = IF i <= n THEN o[i] ELSE p[i - n]
  BY ConcatProperties
<1> HIDE DEF n, k, b
<1>3. (\A i \in 1..n : i \in 1..n + k /\ i <= n /\ b[i] = o[i])
      /\ \A i \in 1..k : i + n \in 1..n + k /\ b[i + n] = p[i]
  <2>1. \A i \in 1..n : i \in 1..n + k /\ i <= n
    BY <1>1
  <2>2. \A i \in 1..k : i + n \in 1..n + k /\ ~ i + n <= n /\ (i + n) - n = i
    BY <1>1
  <2> QED
    BY <1>2, <2>1, <2>2
<1>4. ASSUME Rising(b) PROVE Rising(o) /\ Rising(p) /\ \A x \in ToSet(o), y \in ToSet(p) : x < y
  <2>1. ASSUME NEW i \in 1..n, NEW j \in 1..n, i < j PROVE o[i] < o[j]
    BY <1>2, <1>3, <1>4, <2>1 DEF Rising
  <2>2. ASSUME NEW i \in 1..k, NEW j \in 1..k, i < j PROVE p[i] < p[j]
    <3>1. i + n < j + n
      BY <1>1, <2>2
    <3> QED
      BY <1>2, <1>3, <1>4, <3>1 DEF Rising
  <2>3. ASSUME NEW x \in ToSet(o), NEW y \in ToSet(p) PROVE x < y
    <3>1. PICK i \in 1..n : x = o[i]
      BY <1>1 DEF ToSet
    <3>2. PICK j \in 1..k : y = p[j]
      BY <1>1 DEF ToSet
    <3>3. i < j + n
      BY <1>1
    <3> QED
      BY <1>2, <1>3, <1>4, <3>1, <3>2, <3>3 DEF Rising
  <2> QED
    BY <2>1, <2>2, <2>3 DEF Rising, n, k
<1>5. ASSUME Rising(o), Rising(p), \A x \in ToSet(o), y \in ToSet(p) : x < y PROVE Rising(b)
  <2> SUFFICES ASSUME NEW i \in 1..n + k, NEW j \in 1..n + k, i < j PROVE b[i] < b[j]
    BY <1>2 DEF Rising
  <2>1. CASE j <= n
    <3>1. i \in 1..n /\ j \in 1..n
      BY <1>1, <2>1
    <3> QED
      BY <1>3, <1>5, <3>1 DEF Rising, n
  <2>2. CASE ~ i <= n
    <3>1. i - n \in 1..k /\ j - n \in 1..k /\ i - n < j - n /\ (i - n) + n = i /\ (j - n) + n = j
      BY <1>1, <2>2
    <3>2. b[i] = p[i - n] /\ b[j] = p[j - n]
      BY <1>3, <3>1
    <3> QED
      BY <1>5, <3>1, <3>2 DEF Rising, k
  <2>3. CASE i <= n /\ ~ j <= n
    <3>1. i \in 1..n /\ j - n \in 1..k /\ (j - n) + n = j
      BY <1>1, <2>3
    <3>2. b[i] = o[i] /\ b[j] = p[j - n]
      BY <1>3, <3>1
    <3>3. o[i] \in ToSet(o) /\ p[j - n] \in ToSet(p)
      BY <1>1, <3>1 DEF ToSet
    <3> QED
      BY <1>5, <3>2, <3>3
  <2>4. j <= n \/ ~ i <= n \/ (i <= n /\ ~ j <= n)
    OBVIOUS
  <2> QED
    BY <2>1, <2>2, <2>3, <2>4
<1>6. ToSet(b) = ToSet(o) \union ToSet(p)
  BY MembersOfBoth DEF b
<1> QED
  BY <1>4, <1>5, <1>6 DEF b

LEMMA OrderOfBoth ==
  ASSUME NEW p \in Messages, NEW q \in Messages
  PROVE  /\ Places(p \o q) = Places(p) \union Places(q)
         /\ InOrder(p \o q) <=> InOrder(p) /\ InOrder(q) /\ Before(p, q)
<1>1. Origins(p) \in Seq(Nat) /\ Origins(q) \in Seq(Nat) /\ Origins(p \o q) = Origins(p) \o Origins(q)
  BY OriginsAppend, OriginsBoth
<1> QED
  BY <1>1, RisingBoth DEF Places, InOrder, Before

LEMMA OrderOfNothing == InOrder(<<>>) /\ Places(<<>>) = {} /\ <<>> \in Messages
<1>1. Origins(<<>>) = <<>> /\ <<>> \in Messages
  BY OriginsAppend DEF Messages
<1>2. Rising(<<>>) /\ ToSet(<<>>) = {}
  BY DEF Rising, ToSet
<1> QED
  BY <1>1, <1>2, Zenon DEF InOrder, Places

LEMMA OrderOfAppend ==
  ASSUME NEW ms \in Messages, NEW m \in Message
  PROVE  /\ Places(Append(ms, m)) = Places(ms) \union ToSet(m.from)
         /\ InOrder(Append(ms, m)) <=>
              InOrder(ms) /\ Rising(m.from) /\ \A x \in Places(ms), y \in ToSet(m.from) : x < y
<1>1. Origins(ms) \in Seq(Nat) /\ m.from \in Seq(Nat) /\ Origins(Append(ms, m)) = Origins(ms) \o m.from
  BY OriginsAppend DEF Message
<1> QED
  BY <1>1, RisingBoth DEF Places, InOrder

LEMMA WalkInOrder ==
  ASSUME NEW budget \in Nat
  PROVE  \A rs \in Groups : InOrder(FlattenSeq(Reverse(rs))) =>
           /\ InOrder(FlattenSeq(Walk(rs, budget).kept))
           /\ Places(FlattenSeq(Walk(rs, budget).kept)) \subseteq Places(FlattenSeq(Reverse(rs)))
<1> DEFINE T == {rs \in Groups : InOrder(FlattenSeq(Reverse(rs))) =>
                   /\ InOrder(FlattenSeq(Walk(rs, budget).kept))
                   /\ Places(FlattenSeq(Walk(rs, budget).kept)) \subseteq Places(FlattenSeq(Reverse(rs)))}
<1>1. <<>> \in T
  <2>1. Walk(<<>>, budget) = [left |-> budget, kept |-> <<>>] /\ <<>> \in Groups
    BY WalkAppend DEF Groups
  <2>2. FlattenSeq(<<>>) = <<>>
    BY DEF FlattenSeq
  <2> QED
    BY <2>1, <2>2, OrderOfNothing
<1>2. ASSUME NEW rs \in Groups, NEW g \in Messages, rs \in T PROVE Append(rs, g) \in T
  <2>1. PICK w \in Walks : w = Walk(rs, budget)
    BY WalkAppend DEF Groups
  <2>2. PICK r \in Messages : r = FlattenSeq(Reverse(rs))
    <3>1. Reverse(rs) \in Groups
      BY Reversed DEF Groups
    <3> QED
      BY <3>1, FlattenAppend DEF Groups, Messages
  <2>3. InOrder(r) => InOrder(FlattenSeq(w.kept)) /\ Places(FlattenSeq(w.kept)) \subseteq Places(r)
    BY <1>2, <2>1, <2>2
  <2> HIDE DEF T
  <2>4. Walk(Append(rs, g), budget) = TakeIfFits(w, g) /\ Append(rs, g) \in Groups
    BY <2>1, WalkAppend, AppendProperties DEF Groups
  <2>5. FlattenSeq(Reverse(Append(rs, g))) = g \o r
    <3>1. Reverse(Append(rs, g)) = <<g>> \o Reverse(rs) /\ Reverse(rs) \in Groups
      BY Reversed DEF Groups
    <3>2. \A ss \in Groups : FlattenSeq(<<g>> \o ss) = g \o FlattenSeq(ss)
      BY FlattenCons DEF Groups, Messages
    <3> QED
      BY <2>2, <3>1, <3>2, Zenon
  <2>6. w.kept \in Groups /\ FlattenSeq(w.kept) \in Messages
    BY FlattenAppend DEF Walks, Groups, Messages
  <2>7. ASSUME InOrder(g \o r)
        PROVE  /\ InOrder(FlattenSeq(TakeIfFits(w, g).kept))
               /\ Places(FlattenSeq(TakeIfFits(w, g).kept)) \subseteq Places(g \o r)
    <3>1. InOrder(g) /\ InOrder(r) /\ Before(g, r) /\ Places(g \o r) = Places(g) \union Places(r)
      BY <2>7, OrderOfBoth
    <3>2. CASE TotalSize(g) > w.left
      BY <2>3, <3>1, <3>2 DEF TakeIfFits
    <3>3. CASE ~ TotalSize(g) > w.left
      <4>1. TakeIfFits(w, g).kept = <<g>> \o w.kept
        BY <3>3 DEF TakeIfFits, Taken
      <4>2. \A ss \in Groups : FlattenSeq(<<g>> \o ss) = g \o FlattenSeq(ss)
        BY FlattenCons DEF Groups, Messages
      <4>3. FlattenSeq(TakeIfFits(w, g).kept) = g \o FlattenSeq(w.kept)
        BY <2>6, <4>1, <4>2, Zenon
      <4>4. Before(g, FlattenSeq(w.kept))
        BY <2>3, <3>1 DEF Before
      <4>5. InOrder(g \o FlattenSeq(w.kept))
            /\ Places(g \o FlattenSeq(w.kept)) = Places(g) \union Places(FlattenSeq(w.kept))
        BY <2>3, <2>6, <3>1, <4>4, OrderOfBoth
      <4> QED
        BY <2>3, <3>1, <4>3, <4>5
    <3> QED
      BY <3>2, <3>3
  <2> QED
    BY <2>4, <2>5, <2>7 DEF T
<1> HIDE DEF T
<1>3. Groups \subseteq T
  BY <1>1, <1>2, SeqInduction DEF Groups
<1> QED
  BY <1>3 DEF T

LEMMA CutInOrder ==
  ASSUME NEW ms \in Messages, Opens(ms), InOrder(ms)
  PROVE  InOrder(Cut(ms))
<1> DEFINE h == Head(ms)  gs == GroupToolCallUnits(Tail(ms))  b == RestOfBudget(h)
           k == Walk(Reverse(gs), b).kept
<1>1. h \in Message /\ <<h>> \in Messages /\ Tail(ms) \in Messages /\ ms = <<h>> \o Tail(ms) /\ b \in Nat
  BY FirstApart, FirstTyped DEF Opens
<1>2. gs \in Groups /\ FlattenSeq(gs) = Tail(ms)
  BY <1>1, TailPaired, GroupsRight, GatherAppend DEF Grouped, Messages
<1>3. Cut(ms) = <<h>> \o FlattenSeq(k) /\ FlattenSeq(k) \in Messages
  BY CutRight DEF Cut, CutGroups, KeepGroups, Walk, Opens
<1> HIDE DEF h, gs, b, k
<1>4. Reverse(gs) \in Groups /\ Reverse(Reverse(gs)) = gs
  BY <1>2, Reversed DEF Groups
<1>5. InOrder(<<h>>) /\ InOrder(Tail(ms)) /\ Before(<<h>>, Tail(ms))
  <2>1. InOrder(<<h>> \o Tail(ms))
    BY <1>1, Zenon
  <2> QED
    BY <1>1, <2>1, OrderOfBoth
<1>6. InOrder(FlattenSeq(k)) /\ Places(FlattenSeq(k)) \subseteq Places(Tail(ms))
  <2>1. InOrder(FlattenSeq(Reverse(Reverse(gs))))
    BY <1>2, <1>4, <1>5, Zenon
  <2> QED
    BY <1>1, <1>2, <1>4, <2>1, WalkInOrder DEF k
<1>7. Before(<<h>>, FlattenSeq(k))
  BY <1>5, <1>6 DEF Before
<1> QED
  BY <1>1, <1>3, <1>5, <1>6, <1>7, OrderOfBoth

LEMMA OnlyInOrder ==
  ASSUME NEW kept
  PROVE  \A ms \in Messages : InOrder(ms) => InOrder(Only(ms, kept)) /\ Places(Only(ms, kept)) \subseteq Places(ms)
<1> DEFINE T == {ms \in Messages :
                   InOrder(ms) => InOrder(Only(ms, kept)) /\ Places(Only(ms, kept)) \subseteq Places(ms)}
<1>1. <<>> \in T
  BY OnlyAppend, OrderOfNothing
<1>2. ASSUME NEW ms \in Messages, NEW m \in Message, ms \in T PROVE Append(ms, m) \in T
  <2>1. InOrder(ms) => InOrder(Only(ms, kept)) /\ Places(Only(ms, kept)) \subseteq Places(ms)
    BY <1>2
  <2> HIDE DEF T
  <2>2. /\ Only(ms, kept) \in Messages /\ Append(ms, m) \in Messages
        /\ Only(Append(ms, m), kept) = IF m \in kept THEN Append(Only(ms, kept), m) ELSE Only(ms, kept)
    BY OnlyAppend, AppendProperties DEF Messages
  <2>3. ASSUME InOrder(Append(ms, m))
        PROVE  /\ InOrder(Only(Append(ms, m), kept))
               /\ Places(Only(Append(ms, m), kept)) \subseteq Places(Append(ms, m))
    <3>1. /\ InOrder(ms) /\ Rising(m.from) /\ \A x \in Places(ms), y \in ToSet(m.from) : x < y
          /\ Places(Append(ms, m)) = Places(ms) \union ToSet(m.from)
      BY <2>3, OrderOfAppend
    <3>2. CASE m \in kept
      <4>1. InOrder(Append(Only(ms, kept), m))
            /\ Places(Append(Only(ms, kept), m)) = Places(Only(ms, kept)) \union ToSet(m.from)
        BY <2>1, <2>2, <3>1, OrderOfAppend
      <4> QED
        BY <2>1, <2>2, <3>1, <3>2, <4>1
    <3>3. CASE m \notin kept
      BY <2>1, <2>2, <3>1, <3>3
    <3> QED
      BY <3>2, <3>3
  <2> QED
    BY <2>2, <2>3 DEF T
<1> HIDE DEF T
<1>3. Messages \subseteq T
  BY <1>1, <1>2, SeqInduction DEF Messages
<1> QED
  BY <1>3 DEF T

(* Repairing says what was said, save for the empty answers. *)
Saying == {m \in Message : ~Blank(m)}

LEMMA OnlySame ==
  ASSUME NEW ms \in Messages
  PROVE  Only(ms, {m \in ToSet(ms) : ~Blank(m)}) = Only(ms, Saying)
<1> DEFINE s == {m \in ToSet(ms) : ~Blank(m)}
<1>1. \A i \in DOMAIN ms : ms[i] \in s <=> ms[i] \in Saying
  BY MembersTyped DEF ToSet, Saying
<1> HIDE DEF s
<1>2. [i \in DOMAIN ms |-> IF ms[i] \in s THEN <<ms[i]>> ELSE <<>>]
      = [i \in DOMAIN ms |-> IF ms[i] \in Saying THEN <<ms[i]>> ELSE <<>>]
  BY <1>1
<1> QED
  BY <1>2, Zenon DEF Only, s

LEMMA SanitizeOrigins ==
  \A ms \in Messages : Origins(SanitizeConversation(ms)) = Origins(Only(ms, Saying))
<1> DEFINE T == {ms \in Messages : Origins(SanitizeConversation(ms)) = Origins(Only(ms, Saying))}
<1>1. <<>> \in T
  BY RepairAppend, OnlyAppend DEF Messages
<1>2. ASSUME NEW ms \in Messages, NEW m \in Message, ms \in T PROVE Append(ms, m) \in T
  <2>1. PICK v \in Messages : v = SanitizeConversation(ms)
    BY RepairAppend DEF Messages
  <2>2. Origins(v) = Origins(Only(ms, Saying))
    BY <1>2, <2>1
  <2> HIDE DEF T
  <2>3. SanitizeConversation(Append(ms, m)) = Repair(v, m) /\ Append(ms, m) \in Messages
    BY <2>1, RepairAppend, AppendProperties DEF Messages
  <2>4. /\ Only(ms, Saying) \in Messages
        /\ Only(Append(ms, m), Saying) = IF m \in Saying THEN Append(Only(ms, Saying), m) ELSE Only(ms, Saying)
    BY OnlyAppend
  <2>5. m \in Saying => Origins(Only(Append(ms, m), Saying)) = Origins(v) \o m.from
    BY <2>2, <2>4, OriginsAppend
  <2>6. CASE Blank(m)
    BY <2>2, <2>3, <2>4, <2>6 DEF Repair, Saying, T
  <2>7. CASE ~Blank(m) /\ MergesWithLast(v, m)
    <3> DEFINE f == Front(v)  l == Last(v)
    <3>1. v # <<>>
      BY <2>7 DEF MergesWithLast
    <3>2. f \in Messages /\ l \in Message /\ v = Append(f, l)
      BY <3>1, LastApart DEF Messages
    <3>3. Repair(v, m) = Append(f, Merge(l, m))
      BY <2>7 DEF Repair
    <3> HIDE DEF f, l
    <3>4. PICK j : j = l.from \o m.from
      OBVIOUS
    <3>5. Merge(l, m) \in Message /\ Merge(l, m).from = j
      <4>1. Merge(l, m) = [l EXCEPT !.content = l.content + m.content, !.from = j]
        BY <3>4 DEF Merge
      <4>2. Merge(l, m) \in Message
        BY <3>2, MergeTyped
      <4>3. l = [role |-> l.role, calls |-> l.calls, answers |-> l.answers,
                 content |-> l.content, from |-> l.from]
        BY <3>2 DEF Message
      <4>4. [l EXCEPT !.content = l.content + m.content, !.from = j].from = j
        BY <4>3
      <4> QED
        BY <4>1, <4>2, <4>4, Zenon
    <3>6. Origins(Append(f, Merge(l, m))) = Origins(f) \o j
      BY <3>2, <3>5, OriginsAppend
    <3>7. Origins(v) = Origins(f) \o l.from
      BY <3>2, OriginsAppend
    <3>8. (Origins(f) \o l.from) \o m.from = Origins(f) \o (l.from \o m.from)
      <4>1. Origins(f) \in Seq(Nat) /\ l.from \in Seq(Nat) /\ m.from \in Seq(Nat)
        BY <3>2, OriginsAppend DEF Message
      <4> QED
        BY <4>1, PlacesJoin, Zenon
    <3>9. Origins(Repair(v, m)) = Origins(v) \o m.from
      BY <3>3, <3>4, <3>6, <3>7, <3>8, Zenon
    <3> QED
      BY <2>3, <2>5, <2>7, <3>9 DEF Saying, T
  <2>8. CASE ~Blank(m) /\ ~MergesWithLast(v, m)
    <3>1. Repair(v, m) = Append(v, m)
      BY <2>8 DEF Repair
    <3>2. Origins(Append(v, m)) = Origins(v) \o m.from
      BY OriginsAppend
    <3> QED
      BY <2>3, <2>5, <2>8, <3>1, <3>2 DEF Saying, T
  <2> QED
    BY <2>6, <2>7, <2>8
<1> HIDE DEF T
<1>3. Messages \subseteq T
  BY <1>1, <1>2, SeqInduction DEF Messages
<1> QED
  BY <1>3 DEF T

-----------------------------------------------------------------------------
(***************************************************************************)
(* The conversation: it begins with a prompt, a result follows its call,   *)
(* a message knows its place, and a reply has ids of its own.              *)
(***************************************************************************)
Placed(m, i) ==
  /\ m.from = <<i>> /\ m.role # "system"
  /\ \A c \in ToSet(m.calls) : MaxCalls * i < c /\ c <= MaxCalls * (i + 1)

Sound(ms) ==
  /\ ms \in Messages /\ Paired(ms)
  /\ ms # <<>> => ms[1].role = "user"
  /\ \A i \in 1..Len(ms) : Placed(ms[i], i)

ConvInv ==
  /\ Sound(history) /\ Sound(messages)
  /\ phase \in {"idle", "request"} /\ plan \in BOOLEAN /\ frozen \in BOOLEAN
  /\ phase = "request" => messages # <<>>

LEMMA Ranges ==
  ASSUME NEW a \in Nat, NEW i \in Nat, NEW j \in Nat, i < j
  PROVE  a * i \in Nat /\ a * (i + 1) \in Nat /\ a * j \in Nat
         /\ a * (i + 1) = a * i + a /\ a * (i + 1) <= a * j
<1>1. PICK d \in Nat : j = (i + 1) + d
  <2>1. j - (i + 1) \in Nat /\ j = (i + 1) + (j - (i + 1))
    OBVIOUS
  <2> QED
    BY <2>1
<1>2. a * i \in Nat /\ a * d \in Nat
  OBVIOUS
<1>3. a * (i + 1) = a * i + a /\ a * j = (a * i + a) + a * d
  BY <1>1
<1> QED
  BY <1>2, <1>3

LEMMA SoundAppend ==
  ASSUME NEW ms, Sound(ms), NEW m \in Message, Placed(m, Len(ms) + 1),
         ms = <<>> => m.role = "user", m.role = "tool" => m.answers \in OpenCalls(ms)
  PROVE  Sound(Append(ms, m))
<1> DEFINE a == Append(ms, m)  n == Len(ms)
<1>1. ms \in Messages
  BY DEF Sound
<1>2. n \in Nat /\ a \in Messages /\ a # <<>> /\ Len(a) = n + 1 /\ a[n + 1] = m
      /\ \A i \in 1..n : a[i] = ms[i]
  BY <1>1, LenProperties, AppendProperties DEF Messages
<1>3. Paired(a)
  BY <1>1, PairedAppend DEF Sound
<1> HIDE DEF a
<1>4. a[1].role = "user"
  <2>1. CASE ms = <<>>
    BY <1>2, <2>1
  <2>2. CASE ms # <<>>
    <3>1. 1 \in 1..n
      BY <1>1, <1>2, <2>2, EmptySeq DEF Messages
    <3> QED
      BY <1>2, <2>2, <3>1 DEF Sound
  <2> QED
    BY <2>1, <2>2
<1>5. ASSUME NEW i \in 1..Len(a) PROVE Placed(a[i], i)
  <2>1. CASE i = n + 1
    BY <1>2, <2>1
  <2>2. CASE i # n + 1
    <3>1. i \in 1..n
      BY <1>2, <2>2
    <3> QED
      BY <1>2, <3>1 DEF Sound
  <2> QED
    BY <2>1, <2>2
<1>6. Sound(a)
  BY <1>2, <1>3, <1>4, <1>5 DEF Sound
<1> QED
  BY <1>6 DEF a

(* Results behind the reply that asked for them. *)
LEMMA SoundResults ==
  ASSUME NEW p, Sound(p), p # <<>>
  PROVE  \A q \in Messages :
           (\A i \in 1..Len(q) : /\ q[i].role = "tool" /\ q[i].answers \in OpenCalls(p)
                                 /\ Placed(q[i], Len(p) + i))
           => Sound(p \o q)
<1> DEFINE Right(q) == \A i \in 1..Len(q) : /\ q[i].role = "tool" /\ q[i].answers \in OpenCalls(p)
                                            /\ Placed(q[i], Len(p) + i)
           T == {q \in Messages : Right(q) => Sound(p \o q) /\ OpenCalls(p) \subseteq OpenCalls(p \o q)}
<1>0. p \in Messages /\ Len(p) \in Nat
  BY LenProperties DEF Sound, Messages
<1>1. <<>> \in T
  <2>1. p \o <<>> = p /\ <<>> \in Messages
    BY <1>0, ConcatEmptySeq DEF Messages
  <2> QED
    BY <2>1
<1>2. ASSUME NEW q \in Messages, NEW e \in Message, q \in T PROVE Append(q, e) \in T
  <2> DEFINE a == Append(q, e)  n == Len(q)
  <2>1. Right(q) => Sound(p \o q) /\ OpenCalls(p) \subseteq OpenCalls(p \o q)
    BY <1>2
  <2> HIDE DEF T
  <2>2. n \in Nat /\ a \in Messages /\ Len(a) = n + 1 /\ a[n + 1] = e /\ \A i \in 1..n : a[i] = q[i]
    BY LenProperties, AppendProperties DEF Messages
  <2>3. p \o a = Append(p \o q, e)
    BY <1>0, AppendToConcat DEF Messages
  <2>4. p \o q \in Messages /\ Len(p \o q) = Len(p) + n
    BY <1>0, ConcatProperties DEF Messages
  <2> HIDE DEF a
  <2>5. ASSUME Right(a) PROVE Sound(p \o a) /\ OpenCalls(p) \subseteq OpenCalls(p \o a)
    <3>1. Right(q)
      <4>1. \A i \in 1..n : i \in 1..n + 1
        BY <2>2
      <4> QED
        BY <2>2, <2>5, <4>1
    <3>2. e.role = "tool" /\ e.answers \in OpenCalls(p) /\ Placed(e, Len(p) + (n + 1))
      <4>1. n + 1 \in 1..Len(a)
        BY <2>2
      <4> QED
        BY <2>2, <2>5, <4>1
    <3>3. Placed(e, Len(p \o q) + 1)
      <4>1. Len(p) + (n + 1) = Len(p \o q) + 1
        BY <1>0, <2>2, <2>4
      <4> QED
        BY <3>2, <4>1
    <3>4. p \o q # <<>>
      BY <1>0, ConcatEqualIffEmpty DEF Messages
    <3>5. Sound(p \o q) /\ OpenCalls(p) \subseteq OpenCalls(p \o q)
      BY <2>1, <3>1
    <3> DEFINE pq == p \o q
    <3>6. pq \in Messages /\ Sound(pq) /\ OpenCalls(p) \subseteq OpenCalls(pq) /\ pq # <<>>
          /\ Placed(e, Len(pq) + 1) /\ p \o a = Append(pq, e)
      BY <2>3, <2>4, <3>3, <3>4, <3>5
    <3> HIDE DEF pq
    <3>7. Sound(Append(pq, e))
      BY <3>2, <3>6, SoundAppend
    <3>8. OpenCalls(pq) \subseteq OpenCalls(Append(pq, e))
      BY <3>2, <3>6, OpenAppend
    <3> QED
      BY <3>6, <3>7, <3>8
  <2> QED
    BY <2>2, <2>5 DEF T, a
<1> HIDE DEF T
<1>3. Messages \subseteq T
  BY <1>1, <1>2, SeqInduction DEF Messages
<1> QED
  BY <1>3 DEF T

LEMMA CallsRight ==
  ASSUME NEW n \in Nat, NEW k \in 0..MaxCalls, NEW at \in Nat \ {0}, NEW ids,
         ids = [i \in 1..k |-> MaxCalls * at + i]
  PROVE  /\ Assistant(n, ids, at) \in Message /\ Placed(Assistant(n, ids, at), at)
         /\ \A i \in 1..k : ids[i] \in Nat /\ ids[i] \in ToSet(ids)
<1>1. MaxCalls \in Nat /\ NoCall \notin Nat
  BY ConversationAssumption DEF ConversationAssumption
<1>2. MaxCalls * at \in Nat /\ MaxCalls * (at + 1) = MaxCalls * at + MaxCalls
  BY <1>1, Ranges
<1>3. PICK base \in Nat : base = MaxCalls * at
  BY <1>2
<1>4. ids = [i \in 1..k |-> base + i] /\ k \in Nat
  BY <1>1, <1>3
<1>5. ids \in Seq(Nat) /\ DOMAIN ids = 1..k /\ \A i \in 1..k : ids[i] = base + i /\ ids[i] \in ToSet(ids)
  BY <1>4 DEF ToSet
<1>6. \A c \in ToSet(ids) : base < c /\ c <= base + MaxCalls
  BY <1>1, <1>5 DEF ToSet
<1> DEFINE m == Assistant(n, ids, at)
<1>7. m.role = "assistant" /\ m.calls = ids /\ m.from = <<at>> /\ m.answers = NoCall
  BY DEF Assistant, ChatMessage
<1>8. m \in Message
  <2>1. <<at>> \in Seq(Nat)
    OBVIOUS
  <2> QED
    BY <1>5, <2>1 DEF Assistant, ChatMessage, Message, Regular
<1>9. Placed(m, at)
  BY <1>2, <1>3, <1>6, <1>7 DEF Placed
<1> QED
  BY <1>5, <1>8, <1>9

LEMMA UserRight ==
  ASSUME NEW n \in Nat, NEW at \in Nat
  PROVE  User(n, at) \in Message /\ Placed(User(n, at), at) /\ User(n, at).role = "user"
<1>1. <<at>> \in Seq(Nat) /\ ToSet(<<>>) = {} /\ <<>> \in Seq(Nat)
  BY DEF ToSet
<1>2. User(n, at) \in Message
  BY <1>1 DEF User, ChatMessage, Message, Regular
<1> QED
  BY <1>1, <1>2 DEF User, ChatMessage, Placed

LEMMA ToolRight ==
  ASSUME NEW id \in Nat, NEW n \in Nat, NEW at \in Nat
  PROVE  /\ Tool(id, n, at) \in Message /\ Placed(Tool(id, n, at), at)
         /\ Tool(id, n, at).role = "tool" /\ Tool(id, n, at).answers = id
<1>1. <<at>> \in Seq(Nat) /\ ToSet(<<>>) = {} /\ <<>> \in Seq(Nat) /\ NoCall \notin Nat
  BY ConversationAssumption DEF ToSet, ConversationAssumption
<1>2. Tool(id, n, at) \in Message
  BY <1>1 DEF Tool, ChatMessage, Message, Regular
<1> QED
  BY <1>1, <1>2 DEF Tool, ChatMessage, Placed

LEMMA SoundInit == Init => ConvInv
<1> SUFFICES ASSUME Init PROVE ConvInv
  OBVIOUS
<1>1. Sound(<<>>)
  BY DEF Sound, Messages, Paired
<1> QED
  BY <1>1 DEF Init, ConvInv

LEMMA SoundCycle ==
  ASSUME ConvInv, phase = "request", NEW n \in Nat, NEW results \in ResultSizes
  PROVE  LET ids == CallIds(Len(results))
             more == Append(messages, Assistant(n, ids, Position)) \o
                       [i \in DOMAIN results |-> Tool(ids[i], results[i], Position + i)]
         IN  Sound(more) /\ more # <<>>
<1> DEFINE ids == CallIds(Len(results))  m == Assistant(n, ids, Position)
           p == Append(messages, m)
           q == [i \in DOMAIN results |-> Tool(ids[i], results[i], Position + i)]
<1>1. messages \in Messages /\ messages # <<>> /\ Len(messages) \in Nat /\ Sound(messages)
  BY LenProperties DEF ConvInv, Sound, Messages
<1>2. PICK k \in 1..MaxCalls : results \in [1..k -> Sizes]
  BY DEF ResultSizes
<1>3. MaxCalls \in Nat /\ Sizes \subseteq Nat
  BY ConversationAssumption DEF ConversationAssumption
<1>4. k \in 0..MaxCalls /\ k \in Nat /\ DOMAIN results = 1..k /\ Len(results) = k
  BY <1>2, <1>3
<1>5. Position \in Nat \ {0} /\ Position = Len(messages) + 1
  BY <1>1 DEF Position
<1>6. ids = [i \in 1..k |-> MaxCalls * Position + i]
  BY <1>4 DEF CallIds
<1> HIDE DEF ids
<1>7. /\ m \in Message /\ Placed(m, Position)
      /\ \A i \in 1..k : ids[i] \in Nat /\ ids[i] \in ToSet(ids)
  <2> HIDE DEF m
  <2>1. /\ Assistant(n, ids, Position) \in Message /\ Placed(Assistant(n, ids, Position), Position)
        /\ \A i \in 1..k : ids[i] \in Nat /\ ids[i] \in ToSet(ids)
    <3>1. \A at \in Nat \ {0} : ids = [i \in 1..k |-> MaxCalls * at + i] =>
            /\ Assistant(n, ids, at) \in Message /\ Placed(Assistant(n, ids, at), at)
            /\ \A i \in 1..k : ids[i] \in Nat /\ ids[i] \in ToSet(ids)
      BY <1>4, CallsRight
    <3> QED
      BY <1>5, <1>6, <3>1, Zenon
  <2> QED
    BY <2>1 DEF m
<1>8. m.role = "assistant" /\ m.calls = ids
  BY DEF Assistant, ChatMessage
<1> HIDE DEF m
<1>9. Sound(p) /\ p # <<>> /\ Len(p) = Position
  <2>1. Sound(p)
    BY <1>1, <1>5, <1>7, <1>8, SoundAppend
  <2> QED
    BY <1>1, <1>5, <1>7, <2>1, AppendProperties DEF Messages
<1>10. ToSet(ids) \subseteq OpenCalls(p)
  BY <1>1, <1>7, <1>8, OpenAppend
<1> HIDE DEF p
<1>11. \A i \in 1..k : q[i] = Tool(ids[i], results[i], Position + i)
  BY <1>4
<1>12. ASSUME NEW i \in 1..k
       PROVE  /\ q[i] \in Message /\ q[i].role = "tool" /\ q[i].answers \in OpenCalls(p)
              /\ Placed(q[i], Position + i)
  <2> HIDE DEF q
  <2>1. i \in Nat /\ ids[i] \in Nat /\ ids[i] \in OpenCalls(p)
    BY <1>7, <1>10
  <2>2. results[i] \in Nat
    BY <1>2, <1>3
  <2>3. PICK at \in Nat : at = Position + i
    BY <1>5, <2>1
  <2>4. q[i] = Tool(ids[i], results[i], at)
    BY <1>11, <2>3
  <2> QED
    BY <2>1, <2>2, <2>3, <2>4, ToolRight
<1>13. q \in Messages /\ Len(q) = k
  <2>1. DOMAIN q = 1..k
    BY <1>4
  <2>2. q \in [1..k -> Message]
    BY <1>4, <1>11, <1>12
  <2> HIDE DEF q
  <2> QED
    BY <1>4, <2>2 DEF Messages
<1> HIDE DEF q
<1>14. Sound(p \o q) /\ p \o q # <<>>
  <2>1. p \in Messages
    BY <1>9 DEF Sound
  <2>2. p \o q # <<>>
    BY <1>9, <1>13, <2>1, ConcatEqualIffEmpty DEF Messages
  <2> QED
    BY <1>9, <1>12, <1>13, <2>2, SoundResults
<1> QED
  BY <1>14 DEF p, q, m, ids

LEMMA SoundStep == ConvInv /\ [Next]_vars => ConvInv'
<1> SUFFICES ASSUME ConvInv, [Next]_vars PROVE ConvInv'
  OBVIOUS
<1>1. Sizes \subseteq Nat /\ MaxCalls \in Nat
  BY ConversationAssumption DEF ConversationAssumption
<1>2. history \in Messages /\ messages \in Messages /\ Len(history) \in Nat /\ Len(messages) \in Nat
  BY LenProperties DEF ConvInv, Sound, Messages
<1>3. CASE \E n \in Sizes : Prompt(n)
  <2>1. PICK n \in Sizes : Prompt(n)
    BY <1>3
  <2>2. Sound(Append(history, User(n, Len(history) + 1)))
    <3>1. User(n, Len(history) + 1) \in Message /\ Placed(User(n, Len(history) + 1), Len(history) + 1)
          /\ User(n, Len(history) + 1).role = "user"
      BY <1>1, <1>2, UserRight
    <3> QED
      BY <3>1, SoundAppend DEF ConvInv
  <2>3. Append(history, User(n, Len(history) + 1)) # <<>>
    <3>1. User(n, Len(history) + 1) \in Message
      BY <1>1, <1>2, UserRight
    <3> QED
      BY <1>2, <3>1, AppendProperties DEF Messages
  <2> QED
    BY <2>1, <2>2, <2>3 DEF Prompt, ConvInv
<1>4. CASE \E n \in {0} \union Sizes, results \in ResultSizes : ToolCycle(n, results)
  <2>1. PICK n \in {0} \union Sizes, results \in ResultSizes : ToolCycle(n, results)
    BY <1>4
  <2>2. n \in Nat
    BY <1>1
  <2>3. phase = "request"
    BY <2>1 DEF ToolCycle
  <2>4. Sound(messages') /\ messages' # <<>>
    BY <2>1, <2>2, <2>3, SoundCycle DEF ToolCycle
  <2> QED
    BY <2>1, <2>3, <2>4 DEF ToolCycle, ConvInv
<1>5. CASE \E n \in {0} \union Sizes, calls \in 0..MaxCalls : Answer(n, calls)
  <2>1. PICK n \in {0} \union Sizes, calls \in 0..MaxCalls : Answer(n, calls)
    BY <1>5
  <2>2. n \in Nat /\ calls \in 0..MaxCalls /\ Position \in Nat \ {0} /\ Position = Len(messages) + 1
        /\ messages # <<>>
    BY <1>1, <1>2, <2>1 DEF Position, Answer, ConvInv
  <2> DEFINE m == Assistant(n, CallIds(calls), Position)
  <2>3. m \in Message /\ Placed(m, Position)
    BY <2>2, CallsRight DEF CallIds
  <2>4. m.role = "assistant"
    BY DEF Assistant, ChatMessage
  <2> HIDE DEF m
  <2>5. Sound(Append(messages, m))
    BY <2>2, <2>3, <2>4, SoundAppend DEF ConvInv
  <2> QED
    BY <2>1, <2>5 DEF Answer, ConvInv, m
<1>6. CASE Abandon
  BY <1>6 DEF Abandon, ConvInv
<1>7. CASE SwitchMode
  BY <1>7 DEF SwitchMode, ConvInv
<1>8. CASE UNCHANGED vars
  BY <1>8 DEF vars, ConvInv
<1> QED
  BY <1>3, <1>4, <1>5, <1>6, <1>7, <1>8 DEF Next

THEOREM ConversationSound == Spec => []ConvInv
BY SoundInit, SoundStep, PTL DEF Spec

-----------------------------------------------------------------------------
(***************************************************************************)
(* The request of a sound conversation.                                    *)
(***************************************************************************)
LEMMA SoundApart ==
  ASSUME NEW ms, Sound(ms)
  PROVE  Apart(ms)
<1> SUFFICES ASSUME NEW i \in 1..Len(ms), NEW j \in 1..Len(ms), i < j,
                    NEW c \in ToSet(ms[i].calls), c \in ToSet(ms[j].calls)
             PROVE  FALSE
  BY DEF Apart
<1>1. Placed(ms[i], i) /\ Placed(ms[j], j)
  BY DEF Sound
<1>2. MaxCalls * j < c /\ c <= MaxCalls * (i + 1)
  BY <1>1 DEF Placed
<1>3. i \in Nat /\ j \in Nat /\ ms[i] \in Message /\ MaxCalls \in Nat
  BY LenProperties, ElementOfSeq, ConversationAssumption DEF Sound, Messages, ConversationAssumption
<1>4. c \in Nat
  <2>1. ms[i].calls \in Seq(Nat)
    BY <1>3 DEF Message
  <2> QED
    BY <2>1, LenProperties, ElementOfSeq DEF ToSet
<1>5. MaxCalls * (i + 1) \in Nat /\ MaxCalls * j \in Nat /\ MaxCalls * (i + 1) <= MaxCalls * j
  BY <1>3, Ranges
<1> QED
  BY <1>2, <1>4, <1>5

LEMMA SoundInOrder ==
  \A ms \in Messages : (\A i \in 1..Len(ms) : ms[i].from = <<i>>) =>
    InOrder(ms) /\ Places(ms) \subseteq 1..Len(ms)
<1> DEFINE Own(ms) == \A i \in 1..Len(ms) : ms[i].from = <<i>>
           T == {ms \in Messages : Own(ms) => InOrder(ms) /\ Places(ms) \subseteq 1..Len(ms)}
<1>1. <<>> \in T
  BY OrderOfNothing
<1>2. ASSUME NEW ms \in Messages, NEW m \in Message, ms \in T PROVE Append(ms, m) \in T
  <2> DEFINE n == Len(ms)  a == Append(ms, m)
  <2>1. Own(ms) => InOrder(ms) /\ Places(ms) \subseteq 1..n
    BY <1>2
  <2> HIDE DEF T
  <2>2. n \in Nat /\ a \in Messages /\ Len(a) = n + 1 /\ a[n + 1] = m /\ \A i \in 1..n : a[i] = ms[i]
    BY LenProperties, AppendProperties DEF Messages
  <2> HIDE DEF a, n
  <2>4. ASSUME Own(a) PROVE InOrder(a) /\ Places(a) \subseteq 1..n + 1
    <3>1. Own(ms)
      <4>1. \A i \in 1..n : i \in 1..n + 1
        BY <2>2
      <4> QED
        BY <2>2, <2>4, <4>1 DEF n
    <3>2. m.from = <<n + 1>>
      <4>1. n + 1 \in 1..Len(a)
        BY <2>2
      <4> QED
        BY <2>2, <2>4, <4>1
    <3>3. ToSet(m.from) = {n + 1} /\ Rising(m.from)
      BY <2>2, <3>2 DEF ToSet, Rising
    <3>4. InOrder(ms) /\ Places(ms) \subseteq 1..n
      BY <2>1, <3>1
    <3>5. \A x \in Places(ms), y \in ToSet(m.from) : x < y
      BY <2>2, <3>3, <3>4
    <3>6. InOrder(a) /\ Places(a) = Places(ms) \union {n + 1}
      BY <3>3, <3>4, <3>5, OrderOfAppend DEF a
    <3> QED
      BY <2>2, <3>4, <3>6
  <2> QED
    BY <2>2, <2>4 DEF T, a
<1> HIDE DEF T
<1>3. Messages \subseteq T
  BY <1>1, <1>2, SeqInduction DEF Messages
<1> QED
  BY <1>3 DEF T

LEMMA BehindInstruction ==
  ASSUME NEW h \in Message, h.role # "tool", h.calls = <<>>,
         NEW t \in Messages, Paired(t), Apart(t)
  PROVE  <<h>> \o t \in Messages /\ Opens(<<h>> \o t)
<1> DEFINE one == <<h>>  b == one \o t  n == Len(t)
<1>1. one \in Messages /\ one \in Seq(Message) /\ Len(one) = 1 /\ one[1] = h
  BY DEF Messages
<1>2. Paired(one)
  BY UnitAlone DEF Unit
<1> HIDE DEF one
<1>3. n \in Nat /\ b \in Messages /\ Len(b) = 1 + n
      /\ \A i \in 1..1 + n : b[i] = IF i <= 1 THEN one[i] ELSE t[i - 1]
  BY <1>1, LenProperties, ConcatProperties DEF Messages
<1>4. Paired(b)
  BY <1>1, <1>2, PairedBoth
<1> HIDE DEF b, n
<1>5. b # <<>> /\ b[1] = h /\ \A i \in 1..Len(b) : i # 1 => i - 1 \in 1..n /\ b[i] = t[i - 1]
  <2>1. 1 \in 1..1 + n
    BY <1>3
  <2>2. b[1] = h
    BY <1>1, <1>3, <2>1
  <2>3. b # <<>>
    BY <1>3, EmptySeq DEF Messages
  <2> QED
    BY <1>3, <2>2, <2>3
<1>6. Head(b) = h
  BY <1>3, <1>5 DEF Messages
<1>7. Apart(b)
  <2> SUFFICES ASSUME NEW i \in 1..Len(b), NEW j \in 1..Len(b), i < j
               PROVE  ToSet(b[i].calls) \intersect ToSet(b[j].calls) = {}
    BY DEF Apart
  <2>1. CASE i = 1
    BY <1>5, <2>1 DEF ToSet
  <2>2. CASE i # 1
    <3>1. j # 1 /\ i - 1 < j - 1
      BY <1>3, <2>2
    <3>2. i - 1 \in 1..n /\ j - 1 \in 1..n /\ b[i] = t[i - 1] /\ b[j] = t[j - 1]
      BY <1>5, <2>2, <3>1
    <3> QED
      BY <3>1, <3>2 DEF Apart, n
  <2> QED
    BY <2>1, <2>2
<1> QED
  BY <1>3, <1>4, <1>5, <1>6, <1>7 DEF Opens, b, one

LEMMA InstructionRight ==
  /\ PlanInstruction \in Message /\ PlanInstruction.role = "system" /\ PlanInstruction.calls = <<>>
  /\ PlanInstruction.answers = NoCall /\ PlanInstruction.from = <<0>>
BY ConversationAssumption DEF PlanInstruction, ChatMessage, Message, Regular, ConversationAssumption

LEMMA RequestOpens ==
  ASSUME ConvInv, Sending
  PROVE  /\ RequestMessages \in Messages /\ Opens(RequestMessages) /\ InOrder(RequestMessages)
         /\ Answered(RequestMessages) = Answered(messages)
         /\ \A m \in ToSet(RequestMessages) : Len(m.from) = 1
<1>1. Sound(messages) /\ messages # <<>> /\ messages \in Messages /\ Paired(messages) /\ Apart(messages)
      /\ DOMAIN messages = 1..Len(messages) /\ Len(messages) \in Nat
  BY SoundApart, LenProperties DEF ConvInv, Sending, Sound, Messages
<1>2. \A i \in 1..Len(messages) : messages[i].from = <<i>>
  BY <1>1 DEF Sound, Placed
<1>3. InOrder(messages) /\ Places(messages) \subseteq 1..Len(messages)
  BY <1>1, <1>2, SoundInOrder
<1>4. ASSUME NEW m \in ToSet(messages) PROVE Len(m.from) = 1
  <2>1. PICK i \in 1..Len(messages) : m = messages[i]
    BY <1>1 DEF ToSet
  <2>2. m.from = <<i>>
    BY <1>2, <2>1
  <2> QED
    BY <2>2
<1>5. CASE ~frozen
  <2>1. RequestMessages = messages
    BY <1>5 DEF RequestMessages
  <2>2. messages[1].role = "user" /\ messages[1] \in Message /\ Head(messages) = messages[1]
    <3>1. 1 \in 1..Len(messages)
      BY <1>1, EmptySeq DEF Messages
    <3> QED
      BY <1>1, <3>1, ElementOfSeq DEF Sound, Messages
  <2>3. messages[1].calls = <<>>
    BY <2>2 DEF Message, Regular
  <2>4. Opens(messages)
    BY <1>1, <2>2, <2>3 DEF Opens
  <2> QED
    BY <1>1, <1>3, <1>4, <2>1, <2>4
<1>6. CASE frozen
  <2> DEFINE pi == PlanInstruction  one == <<pi>>
  <2>1. RequestMessages = one \o messages
    BY <1>6 DEF RequestMessages
  <2>2. pi \in Message /\ pi.role = "system" /\ pi.calls = <<>> /\ pi.answers = NoCall /\ pi.from = <<0>>
    BY InstructionRight
  <2> HIDE DEF pi
  <2>3. one \o messages \in Messages /\ Opens(one \o messages)
    BY <1>1, <2>2, BehindInstruction
  <2>4. one \in Messages /\ ToSet(one) = {pi} /\ InOrder(one) /\ Places(one) = {0}
    <3> DEFINE none == <<>>
    <3>1. one = Append(none, pi) /\ one \in Messages /\ ToSet(one) = {pi}
      BY <2>2 DEF Messages, ToSet
    <3>2. none \in Messages /\ InOrder(none) /\ Places(none) = {}
      BY OrderOfNothing
    <3>3. ToSet(<<0>>) = {0} /\ Rising(<<0>>)
      BY DEF ToSet, Rising
    <3> HIDE DEF none, one
    <3>4. InOrder(Append(none, pi)) /\ Places(Append(none, pi)) = {} \union {0}
      BY <2>2, <3>2, <3>3, OrderOfAppend
    <3> QED
      BY <3>1, <3>4
  <2> HIDE DEF one
  <2>5. ToSet(one \o messages) = {pi} \union ToSet(messages)
    BY <1>1, <2>4, MembersOfBoth DEF Messages
  <2>6. Before(one, messages)
    BY <1>1, <1>3, <2>4 DEF Before
  <2>7. InOrder(one \o messages)
    BY <1>1, <1>3, <2>4, <2>6, OrderOfBoth
  <2>8. Answered(one \o messages) = Answered(messages)
    BY <2>2, <2>5 DEF Answered
  <2>9. Len(pi.from) = 1
    BY <2>2
  <2> QED
    BY <1>4, <2>1, <2>3, <2>5, <2>7, <2>8, <2>9
<1> QED
  BY <1>5, <1>6 DEF ConvInv

LEMMA FilteredTyped == ASSUME ConvInv, Sending PROVE Filtered \in Messages
BY RequestOpens, FilterPairs DEF Filtered

LEMMA ShapesHold == ConvInv => ProviderShape
<1> SUFFICES ASSUME ConvInv, Sending PROVE WellShaped(Request)
  <2>1. Sending /\ ConvInv => DOMAIN Request = 1..Len(Request)
    BY FilteredTyped, RepairAppend, LenProperties DEF Request, Messages
  <2> QED
    BY <2>1 DEF ProviderShape, WellShaped, Clash
<1> QED
  BY FilteredTyped, RequestShaped DEF Request

LEMMA BudgetHolds == ConvInv => FitsBudget
<1> SUFFICES ASSUME ConvInv, Sending PROVE TotalSize(Filtered) <= MaxBytes \/ Len(Filtered) = 1
  BY DEF FitsBudget
<1> QED
  BY RequestOpens, FilterFits DEF Filtered, Opens

LEMMA PairsHold == ConvInv => PairsKept
<1> SUFFICES ASSUME ConvInv, Sending PROVE PairsKept
  BY DEF PairsKept
<1> DEFINE rm == RequestMessages  f == FilterMessages(rm)  r == SanitizeConversation(f)
<1>1. rm \in Messages /\ Opens(rm) /\ Answered(rm) = Answered(messages)
  BY RequestOpens
<1> HIDE DEF rm
<1>2. f \in Messages /\ Paired(f) /\ \A m \in ToSet(f) : ToSet(m.calls) \intersect Answered(rm) \subseteq Answered(f)
  BY <1>1, FilterPairs
<1> HIDE DEF f
<1>3. r \in Messages /\ Repaired(f, r)
  BY <1>2, SanitizePairs, RepairAppend DEF Messages
<1>4. Request = r
  BY DEF Request, Filtered, r, f, rm
<1> HIDE DEF r
<1>5. DOMAIN r = 1..Len(r)
  BY <1>3, LenProperties DEF Messages
<1>6. ASSUME NEW m \in ToSet(r)
      PROVE  ToSet(m.calls) \intersect Answered(messages) \subseteq Answered(r)
  <2>1. CASE m.calls = <<>>
    BY <2>1 DEF ToSet
  <2>2. CASE m.calls # <<>>
    <3>1. m \in ToSet(f) /\ Answered(r) = Answered(f)
      BY <1>3, <2>2 DEF Repaired
    <3> QED
      BY <1>1, <1>2, <3>1
  <2> QED
    BY <2>1, <2>2
<1>7. Paired(r)
  BY <1>3 DEF Repaired
<1> QED
  BY <1>4, <1>5, <1>6, <1>7 DEF PairsKept, Paired

LEMMA OrderHolds == ConvInv => NothingLost
<1> SUFFICES ASSUME ConvInv, Sending PROVE NothingLost
  BY DEF NothingLost
<1> DEFINE rm == RequestMessages  f == FilterMessages(rm)  r == SanitizeConversation(f)
           o == Origins(r)
<1>1. rm \in Messages /\ Opens(rm) /\ InOrder(rm) /\ \A m \in ToSet(rm) : Len(m.from) = 1
  BY RequestOpens
<1> HIDE DEF rm
<1>2. f \in Messages /\ Paired(f) /\ ToSet(f) \subseteq ToSet(rm) /\ InOrder(f)
  BY <1>1, FilterPairs, CutInOrder
<1> HIDE DEF f
<1>3. r \in Messages /\ Repaired(f, r)
  BY <1>2, SanitizePairs, RepairAppend DEF Messages
<1>4. o = Origins(Only(f, Saying))
      /\ Only(f, {m \in ToSet(f) : ~Blank(m)}) = Only(f, Saying)
  BY <1>2, SanitizeOrigins, OnlySame
<1>5. Rising(o) /\ o \in Seq(Nat)
  BY <1>2, <1>3, <1>4, OnlyInOrder, OriginsAppend DEF InOrder
<1>6. Request = r /\ Filtered = f
  BY DEF Request, Filtered, r, f, rm
<1> HIDE DEF r
<1>7. \A i, j \in DOMAIN o : i < j => o[i] < o[j]
  BY <1>5, LenProperties DEF Rising
<1>8. \A m \in ToSet(r) : m.calls # <<>> => Len(m.from) = 1
  BY <1>1, <1>2, <1>3 DEF Repaired
<1>9. Origins(r) = Origins(Only(f, {m \in ToSet(f) : ~Blank(m)}))
  BY <1>4, Zenon
<1> QED
  BY <1>6, <1>7, <1>8, <1>9 DEF NothingLost

-----------------------------------------------------------------------------
(***************************************************************************)
(* The reference definition of what is kept, and the walk.                 *)
(***************************************************************************)
KeptAt(groups, K, i) == IF i \in K THEN groups[i] ELSE <<>>
Newer(groups, K, i) == FlattenSeq([j \in 1..Len(groups) - i |-> KeptAt(groups, K, i + j)])

(* The groups behind the i-th, newest first, and the walk over them. *)
Behind(groups, i) == Reverse(SubSeq(groups, i + 1, Len(groups)))
WalkTo(groups, budget, i) == Walk(Behind(groups, i), budget)

LEMMA BehindOne ==
  ASSUME NEW groups \in Groups
  PROVE  /\ \A i \in 0..Len(groups) : Behind(groups, i) \in Groups
         /\ Behind(groups, Len(groups)) = <<>> /\ Behind(groups, 0) = Reverse(groups)
         /\ \A i \in 1..Len(groups) : Behind(groups, i - 1) = Append(Behind(groups, i), groups[i])
<1> DEFINE n == Len(groups)
<1>1. n \in Nat /\ \A i \in 1..n : groups[i] \in Messages
  BY LenProperties, ElementOfSeq DEF Groups
<1> HIDE DEF n
<1>2. ASSUME NEW i \in 0..n
      PROVE  /\ SubSeq(groups, i + 1, n) \in Groups /\ Len(SubSeq(groups, i + 1, n)) = n - i
             /\ \A k \in 1..n - i : SubSeq(groups, i + 1, n)[k] = groups[i + k]
  <2>1. i \in Nat /\ i + 1 \in Int /\ n \in Int /\ \A k \in i + 1..n : groups[k] \in Messages
    BY <1>1
  <2> DEFINE s == SubSeq(groups, i + 1, n)
  <2>2. /\ s \in Seq(Messages) /\ Len(s) = IF i + 1 <= n THEN n - (i + 1) + 1 ELSE 0
        /\ \A k \in 1..n - (i + 1) + 1 : s[k] = groups[(i + 1) + k - 1]
    BY <2>1, SubSeqProperties
  <2> HIDE DEF s
  <2>3. n - (i + 1) + 1 = n - i /\ \A k \in 1..n - i : (i + 1) + k - 1 = i + k
    BY <1>1, <2>1
  <2>4. Len(s) = n - i
    BY <1>1, <2>1, <2>2
  <2> QED
    BY <2>2, <2>3, <2>4 DEF Groups, s
<1>3. ASSUME NEW i \in 0..n
      PROVE  /\ Behind(groups, i) \in Groups /\ Len(Behind(groups, i)) = n - i
             /\ \A k \in 1..n - i : Behind(groups, i)[k] = groups[n - k + 1]
  <2> DEFINE s == SubSeq(groups, i + 1, n)  r == Reverse(s)
  <2>1. s \in Groups /\ Len(s) = n - i /\ \A k \in 1..n - i : s[k] = groups[i + k]
    BY <1>2
  <2> HIDE DEF s
  <2>2. r \in Groups /\ Len(r) = n - i /\ \A k \in 1..n - i : r[k] = s[n - i - k + 1]
    <3>1. r \in Groups /\ Len(r) = Len(s) /\ \A k \in 1..Len(s) : r[k] = s[Len(s) - k + 1]
      BY <2>1, ReverseMeans DEF Groups
    <3> HIDE DEF r
    <3> QED
      BY <2>1, <3>1
  <2> HIDE DEF r
  <2>3. \A k \in 1..n - i : n - i - k + 1 \in 1..n - i /\ i + (n - i - k + 1) = n - k + 1
    BY <1>1
  <2>4. \A k \in 1..n - i : r[k] = groups[n - k + 1]
    BY <2>1, <2>2, <2>3
  <2> QED
    BY <2>2, <2>4 DEF Behind, n, s, r
<1>4. Behind(groups, n) = <<>>
  <2>1. n \in 0..n /\ n - n = 0
    BY <1>1
  <2>2. Behind(groups, n) \in Groups /\ Len(Behind(groups, n)) = 0
    BY <1>3, <2>1
  <2> QED
    BY <2>2, EmptySeq DEF Groups
<1>5. Behind(groups, 0) = Reverse(groups)
  <2>1. SubSeq(groups, 1, n) = groups
    BY SubSeqFull DEF Groups, n
  <2>2. 0 + 1 = 1
    OBVIOUS
  <2> QED
    BY <2>1, <2>2 DEF Behind, n
<1>6. ASSUME NEW i \in 1..n PROVE Behind(groups, i - 1) = Append(Behind(groups, i), groups[i])
  <2> DEFINE b == Behind(groups, i - 1)  a == Append(Behind(groups, i), groups[i])
  <2>1. i \in 0..n /\ i - 1 \in 0..n /\ n - (i - 1) = n - i + 1
    BY <1>1
  <2>2. b \in Groups /\ Len(b) = n - i + 1 /\ \A k \in 1..n - i + 1 : b[k] = groups[n - k + 1]
    BY <1>3, <2>1
  <2>3. Behind(groups, i) \in Groups /\ Len(Behind(groups, i)) = n - i
        /\ \A k \in 1..n - i : Behind(groups, i)[k] = groups[n - k + 1]
    BY <1>3, <2>1
  <2>4. groups[i] \in Messages
    BY <1>1
  <2>5. a \in Groups /\ Len(a) = n - i + 1 /\ a[n - i + 1] = groups[i]
        /\ \A k \in 1..n - i : a[k] = groups[n - k + 1]
    BY <2>3, <2>4, AppendProperties DEF Groups
  <2> HIDE DEF a, b
  <2>6. ASSUME NEW k \in 1..n - i + 1 PROVE a[k] = b[k]
    <3>1. CASE k = n - i + 1
      <4>1. n - k + 1 = i
        BY <1>1, <3>1
      <4> QED
        BY <2>2, <2>5, <3>1, <4>1
    <3>2. CASE k # n - i + 1
      <4>1. k \in 1..n - i
        BY <1>1, <3>2
      <4> QED
        BY <2>2, <2>5, <4>1
    <3> QED
      BY <3>1, <3>2
  <2>7. a = b
    BY <2>2, <2>5, <2>6, SeqEqual DEF Groups
  <2> QED
    BY <2>7 DEF a, b
<1> QED
  BY <1>3, <1>4, <1>5, <1>6 DEF n

LEMMA NewerOne ==
  ASSUME NEW groups \in Groups, NEW K
  PROVE  /\ \A i \in 0..Len(groups) : Newer(groups, K, i) \in Messages
         /\ Newer(groups, K, Len(groups)) = <<>>
         /\ \A i \in 1..Len(groups) :
              /\ Newer(groups, K, i - 1) = KeptAt(groups, K, i) \o Newer(groups, K, i)
              /\ groups[i] \in Messages /\ KeptAt(groups, K, i) \in Messages
<1> DEFINE n == Len(groups)
           Parts(i) == [j \in 1..n - i |-> KeptAt(groups, K, i + j)]
<1>1. n \in Nat /\ (\A i \in 1..n : groups[i] \in Messages) /\ <<>> \in Messages
  BY LenProperties, ElementOfSeq, EmptySeq DEF Groups, Messages
<1>2. \A i \in 1..n : KeptAt(groups, K, i) \in Messages
  BY <1>1 DEF KeptAt
<1> HIDE DEF n
<1>3. ASSUME NEW i \in 0..n
      PROVE  Parts(i) \in Groups /\ Len(Parts(i)) = n - i
             /\ \A j \in 1..n - i : Parts(i)[j] = KeptAt(groups, K, i + j)
  <2>1. n - i \in Nat /\ \A j \in 1..n - i : i + j \in 1..n
    BY <1>1
  <2>2. Parts(i) \in [1..n - i -> Messages]
    BY <1>2, <2>1
  <2>3. \A j \in 1..n - i : Parts(i)[j] = KeptAt(groups, K, i + j)
    OBVIOUS
  <2> HIDE DEF Parts
  <2> QED
    BY <2>1, <2>2, <2>3 DEF Groups
<1>4. \A i \in 0..n : Newer(groups, K, i) = FlattenSeq(Parts(i))
  BY DEF Newer, n
<1> HIDE DEF Parts
<1>5. \A i \in 0..n : Newer(groups, K, i) \in Messages
  BY <1>1, <1>3, <1>4, FlattenAppend DEF Groups, Messages
<1>6. Newer(groups, K, n) = <<>>
  <2>1. n \in 0..n /\ n - n = 0
    BY <1>1
  <2>2. Parts(n) = <<>>
    BY <1>3, <2>1, EmptySeq DEF Groups
  <2>3. FlattenSeq(<<>>) = <<>>
    BY DEF FlattenSeq
  <2> QED
    BY <1>4, <2>1, <2>2, <2>3, Zenon
<1>7. ASSUME NEW i \in 1..n
      PROVE  Newer(groups, K, i - 1) = KeptAt(groups, K, i) \o Newer(groups, K, i)
  <2> DEFINE g == KeptAt(groups, K, i)  one == <<g>>  p == Parts(i - 1)  q == Parts(i)
  <2>1. i \in 0..n /\ i - 1 \in 0..n /\ n - (i - 1) = n - i + 1 /\ n - i \in Nat
    BY <1>1
  <2>2. p \in Groups /\ Len(p) = n - i + 1 /\ \A j \in 1..n - i + 1 : p[j] = KeptAt(groups, K, (i - 1) + j)
    BY <1>3, <2>1
  <2>3. q \in Groups /\ Len(q) = n - i /\ \A j \in 1..n - i : q[j] = KeptAt(groups, K, i + j)
    BY <1>3, <2>1
  <2>4. g \in Messages
    BY <1>2
  <2> HIDE DEF p, q, g
  <2>5. one \in Seq(Messages) /\ Len(one) = 1 /\ one[1] = g
    BY <2>4
  <2> HIDE DEF one
  <2>6. /\ one \o q \in Seq(Messages) /\ Len(one \o q) = 1 + (n - i)
        /\ \A j \in 1..1 + (n - i) : (one \o q)[j] = IF j <= 1 THEN one[j] ELSE q[j - 1]
    <3>1. /\ one \o q \in Seq(Messages) /\ Len(one \o q) = Len(one) + Len(q)
          /\ \A j \in 1..Len(one) + Len(q) :
               (one \o q)[j] = IF j <= Len(one) THEN one[j] ELSE q[j - Len(one)]
      BY <2>3, <2>5, ConcatProperties DEF Groups
    <3> QED
      BY <2>3, <2>5, <3>1
  <2>7. ASSUME NEW j \in 1..n - i + 1 PROVE p[j] = (one \o q)[j]
    <3>1. CASE j = 1
      <4>1. (i - 1) + j = i /\ j \in 1..1 + (n - i)
        BY <2>1, <3>1
      <4> QED
        BY <2>2, <2>5, <2>6, <3>1, <4>1 DEF g
    <3>2. CASE j # 1
      <4>1. (i - 1) + j = i + (j - 1) /\ j - 1 \in 1..n - i /\ j \in 1..1 + (n - i) /\ ~ j <= 1
        BY <2>1, <3>2
      <4> QED
        BY <2>2, <2>3, <2>6, <4>1
    <3> QED
      BY <3>1, <3>2
  <2>8. p = one \o q
    <3>1. Len(p) = Len(one \o q)
      BY <2>1, <2>2, <2>6
    <3> QED
      BY <2>2, <2>6, <2>7, <3>1, SeqEqual DEF Groups
  <2>9. FlattenSeq(one \o q) = g \o FlattenSeq(q)
    <3>1. \A ss \in Groups : FlattenSeq(<<g>> \o ss) = g \o FlattenSeq(ss)
      BY <2>4, FlattenCons DEF Groups, Messages
    <3> QED
      BY <2>3, <3>1, Zenon DEF one
  <2> QED
    BY <1>4, <2>1, <2>8, <2>9, Zenon DEF p, q, g
<1> QED
  BY <1>1, <1>2, <1>5, <1>6, <1>7 DEF n

(* A set that is right wherever it agrees with the walk so far, is the     *)
(* set of what the walk keeps.                                             *)
LEMMA WalkIsNewer ==
  ASSUME NEW groups \in Groups, NEW budget \in Nat, NEW K,
         \A i \in 1..Len(groups) :
           FlattenSeq(WalkTo(groups, budget, i).kept) = Newer(groups, K, i) =>
             (i \in K <=> TotalSize(groups[i]) <= WalkTo(groups, budget, i).left)
  PROVE  \A i \in 0..Len(groups) : FlattenSeq(WalkTo(groups, budget, i).kept) = Newer(groups, K, i)
<1> DEFINE n == Len(groups)
           T == {d \in Nat : d <= n =>
                   FlattenSeq(WalkTo(groups, budget, n - d).kept) = Newer(groups, K, n - d)}
<1>1. n \in Nat
  BY LenProperties DEF Groups
<1> HIDE DEF n
<1>2. 0 \in T
  <2>1. n - 0 = n
    BY <1>1
  <2>2. WalkTo(groups, budget, n) = [left |-> budget, kept |-> <<>>]
    BY BehindOne, WalkAppend DEF WalkTo, n
  <2>3. FlattenSeq(<<>>) = <<>> /\ Newer(groups, K, n) = <<>>
    BY NewerOne DEF FlattenSeq, n
  <2>4. FlattenSeq(WalkTo(groups, budget, n).kept) = Newer(groups, K, n)
    BY <2>2, <2>3
  <2> QED
    BY <2>1, <2>4
<1>3. ASSUME NEW d \in Nat, d \in T PROVE d + 1 \in T
  <2> SUFFICES ASSUME d + 1 <= n
               PROVE  FlattenSeq(WalkTo(groups, budget, n - (d + 1)).kept) = Newer(groups, K, n - (d + 1))
    OBVIOUS
  <2>1. PICK i \in 1..n : i = n - d
    BY <1>1
  <2>2. n - (d + 1) = i - 1 /\ i \in 0..n /\ i - 1 \in 0..n
    BY <1>1, <2>1
  <2> DEFINE w == WalkTo(groups, budget, i)  g == groups[i]  v == Newer(groups, K, i)
  <2>3. FlattenSeq(w.kept) = v
    BY <1>1, <1>3, <2>1
  <2>4. g \in Messages /\ w \in Walks /\ WalkTo(groups, budget, i - 1) = TakeIfFits(w, g)
    <3>1. g \in Messages /\ Behind(groups, i) \in Groups /\ Behind(groups, i - 1) = Append(Behind(groups, i), g)
      BY <2>2, BehindOne, NewerOne DEF n
    <3> QED
      BY <3>1, WalkAppend DEF WalkTo, Groups
  <2>5. i \in K <=> TotalSize(g) <= w.left
    BY <2>3 DEF n
  <2>6. Newer(groups, K, i - 1) = KeptAt(groups, K, i) \o v /\ v \in Messages
    BY <2>2, NewerOne DEF n
  <2>7. TotalSize(g) \in Nat /\ w.left \in Nat /\ w.kept \in Groups
    BY <2>4, TotalSizeTyped DEF Walks
  <2> HIDE DEF w, v
  <2>8. CASE i \in K
    <3>1. TakeIfFits(w, g).kept = <<g>> \o w.kept
      BY <2>5, <2>7, <2>8 DEF TakeIfFits, Taken
    <3>2. \A ss \in Groups : FlattenSeq(<<g>> \o ss) = g \o FlattenSeq(ss)
      BY <2>4, FlattenCons DEF Groups, Messages
    <3>3. FlattenSeq(TakeIfFits(w, g).kept) = g \o v
      BY <2>3, <2>7, <3>1, <3>2, Zenon
    <3>4. KeptAt(groups, K, i) = g
      BY <2>8 DEF KeptAt
    <3> QED
      BY <2>2, <2>4, <2>6, <3>3, <3>4
  <2>9. CASE i \notin K
    <3>1. TakeIfFits(w, g) = w
      BY <2>5, <2>7, <2>9 DEF TakeIfFits
    <3>2. KeptAt(groups, K, i) \o v = v
      BY <2>6, <2>9, ConcatEmptySeq DEF KeptAt, Messages
    <3> QED
      BY <2>2, <2>3, <2>4, <2>6, <3>1, <3>2
  <2> QED
    BY <2>8, <2>9
<1> HIDE DEF T
<1>4. Nat \subseteq T
  BY <1>2, <1>3, SetInduction
<1>5. ASSUME NEW i \in 0..n PROVE FlattenSeq(WalkTo(groups, budget, i).kept) = Newer(groups, K, i)
  <2>1. n - i \in T /\ n - i <= n /\ n - (n - i) = i
    BY <1>1, <1>4
  <2> QED
    BY <2>1 DEF T
<1> QED
  BY <1>5 DEF n

(* A group beside the newer groups that stay, as the reference adds them up. *)
Beside(groups, K, i) ==
  [j \in 1..(Len(groups) - i + 1) |->
     IF j = 1 THEN groups[i] ELSE IF i + j - 1 \in K THEN groups[i + j - 1] ELSE <<>>]

LEMMA BesideNewer ==
  ASSUME NEW groups \in Groups, NEW K, NEW i \in 1..Len(groups)
  PROVE  FlattenSeq(Beside(groups, K, i)) = groups[i] \o Newer(groups, K, i)
<1> DEFINE n == Len(groups)  g == groups[i]  one == <<g>>  p == Beside(groups, K, i)
           q == [j \in 1..n - i |-> KeptAt(groups, K, i + j)]
<1>1. n \in Nat /\ (\A k \in 1..n : groups[k] \in Messages) /\ i \in 1..n /\ <<>> \in Messages
  BY LenProperties, ElementOfSeq, EmptySeq DEF Groups, Messages
<1>2. Newer(groups, K, i) = FlattenSeq(q)
  BY DEF Newer
<1>3. p = [j \in 1..(n - i + 1) |-> IF j = 1 THEN g ELSE IF i + j - 1 \in K THEN groups[i + j - 1] ELSE <<>>]
  BY DEF Beside
<1> HIDE DEF n, p
<1>4. q \in Groups /\ Len(q) = n - i /\ \A j \in 1..n - i : q[j] = KeptAt(groups, K, i + j)
  <2>1. n - i \in Nat /\ \A j \in 1..n - i : i + j \in 1..n
    BY <1>1
  <2>2. \A j \in 1..n - i : KeptAt(groups, K, i + j) \in Messages
    BY <1>1, <2>1 DEF KeptAt
  <2>3. q \in [1..n - i -> Messages] /\ \A j \in 1..n - i : q[j] = KeptAt(groups, K, i + j)
    BY <2>2
  <2> HIDE DEF q
  <2> QED
    BY <2>1, <2>3 DEF Groups
<1>5. p \in Groups /\ Len(p) = n - i + 1
      /\ \A j \in 1..n - i + 1 : p[j] = IF j = 1 THEN g ELSE KeptAt(groups, K, i + j - 1)
  <2>1. n - i + 1 \in Nat /\ \A j \in 1..n - i + 1 : j = 1 \/ i + j - 1 \in 1..n
    BY <1>1
  <2>2. \A j \in 1..n - i + 1 : j = 1 \/ KeptAt(groups, K, i + j - 1) \in Messages
    BY <1>1, <2>1 DEF KeptAt
  <2>3. p = [j \in 1..n - i + 1 |-> IF j = 1 THEN g ELSE KeptAt(groups, K, i + j - 1)]
    BY <1>3 DEF KeptAt
  <2>4. p \in [1..n - i + 1 -> Messages]
        /\ \A j \in 1..n - i + 1 : p[j] = IF j = 1 THEN g ELSE KeptAt(groups, K, i + j - 1)
    BY <1>1, <2>2, <2>3
  <2> QED
    BY <2>1, <2>4 DEF Groups
<1>6. g \in Messages
  BY <1>1
<1> HIDE DEF g, q
<1>7. one \in Seq(Messages) /\ Len(one) = 1 /\ one[1] = g
  BY <1>6
<1> HIDE DEF one
<1>8. /\ one \o q \in Seq(Messages) /\ Len(one \o q) = 1 + (n - i)
      /\ \A j \in 1..1 + (n - i) : (one \o q)[j] = IF j <= 1 THEN one[j] ELSE q[j - 1]
  <2>1. /\ one \o q \in Seq(Messages) /\ Len(one \o q) = Len(one) + Len(q)
        /\ \A j \in 1..Len(one) + Len(q) :
             (one \o q)[j] = IF j <= Len(one) THEN one[j] ELSE q[j - Len(one)]
    BY <1>4, <1>7, ConcatProperties DEF Groups
  <2> QED
    BY <1>4, <1>7, <2>1
<1>9. ASSUME NEW j \in 1..n - i + 1 PROVE p[j] = (one \o q)[j]
  <2>1. CASE j = 1
    <3>1. j \in 1..1 + (n - i) /\ j <= 1
      BY <1>1, <2>1
    <3> QED
      BY <1>5, <1>7, <1>8, <2>1, <3>1
  <2>2. CASE j # 1
    <3>1. i + (j - 1) = i + j - 1 /\ j - 1 \in 1..n - i /\ j \in 1..1 + (n - i) /\ ~ j <= 1
      BY <1>1, <2>2
    <3> QED
      BY <1>4, <1>5, <1>8, <2>2, <3>1
  <2> QED
    BY <2>1, <2>2
<1>10. p = one \o q
  <2>1. Len(p) = Len(one \o q)
    BY <1>1, <1>5, <1>8
  <2> QED
    BY <1>5, <1>8, <1>9, <2>1, SeqEqual DEF Groups
<1>11. FlattenSeq(one \o q) = g \o FlattenSeq(q)
  <2>1. \A ss \in Groups : FlattenSeq(<<g>> \o ss) = g \o FlattenSeq(ss)
    BY <1>6, FlattenCons DEF Groups, Messages
  <2> QED
    BY <1>4, <2>1, Zenon DEF one
<1> QED
  BY <1>2, <1>10, <1>11, Zenon DEF p, g

(* What the reference asks of a set of groups. *)
Right(groups, budget, K) ==
  \A i \in DOMAIN groups : i \in K <=> TotalSize(FlattenSeq(Beside(groups, K, i))) <= budget

(* Where a set agrees with the walk, a group fits beside it exactly when    *)
(* the walk has room for it.                                               *)
LEMMA RoomIsRoom ==
  ASSUME NEW groups \in Groups, NEW budget \in Nat, NEW K, NEW i \in 1..Len(groups),
         FlattenSeq(WalkTo(groups, budget, i).kept) = Newer(groups, K, i)
  PROVE  TotalSize(FlattenSeq(Beside(groups, K, i))) <= budget
           <=> TotalSize(groups[i]) <= WalkTo(groups, budget, i).left
<1> DEFINE g == groups[i]  v == Newer(groups, K, i)  w == WalkTo(groups, budget, i)
<1>1. i \in 0..Len(groups)
  BY LenProperties DEF Groups
<1>2. g \in Messages /\ v \in Messages /\ Behind(groups, i) \in Groups
  BY <1>1, NewerOne, BehindOne
<1>3. w \in Walks /\ w.left + TotalSize(FlattenSeq(w.kept)) = budget
  BY <1>2, WalkAppend, WalkKeeps DEF WalkTo, Groups
<1>4. FlattenSeq(w.kept) = v
  OBVIOUS
<1>5. FlattenSeq(Beside(groups, K, i)) = g \o v
  BY BesideNewer
<1> HIDE DEF g, v, w
<1>6. TotalSize(g \o v) = TotalSize(g) + TotalSize(v) /\ TotalSize(g) \in Nat /\ TotalSize(v) \in Nat
  BY <1>2, TotalOfBoth, TotalSizeTyped
<1>7. w.left \in Nat /\ w.left + TotalSize(v) = budget
  BY <1>3, <1>4 DEF Walks
<1>8. TotalSize(g) + TotalSize(v) <= budget <=> TotalSize(g) <= w.left
  BY <1>6, <1>7
<1> QED
  BY <1>5, <1>6, <1>8 DEF g, w

(* There is such a set, and what the walk keeps is its groups. *)
LEMMA ReferenceRight ==
  ASSUME NEW groups \in Groups, NEW budget \in Nat
  PROVE  /\ ReferenceKept(groups, budget) \in SUBSET (DOMAIN groups)
         /\ Right(groups, budget, ReferenceKept(groups, budget))
<1> DEFINE n == Len(groups)
           W == {i \in 1..n : TotalSize(groups[i]) <= WalkTo(groups, budget, i).left}
<1>1. n \in Nat /\ DOMAIN groups = 1..n
  BY LenProperties DEF Groups
<1>2. \A i \in 1..Len(groups) : i \in W <=> TotalSize(groups[i]) <= WalkTo(groups, budget, i).left
  OBVIOUS
<1> HIDE DEF W
<1>3. \A i \in 0..Len(groups) : FlattenSeq(WalkTo(groups, budget, i).kept) = Newer(groups, W, i)
  BY <1>2, WalkIsNewer
<1>4. ASSUME NEW i \in 1..Len(groups)
      PROVE  i \in W <=> TotalSize(FlattenSeq(Beside(groups, W, i))) <= budget
  <2>1. i \in 0..Len(groups)
    BY <1>1
  <2>2. FlattenSeq(WalkTo(groups, budget, i).kept) = Newer(groups, W, i)
    BY <1>3, <2>1
  <2>3. TotalSize(FlattenSeq(Beside(groups, W, i))) <= budget
          <=> TotalSize(groups[i]) <= WalkTo(groups, budget, i).left
    BY <2>2, RoomIsRoom
  <2> QED
    BY <1>2, <2>3
<1>5. W \in SUBSET (DOMAIN groups) /\ Right(groups, budget, W)
  <2>1. W \in SUBSET (1..n)
    BY DEF W
  <2> QED
    BY <1>1, <1>4, <2>1 DEF Right
<1>6. ReferenceKept(groups, budget) = CHOOSE K \in SUBSET (DOMAIN groups) : Right(groups, budget, K)
  BY DEF ReferenceKept, Right, Beside
<1> QED
  BY <1>5, <1>6

LEMMA WalkIsReference ==
  ASSUME NEW groups \in Groups, NEW budget \in Nat
  PROVE  FlattenSeq(KeepGroups(groups, budget)) = Newer(groups, ReferenceKept(groups, budget), 0)
<1> DEFINE K == ReferenceKept(groups, budget)
<1>1. Right(groups, budget, K)
  BY ReferenceRight
<1> HIDE DEF K
<1>2. Len(groups) \in Nat /\ DOMAIN groups = 1..Len(groups)
  BY LenProperties DEF Groups
<1>3. ASSUME NEW i \in 1..Len(groups),
             FlattenSeq(WalkTo(groups, budget, i).kept) = Newer(groups, K, i)
      PROVE  i \in K <=> TotalSize(groups[i]) <= WalkTo(groups, budget, i).left
  <2>1. i \in K <=> TotalSize(FlattenSeq(Beside(groups, K, i))) <= budget
    BY <1>1, <1>2 DEF Right
  <2>2. TotalSize(FlattenSeq(Beside(groups, K, i))) <= budget
          <=> TotalSize(groups[i]) <= WalkTo(groups, budget, i).left
    BY <1>3, RoomIsRoom
  <2> QED
    BY <2>1, <2>2
<1>4. \A i \in 0..Len(groups) : FlattenSeq(WalkTo(groups, budget, i).kept) = Newer(groups, K, i)
  BY <1>3, WalkIsNewer
<1>5. 0 \in 0..Len(groups)
  BY <1>2
<1>6. FlattenSeq(WalkTo(groups, budget, 0).kept) = Newer(groups, K, 0)
  BY <1>4, <1>5
<1>7. WalkTo(groups, budget, 0).kept = KeepGroups(groups, budget)
  BY BehindOne DEF WalkTo, Walk, KeepGroups
<1> QED
  BY <1>6, <1>7 DEF K

LEMMA MembersOfNewer ==
  ASSUME NEW groups \in Groups, NEW K \in SUBSET (DOMAIN groups)
  PROVE  ToSet(Newer(groups, K, 0)) = UNION {ToSet(groups[i]) : i \in K}
<1> DEFINE n == Len(groups)  q == [j \in 1..n - 0 |-> KeptAt(groups, K, 0 + j)]
<1>1. n \in Nat /\ DOMAIN groups = 1..n /\ (\A k \in 1..n : groups[k] \in Messages) /\ <<>> \in Messages
  BY LenProperties, ElementOfSeq, EmptySeq DEF Groups, Messages
<1>2. Newer(groups, K, 0) = FlattenSeq(q)
  BY DEF Newer
<1> HIDE DEF n
<1>3. q \in Groups /\ DOMAIN q = 1..n /\ \A j \in 1..n : q[j] = KeptAt(groups, K, j)
  <2>1. n - 0 = n /\ \A j \in 1..n : 0 + j = j
    BY <1>1
  <2>2. DOMAIN q = 1..n /\ \A j \in 1..n : q[j] = KeptAt(groups, K, j)
    BY <2>1
  <2>3. \A j \in 1..n : KeptAt(groups, K, j) \in Messages
    BY <1>1 DEF KeptAt
  <2>4. q = [j \in 1..n |-> q[j]]
    BY <2>1
  <2> HIDE DEF q
  <2>5. q \in [1..n -> Messages]
    BY <2>2, <2>3, <2>4
  <2> QED
    BY <1>1, <2>2, <2>5 DEF Groups
<1> HIDE DEF q
<1>4. ToSet(FlattenSeq(q)) = UNION {ToSet(g) : g \in ToSet(q)}
  BY <1>3, MembersOfAll DEF Groups, Messages
<1>5. ToSet(q) = {q[j] : j \in 1..n}
  BY <1>3 DEF ToSet
<1>6. \A j \in 1..n : ToSet(q[j]) = IF j \in K THEN ToSet(groups[j]) ELSE {}
  <2>1. ToSet(<<>>) = {}
    BY DEF ToSet
  <2> QED
    BY <1>3, <2>1 DEF KeptAt
<1>7. UNION {ToSet(g) : g \in ToSet(q)} = UNION {ToSet(groups[i]) : i \in K}
  <2>1. ASSUME NEW x \in UNION {ToSet(g) : g \in ToSet(q)} PROVE x \in UNION {ToSet(groups[i]) : i \in K}
    <3>1. PICK j \in 1..n : x \in ToSet(q[j])
      BY <1>5
    <3> QED
      BY <1>6, <3>1
  <2>2. ASSUME NEW x \in UNION {ToSet(groups[i]) : i \in K} PROVE x \in UNION {ToSet(g) : g \in ToSet(q)}
    <3>1. PICK j \in K : x \in ToSet(groups[j])
      OBVIOUS
    <3>2. j \in 1..n /\ x \in ToSet(q[j])
      BY <1>1, <1>6, <3>1
    <3> QED
      BY <1>5, <3>2
  <2> QED
    BY <2>1, <2>2
<1> QED
  BY <1>2, <1>4, <1>7, Zenon

LEMMA NewestHold == ConvInv => NewestGroupsKept
<1> DEFINE ms == RequestMessages  h == Head(ms)  gs == GroupToolCallUnits(Tail(ms))
           b == RestOfBudget(h)  K == ReferenceKept(gs, b)  f == FlattenSeq(CutGroups(ms))
<1> SUFFICES ASSUME ConvInv, Sending, TotalSize(ms) > MaxBytes
             PROVE  ToSet(Filtered) = {h} \union UNION {ToSet(gs[i]) : i \in K}
  BY DEF NewestGroupsKept
<1>1. ms \in Messages /\ Opens(ms) /\ ms # <<>> /\ Paired(ms)
  BY RequestOpens DEF Opens
<1> HIDE DEF ms
<1>2. h \in Message /\ <<h>> \in Messages /\ Tail(ms) \in Messages /\ f \in Messages
      /\ Cut(ms) = <<h>> \o f /\ Cut(ms) \in Messages
  BY <1>1, FirstApart, CutRight DEF Cut
<1>3. Filtered = Cut(ms)
  <2>1. TotalSize(ms) \in Nat /\ MaxBytes \in Nat
    BY <1>1, TotalSizeTyped, ConversationAssumption DEF ConversationAssumption
  <2>2. FilterMessages(ms) = ValidateToolResults(Cut(ms))
    BY <1>1, <2>1, FilterIs
  <2>3. ValidateToolResults(Cut(ms)) = Cut(ms)
    BY <1>1, <1>2, CutPaired, ResultsHaveCalls
  <2> QED
    BY <2>2, <2>3 DEF Filtered, ms
<1>4. gs \in Groups /\ b \in Nat
  BY <1>2, GatherAppend, FirstTyped DEF Messages
<1>5. f = FlattenSeq(KeepGroups(gs, b))
  BY DEF CutGroups
<1> HIDE DEF gs, b, f, h
<1>6. f = Newer(gs, K, 0) /\ K \in SUBSET (DOMAIN gs)
  BY <1>4, <1>5, WalkIsReference, ReferenceRight
<1> HIDE DEF K
<1>7. ToSet(f) = UNION {ToSet(gs[i]) : i \in K}
  BY <1>4, <1>6, MembersOfNewer
<1>8. ToSet(<<h>>) = {h}
  BY DEF ToSet
<1>9. \A p, q \in Messages : ToSet(p \o q) = ToSet(p) \union ToSet(q)
  BY MembersOfBoth DEF Messages
<1>10. ToSet(<<h>> \o f) = {h} \union ToSet(f)
  BY <1>2, <1>8, <1>9, Zenon
<1> QED
  BY <1>2, <1>3, <1>7, <1>10, Zenon

-----------------------------------------------------------------------------
(***************************************************************************)
(* The replay of a conversation: what each message stands for, and what    *)
(* each update of the client.                                              *)
(***************************************************************************)
Updates ==
  {u \in [kind : {"user", "agent", "call"}, call : Nat \union {NoCall}, from : Seq(Nat)] :
     u.kind = "call" => u.call \in Nat}

Tells(all) == [m \in Message |-> ReplayMessage(all, m)]
Source == [u \in Updates |-> u.from]
CallOf == [u \in Updates |-> IF u.kind = "call" THEN <<u.call>> ELSE <<>>]
Said(all) == [m \in Message |-> Each(Source, ReplayMessage(all, m))]
Text == [m \in Message |-> IF m.content > 0 THEN m.from ELSE <<>>]
Asked == [m \in Message |-> m.calls]

Spoken(m) == IF m.content = 0 THEN <<>> ELSE <<Update("agent", NoCall, m.from)>>
CallUpdates(all, m) ==
  [i \in DOMAIN m.calls |-> Update("call", m.calls[i], ToolResultContent(all, m.calls[i]))]

Answers(m, c) == m.role = "tool" /\ m.answers = c

LEMMA LeastOf ==
  ASSUME NEW T \in SUBSET Nat, T # {}
  PROVE  Min(T) \in T
BY LeastNat DEF Min

(* The result of a call: the message that answers it, if there is one. *)
LEMMA ResultTyped ==
  ASSUME NEW ms \in Messages, NEW c
  PROVE  ToolResultContent(ms, c) \in Seq(Nat)
<1> DEFINE T == {i \in DOMAIN ms : ms[i].role = "tool" /\ ms[i].answers = c}
<1>1. DOMAIN ms = 1..Len(ms) /\ Len(ms) \in Nat /\ \A i \in 1..Len(ms) : ms[i].from \in Seq(Nat)
  BY LenProperties, ElementOfSeq DEF Messages, Message
<1>2. T \in SUBSET Nat /\ T \subseteq 1..Len(ms)
  BY <1>1
<1>3. ToolResultContent(ms, c) = IF T = {} THEN <<>> ELSE ms[Min(T)].from
  BY DEF ToolResultContent
<1> HIDE DEF T
<1>4. CASE T = {}
  BY <1>3, <1>4, EmptySeq
<1>5. CASE T # {}
  <2>1. Min(T) \in 1..Len(ms)
    BY <1>2, <1>5, LeastOf
  <2> QED
    BY <1>1, <1>3, <1>5, <2>1
<1> QED
  BY <1>4, <1>5

LEMMA ResultIs ==
  ASSUME NEW ms \in Messages, NEW c, NEW i \in 1..Len(ms), Answers(ms[i], c),
         \A j \in 1..Len(ms) : Answers(ms[j], c) => j = i
  PROVE  ToolResultContent(ms, c) = ms[i].from
<1> DEFINE T == {j \in DOMAIN ms : ms[j].role = "tool" /\ ms[j].answers = c}
<1>1. DOMAIN ms = 1..Len(ms) /\ Len(ms) \in Nat
  BY LenProperties DEF Messages
<1>2. T \in SUBSET Nat /\ T # {} /\ \A j \in T : j = i
  BY <1>1 DEF Answers
<1>3. ToolResultContent(ms, c) = IF T = {} THEN <<>> ELSE ms[Min(T)].from
  BY DEF ToolResultContent
<1> HIDE DEF T
<1>4. Min(T) = i
  BY <1>2, LeastOf
<1> QED
  BY <1>2, <1>3, <1>4

LEMMA ResultNone ==
  ASSUME NEW ms \in Messages, NEW c, \A j \in 1..Len(ms) : ~Answers(ms[j], c)
  PROVE  ToolResultContent(ms, c) = <<>>
<1> DEFINE T == {j \in DOMAIN ms : ms[j].role = "tool" /\ ms[j].answers = c}
<1>1. DOMAIN ms = 1..Len(ms)
  BY LenProperties DEF Messages
<1>2. T = {}
  BY <1>1 DEF Answers
<1>3. ToolResultContent(ms, c) = IF T = {} THEN <<>> ELSE ms[Min(T)].from
  BY DEF ToolResultContent
<1> HIDE DEF T
<1> QED
  BY <1>2, <1>3

(* The places of two conversations, one behind the other. *)
LEMMA PlacesOfBoth ==
  ASSUME NEW p \in Messages, NEW q \in Messages
  PROVE  /\ p \o q \in Messages /\ Len(p) \in Nat /\ Len(q) \in Nat /\ Len(p \o q) = Len(p) + Len(q)
         /\ DOMAIN p = 1..Len(p) /\ DOMAIN q = 1..Len(q) /\ DOMAIN (p \o q) = 1..Len(p) + Len(q)
         /\ \A i \in 1..Len(p) : (p \o q)[i] = p[i]
         /\ \A i \in 1..Len(q) : (p \o q)[Len(p) + i] = q[i]
         /\ \A i \in 1..Len(p) + Len(q) :
              \/ i \in 1..Len(p)
              \/ \E k \in 1..Len(q) : i = Len(p) + k
<1> DEFINE b == p \o q  n == Len(p)  k == Len(q)
<1>1. n \in Nat /\ k \in Nat /\ DOMAIN p = 1..n /\ DOMAIN q = 1..k
  BY LenProperties DEF Messages
<1>2. /\ b \in Messages /\ Len(b) = n + k
      /\ \A i \in 1..n + k : b[i] = IF i <= n THEN p[i] ELSE q[i - n]
  BY ConcatProperties DEF Messages
<1> HIDE DEF b, n, k
<1>3. DOMAIN b = 1..n + k
  BY <1>2, LenProperties DEF Messages
<1>4. ASSUME NEW i \in 1..n PROVE b[i] = p[i]
  <2>1. i \in 1..n + k /\ i <= n
    BY <1>1
  <2> QED
    BY <1>2, <2>1
<1>5. ASSUME NEW i \in 1..k PROVE b[n + i] = q[i]
  <2>1. n + i \in 1..n + k /\ ~ n + i <= n /\ (n + i) - n = i
    BY <1>1
  <2> QED
    BY <1>2, <2>1
<1>6. ASSUME NEW i \in 1..n + k PROVE i \in 1..n \/ \E j \in 1..k : i = n + j
  <2>1. CASE i <= n
    BY <1>1, <2>1
  <2>2. CASE ~ i <= n
    <3>1. i - n \in 1..k /\ i = n + (i - n)
      BY <1>1, <2>2
    <3> QED
      BY <3>1
  <2> QED
    BY <2>1, <2>2
<1> QED
  BY <1>1, <1>2, <1>3, <1>4, <1>5, <1>6 DEF b, n, k

LEMMA ResultBehind ==
  ASSUME NEW p \in Messages, NEW q \in Messages, NEW c, \A j \in 1..Len(q) : ~Answers(q[j], c)
  PROVE  ToolResultContent(p \o q, c) = ToolResultContent(p, c)
<1> DEFINE b == p \o q
           T == {j \in DOMAIN p : p[j].role = "tool" /\ p[j].answers = c}
           V == {j \in DOMAIN b : b[j].role = "tool" /\ b[j].answers = c}
<1>1. /\ DOMAIN p = 1..Len(p) /\ Len(p) \in Nat /\ Len(q) \in Nat /\ DOMAIN b = 1..Len(p) + Len(q)
      /\ \A i \in 1..Len(p) : b[i] = p[i]
      /\ \A i \in 1..Len(q) : b[Len(p) + i] = q[i]
      /\ \A i \in 1..Len(p) + Len(q) : i \in 1..Len(p) \/ \E k \in 1..Len(q) : i = Len(p) + k
  BY PlacesOfBoth
<1>2. ToolResultContent(p, c) = (IF T = {} THEN <<>> ELSE p[Min(T)].from)
      /\ ToolResultContent(b, c) = (IF V = {} THEN <<>> ELSE b[Min(V)].from)
  BY DEF ToolResultContent
<1> HIDE DEF b
<1>3. V = T
  <2>1. ASSUME NEW i \in V PROVE i \in T
    <3>1. i \in 1..Len(p) + Len(q) /\ Answers(b[i], c)
      BY <1>1 DEF Answers
    <3>2. ~ \E k \in 1..Len(q) : i = Len(p) + k
      BY <1>1, <3>1
    <3>3. i \in 1..Len(p)
      BY <1>1, <3>1, <3>2
    <3> QED
      BY <1>1, <3>1, <3>3 DEF Answers
  <2>2. ASSUME NEW i \in T PROVE i \in V
    <3>1. i \in 1..Len(p) /\ i \in 1..Len(p) + Len(q)
      BY <1>1
    <3> QED
      BY <1>1, <3>1
  <2> QED
    BY <2>1, <2>2
<1>4. T \in SUBSET Nat /\ T \subseteq 1..Len(p)
  BY <1>1
<1> HIDE DEF T, V
<1>5. CASE T = {}
  BY <1>2, <1>3, <1>5 DEF b
<1>6. CASE T # {}
  <2>1. Min(T) \in 1..Len(p)
    BY <1>4, <1>6, LeastOf
  <2> QED
    BY <1>1, <1>2, <1>3, <1>6, <2>1 DEF b
<1> QED
  BY <1>5, <1>6

LEMMA UpdatesTyped ==
  ASSUME NEW all \in Messages, NEW m \in Message
  PROVE  /\ Spoken(m) \in Seq(Updates) /\ CallUpdates(all, m) \in Seq(Updates)
         /\ Len(CallUpdates(all, m)) = Len(m.calls) /\ DOMAIN CallUpdates(all, m) = DOMAIN m.calls
         /\ m.role = "user" => Update("user", NoCall, m.from) \in Updates
         /\ m.content # 0 => Update("agent", NoCall, m.from) \in Updates
         /\ ReplayMessage(all, m) \in Seq(Updates)
         /\ ReplayMessage(all, m) =
              CASE m.role = "user" -> <<Update("user", NoCall, m.from)>>
                [] m.role = "assistant" -> Spoken(m) \o CallUpdates(all, m)
                [] OTHER -> <<>>
<1>1. m.from \in Seq(Nat) /\ m.calls \in Seq(Nat)
  BY DEF Message
<1>2. Update("user", NoCall, m.from) \in Updates /\ Update("agent", NoCall, m.from) \in Updates
  BY <1>1 DEF Update, Updates
<1>3. Spoken(m) \in Seq(Updates)
  BY <1>2, EmptySeq DEF Spoken
<1>4. Len(m.calls) \in Nat /\ DOMAIN m.calls = 1..Len(m.calls) /\ \A i \in 1..Len(m.calls) : m.calls[i] \in Nat
  BY <1>1, LenProperties, ElementOfSeq
<1>5. \A i \in 1..Len(m.calls) :
        Update("call", m.calls[i], ToolResultContent(all, m.calls[i])) \in Updates
  BY <1>4, ResultTyped DEF Update, Updates
<1>6. CallUpdates(all, m) \in [1..Len(m.calls) -> Updates]
  BY <1>4, <1>5 DEF CallUpdates
<1>7. CallUpdates(all, m) \in Seq(Updates) /\ Len(CallUpdates(all, m)) = Len(m.calls)
      /\ DOMAIN CallUpdates(all, m) = DOMAIN m.calls
  BY <1>4, <1>6
<1>8. ReplayMessage(all, m) =
        CASE m.role = "user" -> <<Update("user", NoCall, m.from)>>
          [] m.role = "assistant" -> Spoken(m) \o CallUpdates(all, m)
          [] OTHER -> <<>>
  BY DEF ReplayMessage, Spoken, CallUpdates
<1>9. ReplayMessage(all, m) \in Seq(Updates)
  <2>1. Spoken(m) \o CallUpdates(all, m) \in Seq(Updates)
    BY <1>3, <1>7, ConcatProperties
  <2>2. <<Update("user", NoCall, m.from)>> \in Seq(Updates) /\ <<>> \in Seq(Updates)
    BY <1>2
  <2> QED
    BY <1>8, <2>1, <2>2
<1> QED
  BY <1>2, <1>3, <1>7, <1>8, <1>9

LEMMA StandFor ==
  /\ Stands(Updates, Nat, Source) /\ Stands(Updates, Nat, CallOf)
  /\ Stands(Message, Nat, Text) /\ Stands(Message, Nat, Asked)
  /\ \A all \in Messages : Stands(Message, Updates, Tells(all)) /\ Stands(Message, Nat, Said(all))
<1>1. Stands(Updates, Nat, Source)
  BY DEF Stands, Source, Updates
<1>2. Stands(Updates, Nat, CallOf)
  <2>1. ASSUME NEW u \in Updates PROVE CallOf[u] \in Seq(Nat)
    <3>1. CASE u.kind = "call" /\ u.call \in Nat
      BY <3>1 DEF CallOf
    <3>2. CASE ~ u.kind = "call"
      BY <3>2 DEF CallOf
    <3> QED
      BY <3>1, <3>2 DEF Updates
  <2> QED
    BY <2>1 DEF Stands, CallOf
<1>3. Stands(Message, Nat, Text)
  BY EmptySeq DEF Stands, Text, Message
<1>4. Stands(Message, Nat, Asked)
  BY DEF Stands, Asked, Message
<1>5. ASSUME NEW all \in Messages PROVE Stands(Message, Updates, Tells(all))
  BY UpdatesTyped DEF Stands, Tells
<1>6. ASSUME NEW all \in Messages PROVE Stands(Message, Nat, Said(all))
  <2>1. \A m \in Message : ReplayMessage(all, m) \in Seq(Updates)
    BY UpdatesTyped
  <2>2. \A m \in Message : Each(Source, ReplayMessage(all, m)) \in Seq(Nat)
    BY <1>1, <2>1, EachAppend
  <2> QED
    BY <2>2 DEF Stands, Said
<1> QED
  BY <1>1, <1>2, <1>3, <1>4, <1>5, <1>6

LEMMA ReplayIs ==
  ASSUME NEW ms \in Messages
  PROVE  /\ ReplaySessionHistory(ms) = Each(Tells(ms), ms)
         /\ ReplaySessionHistory(ms) \in Seq(Updates)
         /\ Origins(ReplaySessionHistory(ms)) = Each(Said(ms), ms)
<1> DEFINE r == ReplaySessionHistory(ms)
<1>1. \A i \in DOMAIN ms : ms[i] \in Message
  BY LenProperties, ElementOfSeq DEF Messages
<1>2. r = Each(Tells(ms), ms)
  <2>1. [i \in DOMAIN ms |-> ReplayMessage(ms, ms[i])] = [i \in DOMAIN ms |-> Tells(ms)[ms[i]]]
    BY <1>1 DEF Tells
  <2> QED
    BY <2>1, Zenon DEF ReplaySessionHistory, Each
<1> HIDE DEF r
<1>3. r \in Seq(Updates)
  BY <1>2, StandFor, EachAppend DEF Messages
<1>4. Origins(r) = Each(Source, r)
  <2>1. \A i \in DOMAIN r : r[i] \in Updates
    BY <1>3, LenProperties, ElementOfSeq
  <2>2. [i \in DOMAIN r |-> r[i].from] = [i \in DOMAIN r |-> Source[r[i]]]
    BY <2>1 DEF Source
  <2> QED
    BY <2>2, Zenon DEF Origins, Each
<1>5. \A m \in Message : Said(ms)[m] = Each(Source, Tells(ms)[m])
  BY DEF Said, Tells
<1>6. Stands(Message, Updates, Tells(ms)) /\ Stands(Updates, Nat, Source)
  BY StandFor
<1>7. \A q \in Seq(Message) : Each(Source, Each(Tells(ms), q)) = Each(Said(ms), q)
  BY <1>5, <1>6, EachOfEach
<1>8. Each(Source, r) = Each(Said(ms), ms)
  BY <1>2, <1>7 DEF Messages
<1> QED
  BY <1>2, <1>3, <1>4, <1>8 DEF r

(* What the client is shown of the calls. *)
LEMMA CallsTold ==
  ASSUME NEW all \in Messages, NEW m \in Message
  PROVE  Each(CallOf, ReplayMessage(all, m)) = m.calls
<1> DEFINE x == Spoken(m)  y == CallUpdates(all, m)  u == Update("user", NoCall, m.from)
           a == Update("agent", NoCall, m.from)
<1>1. /\ x \in Seq(Updates) /\ y \in Seq(Updates) /\ DOMAIN y = DOMAIN m.calls
      /\ m.role = "user" => u \in Updates
      /\ m.content # 0 => a \in Updates
      /\ ReplayMessage(all, m) = CASE m.role = "user" -> <<u>> [] m.role = "assistant" -> x \o y [] OTHER -> <<>>
  BY UpdatesTyped
<1>2. m.calls \in Seq(Nat) /\ (m.role # "assistant" => m.calls = <<>>)
  BY DEF Message, Regular
<1>3. Stands(Updates, Nat, CallOf)
  BY StandFor
<1>4. CASE m.role = "user"
  <2>1. Each(CallOf, <<u>>) = CallOf[u]
    BY <1>1, <1>3, <1>4, EachOne
  <2>2. CallOf[u] = <<>>
    BY <1>1, <1>4 DEF CallOf, Update
  <2> QED
    BY <1>1, <1>2, <1>4, <2>1, <2>2
<1>5. CASE m.role = "assistant"
  <2>1. Each(CallOf, x) = <<>>
    <3>1. CASE m.content = 0
      <4>1. x = <<>>
        BY <3>1 DEF Spoken
      <4> QED
        BY <1>3, <4>1, EachAppend
    <3>2. CASE m.content # 0
      <4>1. x = <<a>> /\ a \in Updates
        BY <1>1, <3>2 DEF Spoken
      <4>2. CallOf[a] = <<>>
        BY <4>1 DEF CallOf, Update
      <4> HIDE DEF a
      <4>3. Each(CallOf, <<a>>) = CallOf[a]
        BY <1>3, <4>1, EachOne
      <4> QED
        BY <4>1, <4>2, <4>3
    <3> QED
      BY <3>1, <3>2
  <2>2. Each(CallOf, y) = m.calls
    <3> DEFINE f == [c \in Nat |-> <<c>>]
    <3>1. \A i \in DOMAIN m.calls : m.calls[i] \in Nat
      BY <1>2, LenProperties, ElementOfSeq
    <3>2. ASSUME NEW i \in DOMAIN m.calls PROVE CallOf[y[i]] = f[m.calls[i]]
      <4>1. y[i] \in Updates
        BY <1>1, LenProperties, ElementOfSeq
      <4>2. y[i].kind = "call" /\ y[i].call = m.calls[i]
        BY DEF CallUpdates, Update
      <4> QED
        BY <3>1, <4>1, <4>2 DEF CallOf
    <3>3. \A c \in Nat : f[c] = <<c>>
      OBVIOUS
    <3> HIDE DEF f, y
    <3>4. [i \in DOMAIN y |-> CallOf[y[i]]] = [i \in DOMAIN m.calls |-> f[m.calls[i]]]
      BY <1>1, <3>2
    <3>5. Each(CallOf, y) = Each(f, m.calls)
      BY <3>4, Zenon DEF Each
    <3>6. Each(f, m.calls) = m.calls
      BY <1>2, <3>3, EachItself
    <3> QED
      BY <3>5, <3>6
  <2> HIDE DEF x, y
  <2>3. Each(CallOf, x \o y) = Each(CallOf, x) \o Each(CallOf, y)
    BY <1>1, <1>3, EachBoth
  <2>4. <<>> \o m.calls = m.calls
    BY <1>2, ConcatEmptySeq
  <2>5. Each(CallOf, x \o y) = m.calls
    BY <2>1, <2>2, <2>3, <2>4, Zenon
  <2> QED
    BY <1>1, <1>5, <2>5
<1>6. CASE m.role # "user" /\ m.role # "assistant"
  <2>1. ReplayMessage(all, m) = <<>>
    BY <1>1, <1>6
  <2>2. Each(CallOf, <<>>) = <<>>
    BY <1>3, EachAppend
  <2> QED
    BY <1>2, <1>6, <2>1, <2>2
<1> QED
  BY <1>4, <1>5, <1>6

LEMMA CallsShown ==
  ASSUME NEW ms \in Messages
  PROVE  Each(CallOf, ReplaySessionHistory(ms)) = Each(Asked, ms)
<1>1. \A m \in Message : Asked[m] = Each(CallOf, Tells(ms)[m])
  BY CallsTold DEF Asked, Tells
<1>2. Stands(Message, Updates, Tells(ms)) /\ Stands(Updates, Nat, CallOf)
  BY StandFor
<1>3. \A q \in Seq(Message) : Each(CallOf, Each(Tells(ms), q)) = Each(Asked, q)
  BY <1>1, <1>2, EachOfEach
<1> QED
  BY <1>3, ReplayIs DEF Messages

(* The texts of a conversation. *)
LEMMA TextsAre ==
  ASSUME NEW ms \in Messages
  PROVE  Origins(Only(ms, {m \in ToSet(ms) : m.content > 0})) = Each(Text, ms)
<1> DEFINE kept == {m \in ToSet(ms) : m.content > 0}
           Keep == [m \in Message |-> IF m.content > 0 THEN <<m>> ELSE <<>>]
           Place == [m \in Message |-> m.from]
<1>1. \A i \in DOMAIN ms : ms[i] \in Message /\ ms[i] \in ToSet(ms)
  BY LenProperties, ElementOfSeq DEF Messages, ToSet
<1>2. Only(ms, kept) = Each(Keep, ms)
  <2>1. \A i \in DOMAIN ms : ms[i] \in kept <=> ms[i].content > 0
    BY <1>1
  <2>2. [i \in DOMAIN ms |-> IF ms[i] \in kept THEN <<ms[i]>> ELSE <<>>] = [i \in DOMAIN ms |-> Keep[ms[i]]]
    BY <1>1, <2>1
  <2> HIDE DEF kept, Keep
  <2> QED
    BY <2>2, Zenon DEF Only, Each
<1>3. Stands(Message, Message, Keep) /\ Stands(Message, Nat, Place)
  <2>1. Keep \in [Message -> Seq(Message)]
    OBVIOUS
  <2>2. \A m \in Message : m.from \in Seq(Nat)
    BY DEF Message
  <2>3. Place \in [Message -> Seq(Nat)]
    BY <2>2
  <2> QED
    BY <2>1, <2>3 DEF Stands
<1>4. ASSUME NEW m \in Message PROVE Text[m] = Each(Place, Keep[m])
  <2>1. CASE m.content > 0
    <3>1. Keep[m] = <<m>> /\ Text[m] = Place[m]
      BY <2>1 DEF Text
    <3> HIDE DEF Keep, Place
    <3>2. Each(Place, <<m>>) = Place[m]
      BY <1>3, EachOne
    <3> QED
      BY <3>1, <3>2
  <2>2. CASE ~ m.content > 0
    <3>1. Keep[m] = <<>> /\ Text[m] = <<>>
      BY <2>2 DEF Text
    <3> HIDE DEF Keep, Place
    <3>2. Each(Place, <<>>) = <<>>
      BY <1>3, EachAppend
    <3> QED
      BY <3>1, <3>2
  <2> QED
    BY <2>1, <2>2
<1>5. \A q \in Messages : Origins(q) = Each(Place, q)
  <2> SUFFICES ASSUME NEW q \in Messages PROVE Origins(q) = Each(Place, q)
    OBVIOUS
  <2>1. \A i \in DOMAIN q : q[i] \in Message
    BY LenProperties, ElementOfSeq DEF Messages
  <2>2. [i \in DOMAIN q |-> q[i].from] = [i \in DOMAIN q |-> Place[q[i]]]
    BY <2>1
  <2> HIDE DEF Place
  <2> QED
    BY <2>2, Zenon DEF Origins, Each
<1> HIDE DEF Keep, Place
<1>6. \A q \in Seq(Message) : Each(Place, Each(Keep, q)) = Each(Text, q)
  BY <1>3, <1>4, EachOfEach
<1>7. Each(Keep, ms) \in Messages
  BY <1>3, EachAppend DEF Messages
<1> QED
  BY <1>2, <1>5, <1>6, <1>7 DEF Messages

-----------------------------------------------------------------------------
(***************************************************************************)
(* A conversation that is replayed right stays so when a prompt, a reply   *)
(* or a reply with its results come behind it.                             *)
(***************************************************************************)
OneAnswer(ms) ==
  \A i, j \in 1..Len(ms) :
    ms[i].role = "tool" /\ ms[j].role = "tool" /\ ms[i].answers = ms[j].answers => i = j

Told(ms) == Each(Said(ms), ms) = Each(Text, ms) /\ OneAnswer(ms)

(* q neither answers a call of p nor one that p answered.                  *)
News(p, q) ==
  /\ \A i \in 1..Len(p), j \in 1..Len(q) : \A c \in ToSet(p[i].calls) : ~Answers(q[j], c)
  /\ \A i \in 1..Len(p), j \in 1..Len(q) :
       p[i].role = "tool" /\ q[j].role = "tool" => p[i].answers # q[j].answers

LEMMA SaidBefore ==
  ASSUME NEW p \in Messages, NEW q \in Messages, NEW m \in Message,
         \A c \in ToSet(m.calls), j \in 1..Len(q) : ~Answers(q[j], c)
  PROVE  Said(p \o q)[m] = Said(p)[m]
<1>1. p \o q \in Messages
  BY PlacesOfBoth
<1>2. \A i \in DOMAIN m.calls :
        ToolResultContent(p \o q, m.calls[i]) = ToolResultContent(p, m.calls[i])
  <2>1. \A i \in DOMAIN m.calls : m.calls[i] \in ToSet(m.calls)
    BY DEF ToSet
  <2> QED
    BY <2>1, ResultBehind
<1>3. CallUpdates(p \o q, m) = CallUpdates(p, m)
  BY <1>2 DEF CallUpdates
<1>4. ReplayMessage(p \o q, m) = ReplayMessage(p, m)
  <2>1. \A all \in Messages : ReplayMessage(all, m) =
              CASE m.role = "user" -> <<Update("user", NoCall, m.from)>>
                [] m.role = "assistant" -> Spoken(m) \o CallUpdates(all, m)
                [] OTHER -> <<>>
    BY UpdatesTyped
  <2> DEFINE b == p \o q
  <2>2. b \in Messages /\ CallUpdates(b, m) = CallUpdates(p, m)
    BY <1>1, <1>3
  <2> HIDE DEF b
  <2>3. ReplayMessage(b, m) = ReplayMessage(p, m)
    <3>1. CASE m.role = "user"
      BY <2>1, <2>2, <3>1
    <3>2. CASE m.role = "assistant"
      <4>1. ReplayMessage(b, m) = Spoken(m) \o CallUpdates(b, m)
        BY <2>1, <2>2, <3>2
      <4>2. ReplayMessage(p, m) = Spoken(m) \o CallUpdates(p, m)
        BY <2>1, <3>2
      <4> QED
        BY <2>2, <4>1, <4>2, Zenon
    <3>3. CASE m.role # "user" /\ m.role # "assistant"
      BY <2>1, <2>2, <3>3
    <3> QED
      BY <3>1, <3>2, <3>3
  <2> QED
    BY <2>3 DEF b
<1> QED
  BY <1>4 DEF Said

LEMMA ToldGrows ==
  ASSUME NEW p \in Messages, NEW q \in Messages, Told(p), News(p, q), OneAnswer(q),
         Each(Said(p \o q), q) = Each(Text, q)
  PROVE  Told(p \o q)
<1> DEFINE b == p \o q
<1>1. /\ b \in Messages
      /\ DOMAIN p = 1..Len(p) /\ Len(p) \in Nat /\ Len(q) \in Nat /\ Len(b) = Len(p) + Len(q)
      /\ \A i \in 1..Len(p) : b[i] = p[i]
      /\ \A i \in 1..Len(q) : b[Len(p) + i] = q[i]
      /\ \A i \in 1..Len(p) + Len(q) : i \in 1..Len(p) \/ \E k \in 1..Len(q) : i = Len(p) + k
  BY PlacesOfBoth
<1>2. Each(Said(b), p) = Each(Said(p), p)
  <2>1. \A i \in DOMAIN p : p[i] \in Message
    BY LenProperties, ElementOfSeq DEF Messages
  <2>2. \A i \in DOMAIN p : Said(b)[p[i]] = Said(p)[p[i]]
    BY <1>1, <2>1, SaidBefore DEF News
  <2> QED
    BY <2>2, EachSame
<1>3. \A f : Stands(Message, Nat, f) => Each(f, b) = Each(f, p) \o Each(f, q)
  <2>1. p \in Seq(Message) /\ q \in Seq(Message)
    BY DEF Messages
  <2> QED
    BY <2>1, EachBoth
<1>4. Stands(Message, Nat, Said(b)) /\ Stands(Message, Nat, Text)
  BY <1>1, StandFor
<1>5. Each(Said(p), p) = Each(Text, p) /\ Each(Said(b), q) = Each(Text, q)
  BY DEF Told
<1> HIDE DEF b
<1>6. Each(Said(b), b) = Each(Text, b)
  <2>1. Each(Said(b), b) = Each(Said(b), p) \o Each(Said(b), q)
    BY <1>3, <1>4
  <2>2. Each(Text, b) = Each(Text, p) \o Each(Text, q)
    BY <1>3, <1>4
  <2> QED
    BY <1>2, <1>5, <2>1, <2>2, Zenon
<1>7. ASSUME NEW i \in 1..Len(b), NEW j \in 1..Len(b), b[i].role = "tool", b[j].role = "tool",
             b[i].answers = b[j].answers
      PROVE  i = j
  <2>1. i \in 1..Len(p) \/ \E k \in 1..Len(q) : i = Len(p) + k
    BY <1>1
  <2>2. j \in 1..Len(p) \/ \E k \in 1..Len(q) : j = Len(p) + k
    BY <1>1
  <2>3. CASE i \in 1..Len(p) /\ j \in 1..Len(p)
    BY <1>1, <1>7, <2>3 DEF Told, OneAnswer
  <2>4. ASSUME i \in 1..Len(p), NEW k \in 1..Len(q), j = Len(p) + k PROVE FALSE
    <3>1. b[i] = p[i] /\ b[j] = q[k]
      BY <1>1, <2>4
    <3> QED
      BY <1>7, <2>4, <3>1 DEF News
  <2>5. ASSUME j \in 1..Len(p), NEW k \in 1..Len(q), i = Len(p) + k PROVE FALSE
    <3>1. b[j] = p[j] /\ b[i] = q[k]
      BY <1>1, <2>5
    <3> QED
      BY <1>7, <2>5, <3>1 DEF News
  <2>6. ASSUME NEW k \in 1..Len(q), i = Len(p) + k, NEW l \in 1..Len(q), j = Len(p) + l
        PROVE  i = j
    <3>1. b[i] = q[k] /\ b[j] = q[l]
      BY <1>1, <2>6
    <3>2. k = l
      BY <1>7, <3>1 DEF OneAnswer
    <3> QED
      BY <2>6, <3>2
  <2> QED
    BY <2>1, <2>2, <2>3, <2>4, <2>5, <2>6
<1>8. Told(b)
  BY <1>6, <1>7 DEF Told, OneAnswer
<1> QED
  BY <1>8 DEF b

(* Ids of a sound conversation are below those of the next message.        *)
LEMMA SoundIds ==
  ASSUME NEW ms, Sound(ms), NEW i \in 1..Len(ms)
  PROVE  /\ \A c \in ToSet(ms[i].calls) : c \in Nat /\ c <= MaxCalls * (Len(ms) + 1)
         /\ ms[i].role = "tool" =>
              ms[i].answers \in Nat /\ ms[i].answers <= MaxCalls * (Len(ms) + 1)
<1>1. ms \in Messages /\ Len(ms) \in Nat /\ MaxCalls \in Nat /\ \A j \in 1..Len(ms) : ms[j] \in Message
  BY LenProperties, ElementOfSeq, ConversationAssumption DEF Sound, Messages, ConversationAssumption
<1>2. ASSUME NEW j \in 1..Len(ms), NEW c \in ToSet(ms[j].calls)
      PROVE  c \in Nat /\ c <= MaxCalls * (Len(ms) + 1)
  <2>1. c <= MaxCalls * (j + 1)
    BY DEF Sound, Placed
  <2>2. c \in Nat
    <3>1. ms[j].calls \in Seq(Nat)
      BY <1>1 DEF Message
    <3> QED
      BY <3>1, LenProperties, ElementOfSeq DEF ToSet
  <2>3. j \in Nat /\ Len(ms) + 1 \in Nat /\ j < Len(ms) + 1
    BY <1>1
  <2>4. MaxCalls * (j + 1) \in Nat /\ MaxCalls * (Len(ms) + 1) \in Nat
        /\ MaxCalls * (j + 1) <= MaxCalls * (Len(ms) + 1)
    BY <1>1, <2>3, Ranges
  <2> QED
    BY <2>1, <2>2, <2>4
<1>3. ASSUME ms[i].role = "tool"
      PROVE  ms[i].answers \in Nat /\ ms[i].answers <= MaxCalls * (Len(ms) + 1)
  <2>1. PICK j \in 1..i - 1 : ms[i].answers \in ToSet(ms[j].calls)
    BY <1>3 DEF Sound, Paired
  <2>2. j \in 1..Len(ms)
    BY <1>1
  <2> QED
    BY <1>2, <2>1, <2>2
<1> QED
  BY <1>2, <1>3

LEMMA UserTold ==
  ASSUME NEW p, Sound(p), Told(p), NEW n \in Nat \ {0}, NEW at \in Nat
  PROVE  Told(Append(p, User(n, at)))
<1> DEFINE m == User(n, at)  q == <<m>>  u == Update("user", NoCall, m.from)  all == p \o q
<1>1. m \in Message /\ m.role = "user" /\ m.content = n
  BY UserRight DEF User, ChatMessage
<1> HIDE DEF m
<1>2. p \in Messages /\ q \in Messages /\ Append(p, m) = p \o q /\ Len(q) = 1 /\ q[1] = m
  BY <1>1, AppendIsConcat DEF Sound, Messages
<1>3. all \in Messages
  BY <1>2, PlacesOfBoth
<1>4. Said(all)[m] = m.from
  <2>1. ReplayMessage(all, m) = <<u>> /\ u \in Updates
    BY <1>1, <1>3, UpdatesTyped
  <2>2. Source[u] = m.from
    BY <2>1 DEF Source, Update
  <2> HIDE DEF u, all
  <2>3. Each(Source, <<u>>) = Source[u]
    BY <2>1, StandFor, EachOne
  <2> QED
    BY <1>1, <2>1, <2>2, <2>3 DEF Said
<1>5. Text[m] = m.from
  BY <1>1 DEF Text
<1>6. Each(Said(all), q) = Each(Text, q)
  <2>1. Each(Said(all), q) = Said(all)[m] /\ Each(Text, q) = Text[m]
    BY <1>1, <1>3, StandFor, EachOne
  <2> QED
    BY <1>4, <1>5, <2>1
<1>7. News(p, q) /\ OneAnswer(q)
  BY <1>1, <1>2 DEF News, OneAnswer, Answers
<1>8. Told(p \o q)
  BY <1>2, <1>6, <1>7, ToldGrows
<1> QED
  BY <1>2, <1>8 DEF m

(* What a reply says, given what its calls returned.                       *)
LEMMA ReplySays ==
  ASSUME NEW all \in Messages, NEW m \in Message, m.role = "assistant"
  PROVE  Said(all)[m] = Text[m] \o
           FlattenSeq([i \in DOMAIN m.calls |-> ToolResultContent(all, m.calls[i])])
<1> DEFINE x == Spoken(m)  y == CallUpdates(all, m)  a == Update("agent", NoCall, m.from)
           r == [i \in DOMAIN m.calls |-> ToolResultContent(all, m.calls[i])]
<1>1. /\ x \in Seq(Updates) /\ y \in Seq(Updates) /\ DOMAIN y = DOMAIN m.calls
      /\ m.content # 0 => a \in Updates
      /\ ReplayMessage(all, m) = x \o y
  BY UpdatesTyped
<1>2. Stands(Updates, Nat, Source) /\ m.content \in Nat
  BY StandFor DEF Message
<1>3. Each(Source, x) = Text[m]
  <2>1. CASE m.content = 0
    <3>1. x = <<>> /\ Text[m] = <<>>
      BY <2>1 DEF Spoken, Text
    <3> QED
      BY <1>2, <3>1, EachAppend
  <2>2. CASE m.content # 0
    <3>1. x = <<a>> /\ a \in Updates /\ Source[a] = m.from
      BY <1>1, <2>2 DEF Spoken, Source, Update
    <3>2. Text[m] = m.from
      BY <1>2, <2>2 DEF Text
    <3> HIDE DEF a
    <3>3. Each(Source, <<a>>) = Source[a]
      BY <1>2, <3>1, EachOne
    <3> QED
      BY <3>1, <3>2, <3>3
  <2> QED
    BY <2>1, <2>2
<1>4. Each(Source, y) = FlattenSeq(r)
  <2>1. \A i \in DOMAIN y : y[i] \in Updates
    BY <1>1, LenProperties, ElementOfSeq
  <2>2. \A i \in DOMAIN m.calls : y[i].from = ToolResultContent(all, m.calls[i])
    BY DEF CallUpdates, Update
  <2> HIDE DEF y
  <2>3. \A i \in DOMAIN y : Source[y[i]] = r[i]
    BY <1>1, <2>1, <2>2 DEF Source
  <2>4. [i \in DOMAIN y |-> Source[y[i]]] = r
    BY <1>1, <2>3
  <2> QED
    BY <2>4, Zenon DEF Each
<1>5. Said(all)[m] = Each(Source, ReplayMessage(all, m))
  BY DEF Said
<1> HIDE DEF x, y, r
<1>6. Each(Source, x \o y) = Each(Source, x) \o Each(Source, y)
  BY <1>1, <1>2, EachBoth
<1>7. Said(all)[m] = Text[m] \o FlattenSeq(r)
  BY <1>1, <1>3, <1>4, <1>5, <1>6, Zenon
<1> QED
  BY <1>7 DEF r

(* Ids of a reply are above all that were used before.                     *)
Fresh(p, ids) ==
  \A i \in DOMAIN ids : ids[i] \in Nat /\ ids[i] > MaxCalls * (Len(p) + 1)

LEMMA FreshCalls ==
  ASSUME NEW p, Sound(p), NEW k \in 0..MaxCalls, NEW ids,
         ids = [i \in 1..k |-> MaxCalls * (Len(p) + 1) + i]
  PROVE  Fresh(p, ids) /\ DOMAIN ids = 1..k /\ \A i, j \in 1..k : ids[i] = ids[j] => i = j
<1>1. MaxCalls \in Nat /\ Len(p) \in Nat
  BY LenProperties, ConversationAssumption DEF Sound, Messages, ConversationAssumption
<1>2. PICK base \in Nat : base = MaxCalls * (Len(p) + 1)
  <2>1. MaxCalls * (Len(p) + 1) \in Nat
    BY <1>1
  <2> QED
    BY <2>1
<1>3. ids = [i \in 1..k |-> base + i] /\ k \in Nat
  BY <1>1, <1>2
<1>4. DOMAIN ids = 1..k /\ \A i \in 1..k : ids[i] \in Nat /\ ids[i] > base /\ ids[i] = base + i
  BY <1>3
<1>5. \A i, j \in 1..k : ids[i] = ids[j] => i = j
  BY <1>3, <1>4
<1> QED
  BY <1>2, <1>4, <1>5 DEF Fresh

(* A reply whose calls are not run.                                        *)
LEMMA ReplyTold ==
  ASSUME NEW p, Sound(p), Told(p), NEW m \in Message, m.role = "assistant", Fresh(p, m.calls)
  PROVE  Told(Append(p, m))
<1> DEFINE q == <<m>>  all == p \o q  none == [i \in DOMAIN m.calls |-> <<>>]
<1>1. p \in Messages /\ q \in Messages /\ Append(p, m) = p \o q /\ Len(q) = 1 /\ q[1] = m
  BY AppendIsConcat DEF Sound, Messages
<1>2. /\ all \in Messages /\ Len(p) \in Nat /\ Len(all) = Len(p) + Len(q)
      /\ \A i \in 1..Len(p) : all[i] = p[i]
      /\ \A i \in 1..Len(q) : all[Len(p) + i] = q[i]
      /\ \A i \in 1..Len(p) + Len(q) : i \in 1..Len(p) \/ \E k \in 1..Len(q) : i = Len(p) + k
  BY <1>1, PlacesOfBoth
<1>3. ASSUME NEW i \in DOMAIN m.calls PROVE ToolResultContent(all, m.calls[i]) = <<>>
  <2>1. ASSUME NEW j \in 1..Len(all), Answers(all[j], m.calls[i]) PROVE FALSE
    <3>1. CASE j \in 1..Len(p)
      <4>1. p[j].role = "tool" /\ p[j].answers = m.calls[i]
        BY <1>2, <2>1, <3>1 DEF Answers
      <4>2. p[j].answers \in Nat /\ p[j].answers <= MaxCalls * (Len(p) + 1)
        BY <3>1, <4>1, SoundIds
      <4>3. m.calls[i] > MaxCalls * (Len(p) + 1)
        BY DEF Fresh
      <4>4. MaxCalls * (Len(p) + 1) \in Nat
        BY <1>2, ConversationAssumption DEF ConversationAssumption
      <4> QED
        BY <4>1, <4>2, <4>3, <4>4
    <3>2. CASE \E k \in 1..Len(q) : j = Len(p) + k
      <4>1. all[j] = m
        BY <1>1, <1>2, <3>2
      <4> QED
        BY <2>1, <4>1 DEF Answers
    <3> QED
      BY <1>2, <2>1, <3>1, <3>2
  <2> HIDE DEF all
  <2> QED
    BY <1>2, <2>1, ResultNone
<1> HIDE DEF all
<1>4. [i \in DOMAIN m.calls |-> ToolResultContent(all, m.calls[i])] = none
  BY <1>3
<1>5. FlattenSeq(none) = <<>>
  <2> DEFINE f == [c \in Nat |-> <<>>]
  <2>1. m.calls \in Seq(Nat) /\ \A i \in DOMAIN m.calls : m.calls[i] \in Nat
    BY LenProperties, ElementOfSeq DEF Message
  <2>2. \A i \in DOMAIN m.calls : f[m.calls[i]] = <<>>
    BY <2>1
  <2> HIDE DEF f
  <2>3. Each(f, m.calls) = <<>>
    BY <2>1, <2>2, EachNothing
  <2>4. [i \in DOMAIN m.calls |-> f[m.calls[i]]] = none
    BY <2>2
  <2> HIDE DEF none
  <2> QED
    BY <2>3, <2>4, Zenon DEF Each
<1> HIDE DEF none
<1>6. Said(all)[m] = Text[m]
  <2>1. Said(all)[m] = Text[m] \o FlattenSeq([i \in DOMAIN m.calls |-> ToolResultContent(all, m.calls[i])])
    BY <1>2, ReplySays
  <2>2. Text[m] \in Seq(Nat)
    BY StandFor DEF Stands
  <2>3. Text[m] \o <<>> = Text[m]
    BY <2>2, ConcatEmptySeq
  <2> QED
    BY <1>4, <1>5, <2>1, <2>3, Zenon
<1>7. Each(Said(all), q) = Each(Text, q)
  <2>1. Each(Said(all), q) = Said(all)[m] /\ Each(Text, q) = Text[m]
    BY <1>2, StandFor, EachOne
  <2> QED
    BY <1>6, <2>1
<1>8. News(p, q) /\ OneAnswer(q)
  BY <1>1 DEF News, OneAnswer, Answers
<1>9. Told(p \o q)
  BY <1>1, <1>7, <1>8, ToldGrows DEF all
<1> QED
  BY <1>1, <1>9

(* A reply with the results of its calls behind it.                        *)
Results(ids, r) ==
  /\ Len(r) = Len(ids)
  /\ \A i \in 1..Len(ids) : r[i].role = "tool" /\ r[i].answers = ids[i] /\ r[i].content > 0

LEMMA CycleTold ==
  ASSUME NEW p, Sound(p), Told(p), NEW m \in Message, m.role = "assistant", Fresh(p, m.calls),
         \A i, j \in 1..Len(m.calls) : m.calls[i] = m.calls[j] => i = j,
         NEW r \in Messages, Results(m.calls, r)
  PROVE  Told(Append(p, m) \o r)
<1> DEFINE one == <<m>>  q == one \o r  all == p \o q  k == Len(m.calls)
<1>1. p \in Messages /\ one \in Messages /\ Append(p, m) = p \o one /\ Len(one) = 1 /\ one[1] = m
  BY AppendIsConcat DEF Sound, Messages
<1> HIDE DEF one
<1>2. k \in Nat /\ DOMAIN m.calls = 1..k /\ Len(r) = k /\ DOMAIN r = 1..k
  BY LenProperties DEF Message, Messages, Results
<1>3. /\ q \in Messages /\ Len(q) = 1 + k /\ q[1] = m
      /\ \A i \in 1..k : q[1 + i] = r[i]
      /\ \A j \in 1..1 + k : j = 1 \/ \E i \in 1..k : j = 1 + i
  <2>1. /\ q \in Messages /\ Len(q) = Len(one) + Len(r)
        /\ \A i \in 1..Len(one) : q[i] = one[i]
        /\ \A i \in 1..Len(r) : q[Len(one) + i] = r[i]
        /\ \A i \in 1..Len(one) + Len(r) : i \in 1..Len(one) \/ \E j \in 1..Len(r) : i = Len(one) + j
    <3>1. one \in Messages /\ r \in Messages
      BY <1>1
    <3> QED
      BY <3>1, PlacesOfBoth
  <2> HIDE DEF q, k
  <2> QED
    BY <1>1, <1>2, <2>1
<1>4. Append(p, m) \o r = p \o q
  BY <1>1, ConcatAssociative DEF Messages
<1> HIDE DEF q
<1>5. /\ all \in Messages /\ Len(p) \in Nat /\ Len(all) = Len(p) + Len(q)
      /\ \A i \in 1..Len(p) : all[i] = p[i]
      /\ \A i \in 1..Len(q) : all[Len(p) + i] = q[i]
      /\ \A i \in 1..Len(p) + Len(q) : i \in 1..Len(p) \/ \E l \in 1..Len(q) : i = Len(p) + l
  <2>1. p \in Messages /\ q \in Messages
    BY <1>1, <1>3
  <2> QED
    BY <2>1, PlacesOfBoth
<1> HIDE DEF all
<1>6. PICK base \in Nat : base = MaxCalls * (Len(p) + 1)
  <2>1. MaxCalls * (Len(p) + 1) \in Nat
    BY <1>5, ConversationAssumption DEF ConversationAssumption
  <2> QED
    BY <2>1
<1>7. \A i \in 1..k : m.calls[i] \in Nat /\ m.calls[i] > base
  BY <1>2, <1>6 DEF Fresh
<1>8. \A j \in 1..Len(p) :
        /\ \A c \in ToSet(p[j].calls) : c \in Nat /\ c <= base
        /\ p[j].role = "tool" => p[j].answers \in Nat /\ p[j].answers <= base
  BY <1>6, SoundIds
<1>9. \A i \in 1..k : r[i].role = "tool" /\ r[i].answers = m.calls[i] /\ r[i].content > 0
  BY DEF Results
<1> HIDE DEF k
<1>10. ASSUME NEW j \in 1..Len(q), q[j].role = "tool" PROVE \E i \in 1..k : j = 1 + i /\ q[j] = r[i]
  <2>1. j # 1
    BY <1>3, <1>10
  <2> QED
    BY <1>3, <2>1
<1>11. ASSUME NEW i \in 1..k PROVE ToolResultContent(all, m.calls[i]) = r[i].from
  <2> DEFINE at == Len(p) + (1 + i)
  <2>1. 1 + i \in 1..Len(q) /\ at \in 1..Len(all)
    BY <1>2, <1>3, <1>5
  <2>2. all[at] = r[i]
    BY <1>3, <1>5, <2>1
  <2>3. Answers(all[at], m.calls[i])
    BY <1>9, <2>2 DEF Answers
  <2>4. ASSUME NEW j \in 1..Len(all), Answers(all[j], m.calls[i]) PROVE j = at
    <3>1. CASE j \in 1..Len(p)
      <4>1. p[j].role = "tool" /\ p[j].answers = m.calls[i]
        BY <1>5, <2>4, <3>1 DEF Answers
      <4> QED
        BY <1>7, <1>8, <3>1, <4>1
    <3>2. CASE \E l \in 1..Len(q) : j = Len(p) + l
      <4>1. PICK l \in 1..Len(q) : j = Len(p) + l
        BY <3>2
      <4>2. q[l].role = "tool" /\ q[l].answers = m.calls[i]
        BY <1>5, <2>4, <4>1 DEF Answers
      <4>3. PICK h \in 1..k : l = 1 + h /\ q[l] = r[h]
        BY <1>10, <4>2
      <4>4. h = i
        BY <1>9, <4>2, <4>3 DEF k
      <4> QED
        BY <4>1, <4>3, <4>4
    <3> QED
      BY <1>5, <3>1, <3>2
  <2> HIDE DEF at
  <2>5. ToolResultContent(all, m.calls[i]) = all[at].from
    BY <1>5, <2>1, <2>3, <2>4, ResultIs
  <2> QED
    BY <2>2, <2>5
<1>12. Said(all)[m] = Text[m] \o Each(Text, r)
  <2>1. Said(all)[m] = Text[m] \o FlattenSeq([i \in DOMAIN m.calls |-> ToolResultContent(all, m.calls[i])])
    BY <1>5, ReplySays
  <2>2. \A i \in 1..k : r[i] \in Message
    BY <1>2, ElementOfSeq DEF Messages
  <2>3. \A i \in 1..k : Text[r[i]] = r[i].from
    BY <1>9, <2>2 DEF Text
  <2>4. [i \in DOMAIN m.calls |-> ToolResultContent(all, m.calls[i])] = [i \in DOMAIN r |-> Text[r[i]]]
    BY <1>2, <1>11, <2>3 DEF k
  <2> QED
    BY <2>1, <2>4, Zenon DEF Each
<1>13. Each(Said(all), r) = <<>>
  <2>1. \A i \in DOMAIN r : r[i] \in Message /\ r[i].role = "tool"
    BY <1>2, <1>9, ElementOfSeq DEF Messages
  <2>2. ASSUME NEW t \in Message, t.role = "tool" PROVE Said(all)[t] = <<>>
    <3>1. ReplayMessage(all, t) = <<>>
      BY <2>2 DEF ReplayMessage
    <3>2. Each(Source, <<>>) = <<>>
      BY StandFor, EachAppend
    <3> QED
      BY <3>1, <3>2 DEF Said
  <2>3. \A i \in DOMAIN r : Said(all)[r[i]] = <<>>
    BY <2>1, <2>2
  <2> QED
    BY <2>3, EachNothing DEF Messages
<1>14. Each(Said(all), q) = Each(Text, q)
  <2>1. Stands(Message, Nat, Said(all)) /\ Stands(Message, Nat, Text)
    BY <1>5, StandFor
  <2>2. one \in Seq(Message) /\ r \in Seq(Message)
    BY <1>1 DEF Messages
  <2>3. \A f : Stands(Message, Nat, f) => Each(f, one \o r) = Each(f, one) \o Each(f, r) /\ Each(f, <<m>>) = f[m]
    BY <2>2, EachBoth, EachOne
  <2>4. Text[m] \in Seq(Nat) /\ Each(Text, r) \in Seq(Nat)
    <3>1. Each(Text, r) \in Seq(Nat)
      BY <2>1, <2>2, EachAppend
    <3>2. Text[m] \in Seq(Nat)
      BY <2>1 DEF Stands
    <3> QED
      BY <3>1, <3>2
  <2>5. Each(Said(all), q) = Said(all)[m] \o <<>>
    BY <1>13, <2>1, <2>3, Zenon DEF q, one
  <2>6. Each(Text, q) = Text[m] \o Each(Text, r)
    BY <2>1, <2>3, Zenon DEF q, one
  <2>7. Said(all)[m] \o <<>> = Said(all)[m]
    <3>1. Said(all)[m] \in Seq(Nat)
      BY <2>1 DEF Stands
    <3> QED
      BY <3>1, ConcatEmptySeq
  <2> QED
    BY <1>12, <2>5, <2>6, <2>7, Zenon
<1>15. News(p, q)
  <2>1. ASSUME NEW i \in 1..Len(p), NEW j \in 1..Len(q), NEW c \in ToSet(p[i].calls), Answers(q[j], c)
        PROVE  FALSE
    <3>1. PICK h \in 1..k : q[j] = r[h]
      BY <1>10, <2>1 DEF Answers
    <3>2. c = m.calls[h]
      BY <1>9, <2>1, <3>1 DEF Answers
    <3> QED
      BY <1>7, <1>8, <3>2
  <2>2. ASSUME NEW i \in 1..Len(p), NEW j \in 1..Len(q), p[i].role = "tool", q[j].role = "tool",
               p[i].answers = q[j].answers
        PROVE  FALSE
    <3>1. PICK h \in 1..k : q[j] = r[h]
      BY <1>10, <2>2
    <3>2. p[i].answers = m.calls[h]
      BY <1>9, <2>2, <3>1
    <3> QED
      BY <1>7, <1>8, <2>2, <3>2
  <2> QED
    BY <2>1, <2>2 DEF News
<1>16. OneAnswer(q)
  <2> SUFFICES ASSUME NEW i \in 1..Len(q), NEW j \in 1..Len(q), q[i].role = "tool", q[j].role = "tool",
                      q[i].answers = q[j].answers
               PROVE  i = j
    BY DEF OneAnswer
  <2>1. PICK h \in 1..k : i = 1 + h /\ q[i] = r[h]
    BY <1>10
  <2>2. PICK l \in 1..k : j = 1 + l /\ q[j] = r[l]
    BY <1>10
  <2>3. m.calls[h] = m.calls[l]
    BY <1>9, <2>1, <2>2
  <2> QED
    BY <2>1, <2>2, <2>3 DEF k
<1>17. Told(p \o q)
  BY <1>1, <1>3, <1>14, <1>15, <1>16, ToldGrows DEF all
<1> QED
  BY <1>4, <1>17

(***************************************************************************)
(* Every conversation the turns grow is replayed right.                    *)
(***************************************************************************)
ReplayInv == Told(history) /\ Told(messages)

LEMMA ReplayInit == Init => ReplayInv
<1>1. <<>> \in Messages
  BY DEF Messages
<1>2. Each(Said(<<>>), <<>>) = <<>> /\ Each(Text, <<>>) = <<>>
  BY <1>1, StandFor, EachAppend
<1>3. Told(<<>>)
  BY <1>2 DEF Told, OneAnswer
<1> QED
  BY <1>3 DEF Init, ReplayInv

LEMMA ReplayCycle ==
  ASSUME ConvInv, Told(messages), phase = "request", NEW n \in Nat, NEW results \in ResultSizes
  PROVE  LET ids == CallIds(Len(results)) IN
         Told(Append(messages, Assistant(n, ids, Position)) \o
                [i \in DOMAIN results |-> Tool(ids[i], results[i], Position + i)])
<1> DEFINE ids == CallIds(Len(results))  m == Assistant(n, ids, Position)
           q == [i \in DOMAIN results |-> Tool(ids[i], results[i], Position + i)]
<1>1. messages \in Messages /\ Len(messages) \in Nat /\ Sound(messages)
  BY LenProperties DEF ConvInv, Sound, Messages
<1>2. PICK k \in 1..MaxCalls : results \in [1..k -> Sizes]
  BY DEF ResultSizes
<1>3. MaxCalls \in Nat /\ Sizes \subseteq Nat \ {0}
  BY ConversationAssumption DEF ConversationAssumption
<1>4. k \in 0..MaxCalls /\ k \in Nat /\ DOMAIN results = 1..k /\ Len(results) = k
  BY <1>2, <1>3
<1>5. Position \in Nat \ {0} /\ Position = Len(messages) + 1
  BY <1>1 DEF Position
<1>6. ids = [i \in 1..k |-> MaxCalls * (Len(messages) + 1) + i] /\ ids = [i \in 1..k |-> MaxCalls * Position + i]
  BY <1>4, <1>5 DEF CallIds
<1> HIDE DEF ids
<1>7. Fresh(messages, ids) /\ DOMAIN ids = 1..k /\ \A i, j \in 1..k : ids[i] = ids[j] => i = j
  BY <1>1, <1>4, <1>6, FreshCalls
<1>8. m.role = "assistant" /\ m.calls = ids
  BY DEF Assistant, ChatMessage
<1>9. m \in Message
  <2> HIDE DEF m
  <2>1. \A at \in Nat \ {0} : ids = [i \in 1..k |-> MaxCalls * at + i] => Assistant(n, ids, at) \in Message
    BY <1>4, CallsRight
  <2>2. Assistant(n, ids, Position) \in Message
    BY <1>5, <1>6, <2>1, Zenon
  <2> QED
    BY <2>2 DEF m
<1> HIDE DEF m
<1>10. Len(ids) = k
  <2>1. ids \in Seq(Nat)
    BY <1>8, <1>9 DEF Message
  <2>2. DOMAIN ids = 1..Len(ids) /\ Len(ids) \in Nat
    BY <2>1, LenProperties
  <2> QED
    BY <1>4, <1>7, <2>2
<1>11. \A i \in 1..k : q[i] = Tool(ids[i], results[i], Position + i)
  BY <1>4
<1>12. ASSUME NEW i \in 1..k
       PROVE  /\ q[i] \in Message /\ q[i].role = "tool" /\ q[i].answers = ids[i] /\ q[i].content > 0
  <2> HIDE DEF q
  <2>1. i \in Nat /\ ids[i] \in Nat
    BY <1>7 DEF Fresh
  <2>2. results[i] \in Nat /\ results[i] > 0
    <3>1. results[i] \in Nat \ {0}
      BY <1>2, <1>3
    <3>2. PICK w \in Nat \ {0} : w = results[i]
      BY <3>1
    <3>3. w \in Nat /\ w > 0
      OBVIOUS
    <3> QED
      BY <3>2, <3>3
  <2>3. PICK at \in Nat : at = Position + i
    BY <1>5, <2>1
  <2>4. q[i] = Tool(ids[i], results[i], at)
    BY <1>11, <2>3
  <2>5. Tool(ids[i], results[i], at).content = results[i]
    BY DEF Tool, ChatMessage
  <2> QED
    BY <2>1, <2>2, <2>4, <2>5, ToolRight
<1>13. q \in Messages /\ Len(q) = k
  <2>1. q \in [1..k -> Message]
    BY <1>4, <1>11, <1>12
  <2> HIDE DEF q
  <2> QED
    BY <1>4, <2>1 DEF Messages
<1> HIDE DEF q
<1>14. Results(m.calls, q)
  BY <1>8, <1>10, <1>12, <1>13 DEF Results
<1>15. \A i, j \in 1..Len(m.calls) : m.calls[i] = m.calls[j] => i = j
  BY <1>7, <1>8, <1>10
<1>16. Fresh(messages, m.calls)
  BY <1>7, <1>8
<1>17. Told(Append(messages, m) \o q)
  BY <1>1, <1>8, <1>9, <1>13, <1>14, <1>15, <1>16, CycleTold
<1> QED
  BY <1>17 DEF m, q, ids

LEMMA ReplayStep == ConvInv /\ ReplayInv /\ [Next]_vars => ReplayInv'
<1> SUFFICES ASSUME ConvInv, ReplayInv, [Next]_vars PROVE ReplayInv'
  OBVIOUS
<1>1. Sizes \subseteq Nat \ {0} /\ MaxCalls \in Nat
  BY ConversationAssumption DEF ConversationAssumption
<1>2. /\ Sound(history) /\ Sound(messages) /\ Told(history) /\ Told(messages)
      /\ Len(history) \in Nat /\ Len(messages) \in Nat
  BY LenProperties DEF ConvInv, Sound, Messages, ReplayInv
<1>3. CASE \E n \in Sizes : Prompt(n)
  <2>1. PICK n \in Sizes : Prompt(n)
    BY <1>3
  <2>2. n \in Nat \ {0} /\ Len(history) + 1 \in Nat
    BY <1>1, <1>2
  <2>3. Told(Append(history, User(n, Len(history) + 1)))
    BY <1>2, <2>2, UserTold
  <2> QED
    BY <1>2, <2>1, <2>3 DEF Prompt, ReplayInv
<1>4. CASE \E n \in {0} \union Sizes, results \in ResultSizes : ToolCycle(n, results)
  <2>1. PICK n \in {0} \union Sizes, results \in ResultSizes : ToolCycle(n, results)
    BY <1>4
  <2>2. n \in Nat /\ phase = "request"
    BY <1>1, <2>1 DEF ToolCycle
  <2>3. Told(messages')
    BY <1>2, <2>1, <2>2, ReplayCycle DEF ToolCycle
  <2> QED
    BY <2>1, <2>3 DEF ToolCycle, ReplayInv
<1>5. CASE \E n \in {0} \union Sizes, calls \in 0..MaxCalls : Answer(n, calls)
  <2>1. PICK n \in {0} \union Sizes, calls \in 0..MaxCalls : Answer(n, calls)
    BY <1>5
  <2>2. n \in Nat /\ Position \in Nat \ {0} /\ Position = Len(messages) + 1
    BY <1>1, <1>2 DEF Position
  <2> DEFINE m == Assistant(n, CallIds(calls), Position)
  <2>3. m \in Message
    BY <2>2, CallsRight DEF CallIds
  <2>4. m.role = "assistant" /\ m.calls = CallIds(calls)
    BY DEF Assistant, ChatMessage
  <2> HIDE DEF m
  <2>5. CallIds(calls) = [i \in 1..calls |-> MaxCalls * (Len(messages) + 1) + i]
    BY <2>2 DEF CallIds
  <2>6. Fresh(messages, m.calls)
    BY <1>2, <2>4, <2>5, FreshCalls
  <2>7. Told(Append(messages, m))
    BY <1>2, <2>3, <2>4, <2>6, ReplyTold
  <2> QED
    BY <2>1, <2>7 DEF Answer, ReplayInv, m
<1>6. CASE Abandon
  BY <1>2, <1>6 DEF Abandon, ReplayInv
<1>7. CASE SwitchMode
  BY <1>2, <1>7 DEF SwitchMode, ReplayInv
<1>8. CASE UNCHANGED vars
  BY <1>2, <1>8 DEF vars, ReplayInv
<1> QED
  BY <1>3, <1>4, <1>5, <1>6, <1>7, <1>8 DEF Next

LEMMA ReplayHolds == ConvInv /\ ReplayInv => ReplayIsConversation
<1> SUFFICES ASSUME ConvInv, ReplayInv PROVE ReplayIsConversation
  OBVIOUS
<1> DEFINE r == ReplaySessionHistory(history)
<1>1. history \in Messages /\ Told(history) /\ DOMAIN history = 1..Len(history)
      /\ \A i \in 1..Len(history) : history[i] \in Message
  BY LenProperties, ElementOfSeq DEF ConvInv, Sound, ReplayInv, Messages
<1>2. r \in Seq(Updates) /\ Origins(r) = Each(Said(history), history)
      /\ Each(CallOf, r) = Each(Asked, history) /\ r = Each(Tells(history), history)
  BY <1>1, ReplayIs, CallsShown
<1>3. Origins(Only(history, {m \in ToSet(history) : m.content > 0})) = Each(Text, history)
  BY <1>1, TextsAre
<1>4. Origins(r) = Origins(Only(history, {m \in ToSet(history) : m.content > 0}))
  BY <1>1, <1>2, <1>3, Zenon DEF Told
<1> HIDE DEF r
<1>5. FlattenSeq([i \in DOMAIN r |-> IF r[i].kind = "call" THEN <<r[i].call>> ELSE <<>>])
      = FlattenSeq([i \in DOMAIN history |-> history[i].calls])
  <2>1. \A i \in DOMAIN r : r[i] \in Updates
    BY <1>2, LenProperties, ElementOfSeq
  <2>2. [i \in DOMAIN r |-> IF r[i].kind = "call" THEN <<r[i].call>> ELSE <<>>] = [i \in DOMAIN r |-> CallOf[r[i]]]
    BY <2>1 DEF CallOf
  <2>3. [i \in DOMAIN history |-> history[i].calls] = [i \in DOMAIN history |-> Asked[history[i]]]
    BY <1>1 DEF Asked
  <2> QED
    BY <1>2, <2>2, <2>3, Zenon DEF Each
<1>6. ASSUME NEW u \in ToSet(r), NEW m \in ToSet(history), u.kind = "call", m.answers = u.call
      PROVE  u.from = m.from
  <2> DEFINE parts == [i \in DOMAIN history |-> Tells(history)[history[i]]]
  <2>1. Stands(Message, Updates, Tells(history))
    BY <1>1, StandFor
  <2>2. parts \in Seq(Seq(Updates)) /\ DOMAIN parts = 1..Len(history)
    <3>1. Len(history) \in Nat
      BY <1>1, LenProperties DEF Messages
    <3>2. parts \in [1..Len(history) -> Seq(Updates)]
      BY <1>1, <2>1 DEF Stands
    <3> QED
      BY <1>1, <3>1, <3>2
  <2>3. r = FlattenSeq(parts)
    BY <1>2, Zenon DEF Each
  <2>4. \A i \in 1..Len(history) : parts[i] = ReplayMessage(history, history[i])
    BY <1>1 DEF Tells
  <2> HIDE DEF parts
  <2>5. ToSet(r) = UNION {ToSet(x) : x \in ToSet(parts)}
    BY <2>2, <2>3, MembersOfAll
  <2>6. PICK i \in 1..Len(history) : u \in ToSet(ReplayMessage(history, history[i]))
    <3>1. PICK z \in ToSet(parts) : u \in ToSet(z)
      BY <2>5, Zenon
    <3>2. PICK i \in DOMAIN parts : z = parts[i]
      BY DEF ToSet
    <3>3. i \in 1..Len(history)
      BY <2>2
    <3> QED
      BY <2>4, <3>1, <3>2, <3>3
  <2> DEFINE a == history[i]  x == Spoken(a)  y == CallUpdates(history, a)
  <2>7. a \in Message
    BY <1>1
  <2> HIDE DEF a
  <2>8. u.from = ToolResultContent(history, u.call) /\ u.call \in Nat
    <3>1. /\ x \in Seq(Updates) /\ y \in Seq(Updates) /\ DOMAIN y = DOMAIN a.calls
          /\ ReplayMessage(history, a) =
               CASE a.role = "user" -> <<Update("user", NoCall, a.from)>>
                 [] a.role = "assistant" -> x \o y
                 [] OTHER -> <<>>
      BY <1>1, <2>7, UpdatesTyped
    <3>2. u \in Updates
      BY <1>2, LenProperties, ElementOfSeq DEF ToSet
    <3>3. a.role # "user"
      <4>1. ToSet(<<Update("user", NoCall, a.from)>>) = {Update("user", NoCall, a.from)}
        BY DEF ToSet
      <4>2. Update("user", NoCall, a.from).kind # "call"
        BY DEF Update
      <4> QED
        BY <1>6, <2>6, <3>1, <4>1, <4>2 DEF a
    <3>4. a.role = "assistant"
      <4>1. ToSet(<<>>) = {}
        BY DEF ToSet
      <4> QED
        BY <2>6, <3>1, <3>3, <4>1 DEF a
    <3>5. ToSet(x \o y) = ToSet(x) \union ToSet(y)
      <4> HIDE DEF x, y
      <4> QED
        BY <3>1, MembersOfBoth
    <3>6. u \in ToSet(x \o y)
      BY <2>6, <3>1, <3>4 DEF a
    <3>7. u \notin ToSet(x)
      <4>1. ToSet(<<>>) = {} /\ ToSet(<<Update("agent", NoCall, a.from)>>) = {Update("agent", NoCall, a.from)}
        BY DEF ToSet
      <4>2. Update("agent", NoCall, a.from).kind # "call"
        BY DEF Update
      <4> QED
        BY <1>6, <4>1, <4>2 DEF Spoken
    <3>8. PICK j \in DOMAIN a.calls : u = y[j]
      BY <3>1, <3>5, <3>6, <3>7 DEF ToSet
    <3>9. u = Update("call", a.calls[j], ToolResultContent(history, a.calls[j]))
      BY <3>8 DEF CallUpdates
    <3> QED
      BY <1>6, <3>2, <3>9 DEF Update, Updates
  <2>9. PICK h \in 1..Len(history) : m = history[h]
    BY <1>1 DEF ToSet
  <2>10. m.role = "tool"
    <3>1. m \in Message /\ u.call # NoCall
      BY <1>1, <2>8, <2>9, ConversationAssumption DEF ConversationAssumption
    <3> QED
      BY <1>6, <3>1 DEF Message, Regular
  <2>11. Answers(history[h], u.call)
    BY <1>6, <2>9, <2>10 DEF Answers
  <2>12. \A j \in 1..Len(history) : Answers(history[j], u.call) => j = h
    BY <1>1, <1>6, <2>9, <2>10 DEF Told, OneAnswer, Answers
  <2>13. ToolResultContent(history, u.call) = history[h].from
    BY <1>1, <2>11, <2>12, ResultIs
  <2> QED
    BY <2>8, <2>9, <2>13
<1> QED
  BY <1>4, <1>5, <1>6 DEF ReplayIsConversation, r

-----------------------------------------------------------------------------
(***************************************************************************)
(* Theorems.                                                               *)
(***************************************************************************)

(* Every request has the shape the provider's API takes: no empty answer,  *)
(* and no two plain messages of one role side by side                      *)
(* (sanitize_conversation).                                                *)
THEOREM RequestShape == Spec => []ProviderShape
BY ConversationSound, ShapesHold, PTL

(* A request over the byte budget is cut until it fits; only a first       *)
(* message that is itself over it is sent as it is (filter_messages).      *)
THEOREM RequestFits == Spec => []FitsBudget
BY ConversationSound, BudgetHolds, PTL

(* A result in a request stands behind its call, and a call that was       *)
(* answered keeps its answer, whatever is cut (group_tool_call_units,      *)
(* filter_messages_truncate, validate_tool_results).                       *)
THEOREM RequestPaired == Spec => []PairsKept
BY ConversationSound, PairsHold, PTL

(* Cutting and repairing a conversation keep its order: what is sent is    *)
(* said once, and everything that was not cut or empty is sent.            *)
THEOREM RequestInOrder == Spec => []NothingLost
BY ConversationSound, OrderHolds, PTL

(* When a request is cut, what is kept is what the reference definition     *)
(* keeps: from the newest group to the oldest whatever still fits, so that *)
(* one big group pushes out none of the smaller ones behind it             *)
(* (filter_messages_truncate).                                             *)
THEOREM RequestKeepsNewest == Spec => []NewestGroupsKept
BY ConversationSound, NewestHold, PTL

(* Loading a session tells the client what the record says: every message  *)
(* with a text once and in its order, every call once, and at each call    *)
(* the text of the message that answers it and of no other                 *)
(* (replay_session_history, tool_result_content).                          *)
THEOREM ReplayCorrect == Spec => []ReplayIsConversation
<1>1. Spec => []ReplayInv
  BY ReplayInit, ReplayStep, ConversationSound, PTL DEF Spec
<1> QED
  BY <1>1, ConversationSound, ReplayHolds, PTL
===============================================================================
