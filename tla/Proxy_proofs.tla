---------------------------- MODULE Proxy_proofs ----------------------------
(***************************************************************************)
(* Proofs about Proxy, for any clients, agents, line cap and statuses:     *)
(* what the agent wrote is passed on and logged before its exit is, a      *)
(* mapping record comes first, no line is lost, new sessions are found, no *)
(* crash reads as success.                                                 *)
(***************************************************************************)
EXTENDS Proxy, SequenceLemmas

-----------------------------------------------------------------------------
(***************************************************************************)
(* The invariant.                                                          *)
(***************************************************************************)
Text == Messages \union {Rest}
Cells == Text \union {NL}
Places == {"read", "log", "mark", "set", "enqueue", "closed", "failed", "aborted"}
Ids == {m.id : m \in Messages}
Entries ==
  [dest : Dests, kind : Pumps \union {"session-bound", "exit"},
   line : Seq(Text), sid : AnySid]

Sightings == [pump : Pumps, msg : Messages]

TypeInv ==
  /\ agent \in {"running", "exited"} /\ held \in BOOLEAN
  /\ sent \in [Pumps -> Seq(Cells)] /\ ended \in [Pumps -> BOOLEAN]
  /\ forwarded \in [Pumps -> Nat] /\ spilled \in [Pumps -> Nat] /\ pc \in [Pumps -> Places]
  /\ pending \in [Pumps -> Seq(Text)] /\ lines \in [Pumps -> Seq(Seq(Text))]
  /\ sniffed \in [Pumps -> AnySid] /\ pendingNew \in SUBSET Ids
  /\ bound \in [Conns -> Sids \union {NoSid}] /\ log \in Seq(Entries)
  /\ main \in {"wait", "drain", "report", "flush", "exited"} /\ abort \in BOOLEAN
  /\ status \in Statuses \union {None} /\ code \in Int
  /\ observed \in Seq(Sightings)

(* A pump that reads or is over has no line left to log, one that logs     *)
(* has; and one that has closed saw the end of what it reads, after which  *)
(* the agent and what it left behind write nothing more.                   *)
OutPumps == {"down", "err"}
AtWork(p) ==
  /\ pc[p] \in {"read", "closed", "failed", "aborted"} => lines[p] = <<>>
  /\ pc[p] = "closed" => pending[p] = <<>>
  /\ pc[p] \in {"log", "mark", "set", "enqueue"} => lines[p] # <<>>
Drains(p) ==
  /\ pc[p] # "aborted"
  /\ ended[p] => agent = "exited" /\ ~held
  /\ pc[p] = "closed" =>
       ended[p] /\ forwarded[p] = Len(sent[p]) /\ pending[p] = <<>> /\ lines[p] = <<>>
Drain ==
  /\ held => agent = "exited"
  /\ \A p \in Pumps : AtWork(p)
  /\ \A p \in OutPumps : Drains(p)
  /\ main \in {"report", "flush", "exited"} => \A p \in OutPumps : Over(p)

(* The mapping record of a session is in the log before the session is     *)
(* bound, and what a pump is about to log names its session or comes later.*)
Marked(records, s) ==
  \E j \in 1..Len(records) : records[j].kind = "session-bound" /\ records[j].sid = s
Names(l, s) == Whole(l) /\ Head(l).session = s
Mapping(p) ==
  /\ pc[p] \in {"mark", "set"} => sniffed[p] \in Sids
  /\ pc[p] = "set" => Marked(log, sniffed[p])
  /\ pc[p] = "enqueue" /\ sniffed[p] \in Sids =>
       Marked(log, sniffed[p]) \/ Names(Head(lines[p]), sniffed[p])
Mapped ==
  /\ bound[Conn] \in Sids => Marked(log, bound[Conn])
  /\ \A p \in Pumps : Mapping(p)
  /\ \A i \in 1..Len(log) : log[i].dest \in Sids =>
       \/ \E j \in 1..(i - 1) : log[j].kind = "session-bound" /\ log[j].sid = log[i].dest
       \/ Names(log[i].line, log[i].dest)

Reported ==
  /\ main # "wait" => status \in Statuses
  /\ main \in {"flush", "exited"} => code = ReportedCode(status)

ProxyInv == TypeInv /\ Drain /\ Mapped /\ Reported

(* A pump breaks off, by itself or because it is told to. *)
Breaks == Aborted \/ \E p \in Pumps : PumpFails(p)

LEMMA BreakingOff ==
  ASSUME Breaks
  PROVE  \E p \in Pumps, l \in {"failed", "aborted"} :
           BreaksOff(p) /\ To(p, l) /\ (p # "up" => l = "failed")
<1>1. "up" \in Pumps
  BY DEF Pumps
<1>2. CASE Aborted
  BY <1>1, <1>2 DEF Aborted
<1>3. CASE \E p \in Pumps : PumpFails(p)
  BY <1>3 DEF PumpFails
<1> QED
  BY <1>2, <1>3 DEF Breaks

-----------------------------------------------------------------------------
(***************************************************************************)
(* What is written, and what a chunk of it is split into.                  *)
(***************************************************************************)
LEMMA MessageFacts ==
  ASSUME NEW m \in Messages
  PROVE  m.session \in AnySid /\ m.result \in AnySid /\ m.cells \in Nat \ {0} /\ m.id \in Ids
  BY ProxyAssumption DEF Ids

LEMMA LineTyped ==
  ASSUME NEW m \in Messages PROVE Line(m) \in Seq(Cells)
<1> DEFINE rest == [i \in 1..(m.cells - 1) |-> Rest]
<1>1. m.cells - 1 \in Nat
  BY MessageFacts
<1>2. rest \in Seq(Cells)
  BY <1>1 DEF Cells, Text
<1>3. <<m>> \in Seq(Cells) /\ <<NL>> \in Seq(Cells)
  BY DEF Cells, Text
<1> HIDE DEF rest
<1>4. <<m>> \o rest \in Seq(Cells)
  BY <1>2, <1>3, ConcatProperties
<1>5. (<<m>> \o rest) \o <<NL>> \in Seq(Cells)
  BY <1>3, <1>4, ConcatProperties
<1> QED
  BY <1>5 DEF Line, rest

LEMMA InputTyped ==
  ASSUME NEW c \in Clients PROVE Input(c.sends) \in Seq(Cells)
<1>1. c.sends \in Seq(Messages)
  <2>1. ToSet(c.sends) \subseteq Messages
    BY DEF Messages
  <2> QED
    BY <2>1, ProxyAssumption, SeqMonotonic
<1> DEFINE each == [i \in DOMAIN c.sends |-> Line(c.sends[i])]
<1>2. DOMAIN c.sends = 1..Len(c.sends) /\ Len(c.sends) \in Nat
      /\ \A i \in 1..Len(c.sends) : c.sends[i] \in Messages
  BY <1>1, LenProperties, ElementOfSeq
<1>3. each \in Seq(Seq(Cells))
  BY <1>2, LineTyped
<1> HIDE DEF each
<1>4. FlattenSeq(each) \in Seq(Cells)
  BY <1>3, EmptySeq, FlattenAppend
<1> QED
  BY <1>4 DEF Input, each

Pieces == [lines : Seq(Seq(Text)), pending : Seq(Text)]

LEMMA AbsorbTyped ==
  ASSUME NEW s \in Pieces, NEW c \in Cells PROVE Absorb(s, c) \in Pieces
<1>1. s.lines \in Seq(Seq(Text)) /\ s.pending \in Seq(Text)
  BY DEF Pieces
<1>2. CASE c = NL
  <2>1. Append(s.lines, s.pending) \in Seq(Seq(Text))
    BY <1>1, AppendProperties
  <2> QED
    BY <1>2, <2>1 DEF Absorb, Pieces
<1>3. CASE c # NL
  <2>1. c \in Text
    BY <1>3 DEF Cells
  <2>2. Append(s.pending, c) \in Seq(Text)
    BY <1>1, <2>1, AppendProperties
  <2> QED
    BY <1>3, <2>2 DEF Absorb, Pieces
<1> QED
  BY <1>2, <1>3

LEMMA CappedTyped ==
  ASSUME NEW s \in Pieces PROVE Capped(s) \in Pieces
<1>1. s.lines \in Seq(Seq(Text)) /\ s.pending \in Seq(Text) /\ <<>> \in Seq(Text)
  BY EmptySeq DEF Pieces
<1>2. Append(s.lines, s.pending) \in Seq(Seq(Text))
  BY <1>1, AppendProperties
<1> QED
  BY <1>1, <1>2 DEF Capped, Pieces

(* A chunk is split one cell after the other. *)
Splits(pend, chunk, f) ==
  /\ f \in [0..Len(chunk) -> Pieces]
  /\ f[0] = [lines |-> <<>>, pending |-> pend]
  /\ \A i \in 1..Len(chunk) : f[i] = Absorb(f[i - 1], chunk[i])

LEMMA SplitSteps ==
  ASSUME NEW pend \in Seq(Text), NEW chunk \in Seq(Cells)
  PROVE  \E f : Splits(pend, chunk, f) /\ Split(pend, chunk) = Capped(f[Len(chunk)])
<1> DEFINE n == Len(chunk)  base == [lines |-> <<>>, pending |-> pend]
           step == [i \in 1..n |-> [s \in Pieces |-> Absorb(s, chunk[i])]]
           F(h) == [i \in 0..n |-> IF i = 0 THEN base ELSE Absorb(h[i - 1], chunk[i])]
<1>1. n \in Nat /\ \A i \in 1..n : chunk[i] \in Cells
  BY LenProperties, ElementOfSeq
<1>2. base \in Pieces
  BY EmptySeq DEF Pieces
<1>3. \A s \in Pieces, i \in 1..n : Absorb(s, chunk[i]) \in Pieces
  BY <1>1, AbsorbTyped
<1> HIDE DEF n, base, F
<1>4. step \in [1..n -> [Pieces -> Pieces]]
      /\ \A i \in 1..n, s \in Pieces : step[i][s] = Absorb(s, chunk[i])
  BY <1>3
<1> HIDE DEF step
<1>5. Steps(n, Pieces, base, step)
  BY <1>1, <1>2, <1>4 DEF Steps
<1>6. Recursive(n, Pieces, base, step)
  BY <1>5, Recursion
<1>7. PICK f \in [0..n -> Pieces] : f[0] = base /\ \A i \in 1..n : f[i] = step[i][f[i - 1]]
  BY <1>6 DEF Recursive
<1>8. \A i \in 1..n : i - 1 \in 0..n /\ f[i - 1] \in Pieces
  BY <1>1
<1>9. \A i \in 1..n : f[i] = Absorb(f[i - 1], chunk[i])
  BY <1>4, <1>7, <1>8
<1>10. f = F(f)
  BY <1>1, <1>7, <1>9 DEF F
<1> DEFINE g == CHOOSE h : h = F(h)
<1>11. g = F(g)
  BY <1>10
<1>12. Split(pend, chunk) = Capped(g[n])
  BY DEF Split, n, base, F
<1> HIDE DEF g
<1>13. g[0] = base /\ \A i \in 1..n : g[i] = Absorb(g[i - 1], chunk[i])
  BY <1>1, <1>11 DEF F
<1>14. g[n] = f[n]
  <2> DEFINE T == {i \in Nat : i <= n => g[i] = f[i]}
  <2>1. 0 \in T
    BY <1>7, <1>13
  <2>2. ASSUME NEW i \in Nat, i \in T PROVE i + 1 \in T
    <3> SUFFICES ASSUME i + 1 <= n PROVE g[i + 1] = f[i + 1]
      OBVIOUS
    <3>1. i + 1 \in 1..n /\ i + 1 - 1 = i /\ g[i] = f[i]
      BY <1>1, <2>2
    <3> HIDE DEF T
    <3> QED
      BY <1>9, <1>13, <3>1
  <2> HIDE DEF T
  <2>3. n \in T
    BY <1>1, <2>1, <2>2, SetInduction
  <2> QED
    BY <1>1, <2>3 DEF T
<1>15. Splits(pend, chunk, f)
  BY <1>7, <1>9 DEF Splits, n, base
<1> QED
  BY <1>12, <1>14, <1>15 DEF n

LEMMA SplitTyped ==
  ASSUME NEW pend \in Seq(Text), NEW chunk \in Seq(Cells)
  PROVE  Split(pend, chunk) \in Pieces
<1>1. PICK f : Splits(pend, chunk, f) /\ Split(pend, chunk) = Capped(f[Len(chunk)])
  BY SplitSteps
<1>2. Len(chunk) \in 0..Len(chunk)
  BY LenProperties
<1>3. f[Len(chunk)] \in Pieces
  BY <1>1, <1>2 DEF Splits
<1> QED
  BY <1>1, <1>3, CappedTyped

-----------------------------------------------------------------------------
(***************************************************************************)
(* Every step keeps the types.                                             *)
(***************************************************************************)
LEMMA SidFacts ==
  /\ NoSid \in AnySid /\ NoSid \notin Sids /\ Sids \subseteq AnySid
  /\ Conn \in Conns /\ Conn \notin Sids /\ Dests \intersect AnySid = Sids
  BY HandleAssumption, ProxyAssumption DEF AnySid, Dests

LEMMA RouteTyped ==
  ASSUME TypeInv, NEW s \in AnySid
  PROVE  /\ Route(Conn, s) \in Dests /\ Stamped(Conn, s) \in AnySid
         /\ Route(Conn, s) \in Sids => s = Route(Conn, s) \/ bound[Conn] = Route(Conn, s)
  BY SidFacts DEF TypeInv, Route, Stamped, Dests

LEMMA WholeTyped ==
  ASSUME NEW l \in Seq(Text), Whole(l) PROVE Head(l) \in Messages
<1>1. Head(l) \in Text
  BY HeadTailProperties DEF Whole
<1> QED
  BY <1>1 DEF Whole, Text

LEMMA ObservationTyped ==
  ASSUME TypeInv, NEW p \in Pumps, NEW l \in Seq(Text)
  PROVE  LET o == Observation(p, l) IN
         /\ o.left \in SUBSET Ids /\ o.session \in AnySid /\ o.established \in AnySid
         /\ o.established \in Sids => o.session = o.established
         /\ o.session \in Sids => o.established \in Sids \/ Names(l, o.session)
<1>0. pendingNew \in SUBSET Ids
  BY DEF TypeInv
<1>1. CASE p = "err" \/ ~Whole(l)
  BY <1>0, <1>1, SidFacts DEF Observation, Nothing
<1>2. CASE ~(p = "err" \/ ~Whole(l))
  <2> DEFINE m == Head(l)
  <2>1. m \in Messages /\ Whole(l)
    BY <1>2, WholeTyped
  <2> HIDE DEF m
  <2>2. m.session \in AnySid /\ m.result \in AnySid /\ m.id \in Ids
    BY <2>1, MessageFacts
  <2>3. CASE p = "up"
    <3>1. Observation(p, l) = ObserveRequest(m)
      BY <1>2, <2>3 DEF Observation, m
    <3> QED
      BY <1>0, <2>1, <2>2, <3>1, SidFacts DEF ObserveRequest, Remembers, Names, m
  <2>4. CASE p # "up"
    <3>1. Observation(p, l) = ObserveResponse(m)
      BY <1>2, <2>4 DEF Observation, m
    <3> QED
      BY <1>0, <2>1, <2>2, <3>1, SidFacts DEF ObserveResponse, Names, m
  <2> QED
    BY <2>3, <2>4
<1> QED
  BY <1>1, <1>2

LEMMA ForwardTyped ==
  ASSUME TypeInv, NEW p \in Pumps, Forward(p)
  PROVE  \E ps \in Seq(Text), ls \in Seq(Seq(Text)), n \in Nat :
           /\ n <= Len(sent[p]) /\ pc[p] = "read"
           /\ forwarded' = [forwarded EXCEPT ![p] = n]
           /\ pending' = [pending EXCEPT ![p] = ps]
           /\ lines' = [lines EXCEPT ![p] = ls]
           /\ pc' = [pc EXCEPT ![p] = IF ls = <<>> THEN "read" ELSE "log"]
<1> DEFINE piece(n) == SubSeq(sent[p], forwarded[p] + 1, n)
           s(n) == Split(pending[p], piece(n))
<1>1. PICK n \in (forwarded[p] + 1)..Len(sent[p]) :
        /\ forwarded' = [forwarded EXCEPT ![p] = n]
        /\ pending' = [pending EXCEPT ![p] = s(n).pending]
        /\ lines' = [lines EXCEPT ![p] = s(n).lines]
        /\ Logging(p, s(n).lines)
  BY DEF Forward
<1>2. sent[p] \in Seq(Cells) /\ forwarded[p] \in Nat /\ pending[p] \in Seq(Text)
      /\ Len(sent[p]) \in Nat
  BY LenProperties DEF TypeInv
<1>3. n \in Nat /\ n <= Len(sent[p]) /\ \A i \in (forwarded[p] + 1)..n : sent[p][i] \in Cells
  BY <1>1, <1>2, ElementOfSeq
<1>4. piece(n) \in Seq(Cells)
  BY <1>2, <1>3, SubSeqProperties
<1> HIDE DEF piece
<1>5. s(n) \in Pieces
  BY <1>2, <1>4, SplitTyped
<1> HIDE DEF s
<1>6. s(n).pending \in Seq(Text) /\ s(n).lines \in Seq(Seq(Text))
  BY <1>5 DEF Pieces
<1> QED
  BY <1>1, <1>3, <1>6 DEF Logging, To, Forward, Unread

LEMMA HeadLine ==
  ASSUME TypeInv, NEW p \in Pumps, lines[p] # <<>>
  PROVE  Head(lines[p]) \in Seq(Text) /\ Tail(lines[p]) \in Seq(Seq(Text))
  BY HeadTailProperties DEF TypeInv

LEMMA EnqueueTyped ==
  ASSUME TypeInv, Drain, NEW p \in Pumps, Enqueue(p)
  PROVE  /\ lines[p] # <<>> /\ Head(lines[p]) \in Seq(Text) /\ Tail(lines[p]) \in Seq(Seq(Text))
         /\ Entry(Route(Conn, sniffed[p]), p, Head(lines[p]), Stamped(Conn, sniffed[p])) \in Entries
<1>1. lines[p] # <<>> /\ sniffed[p] \in AnySid
  BY DEF Enqueue, Drain, AtWork, TypeInv
<1> QED
  BY <1>1, HeadLine, RouteTyped DEF Entry, Entries

LEMMA TypesKept ==
  ASSUME ProxyInv, [Next]_vars PROVE TypeInv'
<1> USE DEF endVars, pumpVars, mainVars
<1>0. TypeInv /\ Drain /\ Mapped
  BY DEF ProxyInv
<1>1. ASSUME NEW m \in AgentMsgs, AgentWrites(m) PROVE TypeInv'
  <2>1. sent["down"] \in Seq(Cells) /\ Line(m) \in Seq(Cells)
    BY <1>0, LineTyped DEF TypeInv, Pumps, Messages
  <2>2. sent["down"] \o Line(m) \in Seq(Cells)
    BY <2>1, ConcatProperties
  <2>3. sent' \in [Pumps -> Seq(Cells)]
    BY <1>0, <1>1, <2>2 DEF AgentWrites, TypeInv
  <2> QED
    BY <1>0, <1>1, <2>3 DEF AgentWrites, TypeInv
<1>2. CASE AgentComplains
  <2>1. <<Complaint>> \in Seq(Cells)
    BY DEF Cells, Text, Messages
  <2>2. sent' \in [Pumps -> Seq(Cells)]
    BY <1>0, <1>2, <2>1 DEF AgentComplains, TypeInv
  <2> QED
    BY <1>0, <1>2, <2>2 DEF AgentComplains, TypeInv
<1>3. CASE HolderEnds
  BY <1>0, <1>3 DEF HolderEnds, Outputs, TypeInv
<1>4. ASSUME NEW holds \in BOOLEAN, AgentExits(holds) PROVE TypeInv'
  BY <1>0, <1>4 DEF AgentExits, Outputs, TypeInv
<1>5. CASE Main
  <2>1. CASE Reap
    BY <1>0, <2>1 DEF Reap, TypeInv
  <2>2. CASE StopForwarding
    BY <1>0, <2>2 DEF StopForwarding, TypeInv
  <2>3. CASE LogExit
    <3>1. Entry(Route(Conn, NoSid), "exit", <<>>, bound[Conn]) \in Entries
      BY <1>0, SidFacts, RouteTyped, EmptySeq DEF Entry, Entries, TypeInv
    <3>2. log' \in Seq(Entries)
      BY <1>0, <2>3, <3>1, AppendProperties DEF LogExit, TypeInv
    <3>3. ReportedCode(status) \in Int
      <4>1. status.code \in Int /\ status.signal \in Nat
        BY <1>0, ProxyAssumption DEF TypeInv, None
      <4> QED
        BY <4>1 DEF ReportedCode
    <3> QED
      BY <1>0, <2>3, <3>2, <3>3 DEF LogExit, TypeInv
  <2>4. CASE FlushAndExit
    BY <1>0, <2>4 DEF FlushAndExit, TypeInv
  <2> QED
    BY <1>5, <2>1, <2>2, <2>3, <2>4 DEF Main
<1>6. CASE Breaks
  <2>1. PICK p \in Pumps, l \in {"failed", "aborted"} : BreaksOff(p) /\ To(p, l)
    BY <1>6, BreakingOff
  <2>2. PICK n \in 0..(Len(sent[p]) - forwarded[p]) : spilled' = [spilled EXCEPT ![p] = n]
    BY <2>1, Zenon DEF BreaksOff
  <2> QED
    BY <1>0, <2>1, <2>2 DEF BreaksOff, To, TypeInv, Places
<1>7. ASSUME NEW p \in Pumps, Pump(p) PROVE TypeInv'
  <2>1. CASE Forward(p)
    <3>1. PICK ps \in Seq(Text), ls \in Seq(Seq(Text)), n \in Nat :
           /\ forwarded' = [forwarded EXCEPT ![p] = n]
           /\ pending' = [pending EXCEPT ![p] = ps]
           /\ lines' = [lines EXCEPT ![p] = ls]
           /\ pc' = [pc EXCEPT ![p] = IF ls = <<>> THEN "read" ELSE "log"]
      BY <1>0, <2>1, ForwardTyped
    <3> QED
      BY <1>0, <2>1, <3>1 DEF Forward, TypeInv, Places
  <2>2. CASE Close(p)
    BY <1>0, <2>2 DEF Close, To, TypeInv, Places
  <2>3. CASE FinishTail(p)
    <3>1. <<pending[p]>> \in Seq(Seq(Text)) /\ <<>> \in Seq(Text)
      BY <1>0 DEF TypeInv
    <3> QED
      BY <1>0, <2>3, <3>1 DEF FinishTail, To, TypeInv, Places
  <2>4. CASE Observe(p)
    <3>1. PICK l : l = Head(lines[p])
      OBVIOUS
    <3>2. l \in Seq(Text)
      BY <1>0, <2>4, <3>1, HeadLine DEF Observe
    <3>3. PICK o : o = Observation(p, l)
      OBVIOUS
    <3>4. o.left \in SUBSET Ids /\ o.session \in AnySid
      BY <1>0, <3>2, <3>3, ObservationTyped
    <3>5. /\ pendingNew' = o.left /\ sniffed' = [sniffed EXCEPT ![p] = o.session]
          /\ pc' = [pc EXCEPT ![p] = IF o.established \in Sids THEN "mark" ELSE "enqueue"]
          /\ observed' = IF p # "err" /\ Whole(l) THEN Append(observed, [pump |-> p, msg |-> Head(l)]) ELSE observed
      BY <2>4, <3>1, <3>3 DEF Observe, To, BindingStarts
    <3>6. observed' \in Seq(Sightings)
      <4>1. Whole(l) => [pump |-> p, msg |-> Head(l)] \in Sightings
        BY <3>2, WholeTyped DEF Sightings
      <4> QED
        BY <1>0, <3>5, <4>1, AppendProperties DEF TypeInv
    <3> QED
      BY <1>0, <2>4, <3>4, <3>5, <3>6 DEF Observe, TypeInv, Places
  <2>5. CASE Mark(p)
    <3>1. Entry(Conn, "session-bound", <<>>, sniffed[p]) \in Entries
      BY <1>0, SidFacts, EmptySeq DEF Entry, Entries, Dests, TypeInv
    <3>2. log' \in Seq(Entries)
      BY <1>0, <2>5, <3>1, AppendProperties DEF Mark, TypeInv
    <3> QED
      BY <1>0, <2>5, <3>2 DEF Mark, To, TypeInv, Places
  <2>6. CASE Set(p)
    <3>1. sniffed[p] \in Sids
      BY <1>0, <2>6 DEF Mapped, Mapping, Set
    <3> QED
      BY <1>0, <2>6, <3>1 DEF Set, Bind, To, TypeInv, Places
  <2>7. CASE Enqueue(p)
    <3>1. PICK e \in Entries : e = Entry(Route(Conn, sniffed[p]), p, Head(lines[p]), Stamped(Conn, sniffed[p]))
      BY <1>0, <2>7, EnqueueTyped
    <3>2. log' \in Seq(Entries)
      BY <1>0, <2>7, <3>1, AppendProperties DEF Enqueue, TypeInv
    <3>3. PICK ls \in Seq(Seq(Text)) : ls = Tail(lines[p])
      BY <1>0, <2>7, EnqueueTyped
    <3>4. lines' \in [Pumps -> Seq(Seq(Text))] /\ pc' \in [Pumps -> Places]
      BY <1>0, <2>7, <3>3 DEF Enqueue, Logging, To, TypeInv, Places
    <3> QED
      BY <1>0, <2>7, <3>2, <3>4 DEF Enqueue, TypeInv
  <2> QED
    BY <1>7, <2>1, <2>2, <2>3, <2>4, <2>5, <2>6, <2>7 DEF Pump
<1>8. CASE UNCHANGED vars
  BY <1>0, <1>8 DEF vars, TypeInv
<1> QED
  BY <1>1, <1>2, <1>3, <1>4, <1>5, <1>6, <1>7, <1>8 DEF Next, Environment, Breaks

-----------------------------------------------------------------------------
(***************************************************************************)
(* Every step keeps the drain in order.                                    *)
(***************************************************************************)
LEMMA OutPumpsArePumps == OutPumps \subseteq Pumps /\ "up" \in Pumps /\ "up" \notin OutPumps
  BY DEF OutPumps, Pumps

(* A pump's step leaves the other pumps, the agent and the main task alone.*)
LEMMA OnePumpDrains ==
  ASSUME TypeInv, Drain, NEW p \in Pumps,
         UNCHANGED <<agent, held, sent, ended, main>>,
         \A q \in Pumps \ {p} : UNCHANGED <<forwarded[q], pc[q], pending[q], lines[q]>>,
         ~Over(p), AtWork(p)', p \in OutPumps => Drains(p)'
  PROVE  Drain'
<1>1. \A q \in Pumps : AtWork(q)'
  BY DEF Drain, AtWork
<1>2. \A q \in OutPumps : Drains(q)'
  BY OutPumpsArePumps DEF Drain, Drains
<1>3. main' \in {"report", "flush", "exited"} => \A q \in OutPumps : Over(q)'
  <2> SUFFICES ASSUME main' \in {"report", "flush", "exited"}, NEW q \in OutPumps PROVE Over(q)'
    OBVIOUS
  <2>1. Over(q) /\ q # p
    BY DEF Drain
  <2> QED
    BY <2>1, OutPumpsArePumps DEF Over
<1> QED
  BY <1>1, <1>2, <1>3 DEF Drain

LEMMA DrainKept ==
  ASSUME ProxyInv, [Next]_vars PROVE Drain'
<1> USE DEF endVars, pumpVars, mainVars
<1>0. TypeInv /\ Drain
  BY DEF ProxyInv
<1>1. ASSUME NEW m \in AgentMsgs, AgentWrites(m) PROVE Drain'
  <2>1. \A q \in OutPumps : ~ended[q]
    BY <1>0, <1>1 DEF AgentWrites, Drain, Drains
  <2> QED
    BY <1>0, <1>1, <2>1 DEF AgentWrites, Drain, Drains, AtWork, Over
<1>2. CASE AgentComplains
  <2>1. \A q \in OutPumps : ~ended[q]
    BY <1>0, <1>2 DEF AgentComplains, Drain, Drains
  <2> QED
    BY <1>0, <1>2, <2>1 DEF AgentComplains, Drain, Drains, AtWork, Over
<1>3. CASE HolderEnds
  <2>1. \A q \in OutPumps : ended'[q] = TRUE
    BY <1>0, <1>3, OutPumpsArePumps DEF HolderEnds, Outputs, OutPumps, TypeInv
  <2> QED
    BY <1>0, <1>3, <2>1 DEF HolderEnds, Drain, Drains, AtWork, Over
<1>4. ASSUME NEW holds \in BOOLEAN, AgentExits(holds) PROVE Drain'
  <2>1. \A q \in OutPumps : ended'[q] = ~holds
    BY <1>0, <1>4, OutPumpsArePumps DEF AgentExits, Outputs, OutPumps, TypeInv
  <2>2. \A q \in OutPumps : ~ended[q] /\ pc[q] # "closed"
    BY <1>0, <1>4 DEF AgentExits, Drain, Drains
  <2> QED
    BY <1>0, <1>4, <2>1, <2>2 DEF AgentExits, Drain, Drains, AtWork, Over
<1>5. CASE Main
  <2>1. UNCHANGED <<agent, held, sent, ended, forwarded, pc, pending, lines>>
    BY <1>5 DEF Main, Reap, StopForwarding, LogExit, FlushAndExit
  <2>2. main' \in {"report", "flush", "exited"} => \A q \in OutPumps : Over(q)
    BY <1>0, <1>5 DEF Main, Reap, StopForwarding, LogExit, FlushAndExit, Drained, Drain, OutPumps
  <2> QED
    BY <1>0, <2>1, <2>2 DEF Drain, Drains, AtWork, Over
<1>6. CASE Breaks
  <2>1. PICK p \in Pumps, l \in {"failed", "aborted"} :
          BreaksOff(p) /\ To(p, l) /\ (p # "up" => l = "failed")
    BY <1>6, BreakingOff
  <2>2. AtWork(p) /\ (p \in OutPumps => Drains(p))
    BY <1>0 DEF Drain
  <2>3. ~Over(p) /\ AtWork(p)' /\ UNCHANGED <<agent, held, sent, ended, main>>
    BY <1>0, <2>1, <2>2 DEF BreaksOff, To, Over, AtWork, TypeInv
  <2>4. p \in OutPumps => Drains(p)'
    BY <1>0, <2>1, <2>2, OutPumpsArePumps DEF BreaksOff, To, Drains, TypeInv
  <2>5. \A q \in Pumps \ {p} : UNCHANGED <<forwarded[q], pc[q], pending[q], lines[q]>>
    BY <1>0, <2>1 DEF BreaksOff, To, TypeInv
  <2> QED
    BY <1>0, <2>3, <2>4, <2>5, OnePumpDrains
<1>7. ASSUME NEW p \in Pumps, Pump(p) PROVE Drain'
  <2> SUFFICES /\ UNCHANGED <<agent, held, sent, ended, main>>
               /\ \A q \in Pumps \ {p} : UNCHANGED <<forwarded[q], pc[q], pending[q], lines[q]>>
               /\ ~Over(p) /\ AtWork(p)' /\ (p \in OutPumps => Drains(p)')
    BY <1>0, OnePumpDrains
  <2>0. AtWork(p) /\ (p \in OutPumps => Drains(p))
    BY <1>0 DEF Drain
  <2>1. CASE Forward(p)
    <3>1. PICK ps \in Seq(Text), ls \in Seq(Seq(Text)), n \in Nat :
           /\ n <= Len(sent[p]) /\ pc[p] = "read"
           /\ forwarded' = [forwarded EXCEPT ![p] = n]
           /\ pending' = [pending EXCEPT ![p] = ps]
           /\ lines' = [lines EXCEPT ![p] = ls]
           /\ pc' = [pc EXCEPT ![p] = IF ls = <<>> THEN "read" ELSE "log"]
      BY <1>0, <2>1, ForwardTyped
    <3> QED
      BY <1>0, <2>0, <2>1, <3>1 DEF Forward, TypeInv, AtWork, Drains, Over
  <2>3. CASE Close(p)
    BY <1>0, <2>0, <2>3 DEF Close, AtEof, To, TypeInv, AtWork, Drains, Over
  <2>4. CASE FinishTail(p)
    <3>1. <<pending[p]>> # <<>>
      OBVIOUS
    <3> QED
      BY <1>0, <2>0, <2>4, <3>1 DEF FinishTail, AtEof, To, TypeInv, AtWork, Drains, Over
  <2>5. CASE Observe(p)
    <3>1. PICK l : l \in {"mark", "enqueue"} /\ pc' = [pc EXCEPT ![p] = l]
      BY <2>5 DEF Observe, To, BindingStarts
    <3> QED
      BY <1>0, <2>0, <2>5, <3>1 DEF Observe, TypeInv, AtWork, Drains, Over
  <2>6. CASE Mark(p)
    BY <1>0, <2>0, <2>6 DEF Mark, To, TypeInv, AtWork, Drains, Over
  <2>7. CASE Set(p)
    BY <1>0, <2>0, <2>7 DEF Set, To, TypeInv, AtWork, Drains, Over
  <2>8. CASE Enqueue(p)
    <3>1. PICK ls : ls = Tail(lines[p])
      OBVIOUS
    <3>2. /\ lines' = [lines EXCEPT ![p] = ls]
          /\ pc' = [pc EXCEPT ![p] = IF ls = <<>> THEN "read" ELSE "log"]
      BY <2>8, <3>1 DEF Enqueue, Logging, To
    <3> QED
      BY <1>0, <2>0, <2>8, <3>2 DEF Enqueue, TypeInv, AtWork, Drains, Over
  <2> QED
    BY <1>7, <2>1, <2>3, <2>4, <2>5, <2>6, <2>7, <2>8 DEF Pump
<1>8. CASE UNCHANGED vars
  BY <1>0, <1>8 DEF vars, Drain, Drains, AtWork, Over
<1> QED
  BY <1>1, <1>2, <1>3, <1>4, <1>5, <1>6, <1>7, <1>8 DEF Next, Environment, Breaks

LEMMA ReportedKept ==
  ASSUME ProxyInv, [Next]_vars PROVE Reported'
<1> USE DEF endVars, pumpVars, mainVars
<1>0. Reported
  BY DEF ProxyInv
<1>1. ASSUME UNCHANGED <<main, status, code>> PROVE Reported'
  BY <1>0, <1>1 DEF Reported, ReportedCode
<1>2. CASE Environment \/ Breaks \/ UNCHANGED vars
  BY <1>1, <1>2, BreakingOff
     DEF Environment, AgentWrites, AgentComplains, HolderEnds, AgentExits, BreaksOff, vars
<1>3. ASSUME NEW p \in Pumps, Pump(p) PROVE Reported'
  BY <1>1, <1>3 DEF Pump, Forward, FinishTail, Close, Observe, Mark, Set, Enqueue
<1>4. CASE Main
  BY <1>0, <1>4, ZenonT(30) DEF Main, Reap, StopForwarding, LogExit, FlushAndExit, Reported, ReportedCode
<1> QED
  BY <1>2, <1>3, <1>4 DEF Next, Breaks

-----------------------------------------------------------------------------
(***************************************************************************)
(* Every step keeps the mapping records first.                             *)
(***************************************************************************)
LEMMA LogGrows ==
  ASSUME TypeInv, NEW e \in Entries, log' = Append(log, e)
  PROVE  /\ Len(log) \in Nat /\ Len(log') = Len(log) + 1 /\ log'[Len(log) + 1] = e
         /\ \A i \in 1..Len(log) : log'[i] = log[i]
         /\ \A s : Marked(log, s) => Marked(log', s)
<1>1. /\ Len(log) \in Nat /\ Len(log') = Len(log) + 1 /\ log'[Len(log) + 1] = e
      /\ \A i \in 1..Len(log) : log'[i] = log[i]
  BY LenProperties, AppendProperties DEF TypeInv
<1>2. ASSUME NEW s, Marked(log, s) PROVE Marked(log', s)
  <2>1. PICK j \in 1..Len(log) : log[j].kind = "session-bound" /\ log[j].sid = s
    BY <1>2 DEF Marked
  <2>2. j \in 1..Len(log') /\ log'[j] = log[j]
    BY <1>1
  <2> QED
    BY <2>1, <2>2 DEF Marked
<1> QED
  BY <1>1, <1>2

(* A record may be given to the sink when it names its session, or when    *)
(* the mapping is there.                                                   *)
RecordsPlaced ==
  \A i \in 1..Len(log) : log[i].dest \in Sids =>
    \/ \E j \in 1..(i - 1) : log[j].kind = "session-bound" /\ log[j].sid = log[i].dest
    \/ Names(log[i].line, log[i].dest)

LEMMA RecordPlaced ==
  ASSUME TypeInv, RecordsPlaced, NEW e \in Entries, log' = Append(log, e),
         e.dest \in Sids => Marked(log, e.dest) \/ Names(e.line, e.dest)
  PROVE  RecordsPlaced'
<1>1. /\ Len(log) \in Nat /\ Len(log') = Len(log) + 1 /\ log'[Len(log) + 1] = e
      /\ \A i \in 1..Len(log) : log'[i] = log[i]
  BY LogGrows
<1> SUFFICES ASSUME NEW i \in 1..Len(log'), log'[i].dest \in Sids
             PROVE  \/ \E j \in 1..(i - 1) : log'[j].kind = "session-bound" /\ log'[j].sid = log'[i].dest
                    \/ Names(log'[i].line, log'[i].dest)
  BY DEF RecordsPlaced, Names, Whole
<1>2. \A j \in 1..(i - 1) : j \in 1..Len(log) /\ log'[j] = log[j]
  BY <1>1
<1>3. CASE i \in 1..Len(log)
  <2>1. log'[i] = log[i]
    BY <1>1, <1>3
  <2>2. \/ \E j \in 1..(i - 1) : log[j].kind = "session-bound" /\ log[j].sid = log[i].dest
        \/ Names(log[i].line, log[i].dest)
    BY <1>3, <2>1 DEF RecordsPlaced
  <2> QED
    BY <1>2, <2>1, <2>2
<1>4. CASE i = Len(log) + 1
  <2>1. log'[i] = e /\ 1..(i - 1) = 1..Len(log)
    BY <1>1, <1>4
  <2> QED
    BY <1>2, <2>1 DEF Marked
<1> QED
  BY <1>1, <1>3, <1>4

(* A pump's step leaves what the others are about to log alone.            *)
LEMMA OnePumpMaps ==
  ASSUME Mapped, NEW p \in Pumps,
         \A s : Marked(log, s) => Marked(log', s),
         \A q \in Pumps \ {p} : UNCHANGED <<pc[q], lines[q], sniffed[q]>>,
         bound'[Conn] = bound[Conn] \/ Marked(log', bound'[Conn]), Mapping(p)', RecordsPlaced'
  PROVE  Mapped'
<1>1. \A q \in Pumps : Mapping(q)'
  <2> SUFFICES ASSUME NEW q \in Pumps, q # p PROVE Mapping(q)'
    OBVIOUS
  <2>1. Mapping(q) /\ UNCHANGED <<pc[q], lines[q], sniffed[q]>>
    BY DEF Mapped
  <2>2. Marked(log, sniffed[q]) => Marked(log', sniffed[q])
    OBVIOUS
  <2>3. Names(Head(lines[q]), sniffed[q]) => Names(Head(lines[q]), sniffed[q])'
    BY <2>1 DEF Names, Whole
  <2> QED
    BY <2>1, <2>2, <2>3 DEF Mapping
<1>2. bound'[Conn] \in Sids => Marked(log', bound'[Conn])
  BY DEF Mapped
<1> QED
  BY <1>1, <1>2 DEF Mapped, RecordsPlaced

LEMMA MappedKept ==
  ASSUME ProxyInv, [Next]_vars PROVE Mapped'
<1> USE DEF endVars, pumpVars, mainVars
<1>0. TypeInv /\ Drain /\ Mapped /\ RecordsPlaced
  BY DEF ProxyInv, Mapped, RecordsPlaced
<1>1. ASSUME UNCHANGED <<pc, lines, sniffed, log, bound>> PROVE Mapped'
  BY <1>0, <1>1 DEF Mapped, Mapping, Marked, Names, Whole
<1>2. CASE Environment \/ Reap \/ StopForwarding \/ FlushAndExit \/ UNCHANGED vars
  BY <1>1, <1>2 DEF Environment, AgentWrites, AgentComplains, HolderEnds, AgentExits,
                    Reap, StopForwarding, FlushAndExit, vars
<1>3. CASE Breaks
  <2>1. PICK p \in Pumps, l \in {"failed", "aborted"} : BreaksOff(p) /\ To(p, l)
    BY <1>3, BreakingOff
  <2> QED
    BY <1>0, <2>1 DEF BreaksOff, To, TypeInv, Mapped, Mapping, Marked, Names, Whole
<1>4. CASE LogExit
  <2>1. PICK e \in Entries : e.dest = Route(Conn, NoSid) /\ log' = Append(log, e)
    <3>1. Entry(Route(Conn, NoSid), "exit", <<>>, bound[Conn]) \in Entries
      BY <1>0, SidFacts, RouteTyped, EmptySeq DEF Entry, Entries, TypeInv
    <3> QED
      BY <1>4, <3>1 DEF LogExit, Entry
  <2>2. e.dest \in Sids => Marked(log, e.dest)
    BY <1>0, <2>1, SidFacts, RouteTyped DEF Mapped
  <2>3. RecordsPlaced' /\ \A s : Marked(log, s) => Marked(log', s)
    BY <1>0, <2>1, <2>2, RecordPlaced, LogGrows
  <2>4. UNCHANGED <<pc, lines, sniffed, bound>>
    BY <1>4 DEF LogExit
  <2>5. PICK p \in Pumps : p = "up"
    BY DEF Pumps
  <2>6. Mapping(p) /\ (Marked(log, sniffed[p]) => Marked(log', sniffed[p]))
    BY <1>0, <2>3 DEF Mapped
  <2>7. Mapping(p)'
    BY <2>4, <2>6 DEF Mapping, Names, Whole
  <2> QED
    BY <1>0, <2>3, <2>4, <2>7, OnePumpMaps
<1>5. ASSUME NEW p \in Pumps, UNCHANGED <<log, bound>>, Mapping(p)',
             \A q \in Pumps \ {p} : UNCHANGED <<pc[q], lines[q], sniffed[q]>>
      PROVE  Mapped'
  <2>1. RecordsPlaced'
    BY <1>0, <1>5 DEF RecordsPlaced, Names, Whole
  <2> QED
    BY <1>0, <1>5, <2>1, OnePumpMaps
<1>6. ASSUME NEW p \in Pumps, Pump(p) PROVE Mapped'
  <2>0. Mapping(p) /\ pc \in [Pumps -> Places] /\ lines \in [Pumps -> Seq(Seq(Text))]
        /\ sniffed \in [Pumps -> AnySid]
    BY <1>0 DEF Mapped, TypeInv
  <2>1. ASSUME NEW l \in {"read", "log", "closed"},
               pc' = [pc EXCEPT ![p] = l], UNCHANGED <<log, bound>>,
               \A q \in Pumps \ {p} : UNCHANGED <<lines[q], sniffed[q]>>
        PROVE  Mapped'
    <3>1. pc'[p] = l /\ \A q \in Pumps \ {p} : UNCHANGED pc[q]
      BY <2>0, <2>1
    <3>2. Mapping(p)'
      BY <2>1, <3>1 DEF Mapping
    <3> QED
      BY <1>5, <2>1, <3>1, <3>2
  <2>2. CASE Forward(p)
    <3>1. PICK ls \in Seq(Seq(Text)) :
           /\ lines' = [lines EXCEPT ![p] = ls]
           /\ pc' = [pc EXCEPT ![p] = IF ls = <<>> THEN "read" ELSE "log"]
      BY <1>0, <2>2, ForwardTyped
    <3>2. PICK l \in {"read", "log", "closed"} : pc' = [pc EXCEPT ![p] = l]
      BY <3>1
    <3>3. UNCHANGED <<sniffed, log, bound>>
      BY <2>2 DEF Forward
    <3> QED
      BY <2>0, <2>1, <3>1, <3>2, <3>3
  <2>3. CASE Close(p)
    <3>1. PICK l \in {"read", "log", "closed"} : pc' = [pc EXCEPT ![p] = l]
      BY <2>3 DEF Close, To
    <3> QED
      BY <2>1, <2>3, <3>1 DEF Close
  <2>4. CASE FinishTail(p)
    <3>1. pc' = [pc EXCEPT ![p] = "log"] /\ UNCHANGED <<sniffed, log, bound>>
      BY <2>4 DEF FinishTail, To
    <3>2. \A q \in Pumps \ {p} : UNCHANGED lines[q]
      BY <2>0, <2>4 DEF FinishTail
    <3> QED
      BY <2>1, <3>1, <3>2
  <2>5. CASE Observe(p)
    <3>1. PICK l : l = Head(lines[p])
      OBVIOUS
    <3>2. l \in Seq(Text)
      BY <1>0, <2>5, <3>1, HeadLine DEF Observe
    <3>3. PICK o : o = Observation(p, l)
      OBVIOUS
    <3>4. /\ o.session \in AnySid /\ (o.established \in Sids => o.session = o.established)
          /\ (o.session \in Sids => o.established \in Sids \/ Names(l, o.session))
      BY <1>0, <3>2, <3>3, ObservationTyped
    <3>5. /\ sniffed' = [sniffed EXCEPT ![p] = o.session]
          /\ pc' = [pc EXCEPT ![p] = IF o.established \in Sids THEN "mark" ELSE "enqueue"]
          /\ UNCHANGED <<lines, log, bound>>
      BY <2>5, <3>1, <3>3 DEF Observe, To, BindingStarts
    <3>6. /\ sniffed'[p] = o.session
          /\ pc'[p] = IF o.established \in Sids THEN "mark" ELSE "enqueue"
          /\ \A q \in Pumps \ {p} : UNCHANGED <<pc[q], lines[q], sniffed[q]>>
      BY <2>0, <3>5
    <3>7. Mapping(p)'
      BY <3>1, <3>4, <3>5, <3>6 DEF Mapping, Names, Whole
    <3> QED
      BY <1>5, <3>5, <3>6, <3>7
  <2>6. CASE Mark(p)
    <3>1. PICK e \in Entries : /\ e.dest = Conn /\ e.kind = "session-bound"
                               /\ e.sid = sniffed[p] /\ log' = Append(log, e)
      <4>1. Entry(Conn, "session-bound", <<>>, sniffed[p]) \in Entries
        BY <1>0, SidFacts, EmptySeq DEF Entry, Entries, Dests, TypeInv
      <4> QED
        BY <2>6, <4>1 DEF Mark, Entry
    <3>2. RecordsPlaced' /\ \A s : Marked(log, s) => Marked(log', s)
      BY <1>0, <3>1, SidFacts, RecordPlaced, LogGrows
    <3>3. Marked(log', sniffed[p])
      <4>1. Len(log) + 1 \in 1..Len(log') /\ log'[Len(log) + 1] = e
        BY <1>0, <3>1, LogGrows
      <4> QED
        BY <3>1, <4>1 DEF Marked
    <3>4. /\ pc'[p] = "set" /\ \A q \in Pumps \ {p} : UNCHANGED pc[q]
          /\ UNCHANGED <<lines, sniffed, bound>> /\ sniffed[p] \in Sids
      BY <2>0, <2>6 DEF Mark, To, Mapping
    <3>5. Mapping(p)'
      BY <3>3, <3>4 DEF Mapping
    <3> QED
      BY <1>0, <3>2, <3>4, <3>5, OnePumpMaps
  <2>7. CASE Set(p)
    <3>1. /\ pc'[p] = "enqueue" /\ \A q \in Pumps \ {p} : UNCHANGED pc[q]
          /\ UNCHANGED <<lines, sniffed, log>> /\ Marked(log, sniffed[p])
      BY <2>0, <2>7 DEF Set, To, Mapping
    <3>2. bound'[Conn] = sniffed[p]
      BY <1>0, <2>7, SidFacts DEF Set, Bind, TypeInv
    <3>3. Mapping(p)' /\ RecordsPlaced'
      BY <1>0, <3>1 DEF Mapping, RecordsPlaced, Names, Whole
    <3> QED
      BY <1>0, <3>1, <3>2, <3>3, OnePumpMaps
  <2>8. CASE Enqueue(p)
    <3>1. PICK e \in Entries : /\ e.dest = Route(Conn, sniffed[p]) /\ e.line = Head(lines[p])
                               /\ log' = Append(log, e)
      <4>1. Entry(Route(Conn, sniffed[p]), p, Head(lines[p]), Stamped(Conn, sniffed[p])) \in Entries
        BY <1>0, <2>8, EnqueueTyped
      <4> QED
        BY <2>8, <4>1 DEF Enqueue, Entry
    <3>2. e.dest \in Sids => Marked(log, e.dest) \/ Names(e.line, e.dest)
      <4>1. e.dest \in Sids => sniffed[p] = e.dest \/ bound[Conn] = e.dest
        BY <1>0, <2>0, <3>1, RouteTyped
      <4>2. pc[p] = "enqueue"
        BY <2>8 DEF Enqueue
      <4> QED
        BY <1>0, <2>0, <3>1, <4>1, <4>2 DEF Mapped, Mapping
    <3>3. RecordsPlaced' /\ \A s : Marked(log, s) => Marked(log', s)
      BY <1>0, <3>1, <3>2, RecordPlaced, LogGrows
    <3>4. PICK l \in {"read", "log"} : pc' = [pc EXCEPT ![p] = l]
      BY <2>8 DEF Enqueue, Logging, To
    <3>5. PICK ls : lines' = [lines EXCEPT ![p] = ls]
      BY <2>8 DEF Enqueue
    <3>6. /\ pc'[p] = l /\ UNCHANGED <<sniffed, bound>>
          /\ \A q \in Pumps \ {p} : UNCHANGED <<pc[q], lines[q], sniffed[q]>>
      BY <2>0, <2>8, <3>4, <3>5 DEF Enqueue
    <3>7. Mapping(p)'
      BY <3>6 DEF Mapping
    <3> QED
      BY <1>0, <3>3, <3>6, <3>7, OnePumpMaps
  <2> QED
    BY <1>6, <2>2, <2>3, <2>4, <2>5, <2>6, <2>7, <2>8 DEF Pump
<1> QED
  BY <1>2, <1>3, <1>4, <1>6 DEF Breaks, Next, Main

-----------------------------------------------------------------------------
(***************************************************************************)
(* What is written comes in whole lines; what is read of it may end        *)
(* anywhere.                                                               *)
(***************************************************************************)
(* A message begins a line and is followed by the rest of it, as far as    *)
(* the stream goes.                                                        *)
Framed(q) ==
  \A i \in 1..Len(q) : q[i] \in Messages =>
    /\ i = 1 \/ q[i - 1] = NL
    /\ \A j \in 1..q[i].cells : i + j <= Len(q) => q[i + j] = IF j = q[i].cells THEN NL ELSE Rest
WholeLines(q) ==
  /\ Framed(q)
  /\ Len(q) = 0 \/ q[Len(q)] = NL
  /\ \A i \in 1..Len(q) : q[i] \in Messages => i + q[i].cells <= Len(q)

LEMMA CellsApart ==
  /\ NL \notin Messages /\ Rest \notin Messages /\ NL # Rest
  /\ Messages \subseteq Text /\ Rest \in Text /\ NL \in Cells /\ Text \subseteq Cells
  /\ \A c \in Cells : c # NL => c \in Text
<1>1. NL.cell = "newline" /\ Rest.cell = "rest"
  BY DEF NL, Rest
<1> QED
  BY <1>1, ProxyAssumption DEF Cells, Text

LEMMA LineIs ==
  ASSUME NEW m \in Messages
  PROVE  /\ Line(m) \in Seq(Cells) /\ Len(Line(m)) = m.cells + 1 /\ Line(m)[1] = m
         /\ \A j \in 1..m.cells : Line(m)[1 + j] = IF j = m.cells THEN NL ELSE Rest
         /\ Body(m) \in Seq(Text) /\ Len(Body(m)) = m.cells
         /\ \A j \in 1..m.cells : Body(m)[j] = IF j = 1 THEN m ELSE Rest
<1> DEFINE n == m.cells  rest == [i \in 1..(n - 1) |-> Rest]  head == <<m>>  end == <<NL>>  l == Line(m)
<1>1. n \in Nat \ {0}
  BY MessageFacts
<1> HIDE DEF n
<1>2. rest \in Seq(Cells) /\ Len(rest) = n - 1 /\ \A i \in 1..(n - 1) : rest[i] = Rest
  BY <1>1 DEF Cells, Text
<1>3. head \in Seq(Cells) /\ Len(head) = 1 /\ head[1] = m /\ end \in Seq(Cells) /\ Len(end) = 1 /\ end[1] = NL
  BY DEF Cells, Text
<1>4. l = (head \o rest) \o end
  BY DEF Line, n
<1> HIDE DEF head, rest, end, l
<1>5. /\ head \o rest \in Seq(Cells) /\ Len(head \o rest) = n
      /\ \A i \in 1..n : (head \o rest)[i] = IF i <= 1 THEN head[i] ELSE rest[i - 1]
  BY <1>1, <1>2, <1>3, ConcatProperties
<1>6. /\ l \in Seq(Cells) /\ Len(l) = n + 1
      /\ \A i \in 1..n + 1 : l[i] = IF i <= n THEN (head \o rest)[i] ELSE end[i - n]
  <2>1. PICK p \in Seq(Cells) : p = head \o rest
    BY <1>5
  <2>2. Len(p) = n /\ Len(end) = 1 /\ end \in Seq(Cells) /\ l = p \o end
    BY <1>3, <1>4, <1>5, <2>1
  <2>3. /\ p \o end \in Seq(Cells) /\ Len(p \o end) = Len(p) + Len(end)
        /\ \A i \in 1..Len(p) + Len(end) : (p \o end)[i] = IF i <= Len(p) THEN p[i] ELSE end[i - Len(p)]
    BY <2>2, ConcatProperties
  <2> QED
    BY <2>1, <2>2, <2>3
<1>7. \A i \in 1..n + 1 : l[i] = IF i = 1 THEN m ELSE IF i = n + 1 THEN NL ELSE Rest
  <2> SUFFICES ASSUME NEW i \in 1..n + 1 PROVE l[i] = IF i = 1 THEN m ELSE IF i = n + 1 THEN NL ELSE Rest
    OBVIOUS
  <2>1. CASE i = 1
    <3>1. 1 \in 1..n /\ 1 \in 1..n + 1 /\ 1 <= n
      BY <1>1
    <3>2. l[1] = (head \o rest)[1] /\ (head \o rest)[1] = head[1]
      BY <1>5, <1>6, <3>1
    <3> QED
      BY <1>3, <2>1, <3>2
  <2>2. CASE i = n + 1
    BY <1>1, <1>3, <1>6, <2>2
  <2>3. CASE i # 1 /\ i # n + 1
    <3>1. i \in 1..n /\ i - 1 \in 1..(n - 1) /\ ~(i <= 1) /\ i <= n
      BY <1>1, <2>3
    <3> QED
      BY <1>2, <1>5, <1>6, <2>3, <3>1
  <2> QED
    BY <2>1, <2>2, <2>3
<1>8. \A j \in 1..n : 1 + j \in 1..n + 1 /\ l[1 + j] = IF j = n THEN NL ELSE Rest
  BY <1>1, <1>7
<1>9. Body(m) = SubSeq(l, 1, n)
  BY <1>1, <1>6 DEF Body, Front, l
<1>10. \A i \in 1..n : l[i] = IF i = 1 THEN m ELSE Rest
  BY <1>1, <1>7
<1>11. \A i \in 1..n : l[i] \in Text
  BY <1>10, CellsApart
<1>12. /\ SubSeq(l, 1, n) \in Seq(Text) /\ Len(SubSeq(l, 1, n)) = n
       /\ \A i \in 1..n : SubSeq(l, 1, n)[i] = l[i]
  BY <1>1, <1>11, SubSeqProperties
<1>13. 1 \in 1..n + 1 /\ l[1] = m
  BY <1>1, <1>7
<1> QED
  BY <1>6, <1>8, <1>9, <1>10, <1>12, <1>13 DEF l, n

(* One more message, one more whole line. *)
LEMMA MoreLines ==
  ASSUME NEW q \in Seq(Cells), WholeLines(q), NEW m \in Messages
  PROVE  q \o Line(m) \in Seq(Cells) /\ WholeLines(q \o Line(m))
<1> DEFINE n == Len(q)  k == m.cells  l == Line(m)  a == q \o l
<1>1. n \in Nat /\ k \in Nat \ {0}
  BY LenProperties, MessageFacts
<1>2. /\ l \in Seq(Cells) /\ Len(l) = k + 1 /\ l[1] = m
      /\ \A j \in 1..k : l[1 + j] = IF j = k THEN NL ELSE Rest
  BY LineIs
<1>3. /\ a \in Seq(Cells) /\ Len(a) = n + k + 1
      /\ \A i \in 1..n : a[i] = q[i]
      /\ \A i \in 1..k + 1 : a[n + i] = l[i]
  <2>1. /\ a \in Seq(Cells) /\ Len(a) = n + Len(l)
        /\ \A i \in 1..n + Len(l) : a[i] = IF i <= n THEN q[i] ELSE l[i - n]
    BY <1>2, ConcatProperties
  <2>2. \A i \in 1..k + 1 : n + i \in 1..n + Len(l) /\ ~(n + i <= n) /\ n + i - n = i
    BY <1>1, <1>2
  <2>3. \A i \in 1..n : i \in 1..n + Len(l) /\ i <= n
    BY <1>1, <1>2
  <2> HIDE DEF a, l, n, k
  <2>4. Len(a) = n + k + 1
    BY <1>1, <1>2, <2>1
  <2>5. \A i \in 1..n : a[i] = q[i]
    BY <2>1, <2>3
  <2>6. \A i \in 1..k + 1 : a[n + i] = l[i]
    <3> SUFFICES ASSUME NEW i \in 1..k + 1 PROVE a[n + i] = l[i]
      OBVIOUS
    <3>1. PICK x : x = n + i
      OBVIOUS
    <3>2. x \in 1..n + Len(l) /\ ~(x <= n) /\ x - n = i
      BY <1>1, <1>2, <3>1
    <3>3. a[x] = l[x - n]
      BY <2>1, <3>2
    <3> QED
      BY <3>1, <3>2, <3>3
  <2> QED
    BY <2>1, <2>4, <2>5, <2>6
<1> HIDE DEF a, l, n, k
<1>4. a[n + 1] = m /\ \A j \in 1..k : a[n + 1 + j] = IF j = k THEN NL ELSE Rest
  <2>1. 1 \in 1..k + 1 /\ \A j \in 1..k : 1 + j \in 1..k + 1 /\ n + (1 + j) = n + 1 + j
    BY <1>1
  <2> QED
    BY <1>2, <1>3, <2>1
<1>5. a[n + k + 1] = NL
  <2>1. k \in 1..k /\ n + 1 + k = n + k + 1
    BY <1>1
  <2> QED
    BY <1>4, <2>1
<1>6. ASSUME NEW i \in 1..n + k + 1, a[i] \in Messages
      PROVE  (i \in 1..n /\ a[i] = q[i]) \/ i = n + 1
  <2>1. CASE i > n + 1
    <3>1. i - (n + 1) \in 1..k /\ n + 1 + (i - (n + 1)) = i
      BY <1>1, <2>1
    <3> QED
      BY <1>4, <1>6, <3>1, CellsApart
  <2>2. CASE i <= n
    BY <1>1, <1>3, <2>2
  <2> QED
    BY <1>1, <2>1, <2>2
<1>7. ASSUME NEW i \in 1..n + k + 1, a[i] \in Messages
      PROVE  /\ i = 1 \/ a[i - 1] = NL
             /\ i + a[i].cells <= n + k + 1
             /\ \A j \in 1..a[i].cells : a[i + j] = IF j = a[i].cells THEN NL ELSE Rest
  <2>1. CASE i \in 1..n /\ a[i] = q[i]
    <3>1. q[i] \in Messages
      BY <1>7, <2>1
    <3>2. /\ i = 1 \/ q[i - 1] = NL
          /\ i + q[i].cells <= n
          /\ \A j \in 1..q[i].cells : i + j <= n => q[i + j] = IF j = q[i].cells THEN NL ELSE Rest
      BY <2>1, <3>1 DEF WholeLines, Framed, n
    <3>3. i = 1 \/ i - 1 \in 1..n
      BY <1>1, <2>1
    <3>4. q[i].cells \in Nat
      BY <3>1, MessageFacts
    <3>5. \A j \in 1..q[i].cells : i + j <= n /\ i + j \in 1..n
      BY <1>1, <2>1, <3>2, <3>4, SMTT(30)
    <3>6. i + q[i].cells <= n + k + 1
      BY <1>1, <3>2, <3>4
    <3> QED
      BY <1>3, <2>1, <3>2, <3>3, <3>5, <3>6
  <2>2. CASE i = n + 1
    <3>1. a[i] = m /\ m.cells = k
      BY <1>4, <2>2 DEF k
    <3>2. n = 0 \/ (n \in 1..n /\ q[n] = NL)
      BY <1>1 DEF WholeLines, n
    <3>3. i = 1 \/ a[i - 1] = NL
      BY <1>1, <1>3, <2>2, <3>2
    <3>4. i + a[i].cells <= n + k + 1
      BY <1>1, <2>2, <3>1
    <3>5. \A j \in 1..a[i].cells : a[i + j] = IF j = a[i].cells THEN NL ELSE Rest
      BY <1>4, <2>2, <3>1
    <3> QED
      BY <3>3, <3>4, <3>5
  <2> QED
    BY <1>6, <1>7, <2>1, <2>2
<1>8. Framed(a)
  BY <1>3, <1>7 DEF Framed
<1> QED
  BY <1>1, <1>3, <1>5, <1>7, <1>8 DEF WholeLines, a, l

LEMMA NoLines == WholeLines(<<>>)
  BY DEF WholeLines, Framed

(* What the client sends is whole lines. *)
LEMMA InputWhole ==
  ASSUME NEW c \in Clients PROVE WholeLines(Input(c.sends))
<1> DEFINE f == [m \in Messages |-> Line(m)]
           T == {q \in Seq(Messages) : Each(f, q) \in Seq(Cells) /\ WholeLines(Each(f, q))}
<1>1. Stands(Messages, Cells, f) /\ \A m \in Messages : f[m] = Line(m)
  BY LineIs DEF Stands
<1> HIDE DEF f
<1>2. Each(f, <<>>) = <<>> /\ \A q \in Seq(Messages), m \in Messages : Each(f, Append(q, m)) = Each(f, q) \o f[m]
  BY <1>1, EachAppend
<1>3. <<>> \in T
  BY <1>2, NoLines, EmptySeq
<1>4. ASSUME NEW q \in Seq(Messages), NEW m \in Messages, q \in T PROVE Append(q, m) \in T
  <2>1. Each(f, Append(q, m)) = Each(f, q) \o Line(m)
    BY <1>1, <1>2
  <2>2. Each(f, q) \in Seq(Cells) /\ WholeLines(Each(f, q))
    BY <1>4
  <2>3. Each(f, q) \o Line(m) \in Seq(Cells) /\ WholeLines(Each(f, q) \o Line(m))
    BY <2>2, MoreLines
  <2> QED
    BY <2>1, <2>3, AppendProperties
<1> HIDE DEF T
<1>5. Seq(Messages) \subseteq T
  BY <1>3, <1>4, SeqInduction
<1>6. c.sends \in Seq(Messages)
  <2>1. ToSet(c.sends) \subseteq Messages
    BY DEF Messages
  <2> QED
    BY <2>1, ProxyAssumption, SeqMonotonic
<1>7. \A i \in DOMAIN c.sends : c.sends[i] \in Messages
  BY <1>6, LenProperties, ElementOfSeq
<1>8. [i \in DOMAIN c.sends |-> Line(c.sends[i])] = [i \in DOMAIN c.sends |-> f[c.sends[i]]]
  BY <1>1, <1>7
<1>9. Input(c.sends) = Each(f, c.sends)
  BY <1>8, Zenon DEF Input, Each
<1> QED
  BY <1>5, <1>6, <1>9 DEF T

(* What was read of whole lines. *)
LEMMA FramedPart ==
  ASSUME NEW q \in Seq(Cells), Framed(q), NEW n \in 0..Len(q)
  PROVE  /\ SubSeq(q, 1, n) \in Seq(Cells) /\ Len(SubSeq(q, 1, n)) = n
         /\ \A i \in 1..n : SubSeq(q, 1, n)[i] = q[i]
         /\ Framed(SubSeq(q, 1, n))
<1> DEFINE r == SubSeq(q, 1, n)
<1>1. Len(q) \in Nat /\ n \in Nat /\ \A i \in 1..n : i \in 1..Len(q) /\ q[i] \in Cells
  BY LenProperties, ElementOfSeq
<1>2. r \in Seq(Cells) /\ Len(r) = n /\ \A i \in 1..n : r[i] = q[i]
  BY <1>1, SubSeqProperties
<1> HIDE DEF r
<1>3. ASSUME NEW i \in 1..n, r[i] \in Messages
      PROVE  /\ i = 1 \/ r[i - 1] = NL
             /\ \A j \in 1..r[i].cells : i + j <= n => r[i + j] = IF j = r[i].cells THEN NL ELSE Rest
  <2>1. r[i] = q[i] /\ i \in 1..Len(q)
    BY <1>1, <1>2
  <2>2. /\ i = 1 \/ q[i - 1] = NL
        /\ \A j \in 1..q[i].cells : i + j <= Len(q) => q[i + j] = IF j = q[i].cells THEN NL ELSE Rest
    BY <1>3, <2>1 DEF Framed
  <2>3. i = 1 \/ i - 1 \in 1..n
    BY <1>1
  <2>4. q[i].cells \in Nat
    BY <1>3, <2>1, MessageFacts
  <2>5. \A j \in 1..q[i].cells : i + j <= n => i + j \in 1..n /\ i + j <= Len(q)
    BY <1>1, <2>4
  <2> QED
    BY <1>2, <2>1, <2>2, <2>3, <2>5
<1> QED
  BY <1>2, <1>3 DEF Framed, r

-----------------------------------------------------------------------------
(***************************************************************************)
(* What is kept of the cells q that were passed on: recs are the lines so  *)
(* far, pend what follows the last.                                        *)
(***************************************************************************)
Spelt(q, recs, pend) == FlattenSeq(recs) \o pend = Unbroken(q)

(* Of a message that fits, all of it so far is pending, or it is a line.   *)
Kept(q, recs, pend) ==
  /\ Len(q) = 0 \/ q[Len(q)] = NL => pend = <<>>
  /\ \A i \in 1..Len(q) : q[i] \in Messages /\ q[i].cells <= MaxPendingLine =>
       IF i + q[i].cells <= Len(q) THEN \E k \in 1..Len(recs) : recs[k] = Body(q[i])
       ELSE pend = SubSeq(q, i, Len(q))

LEMMA OneMore ==
  ASSUME NEW S, NEW recs \in Seq(S), NEW e \in S
  PROVE  \A i \in 1..Len(recs) : \E k \in 1..Len(Append(recs, e)) : Append(recs, e)[k] = recs[i]
<1> DEFINE a == Append(recs, e)
<1>1. Len(recs) \in Nat /\ Len(a) = Len(recs) + 1 /\ \A i \in 1..Len(recs) : a[i] = recs[i]
  BY LenProperties, AppendProperties
<1> HIDE DEF a
<1>2. \A k \in 1..Len(recs) : k \in 1..Len(a)
  BY <1>1
<1> QED
  BY <1>1, <1>2 DEF a

(* A piece of the stream that begins at i. *)
LEMMA PieceGrows ==
  ASSUME NEW q \in Seq(Cells), NEW c \in Cells, NEW i \in 1..Len(q) + 1
  PROVE  /\ i <= Len(q) => SubSeq(Append(q, c), i, Len(q) + 1) = Append(SubSeq(q, i, Len(q)), c)
         /\ i = Len(q) + 1 => SubSeq(Append(q, c), i, Len(q) + 1) = <<c>>
         /\ \A j \in 1..Len(q) : SubSeq(Append(q, c), i, j) = SubSeq(q, i, j)
<1> DEFINE n == Len(q)  a == Append(q, c)
<1>1. n \in Nat /\ a \in Seq(Cells) /\ Len(a) = n + 1 /\ a[n + 1] = c /\ \A j \in 1..n : a[j] = q[j]
  BY LenProperties, AppendProperties
<1>2. \A j \in 1..n : q[j] \in Cells
  BY ElementOfSeq
<1> HIDE DEF n, a
<1>3. \A j \in 1..n + 1 : a[j] \in Cells
  BY <1>1, <1>2
<1> DEFINE s == SubSeq(a, i, n + 1)  t == SubSeq(q, i, n)  u == Append(t, c)
<1>4. i \in Nat \ {0} /\ i <= n + 1
  BY <1>1 DEF n
<1>5. s \in Seq(Cells) /\ Len(s) = n + 1 - i + 1 /\ \A j \in 1..n + 1 - i + 1 : s[j] = a[i + j - 1]
  BY <1>1, <1>3, <1>4, SubSeqProperties
<1>6. t \in Seq(Cells) /\ Len(t) = n - i + 1 /\ \A j \in 1..n - i + 1 : t[j] = q[i + j - 1]
  <2>1. /\ t \in Seq(Cells) /\ Len(t) = IF i <= n THEN n - i + 1 ELSE 0
        /\ \A j \in 1..n - i + 1 : t[j] = q[i + j - 1]
    BY <1>1, <1>2, <1>4, SubSeqProperties
  <2> QED
    BY <1>1, <1>4, <2>1
<1> HIDE DEF s, t
<1>7. u \in Seq(Cells) /\ Len(u) = n - i + 1 + 1 /\ u[n - i + 1 + 1] = c
      /\ \A j \in 1..n - i + 1 : u[j] = t[j]
  <2>1. t \in Seq(Cells) /\ c \in Cells
    BY <1>6
  <2> HIDE DEF u
  <2>2. /\ Append(t, c) \in Seq(Cells) /\ Len(Append(t, c)) = Len(t) + 1
        /\ \A j \in 1..Len(t) : Append(t, c)[j] = t[j]
        /\ Append(t, c)[Len(t) + 1] = c
    BY <2>1, AppendProperties
  <2>3. u = Append(t, c)
    BY DEF u
  <2> QED
    BY <1>6, <2>2, <2>3, Zenon
<1> HIDE DEF u
<1>8. ASSUME NEW j \in 1..n + 1 - i + 1 PROVE s[j] = u[j]
  <2>1. CASE j = n - i + 1 + 1
    <3>1. i + j - 1 = n + 1
      BY <1>1, <1>4, <2>1
    <3> QED
      BY <1>1, <1>5, <1>7, <2>1, <3>1
  <2>2. CASE j # n - i + 1 + 1
    <3>1. j \in 1..n - i + 1 /\ i + j - 1 \in 1..n
      BY <1>1, <1>4, <2>2
    <3> QED
      BY <1>1, <1>5, <1>6, <1>7, <3>1
  <2> QED
    BY <2>1, <2>2
<1>9. s = u
  <2>1. Len(s) = Len(u)
    BY <1>1, <1>4, <1>5, <1>7
  <2> QED
    BY <1>5, <1>7, <1>8, <2>1, SeqEqual
<1>10. i = n + 1 => u = <<c>>
  <2>1. i = n + 1 => t = <<>>
    <3>1. i = n + 1 => n - i + 1 = 0
      BY <1>1, <1>4
    <3> QED
      BY <1>6, <3>1, EmptySeq
  <2> QED
    BY <2>1 DEF u
<1>11. ASSUME NEW j \in 1..n PROVE SubSeq(a, i, j) = SubSeq(q, i, j)
  <2>1. \A k \in i..j : a[k] \in Cells /\ q[k] \in Cells /\ a[k] = q[k]
    BY <1>1, <1>2, <1>3, <1>4
  <2> DEFINE v == SubSeq(a, i, j)  w == SubSeq(q, i, j)
  <2>2. v \in Seq(Cells) /\ Len(v) = (IF i <= j THEN j - i + 1 ELSE 0)
        /\ \A k \in 1..j - i + 1 : v[k] = a[i + k - 1]
    BY <1>1, <1>4, <2>1, SubSeqProperties
  <2>3. w \in Seq(Cells) /\ Len(w) = (IF i <= j THEN j - i + 1 ELSE 0)
        /\ \A k \in 1..j - i + 1 : w[k] = q[i + k - 1]
    BY <1>1, <1>4, <2>1, SubSeqProperties
  <2> HIDE DEF v, w
  <2>4. ASSUME NEW k \in 1..Len(v) PROVE v[k] = w[k]
    <3>1. k \in 1..j - i + 1 /\ i + k - 1 \in i..j
      BY <1>1, <1>4, <2>2
    <3> QED
      BY <2>1, <2>2, <2>3, <3>1
  <2>5. v = w
    BY <2>2, <2>3, <2>4, SeqEqual
  <2> QED
    BY <2>5 DEF v, w
<1> QED
  BY <1>9, <1>10, <1>11 DEF n, a, s, t, u

(* A message that has been passed on whole is what lies before its end.    *)
LEMMA WholeIsBody ==
  ASSUME NEW q \in Seq(Cells), Framed(q), NEW i \in 1..Len(q), q[i] \in Messages,
         i + q[i].cells - 1 <= Len(q)
  PROVE  SubSeq(q, i, i + q[i].cells - 1) = Body(q[i])
<1> DEFINE m == q[i]  k == m.cells  s == SubSeq(q, i, i + k - 1)
<1>1. Len(q) \in Nat /\ k \in Nat \ {0} /\ i \in Nat /\ m \in Messages
  BY LenProperties, MessageFacts
<1>2. Body(m) \in Seq(Text) /\ Len(Body(m)) = k /\ \A j \in 1..k : Body(m)[j] = IF j = 1 THEN m ELSE Rest
  BY LineIs
<1>3. ASSUME NEW j \in 1..k PROVE q[i + j - 1] = IF j = 1 THEN m ELSE Rest
  <2>1. CASE j = 1
    BY <1>1, <2>1
  <2>2. CASE j # 1
    <3>1. j - 1 \in 1..k /\ i + (j - 1) <= Len(q) /\ j - 1 # k /\ i + (j - 1) = i + j - 1
      BY <1>1, <2>2
    <3>2. q[i + (j - 1)] = Rest
      BY <1>1, <3>1 DEF Framed
    <3> QED
      BY <2>2, <3>1, <3>2
  <2> QED
    BY <2>1, <2>2
<1> HIDE DEF m, k
<1>4. \A x \in i..i + k - 1 : q[x] \in Text
  <2> SUFFICES ASSUME NEW x \in i..i + k - 1 PROVE q[x] \in Text
    OBVIOUS
  <2>1. PICK j \in 1..k : x = i + j - 1
    <3>1. x - i + 1 \in 1..k /\ x = i + (x - i + 1) - 1
      BY <1>1
    <3> QED
      BY <3>1
  <2> QED
    BY <1>1, <1>3, <2>1, CellsApart
<1>5. s \in Seq(Text) /\ Len(s) = k /\ \A j \in 1..k : s[j] = q[i + j - 1]
  <2>1. /\ s \in Seq(Text) /\ Len(s) = (IF i <= i + k - 1 THEN i + k - 1 - i + 1 ELSE 0)
        /\ \A j \in 1..i + k - 1 - i + 1 : s[j] = q[i + j - 1]
    BY <1>1, <1>4, SubSeqProperties
  <2>2. i + k - 1 - i + 1 = k /\ i <= i + k - 1
    BY <1>1
  <2> QED
    BY <2>1, <2>2
<1> HIDE DEF s
<1>6. s = Body(m)
  <2>1. PICK b \in Seq(Text) : b = Body(m)
    BY <1>2
  <2>2. Len(s) = Len(b) /\ \A j \in 1..Len(s) : s[j] = b[j]
    BY <1>2, <1>3, <1>5, <2>1
  <2>3. s = b
    BY <1>5, <2>2, SeqEqual
  <2> QED
    BY <2>1, <2>3
<1> QED
  BY <1>6 DEF s, m, k

(* What goes into the log of one more cell.                                *)
LEMMA UnbrokenGrows ==
  /\ Unbroken(<<>>) = <<>>
  /\ \A q \in Seq(Cells) : Unbroken(q) \in Seq(Text)
  /\ \A q \in Seq(Cells), c \in Cells :
       Unbroken(Append(q, c)) = IF c = NL THEN Unbroken(q) ELSE Append(Unbroken(q), c)
<1> DEFINE f == [c \in Cells |-> IF c = NL THEN <<>> ELSE <<c>>]
<1>1. Stands(Cells, Text, f) /\ \A c \in Cells : f[c] = IF c = NL THEN <<>> ELSE <<c>>
  <2>1. \A c \in Cells : c # NL => c \in Text /\ <<c>> \in Seq(Text)
    BY CellsApart
  <2>2. <<>> \in Seq(Text)
    BY EmptySeq
  <2>3. f \in [Cells -> Seq(Text)]
    BY <2>1, <2>2
  <2> QED
    BY <2>3 DEF Stands
<1> HIDE DEF f
<1>2. \A q \in Seq(Cells) : Unbroken(q) = Each(f, q)
  <2> SUFFICES ASSUME NEW q \in Seq(Cells) PROVE Unbroken(q) = Each(f, q)
    OBVIOUS
  <2>1. \A i \in DOMAIN q : f[q[i]] = IF q[i] = NL THEN <<>> ELSE <<q[i]>>
    BY <1>1, LenProperties, ElementOfSeq
  <2>2. [i \in DOMAIN q |-> f[q[i]]] = [i \in DOMAIN q |-> IF q[i] = NL THEN <<>> ELSE <<q[i]>>]
    BY <2>1
  <2> QED
    BY <2>2, Zenon DEF Unbroken, Each
<1>3. /\ Each(f, <<>>) = <<>>
      /\ \A q \in Seq(Cells) : Each(f, q) \in Seq(Text)
      /\ \A q \in Seq(Cells), c \in Cells : Each(f, Append(q, c)) = Each(f, q) \o f[c]
  BY <1>1, EachAppend
<1>4. <<>> \in Seq(Cells)
  BY EmptySeq
<1>5. ASSUME NEW q \in Seq(Cells), NEW c \in Cells
      PROVE  Unbroken(Append(q, c)) = IF c = NL THEN Unbroken(q) ELSE Append(Unbroken(q), c)
  <2>1. PICK u \in Seq(Text) : u = Each(f, q)
    BY <1>3
  <2>2. PICK more \in Seq(Cells) : more = Append(q, c)
    BY AppendProperties
  <2>3. Unbroken(more) = u \o f[c] /\ Unbroken(q) = u
    BY <1>2, <1>3, <2>1, <2>2
  <2>4. u \o <<>> = u /\ (c # NL => u \o <<c>> = Append(u, c))
    BY CellsApart, ConcatEmptySeq, AppendIsConcat
  <2> QED
    BY <1>1, <2>2, <2>3, <2>4
<1> QED
  BY <1>2, <1>3, <1>4, <1>5

(* A line end completes the line, anything else goes on with it.           *)
LEMMA SpeltOn ==
  ASSUME NEW q \in Seq(Cells), NEW recs \in Seq(Seq(Text)), NEW pend \in Seq(Text), Spelt(q, recs, pend)
  PROVE  /\ Spelt(Append(q, NL), Append(recs, pend), <<>>)
         /\ \A c \in Text : Spelt(Append(q, c), recs, Append(pend, c))
         /\ Spelt(q, Append(recs, pend), <<>>)
<1>1. /\ FlattenSeq(recs) \in Seq(Text)
      /\ FlattenSeq(Append(recs, pend)) = FlattenSeq(recs) \o pend
      /\ FlattenSeq(recs) \o pend \in Seq(Text)
  BY FlattenAppend, ConcatProperties
<1>2. PICK u \in Seq(Text) : u = FlattenSeq(recs) \o pend
  BY <1>1
<1>3. u = Unbroken(q) /\ u \o <<>> = u
  BY <1>2, ConcatEmptySeq DEF Spelt
<1>4. Spelt(Append(q, NL), Append(recs, pend), <<>>)
  <2>1. Unbroken(Append(q, NL)) = u
    BY <1>3, UnbrokenGrows, CellsApart
  <2> QED
    BY <1>1, <1>2, <1>3, <2>1 DEF Spelt
<1>5. ASSUME NEW c \in Text PROVE Spelt(Append(q, c), recs, Append(pend, c))
  <2>1. c \in Cells /\ c # NL
    BY CellsApart DEF Text
  <2>2. Unbroken(Append(q, c)) = Append(u, c)
    BY <1>3, <2>1, UnbrokenGrows
  <2>3. PICK v \in Seq(Text) : v = FlattenSeq(recs)
    BY <1>1
  <2>4. v \o Append(pend, c) = Append(v \o pend, c)
    BY AppendToConcat
  <2> QED
    BY <1>2, <2>2, <2>3, <2>4 DEF Spelt
<1>6. Spelt(q, Append(recs, pend), <<>>)
  BY <1>1, <1>2, <1>3 DEF Spelt
<1> QED
  BY <1>4, <1>5, <1>6

(* Of a message in the stream, the next cell is its next, or a line end    *)
(* when it is all there.                                                   *)
LEMMA NextCell ==
  ASSUME NEW q \in Seq(Cells), NEW c \in Cells, Framed(Append(q, c)),
         NEW i \in 1..Len(q), q[i] \in Messages, ~(i + q[i].cells <= Len(q))
  PROVE  /\ Append(q, c)[i] = q[i] /\ Len(q) \in Nat
         /\ c = NL <=> i + q[i].cells = Len(q) + 1
<1> DEFINE n == Len(q)  a == Append(q, c)  k == q[i].cells
<1>1. n \in Nat /\ k \in Nat \ {0} /\ Len(a) = n + 1 /\ a[n + 1] = c /\ a[i] = q[i]
  BY LenProperties, AppendProperties, MessageFacts
<1> HIDE DEF a, n
<1>2. i \in 1..Len(a) /\ i \in 1..n
  BY <1>1 DEF n
<1>3. \A j \in 1..k : i + j <= n + 1 => a[i + j] = IF j = k THEN NL ELSE Rest
  BY <1>1, <1>2 DEF Framed, a
<1> HIDE DEF k
<1>4. ~(i + k <= n)
  BY DEF k, n
<1>5. n + 1 - i \in 1..k /\ i + (n + 1 - i) = n + 1 /\ (n + 1 - i = k <=> i + k = n + 1)
  BY <1>1, <1>2, <1>4
<1>6. c = IF n + 1 - i = k THEN NL ELSE Rest
  <2>1. PICK j \in 1..k : j = n + 1 - i
    BY <1>5
  <2>2. i + j = n + 1 /\ i + j <= n + 1
    BY <1>1, <1>5, <2>1
  <2>3. a[i + j] = IF j = k THEN NL ELSE Rest
    BY <1>3, <2>2
  <2> QED
    BY <1>1, <2>1, <2>2, <2>3
<1> QED
  BY <1>1, <1>5, <1>6, CellsApart DEF a, n, k

LEMMA KeptOn ==
  ASSUME NEW q \in Seq(Cells), NEW recs \in Seq(Seq(Text)), NEW pend \in Seq(Text),
         NEW c \in Cells, Kept(q, recs, pend), Framed(Append(q, c))
  PROVE  IF c = NL THEN Kept(Append(q, c), Append(recs, pend), <<>>)
         ELSE Kept(Append(q, c), recs, Append(pend, c))
<1> DEFINE n == Len(q)  a == Append(q, c)  more == Append(recs, pend)
<1>1. n \in Nat /\ a \in Seq(Cells) /\ Len(a) = n + 1 /\ a[n + 1] = c /\ \A j \in 1..n : a[j] = q[j]
  BY LenProperties, AppendProperties
<1>2. /\ \A i \in 1..Len(recs) : \E k \in 1..Len(more) : more[k] = recs[i]
      /\ \E k \in 1..Len(more) : more[k] = pend
  <2>1. \A i \in 1..Len(recs) : \E k \in 1..Len(more) : more[k] = recs[i]
    BY OneMore
  <2>2. \E k \in 1..Len(more) : more[k] = pend
    <3>1. Len(recs) \in Nat /\ Len(more) = Len(recs) + 1 /\ more[Len(recs) + 1] = pend
      BY LenProperties, AppendProperties
    <3>2. Len(recs) + 1 \in 1..Len(more)
      BY <3>1
    <3> QED
      BY <3>1, <3>2
  <2> HIDE DEF more
  <2> QED
    BY <2>1, <2>2
<1> HIDE DEF n, a, more
<1>3. n + 1 \in Nat /\ n + 1 # 0
  BY <1>1
(* One that had been passed on whole. *)
<1>4. ASSUME NEW i \in 1..n, q[i] \in Messages, q[i].cells <= MaxPendingLine, i + q[i].cells <= n
      PROVE  a[i] = q[i] /\ i + q[i].cells <= n + 1 /\ \E k \in 1..Len(recs) : recs[k] = Body(q[i])
  <2>1. q[i].cells \in Nat
    BY <1>4, MessageFacts
  <2>2. \E k \in 1..Len(recs) : recs[k] = Body(q[i])
    BY <1>4 DEF Kept, n
  <2>3. PICK k \in Nat : k = q[i].cells
    BY <2>1
  <2>4. i + k <= n => i + k <= n + 1
    BY <1>1
  <2> QED
    BY <1>1, <1>4, <2>2, <2>3, <2>4
(* One that had not. *)
<1>5. ASSUME NEW i \in 1..n, q[i] \in Messages, q[i].cells <= MaxPendingLine, ~(i + q[i].cells <= n)
      PROVE  /\ a[i] = q[i] /\ pend = SubSeq(q, i, n)
             /\ c = NL <=> i + q[i].cells = n + 1
             /\ c = NL <=> i + q[i].cells <= n + 1
             /\ c = NL => pend = Body(q[i])
  <2>1. q[i].cells \in Nat /\ i \in Nat
    BY <1>5, MessageFacts
  <2>2. pend = SubSeq(q, i, n)
    BY <1>5 DEF Kept, n
  <2>3. a[i] = q[i] /\ (c = NL <=> i + q[i].cells = n + 1)
    BY <1>5, NextCell DEF n, a
  <2>4. i + q[i].cells = n + 1 <=> i + q[i].cells <= n + 1
    <3>1. PICK k \in Nat : k = q[i].cells
      BY <2>1
    <3>2. ~(i + k <= n)
      BY <1>5, <3>1
    <3>3. PICK z \in Nat : z = n
      BY <1>1
    <3>4. i + k = z + 1 <=> i + k <= z + 1
      BY <2>1, <3>2, <3>3
    <3> QED
      BY <3>1, <3>3, <3>4
  <2>5. ASSUME c = NL PROVE pend = Body(q[i])
    <3>1. i + q[i].cells - 1 = n
      <4>1. PICK k \in Nat : k = q[i].cells
        BY <2>1
      <4>2. i + k = n + 1 => i + k - 1 = n
        BY <1>1, <2>1
      <4> QED
        BY <2>3, <2>5, <4>1, <4>2
    <3>2. Framed(q)
      <4>1. n \in 0..Len(a) /\ Framed(a)
        BY <1>1 DEF a
      <4>2. Framed(SubSeq(a, 1, n))
        BY <1>1, <4>1, FramedPart
      <4>3. SubSeq(a, 1, n) = q
        <5>1. n \in 1..n /\ 1 \in 1..n + 1
          BY <1>1, <1>5
        <5>2. SubSeq(a, 1, n) = SubSeq(q, 1, n)
          BY <5>1, PieceGrows DEF n, a
        <5>3. SubSeq(q, 1, n) \in Seq(Cells) /\ Len(SubSeq(q, 1, n)) = n
              /\ \A j \in 1..n : SubSeq(q, 1, n)[j] = q[j]
          BY <1>1, ElementOfSeq, SubSeqProperties DEF n
        <5>4. SubSeq(q, 1, n) = q
          BY <5>3, SeqEqual DEF n
        <5> QED
          BY <5>2, <5>4
      <4> QED
        BY <4>2, <4>3
    <3>3. i + q[i].cells - 1 <= Len(q)
      BY <1>1, <3>1 DEF n
    <3>4. SubSeq(q, i, i + q[i].cells - 1) = Body(q[i])
      BY <1>5, <3>2, <3>3, WholeIsBody DEF n
    <3> QED
      BY <2>2, <3>1, <3>4
  <2> QED
    BY <2>2, <2>3, <2>4, <2>5
(* One that begins here. *)
<1>6. ASSUME c \in Messages
      PROVE  ~(n + 1 + c.cells <= n + 1) /\ Append(pend, c) = SubSeq(a, n + 1, n + 1)
  <2>1. c.cells \in Nat \ {0}
    BY <1>6, MessageFacts
  <2>2. n + 1 \in 1..n + 1 /\ a[n + 1] \in Messages
    BY <1>1, <1>6
  <2>3. n + 1 = 1 \/ a[n + 1 - 1] = NL
    BY <1>1, <2>2 DEF Framed, a
  <2>4. n = 0 \/ q[n] = NL
    <3>1. n = 0 \/ (n \in 1..n /\ n + 1 - 1 = n /\ n + 1 # 1)
      BY <1>1
    <3> QED
      BY <1>1, <2>3, <3>1
  <2>5. pend = <<>>
    BY <2>4 DEF Kept, n
  <2>6. SubSeq(a, n + 1, n + 1) = <<c>>
    BY <2>2, PieceGrows DEF n, a
  <2> QED
    BY <1>1, <2>1, <2>5, <2>6
<1>7. CASE c = NL
  <2>1. ASSUME NEW i \in 1..n + 1, a[i] \in Messages, a[i].cells <= MaxPendingLine
        PROVE  i + a[i].cells <= n + 1 /\ \E k \in 1..Len(more) : more[k] = Body(a[i])
    <3>1. i \in 1..n
      <4>1. i # n + 1
        BY <1>1, <1>7, <2>1, CellsApart
      <4> QED
        BY <1>1, <4>1
    <3>2. a[i] = q[i]
      BY <1>1, <3>1
    <3>3. CASE i + q[i].cells <= n
      BY <1>2, <1>4, <2>1, <3>1, <3>2, <3>3
    <3>4. CASE ~(i + q[i].cells <= n)
      <4>1. i + q[i].cells <= n + 1 /\ pend = Body(q[i])
        BY <1>5, <1>7, <2>1, <3>1, <3>2, <3>4
      <4> QED
        BY <1>2, <3>2, <4>1
    <3> QED
      BY <3>3, <3>4
  <2>2. Kept(a, more, <<>>)
    BY <1>1, <2>1 DEF Kept
  <2> QED
    BY <1>7, <2>2 DEF a, more
<1>8. CASE c # NL
  <2>1. ASSUME NEW i \in 1..n + 1, a[i] \in Messages, a[i].cells <= MaxPendingLine
        PROVE  IF i + a[i].cells <= n + 1 THEN \E k \in 1..Len(recs) : recs[k] = Body(a[i])
               ELSE Append(pend, c) = SubSeq(a, i, n + 1)
    <3>1. CASE i \in 1..n
      <4>1. a[i] = q[i]
        BY <1>1, <3>1
      <4>2. CASE i + q[i].cells <= n
        BY <1>4, <2>1, <3>1, <4>1, <4>2
      <4>3. CASE ~(i + q[i].cells <= n)
        <5>1. pend = SubSeq(q, i, n) /\ ~(i + q[i].cells <= n + 1)
          BY <1>5, <1>8, <2>1, <3>1, <4>1, <4>3
        <5>2. i \in 1..Len(q) + 1 /\ i <= Len(q)
          BY <1>1, <3>1 DEF n
        <5>3. SubSeq(a, i, n + 1) = Append(SubSeq(q, i, n), c)
          BY <5>2, PieceGrows DEF n, a
        <5> QED
          BY <4>1, <5>1, <5>3
      <4> QED
        BY <4>2, <4>3
    <3>2. CASE i = n + 1
      <4>1. a[i] = c
        BY <1>1, <3>2
      <4> QED
        BY <1>6, <2>1, <3>2, <4>1
    <3>3. i \in 1..n \/ i = n + 1
      BY <1>1
    <3> QED
      BY <3>1, <3>2, <3>3
  <2>2. Len(a) # 0 /\ a[Len(a)] # NL
    BY <1>1, <1>3, <1>8
  <2>3. Kept(a, recs, Append(pend, c))
    BY <1>1, <2>1, <2>2 DEF Kept
  <2> QED
    BY <1>8, <2>3 DEF a
<1> QED
  BY <1>7, <1>8 DEF a, more

(* What is too long to wait for the end of its line is no message that fits.*)
LEMMA KeptCapped ==
  ASSUME NEW q \in Seq(Cells), NEW recs \in Seq(Seq(Text)), NEW pend \in Seq(Text),
         Kept(q, recs, pend), Len(pend) > MaxPendingLine
  PROVE  Kept(q, Append(recs, pend), <<>>)
<1> DEFINE n == Len(q)  more == Append(recs, pend)
<1>1. n \in Nat /\ MaxPendingLine \in Nat
  BY LenProperties, ProxyAssumption DEF n
<1>2. \A i \in 1..Len(recs) : \E k \in 1..Len(more) : more[k] = recs[i]
  BY OneMore
<1> HIDE DEF n, more
<1>3. ASSUME NEW i \in 1..n, q[i] \in Messages, q[i].cells <= MaxPendingLine
      PROVE  i + q[i].cells <= n /\ \E k \in 1..Len(recs) : recs[k] = Body(q[i])
  <2>1. q[i].cells \in Nat /\ i \in Nat /\ i <= n
    BY <1>1, <1>3, MessageFacts
  <2>2. ASSUME ~(i + q[i].cells <= n) PROVE FALSE
    <3>1. pend = SubSeq(q, i, n)
      BY <1>3, <2>2 DEF Kept, n
    <3>2. i \in 1..n + 1 /\ \A j \in i..n : q[j] \in Cells
      BY <1>1, ElementOfSeq DEF n
    <3>3. Len(SubSeq(q, i, n)) = n - i + 1
      BY <1>1, <2>1, <3>2, SubSeqProperties
    <3>4. n - i + 1 > MaxPendingLine
      BY <3>1, <3>3
    <3> QED
      BY <1>1, <1>3, <2>1, <2>2, <3>4
  <2> QED
    BY <1>3, <2>2 DEF Kept, n
<1> QED
  BY <1>2, <1>3 DEF Kept, n, more

(* What was passed on is accounted for, and where it is whole lines, kept. *)
Accounted(q, recs, pend, whole) ==
  Spelt(q, recs, pend) /\ (whole => Kept(q, recs, pend))

LEMMA AbsorbKeeps ==
  ASSUME NEW q \in Seq(Cells), NEW recs \in Seq(Seq(Text)), NEW s \in Pieces, NEW c \in Cells,
         NEW whole \in BOOLEAN, whole => Framed(Append(q, c)),
         Accounted(q, recs \o s.lines, s.pending, whole)
  PROVE  Accounted(Append(q, c), recs \o Absorb(s, c).lines, Absorb(s, c).pending, whole)
<1>1. s.lines \in Seq(Seq(Text)) /\ s.pending \in Seq(Text)
  BY DEF Pieces
<1>2. PICK r \in Seq(Seq(Text)) : r = recs \o s.lines
  BY <1>1, ConcatProperties
<1>3. Spelt(q, r, s.pending) /\ (whole => Kept(q, r, s.pending))
  BY <1>2 DEF Accounted
<1>4. CASE c = NL
  <2>1. Absorb(s, c).lines = Append(s.lines, s.pending) /\ Absorb(s, c).pending = <<>>
    BY <1>4 DEF Absorb
  <2>2. recs \o Append(s.lines, s.pending) = Append(r, s.pending)
    <3>1. PICK l \in Seq(Seq(Text)) : l = s.lines
      BY <1>1
    <3>2. PICK e \in Seq(Text) : e = s.pending
      BY <1>1
    <3>3. recs \o Append(l, e) = Append(recs \o l, e)
      <4>1. PICK S : S = Seq(Text)
        OBVIOUS
      <4>2. recs \in Seq(S) /\ l \in Seq(S) /\ e \in S
        BY <4>1
      <4> QED
        BY <4>2, AppendToConcat, SMTT(60)
    <3> QED
      BY <1>2, <3>1, <3>2, <3>3
  <2>3. Spelt(Append(q, c), Append(r, s.pending), <<>>)
    BY <1>1, <1>3, <1>4, SpeltOn
  <2>4. whole => Kept(Append(q, c), Append(r, s.pending), <<>>)
    BY <1>1, <1>3, <1>4, KeptOn
  <2> QED
    BY <2>1, <2>2, <2>3, <2>4 DEF Accounted
<1>5. CASE c # NL
  <2>1. Absorb(s, c).lines = s.lines /\ Absorb(s, c).pending = Append(s.pending, c)
    BY <1>1, <1>5 DEF Absorb, Pieces
  <2>2. Spelt(Append(q, c), r, Append(s.pending, c))
    BY <1>1, <1>3, <1>5, SpeltOn, CellsApart
  <2>3. whole => Kept(Append(q, c), r, Append(s.pending, c))
    BY <1>1, <1>3, <1>5, KeptOn
  <2> QED
    BY <1>2, <2>1, <2>2, <2>3 DEF Accounted
<1> QED
  BY <1>4, <1>5

LEMMA CappedKeeps ==
  ASSUME NEW q \in Seq(Cells), NEW recs \in Seq(Seq(Text)), NEW s \in Pieces,
         NEW whole \in BOOLEAN, Accounted(q, recs \o s.lines, s.pending, whole)
  PROVE  Accounted(q, recs \o Capped(s).lines, Capped(s).pending, whole)
<1>1. s.lines \in Seq(Seq(Text)) /\ s.pending \in Seq(Text)
  BY DEF Pieces
<1>2. PICK r \in Seq(Seq(Text)) : r = recs \o s.lines
  BY <1>1, ConcatProperties
<1>3. Spelt(q, r, s.pending) /\ (whole => Kept(q, r, s.pending))
  BY <1>2 DEF Accounted
<1>4. CASE Len(s.pending) > MaxPendingLine
  <2>1. Capped(s).lines = Append(s.lines, s.pending) /\ Capped(s).pending = <<>>
    BY <1>4 DEF Capped
  <2>2. recs \o Append(s.lines, s.pending) = Append(r, s.pending)
    <3>1. PICK l \in Seq(Seq(Text)) : l = s.lines
      BY <1>1
    <3>2. PICK e \in Seq(Text) : e = s.pending
      BY <1>1
    <3>3. recs \o Append(l, e) = Append(recs \o l, e)
      <4>1. PICK S : S = Seq(Text)
        OBVIOUS
      <4>2. recs \in Seq(S) /\ l \in Seq(S) /\ e \in S
        BY <4>1
      <4> QED
        BY <4>2, AppendToConcat, SMTT(60)
    <3> QED
      BY <1>2, <3>1, <3>2, <3>3
  <2>3. Spelt(q, Append(r, s.pending), <<>>)
    BY <1>1, <1>3, SpeltOn
  <2>4. whole => Kept(q, Append(r, s.pending), <<>>)
    BY <1>1, <1>3, <1>4, KeptCapped
  <2> QED
    BY <2>1, <2>2, <2>3, <2>4 DEF Accounted
<1> QED
  BY <1>4 DEF Capped

LEMMA PartGrows ==
  ASSUME NEW a \in Seq(Cells), NEW n \in Nat, n + 1 <= Len(a)
  PROVE  /\ a[n + 1] \in Cells /\ SubSeq(a, 1, n) \in Seq(Cells)
         /\ SubSeq(a, 1, n + 1) = Append(SubSeq(a, 1, n), a[n + 1])
<1> DEFINE p == SubSeq(a, 1, n)  g == SubSeq(a, 1, n + 1)  c == a[n + 1]  e == Append(p, c)
<1>1. Len(a) \in Nat /\ \A i \in 1..n + 1 : i \in 1..Len(a) /\ a[i] \in Cells
  BY LenProperties, ElementOfSeq
<1>2. p \in Seq(Cells) /\ Len(p) = n /\ \A i \in 1..n : p[i] = a[i]
  BY <1>1, SubSeqProperties
<1>3. g \in Seq(Cells) /\ Len(g) = n + 1 /\ \A i \in 1..n + 1 : g[i] = a[i]
  BY <1>1, SubSeqProperties
<1>4. c \in Cells
  BY <1>1
<1> HIDE DEF p, g
<1>5. e \in Seq(Cells) /\ Len(e) = n + 1 /\ e[n + 1] = c /\ \A i \in 1..n : e[i] = p[i]
  <2>1. /\ e \in Seq(Cells) /\ Len(e) = Len(p) + 1 /\ e[Len(p) + 1] = c
        /\ \A i \in 1..Len(p) : e[i] = p[i]
    BY <1>2, <1>4, AppendProperties
  <2> QED
    BY <1>2, <2>1
<1> HIDE DEF e
<1>6. ASSUME NEW i \in 1..n + 1 PROVE g[i] = e[i]
  <2>1. i = n + 1 \/ i \in 1..n
    OBVIOUS
  <2> QED
    BY <1>2, <1>3, <1>5, <2>1
<1>7. g = e
  BY <1>3, <1>5, <1>6, SeqEqual
<1> QED
  BY <1>2, <1>4, <1>7 DEF p, g, e

(* However a read cuts the stream.                                         *)
LEMMA SplitKeeps ==
  ASSUME NEW a \in Seq(Cells), NEW recs \in Seq(Seq(Text)), NEW pend \in Seq(Text),
         NEW from \in Nat, NEW to \in Nat, from <= to, to <= Len(a),
         NEW whole \in BOOLEAN, whole => Framed(a),
         Accounted(SubSeq(a, 1, from), recs, pend, whole)
  PROVE  LET s == Split(pend, SubSeq(a, from + 1, to)) IN
         Accounted(SubSeq(a, 1, to), recs \o s.lines, s.pending, whole)
<1> DEFINE chunk == SubSeq(a, from + 1, to)  n == to - from
<1>1. Len(a) \in Nat /\ n \in Nat /\ \A i \in 1..Len(a) : a[i] \in Cells
  BY LenProperties, ElementOfSeq
<1>2. chunk \in Seq(Cells) /\ Len(chunk) = n /\ \A i \in 1..n : chunk[i] = a[from + i]
  <2>1. \A i \in from + 1..to : a[i] \in Cells
    BY <1>1
  <2>2. /\ chunk \in Seq(Cells) /\ Len(chunk) = IF from + 1 <= to THEN to - (from + 1) + 1 ELSE 0
        /\ \A i \in 1..to - (from + 1) + 1 : chunk[i] = a[from + 1 + i - 1]
    BY <2>1, SubSeqProperties
  <2>3. to - (from + 1) + 1 = n /\ (IF from + 1 <= to THEN to - (from + 1) + 1 ELSE 0) = n
        /\ \A i \in 1..n : from + 1 + i - 1 = from + i
    OBVIOUS
  <2> HIDE DEF chunk, n
  <2>4. \A i \in 1..n : chunk[i] = a[from + i]
    BY <2>2, <2>3
  <2> QED
    BY <2>2, <2>3, <2>4
<1> HIDE DEF chunk
<1>3. PICK f : Splits(pend, chunk, f) /\ Split(pend, chunk) = Capped(f[Len(chunk)])
  BY <1>2, SplitSteps
<1>4. /\ f[0] = [lines |-> <<>>, pending |-> pend]
      /\ \A i \in 0..n : f[i] \in Pieces
      /\ \A i \in 1..n : f[i] = Absorb(f[i - 1], chunk[i])
  BY <1>2, <1>3 DEF Splits
<1> DEFINE T == {i \in Nat : i <= n =>
                   Accounted(SubSeq(a, 1, from + i), recs \o f[i].lines, f[i].pending, whole)}
<1>5. 0 \in T
  <2>1. f[0].lines = <<>> /\ f[0].pending = pend /\ from + 0 = from /\ recs \o <<>> = recs
    BY <1>4, ConcatEmptySeq
  <2> QED
    BY <2>1
<1>6. ASSUME NEW i \in Nat, i \in T PROVE i + 1 \in T
  <2> SUFFICES ASSUME i + 1 <= n
               PROVE  Accounted(SubSeq(a, 1, from + (i + 1)), recs \o f[i + 1].lines, f[i + 1].pending, whole)
    OBVIOUS
  <2>1. Accounted(SubSeq(a, 1, from + i), recs \o f[i].lines, f[i].pending, whole)
    BY <1>1, <1>6
  <2>2. i \in 0..n /\ i + 1 \in 1..n /\ i + 1 - 1 = i /\ from + (i + 1) = from + i + 1
        /\ from + i + 1 <= Len(a) /\ from + i \in Nat
    BY <1>1
  <2>3. f[i] \in Pieces /\ f[i + 1] = Absorb(f[i], a[from + i + 1])
    BY <1>2, <1>4, <2>2
  <2>4. PICK j \in Nat : j = from + i
    BY <2>2
  <2>5. /\ a[j + 1] \in Cells /\ SubSeq(a, 1, j) \in Seq(Cells)
        /\ SubSeq(a, 1, j + 1) = Append(SubSeq(a, 1, j), a[j + 1])
    BY <2>2, <2>4, PartGrows
  <2>6. whole => Framed(Append(SubSeq(a, 1, j), a[j + 1]))
    <3>1. j + 1 \in 0..Len(a)
      BY <1>1, <2>2, <2>4
    <3> QED
      BY <2>5, <3>1, FramedPart
  <2>7. Accounted(Append(SubSeq(a, 1, j), a[j + 1]), recs \o Absorb(f[i], a[j + 1]).lines,
                  Absorb(f[i], a[j + 1]).pending, whole)
    BY <2>1, <2>3, <2>4, <2>5, <2>6, AbsorbKeeps
  <2> QED
    BY <2>2, <2>3, <2>4, <2>5, <2>7
<1> HIDE DEF T
<1>7. n \in T
  BY <1>1, <1>5, <1>6, SetInduction
<1>8. Accounted(SubSeq(a, 1, to), recs \o f[n].lines, f[n].pending, whole) /\ f[n] \in Pieces
  <2>1. from + n = to /\ n \in 0..n
    BY <1>1
  <2> QED
    BY <1>1, <1>4, <1>7, <2>1 DEF T
<1>9. SubSeq(a, 1, to) \in Seq(Cells)
  <2>1. \A i \in 1..to : a[i] \in Cells
    BY <1>1
  <2> QED
    BY <2>1, SubSeqProperties
<1>10. Accounted(SubSeq(a, 1, to), recs \o Capped(f[n]).lines, Capped(f[n]).pending, whole)
  BY <1>8, <1>9, CappedKeeps
<1> QED
  BY <1>2, <1>3, <1>10 DEF chunk

-----------------------------------------------------------------------------
(***************************************************************************)
(* What every pump has passed on is accounted for: what the agent or the   *)
(* client wrote is whole lines, of diagnostics there is one unended line.  *)
(***************************************************************************)
LinesFor(p) ==
  /\ forwarded[p] <= Len(sent[p])
  /\ Accounted(Passed(p), RecordsOf(p), pending[p], p # "err")
  /\ p # "err" => WholeLines(sent[p])
  /\ p = "err" => Len(sent[p]) <= 1
LinesInv == \A p \in Pumps : LinesFor(p)

(* A record is one of the pump's own, or it leaves its lines alone.        *)
LEMMA LoggedGrows ==
  ASSUME NEW records \in Seq(Entries), log = records, NEW p \in Pumps
  PROVE  /\ Logged(p) \in Seq(Seq(Text))
         /\ \A e \in Entries : log' = Append(log, e) =>
              Logged(p)' = IF e.kind = p THEN Append(Logged(p), e.line) ELSE Logged(p)
<1> DEFINE f == [e \in Entries |-> IF e.kind = p THEN <<e.line>> ELSE <<>>]
           L(r) == FlattenSeq([i \in DOMAIN r |-> IF r[i].kind = p THEN <<r[i].line>> ELSE <<>>])
<1>1. Stands(Entries, Seq(Text), f) /\ \A e \in Entries : f[e] = IF e.kind = p THEN <<e.line>> ELSE <<>>
  <2>1. \A e \in Entries : <<e.line>> \in Seq(Seq(Text)) /\ <<>> \in Seq(Seq(Text))
    BY EmptySeq DEF Entries
  <2>2. f \in [Entries -> Seq(Seq(Text))]
    BY <2>1
  <2> QED
    BY <2>2 DEF Stands
<1> HIDE DEF f
<1>2. ASSUME NEW r \in Seq(Entries) PROVE L(r) = Each(f, r)
  <2>1. \A i \in DOMAIN r : f[r[i]] = IF r[i].kind = p THEN <<r[i].line>> ELSE <<>>
    BY <1>1, LenProperties, ElementOfSeq
  <2>2. [i \in DOMAIN r |-> f[r[i]]] = [i \in DOMAIN r |-> IF r[i].kind = p THEN <<r[i].line>> ELSE <<>>]
    BY <2>1
  <2> QED
    BY <2>2, Zenon DEF Each
<1>3. Logged(p) = L(log) /\ Logged(p)' = L(log')
  BY Zenon DEF Logged
<1> HIDE DEF L
<1>4. Each(f, log) \in Seq(Seq(Text)) /\ Logged(p) = Each(f, log)
  BY <1>1, <1>2, <1>3, EachAppend
<1>5. ASSUME NEW e \in Entries, log' = Append(log, e)
      PROVE  Logged(p)' = IF e.kind = p THEN Append(Logged(p), e.line) ELSE Logged(p)
  <2>1. PICK more \in Seq(Entries) : more = Append(records, e)
    BY AppendProperties
  <2>2. Each(f, more) = Each(f, records) \o f[e]
    <3>1. \A q \in Seq(Entries), d \in Entries : Each(f, Append(q, d)) = Each(f, q) \o f[d]
      BY <1>1, EachAppend
    <3> QED
      BY <2>1, <3>1
  <2>3. Logged(p)' = Logged(p) \o f[e]
    BY <1>2, <1>3, <1>4, <1>5, <2>1, <2>2
  <2>4. PICK l \in Seq(Seq(Text)) : l = Logged(p)
    BY <1>4
  <2>5. e.line \in Seq(Text)
    BY DEF Entries
  <2>6. l \o <<>> = l /\ l \o <<e.line>> = Append(l, e.line)
    BY <2>5, ConcatEmptySeq, AppendIsConcat
  <2> QED
    BY <1>1, <2>3, <2>4, <2>6
<1> QED
  BY <1>4, <1>5

LEMMA PartOfMore ==
  ASSUME NEW q \in Seq(Cells), NEW l \in Seq(Cells), NEW n \in Nat, n <= Len(q)
  PROVE  /\ SubSeq(q \o l, 1, n) = SubSeq(q, 1, n) /\ n <= Len(q \o l)
         /\ q \o l \in Seq(Cells)
<1> DEFINE a == q \o l  s == SubSeq(a, 1, n)  t == SubSeq(q, 1, n)
<1>1. /\ Len(q) \in Nat /\ Len(l) \in Nat /\ a \in Seq(Cells) /\ Len(a) = Len(q) + Len(l)
      /\ \A i \in 1..Len(q) + Len(l) : a[i] = IF i <= Len(q) THEN q[i] ELSE l[i - Len(q)]
  BY LenProperties, ConcatProperties
<1> HIDE DEF a
<1>2. \A i \in 1..n : a[i] = q[i] /\ q[i] \in Cells
  <2> SUFFICES ASSUME NEW i \in 1..n PROVE a[i] = q[i] /\ q[i] \in Cells
    OBVIOUS
  <2>1. i \in 1..Len(q) + Len(l) /\ i <= Len(q) /\ i \in 1..Len(q)
    BY <1>1
  <2> QED
    BY <1>1, <2>1, ElementOfSeq
<1>3. s \in Seq(Cells) /\ Len(s) = n /\ \A i \in 1..n : s[i] = a[i]
  BY <1>2, SubSeqProperties
<1>4. t \in Seq(Cells) /\ Len(t) = n /\ \A i \in 1..n : t[i] = q[i]
  BY <1>2, SubSeqProperties
<1> HIDE DEF s, t
<1>5. s = t
  BY <1>2, <1>3, <1>4, SeqEqual
<1> QED
  BY <1>1, <1>5 DEF s, t, a

LEMMA WholePart ==
  ASSUME NEW q \in Seq(Cells) PROVE SubSeq(q, 1, Len(q)) = q
<1>1. \A i \in 1..Len(q) : q[i] \in Cells
  BY ElementOfSeq
<1>2. SubSeq(q, 1, Len(q)) \in Seq(Cells) /\ Len(SubSeq(q, 1, Len(q))) = Len(q)
      /\ \A i \in 1..Len(q) : SubSeq(q, 1, Len(q))[i] = q[i]
  BY <1>1, LenProperties, SubSeqProperties
<1> QED
  BY <1>2, SeqEqual

LEMMA LinesAtFirst == Init => LinesInv
<1> SUFFICES ASSUME Init, NEW p \in Pumps PROVE LinesFor(p)
  BY DEF LinesInv
<1>1. PICK c \in Clients : sent = [q \in Pumps |-> IF q = "up" THEN Input(c.sends) ELSE <<>>]
  BY DEF Init
<1>2. Input(c.sends) \in Seq(Cells) /\ WholeLines(Input(c.sends)) /\ WholeLines(<<>>)
      /\ <<>> \in Seq(Cells) /\ Len(<<>>) = 0
  BY InputTyped, InputWhole, NoLines, EmptySeq
<1>3. sent[p] \in Seq(Cells) /\ WholeLines(sent[p]) /\ (p = "err" => sent[p] = <<>>)
  BY <1>1, <1>2
<1>4. forwarded[p] = 0 /\ pending[p] = <<>> /\ lines[p] = <<>> /\ log = <<>>
  BY DEF Init
<1>5. forwarded[p] <= Len(sent[p]) /\ (p = "err" => Len(sent[p]) <= 1)
  BY <1>2, <1>3, <1>4, LenProperties
<1>6. Passed(p) = <<>>
  <2>1. SubSeq(sent[p], 1, 0) = <<>>
    <3>1. \A i \in 1..0 : sent[p][i] \in Cells
      OBVIOUS
    <3>2. SubSeq(sent[p], 1, 0) \in Seq(Cells) /\ Len(SubSeq(sent[p], 1, 0)) = 0
      BY <3>1, SubSeqProperties
    <3> QED
      BY <3>2, EmptySeq
  <2> QED
    BY <1>4, <2>1 DEF Passed
<1>7. RecordsOf(p) = <<>>
  <2>1. [i \in DOMAIN log |-> IF log[i].kind = p THEN <<log[i].line>> ELSE <<>>] = <<>>
    BY <1>4
  <2>2. Logged(p) = <<>>
    BY <2>1, FlattenCons, EmptySeq DEF Logged
  <2> QED
    BY <1>4, <2>2, ConcatEmptySeq, EmptySeq DEF RecordsOf
<1>8. Spelt(<<>>, <<>>, <<>>)
  <2>1. FlattenSeq(<<>>) = <<>> /\ <<>> \o <<>> = <<>>
    BY FlattenCons, ConcatEmptySeq, EmptySeq
  <2>2. [i \in DOMAIN <<>> |-> IF <<>>[i] = NL THEN <<>> ELSE << <<>>[i] >>] = <<>>
    OBVIOUS
  <2>3. Unbroken(<<>>) = <<>>
    BY <2>1, <2>2 DEF Unbroken
  <2> QED
    BY <2>1, <2>3 DEF Spelt
<1>9. Kept(<<>>, <<>>, <<>>)
  BY <1>2 DEF Kept
<1> QED
  BY <1>3, <1>4, <1>5, <1>6, <1>7, <1>8, <1>9 DEF LinesFor, Accounted

(* A pump's step leaves what the other pumps passed on alone.              *)
LEMMA OnePumpLines ==
  ASSUME LinesInv, NEW p \in Pumps, LinesFor(p)',
         \A q \in Pumps \ {p} : UNCHANGED <<sent[q], forwarded[q], pending[q], RecordsOf(q)>>
  PROVE  LinesInv'
<1> SUFFICES ASSUME NEW q \in Pumps, q # p PROVE LinesFor(q)'
  BY DEF LinesInv
<1>1. LinesFor(q) /\ UNCHANGED <<sent[q], forwarded[q], pending[q], RecordsOf(q)>>
  BY DEF LinesInv
<1>2. UNCHANGED Passed(q)
  BY <1>1 DEF Passed
<1> QED
  BY <1>1, <1>2 DEF LinesFor

LEMMA LinesInvKept ==
  ASSUME ProxyInv, LinesInv, [Next]_vars PROVE LinesInv'
<1> USE DEF endVars, pumpVars, mainVars
<1>0. TypeInv /\ Drain
  BY DEF ProxyInv
<1>1. ASSUME NEW q \in Pumps
      PROVE  /\ sent[q] \in Seq(Cells) /\ forwarded[q] \in Nat /\ pending[q] \in Seq(Text)
             /\ lines[q] \in Seq(Seq(Text)) /\ Logged(q) \in Seq(Seq(Text)) /\ LinesFor(q)
             /\ RecordsOf(q) \in Seq(Seq(Text)) /\ Passed(q) \in Seq(Cells)
  <2>1. /\ sent[q] \in Seq(Cells) /\ forwarded[q] \in Nat /\ pending[q] \in Seq(Text)
        /\ lines[q] \in Seq(Seq(Text)) /\ log \in Seq(Entries) /\ LinesFor(q)
    BY <1>0 DEF TypeInv, LinesInv
  <2>2. Logged(q) \in Seq(Seq(Text))
    BY <2>1, LoggedGrows
  <2>3. RecordsOf(q) \in Seq(Seq(Text))
    BY <2>1, <2>2, ConcatProperties DEF RecordsOf
  <2>4. Passed(q) \in Seq(Cells)
    <3>1. forwarded[q] <= Len(sent[q]) /\ Len(sent[q]) \in Nat
      BY <2>1, LenProperties DEF LinesFor
    <3>2. \A i \in 1..forwarded[q] : i \in 1..Len(sent[q]) /\ sent[q][i] \in Cells
      BY <2>1, <3>1, ElementOfSeq
    <3> QED
      BY <2>1, <3>2, SubSeqProperties DEF Passed
  <2> QED
    BY <2>1, <2>2, <2>3, <2>4
<1>2. ASSUME UNCHANGED <<sent, forwarded, pending, lines, log>> PROVE LinesInv'
  BY <1>2 DEF LinesInv, LinesFor, Passed, RecordsOf, Logged
<1>3. ASSUME NEW e \in Entries, log' = Append(log, e), e.kind \notin Pumps,
             UNCHANGED <<sent, forwarded, pending, lines>>
      PROVE  LinesInv'
  <2> SUFFICES ASSUME NEW q \in Pumps PROVE LinesFor(q)'
    BY DEF LinesInv
  <2>1. Logged(q)' = Logged(q)
    BY <1>0, <1>3, LoggedGrows DEF TypeInv
  <2>2. RecordsOf(q)' = RecordsOf(q) /\ Passed(q)' = Passed(q) /\ pending'[q] = pending[q]
    BY <1>3, <2>1 DEF RecordsOf, Passed
  <2> QED
    BY <1>1, <1>3, <2>2 DEF LinesFor
(* The client and the agent. *)
<1>4. ASSUME NEW p \in Pumps, NEW l \in Seq(Cells), sent' = [sent EXCEPT ![p] = @ \o l],
             p # "err" => WholeLines(sent[p] \o l), p = "err" => Len(sent[p] \o l) <= 1,
             UNCHANGED <<forwarded, pending, lines, log>>
      PROVE  LinesInv'
  <2>1. sent'[p] = sent[p] \o l /\ \A q \in Pumps \ {p} : sent'[q] = sent[q]
    BY <1>0, <1>4 DEF TypeInv
  <2>2. \A q \in Pumps : UNCHANGED <<forwarded[q], pending[q], RecordsOf(q)>>
    BY <1>4 DEF RecordsOf, Logged
  <2>3. forwarded[p] <= Len(sent[p])
    BY <1>1 DEF LinesFor
  <2>4. /\ SubSeq(sent[p] \o l, 1, forwarded[p]) = SubSeq(sent[p], 1, forwarded[p])
        /\ forwarded[p] <= Len(sent[p] \o l)
    BY <1>1, <2>3, PartOfMore
  <2>5. UNCHANGED Passed(p)
    BY <2>1, <2>2, <2>4 DEF Passed
  <2>6. LinesFor(p)'
    BY <1>1, <1>4, <2>1, <2>2, <2>4, <2>5 DEF LinesFor
  <2> QED
    BY <2>1, <2>2, <2>6, OnePumpLines
<1>5. CASE Environment
  <2>1. ASSUME NEW m \in AgentMsgs, AgentWrites(m) PROVE LinesInv'
    <3>1. m \in Messages /\ "down" \in Pumps
      BY DEF Messages, Pumps
    <3>2. Line(m) \in Seq(Cells) /\ WholeLines(sent["down"] \o Line(m))
      BY <1>1, <3>1, MoreLines, LineTyped DEF LinesFor
    <3> QED
      BY <1>4, <2>1, <3>1, <3>2 DEF AgentWrites
  <2>2. CASE AgentComplains
    <3>1. "err" \in Pumps /\ Complaint \in Messages
      BY DEF Messages, Pumps
    <3>2. <<Complaint>> \in Seq(Cells) /\ Len(<<Complaint>>) = 1
      BY <3>1 DEF Cells, Text
    <3>3. <<>> \o <<Complaint>> = <<Complaint>>
      BY <3>2, ConcatEmptySeq
    <3>4. sent' = [sent EXCEPT !["err"] = @ \o <<Complaint>>] /\ Len(sent["err"] \o <<Complaint>>) <= 1
      BY <2>2, <3>2, <3>3 DEF AgentComplains
    <3> QED
      BY <1>4, <2>2, <3>1, <3>2, <3>4 DEF AgentComplains
  <2> QED
    BY <1>2, <1>5, <2>1, <2>2 DEF Environment, HolderEnds, AgentExits
(* The pumps. *)
<1>6. ASSUME NEW p \in Pumps, Pump(p) PROVE LinesInv'
  <2>1. CASE Close(p) \/ Observe(p) \/ Set(p)
    BY <1>2, <2>1 DEF Close, Observe, Set
  <2>2. CASE Mark(p)
    <3>1. PICK e \in Entries : e.kind = "session-bound" /\ log' = Append(log, e)
      <4>1. Entry(Conn, "session-bound", <<>>, sniffed[p]) \in Entries
        BY <1>0, SidFacts, EmptySeq DEF Entry, Entries, Dests, TypeInv
      <4> QED
        BY <2>2, <4>1 DEF Mark, Entry
    <3> QED
      BY <1>3, <2>2, <3>1 DEF Mark, Pumps
  <2>3. CASE Forward(p)
    <3> DEFINE a == sent[p]  from == forwarded[p]
    <3>1. PICK n \in (from + 1)..Len(a) :
            LET s == Split(pending[p], SubSeq(a, from + 1, n)) IN
            /\ forwarded' = [forwarded EXCEPT ![p] = n]
            /\ pending' = [pending EXCEPT ![p] = s.pending]
            /\ lines' = [lines EXCEPT ![p] = s.lines]
      BY <2>3, Zenon DEF Forward
    <3>2. UNCHANGED <<sent, log>> /\ pc[p] = "read"
      BY <2>3 DEF Forward, Unread
    <3>3. PICK s : s = Split(pending[p], SubSeq(a, from + 1, n))
      OBVIOUS
    <3>4. /\ n \in Nat /\ from \in Nat /\ from <= n /\ n <= Len(a) /\ a \in Seq(Cells)
          /\ \A i \in from + 1..n : a[i] \in Cells
      <4>1. a \in Seq(Cells) /\ from \in Nat /\ Len(a) \in Nat /\ \A i \in 1..Len(a) : a[i] \in Cells
        BY <1>1, LenProperties, ElementOfSeq
      <4> HIDE DEF a, from
      <4> QED
        BY <4>1
    <3>5. lines[p] = <<>>
      BY <1>0, <3>2 DEF Drain, AtWork
    <3>6. RecordsOf(p) = Logged(p)
      BY <1>1, <3>5, ConcatEmptySeq DEF RecordsOf
    <3>7. Accounted(SubSeq(a, 1, n), Logged(p) \o s.lines, s.pending, p # "err")
      <4>1. Accounted(SubSeq(a, 1, from), Logged(p), pending[p], p # "err")
        BY <1>1, <3>6 DEF LinesFor, Passed
      <4>2. (p # "err") => Framed(a)
        BY <1>1 DEF LinesFor, WholeLines
      <4>3. Logged(p) \in Seq(Seq(Text)) /\ pending[p] \in Seq(Text) /\ (p # "err") \in BOOLEAN
        BY <1>1
      <4> HIDE DEF a, from
      <4> QED
        BY <3>3, <3>4, <4>1, <4>2, <4>3, SplitKeeps
    <3>8. /\ forwarded'[p] = n /\ pending'[p] = s.pending /\ lines'[p] = s.lines
          /\ \A q \in Pumps \ {p} : UNCHANGED <<sent[q], forwarded[q], pending[q], lines[q]>>
      BY <1>0, <3>1, <3>2, <3>3 DEF TypeInv
    <3>9. \A q \in Pumps : Logged(q)' = Logged(q)
      BY <3>2 DEF Logged
    <3>10. RecordsOf(p)' = Logged(p) \o s.lines /\ Passed(p)' = SubSeq(a, 1, n)
           /\ \A q \in Pumps \ {p} : RecordsOf(q)' = RecordsOf(q)
      BY <3>2, <3>8, <3>9 DEF RecordsOf, Passed
    <3>11. LinesFor(p)'
      BY <1>1, <3>2, <3>4, <3>7, <3>8, <3>10 DEF LinesFor
    <3> QED
      BY <3>8, <3>10, <3>11, OnePumpLines
  <2>4. CASE FinishTail(p)
    <3>1. /\ lines' = [lines EXCEPT ![p] = <<pending[p]>>] /\ pending' = [pending EXCEPT ![p] = <<>>]
          /\ UNCHANGED <<sent, forwarded, log>> /\ pending[p] # <<>>
          /\ forwarded[p] = Len(sent[p]) /\ lines[p] = <<>>
      BY <1>0, <2>4 DEF FinishTail, AtEof, Drain, AtWork
    <3>2. /\ lines'[p] = <<pending[p]>> /\ pending'[p] = <<>>
          /\ \A q \in Pumps \ {p} : UNCHANGED <<sent[q], forwarded[q], pending[q], lines[q]>>
      BY <1>0, <3>1 DEF TypeInv
    <3>3. \A q \in Pumps : Logged(q)' = Logged(q)
      BY <3>1 DEF Logged
    <3>4. RecordsOf(p) = Logged(p) /\ RecordsOf(p)' = Append(Logged(p), pending[p])
          /\ UNCHANGED Passed(p)
      <4>1. RecordsOf(p) = Logged(p)
        BY <1>1, <3>1, ConcatEmptySeq DEF RecordsOf
      <4>2. PICK g \in Seq(Seq(Text)), e \in Seq(Text) : g = Logged(p) /\ e = pending[p]
        BY <1>1
      <4>3. Append(g, e) = g \o <<e>>
        BY AppendIsConcat
      <4>4. RecordsOf(p)' = Logged(p) \o <<pending[p]>>
        BY <3>2, <3>3 DEF RecordsOf
      <4>5. UNCHANGED Passed(p)
        BY <3>1 DEF Passed
      <4> QED
        BY <4>1, <4>2, <4>3, <4>4, <4>5
    <3>5. Accounted(Passed(p), Logged(p), pending[p], p # "err")
      BY <1>1, <3>4 DEF LinesFor
    <3>6. Spelt(Passed(p), Append(Logged(p), pending[p]), <<>>)
      BY <1>1, <3>5, SpeltOn DEF Accounted
    <3>7. p = "err"
      <4>1. ASSUME p # "err" PROVE FALSE
        <5>1. Kept(Passed(p), Logged(p), pending[p]) /\ WholeLines(sent[p])
          BY <1>1, <3>5, <4>1 DEF Accounted, LinesFor
        <5>2. Passed(p) = sent[p]
          BY <1>1, <3>1, WholePart DEF Passed
        <5> QED
          BY <3>1, <5>1, <5>2 DEF Kept, WholeLines
      <4> QED
        BY <4>1
    <3>8. LinesFor(p)'
      BY <1>1, <3>1, <3>2, <3>4, <3>6, <3>7 DEF LinesFor, Accounted
    <3>9. \A q \in Pumps \ {p} : RecordsOf(q)' = RecordsOf(q)
      BY <3>2, <3>3 DEF RecordsOf
    <3> QED
      BY <3>2, <3>8, <3>9, OnePumpLines
  <2>5. CASE Enqueue(p)
    <3>1. PICK e \in Entries : e.kind = p /\ e.line = Head(lines[p]) /\ log' = Append(log, e)
      <4>1. Entry(Route(Conn, sniffed[p]), p, Head(lines[p]), Stamped(Conn, sniffed[p])) \in Entries
        BY <1>0, <2>5, EnqueueTyped
      <4> QED
        BY <2>5, <4>1 DEF Enqueue, Entry
    <3>2. lines' = [lines EXCEPT ![p] = Tail(@)] /\ UNCHANGED <<sent, forwarded, pending>>
          /\ lines[p] # <<>>
      BY <1>0, <2>5, EnqueueTyped DEF Enqueue
    <3>3. lines'[p] = Tail(lines[p]) /\ \A q \in Pumps \ {p} : UNCHANGED lines[q]
      BY <1>0, <3>2 DEF TypeInv
    <3>4. Logged(p)' = Append(Logged(p), Head(lines[p])) /\ \A q \in Pumps \ {p} : Logged(q)' = Logged(q)
      <4>1. ASSUME NEW q \in Pumps
            PROVE  Logged(q)' = IF e.kind = q THEN Append(Logged(q), e.line) ELSE Logged(q)
        BY <1>0, <3>1, LoggedGrows DEF TypeInv
      <4> QED
        BY <3>1, <4>1
    <3>5. RecordsOf(p)' = RecordsOf(p)
      <4>1. PICK g \in Seq(Seq(Text)), l \in Seq(Seq(Text)) : g = Logged(p) /\ l = lines[p]
        BY <1>1
      <4>2. g \o l = Append(g, Head(l)) \o Tail(l)
        BY <3>2, <4>1, HeadMoves
      <4> QED
        BY <3>3, <3>4, <4>1, <4>2 DEF RecordsOf
    <3>6. \A q \in Pumps : UNCHANGED <<sent[q], forwarded[q], pending[q], RecordsOf(q)>>
      BY <3>2, <3>3, <3>4, <3>5 DEF RecordsOf
    <3>7. LinesFor(p)'
      <4>1. LinesFor(p) /\ UNCHANGED <<sent[p], forwarded[p], pending[p], RecordsOf(p)>>
        BY <1>1, <3>6
      <4>2. UNCHANGED Passed(p)
        BY <4>1 DEF Passed
      <4> QED
        BY <4>1, <4>2 DEF LinesFor
    <3> QED
      BY <3>6, <3>7, OnePumpLines
  <2> QED
    BY <1>6, <2>1, <2>2, <2>3, <2>4, <2>5 DEF Pump
(* The main task. *)
<1>7. CASE LogExit
  <2>1. PICK e \in Entries : e.kind = "exit" /\ log' = Append(log, e)
    <3>1. Entry(Route(Conn, NoSid), "exit", <<>>, bound[Conn]) \in Entries
      BY <1>0, SidFacts, RouteTyped, EmptySeq DEF Entry, Entries, TypeInv
    <3> QED
      BY <1>7, <3>1 DEF LogExit, Entry
  <2> QED
    BY <1>3, <1>7, <2>1 DEF LogExit, Pumps
<1>8. CASE Reap \/ StopForwarding \/ FlushAndExit \/ Breaks \/ UNCHANGED vars
  BY <1>2, <1>8, BreakingOff DEF Reap, StopForwarding, FlushAndExit, BreaksOff, vars
<1> QED
  BY <1>5, <1>6, <1>7, <1>8 DEF Next, Main, Breaks

-----------------------------------------------------------------------------
(***************************************************************************)
(* Only a pump that has broken off passed on what it did not split.        *)
(***************************************************************************)
Spill(p) ==
  /\ forwarded[p] + spilled[p] <= Len(sent[p])
  /\ ~BrokenOff(p) => spilled[p] = 0
SpillInv == \A p \in Pumps : Spill(p)

LEMMA SpillKept ==
  ASSUME ProxyInv, SpillInv, [Next]_vars PROVE SpillInv'
<1> USE DEF endVars, pumpVars, mainVars
<1>0. TypeInv /\ \A p \in Pumps : Spill(p) /\ forwarded[p] \in Nat /\ spilled[p] \in Nat
                                 /\ sent[p] \in Seq(Cells) /\ Len(sent[p]) \in Nat
  BY LenProperties DEF ProxyInv, TypeInv, SpillInv
<1>1. ASSUME UNCHANGED <<sent, forwarded, spilled, pc>> PROVE SpillInv'
  BY <1>0, <1>1 DEF SpillInv, Spill, BrokenOff
<1>2. ASSUME NEW p \in Pumps, NEW l \in Seq(Cells), sent' = [sent EXCEPT ![p] = @ \o l],
             UNCHANGED <<forwarded, spilled, pc>>
      PROVE  SpillInv'
  <2> SUFFICES ASSUME NEW q \in Pumps PROVE Spill(q)'
    BY DEF SpillInv
  <2>1. Len(sent'[q]) \in Nat /\ Len(sent[q]) <= Len(sent'[q])
    <3>1. Len(sent[p] \o l) = Len(sent[p]) + Len(l) /\ Len(l) \in Nat
      BY <1>0, LenProperties, ConcatProperties
    <3>2. sent'[q] = IF q = p THEN sent[p] \o l ELSE sent[q]
      BY <1>0, <1>2 DEF TypeInv
    <3> QED
      BY <1>0, <3>1, <3>2
  <2> QED
    BY <1>0, <1>2, <2>1 DEF Spill, BrokenOff
<1>3. CASE Environment
  <2>1. ASSUME NEW m \in AgentMsgs, AgentWrites(m) PROVE SpillInv'
    <3>1. "down" \in Pumps /\ Line(m) \in Seq(Cells)
      BY LineTyped DEF Pumps, Messages
    <3> QED
      BY <1>2, <2>1, <3>1 DEF AgentWrites
  <2>2. CASE AgentComplains
    <3>1. "err" \in Pumps /\ <<Complaint>> \in Seq(Cells)
      BY DEF Pumps, Cells, Text, Messages
    <3>2. <<>> \o <<Complaint>> = <<Complaint>>
      BY <3>1, ConcatEmptySeq
    <3>3. sent' = [sent EXCEPT !["err"] = @ \o <<Complaint>>]
      BY <2>2, <3>2 DEF AgentComplains
    <3> QED
      BY <1>2, <2>2, <3>1, <3>3 DEF AgentComplains
  <2> QED
    BY <1>1, <1>3, <2>1, <2>2 DEF Environment, HolderEnds, AgentExits
<1>4. ASSUME NEW p \in Pumps, NEW l \in Places, ~BrokenOff(p), pc' = [pc EXCEPT ![p] = l],
             UNCHANGED <<sent, forwarded, spilled>>
      PROVE  SpillInv'
  BY <1>0, <1>4 DEF SpillInv, Spill, BrokenOff, TypeInv
<1>5. ASSUME NEW p \in Pumps, Pump(p) PROVE SpillInv'
  <2>1. CASE Forward(p)
    <3>1. PICK n \in Nat, l \in {"read", "log"} :
           /\ n <= Len(sent[p]) /\ pc[p] = "read"
           /\ forwarded' = [forwarded EXCEPT ![p] = n] /\ pc' = [pc EXCEPT ![p] = l]
      <4>1. PICK ps \in Seq(Text), ls \in Seq(Seq(Text)), n \in Nat :
             /\ n <= Len(sent[p]) /\ pc[p] = "read"
             /\ forwarded' = [forwarded EXCEPT ![p] = n]
             /\ pending' = [pending EXCEPT ![p] = ps]
             /\ lines' = [lines EXCEPT ![p] = ls]
             /\ pc' = [pc EXCEPT ![p] = IF ls = <<>> THEN "read" ELSE "log"]
        BY <1>0, <2>1, ForwardTyped
      <4>2. PICK l \in {"read", "log"} : l = IF ls = <<>> THEN "read" ELSE "log"
        OBVIOUS
      <4> QED
        BY <4>1, <4>2
    <3>2. UNCHANGED <<sent, spilled>>
      BY <2>1 DEF Forward
    <3> QED
      BY <1>0, <3>1, <3>2 DEF SpillInv, Spill, BrokenOff, TypeInv
  <2>2. ASSUME ~Forward(p)
        PROVE  /\ pc[p] \in {"read", "log", "mark", "set", "enqueue"}
               /\ \E l \in Places : pc' = [pc EXCEPT ![p] = l]
               /\ UNCHANGED <<sent, forwarded, spilled>>
    BY <1>5, <2>2 DEF Pump, FinishTail, Close, AtEof, Observe, Mark, Set, Enqueue, Logging, To,
                      Places, BindingStarts
  <2> QED
    BY <1>4, <2>1, <2>2 DEF BrokenOff
<1>6. CASE Breaks
  <2>1. PICK p \in Pumps, l \in {"failed", "aborted"} : BreaksOff(p) /\ To(p, l)
    BY <1>6, BreakingOff
  <2>2. PICK n \in 0..(Len(sent[p]) - forwarded[p]) : spilled' = [spilled EXCEPT ![p] = n]
    BY <2>1, Zenon DEF BreaksOff
  <2>3. pc' = [pc EXCEPT ![p] = l] /\ UNCHANGED <<sent, forwarded>>
    BY <2>1 DEF BreaksOff, To
  <2> QED
    BY <1>0, <2>2, <2>3 DEF SpillInv, Spill, BrokenOff, TypeInv
<1>7. CASE Main \/ UNCHANGED vars
  BY <1>1, <1>7 DEF Main, Reap, StopForwarding, LogExit, FlushAndExit, vars
<1> QED
  BY <1>3, <1>5, <1>6, <1>7 DEF Next, Breaks

(* What is made of a part of a stream begins what is made of more of it.   *)
LEMMA UnbrokenPart ==
  ASSUME NEW a \in Seq(Cells), NEW n \in Nat, NEW k \in Nat, n + k <= Len(a)
  PROVE  /\ Unbroken(SubSeq(a, 1, n)) \in Seq(Text) /\ Unbroken(SubSeq(a, 1, n + k)) \in Seq(Text)
         /\ IsPrefix(Unbroken(SubSeq(a, 1, n)), Unbroken(SubSeq(a, 1, n + k)))
<1> DEFINE U(i) == Unbroken(SubSeq(a, 1, i))
           T == {i \in Nat : n + i <= Len(a) => U(n + i) \in Seq(Text) /\ IsPrefix(U(n), U(n + i))}
<1>1. Len(a) \in Nat /\ \A i \in 1..Len(a) : a[i] \in Cells
  BY LenProperties, ElementOfSeq
<1>2. U(n) \in Seq(Text)
  <2>1. \A i \in 1..n : a[i] \in Cells
    BY <1>1
  <2>2. SubSeq(a, 1, n) \in Seq(Cells)
    BY <2>1, SubSeqProperties
  <2> QED
    BY <2>2, UnbrokenGrows
<1>3. 0 \in T
  <2>1. n + 0 = n
    OBVIOUS
  <2> QED
    BY <1>2, <2>1, PrefixOfItself
<1>4. ASSUME NEW i \in Nat, i \in T PROVE i + 1 \in T
  <2> SUFFICES ASSUME n + (i + 1) <= Len(a)
               PROVE  U(n + (i + 1)) \in Seq(Text) /\ IsPrefix(U(n), U(n + (i + 1)))
    OBVIOUS
  <2>1. PICK m \in Nat : m = n + i /\ m + 1 = n + (i + 1) /\ m + 1 <= Len(a) /\ m <= Len(a)
    BY <1>1
  <2>2. PICK u \in Seq(Text) : u = U(m) /\ IsPrefix(U(n), u)
    BY <1>4, <2>1
  <2>3. PICK q \in Seq(Cells), c \in Cells :
          q = SubSeq(a, 1, m) /\ SubSeq(a, 1, m + 1) = Append(q, c)
    BY <2>1, PartGrows
  <2>4. U(m + 1) = IF c = NL THEN u ELSE Append(u, c)
    BY <2>2, <2>3, UnbrokenGrows
  <2>5. c # NL => c \in Text /\ Append(u, c) \in Seq(Text)
    BY CellsApart, AppendProperties
  <2>6. c # NL => IsPrefix(U(n), Append(u, c))
    BY <1>2, <2>2, <2>5, PrefixOfAppend
  <2> QED
    BY <2>1, <2>2, <2>4, <2>5, <2>6
<1> HIDE DEF T
<1>5. k \in T
  BY <1>3, <1>4, SetInduction
<1> QED
  BY <1>2, <1>5 DEF T

-----------------------------------------------------------------------------
(***************************************************************************)
(* What the agent wrote begins with each of its messages once, and so does *)
(* what was made of it.                                                    *)
(***************************************************************************)
(* A message begins in it but once. *)
Once(q) == \A i, j \in 1..Len(q) : q[i] \in Messages /\ q[j] = q[i] => i = j

LEMMA OnceMore ==
  ASSUME NEW q \in Seq(Cells), Once(q), NEW m \in Messages, m \notin ToSet(q)
  PROVE  Once(q \o Line(m))
<1> DEFINE n == Len(q)  k == m.cells  l == Line(m)  a == q \o l
<1>1. n \in Nat /\ k \in Nat \ {0} /\ l \in Seq(Cells) /\ Len(l) = k + 1 /\ l[1] = m
      /\ \A j \in 1..k : l[1 + j] = IF j = k THEN NL ELSE Rest
  BY LenProperties, MessageFacts, LineIs
<1>2. \A i \in 1..n : q[i] # m
  BY LenProperties DEF ToSet
<1> HIDE DEF l, k
<1>3. Len(a) = n + (k + 1) /\ \A i \in 1..n + (k + 1) : a[i] = IF i <= n THEN q[i] ELSE l[i - n]
  <2>1. /\ Len(q \o l) = Len(q) + Len(l)
        /\ \A i \in 1..Len(q) + Len(l) : (q \o l)[i] = IF i <= Len(q) THEN q[i] ELSE l[i - Len(q)]
    BY <1>1, ConcatProperties
  <2> QED
    BY <1>1, <2>1
<1> HIDE DEF n, a
<1>4. ASSUME NEW i \in 1..n + (k + 1), i > n + 1 PROVE a[i] \notin Messages
  <2>1. PICK j \in 1..k : i - n = 1 + j
    <3>1. i - n - 1 \in 1..k /\ i - n = 1 + (i - n - 1)
      BY <1>1, <1>4
    <3> QED
      BY <3>1
  <2>2. ~(i <= n)
    BY <1>1, <1>4
  <2>3. a[i] = l[1 + j]
    BY <1>3, <2>1, <2>2
  <2>4. a[i] = NL \/ a[i] = Rest
    BY <1>1, <2>3
  <2> QED
    BY <2>4, CellsApart
<1>5. a[n + 1] = m
  <2>1. n + 1 \in 1..n + (k + 1) /\ ~(n + 1 <= n) /\ (n + 1) - n = 1
    BY <1>1
  <2> QED
    BY <1>1, <1>3, <2>1
<1>6. \A i \in 1..n : a[i] = q[i] /\ a[i] # m
  <2> SUFFICES ASSUME NEW i \in 1..n PROVE a[i] = q[i] /\ a[i] # m
    OBVIOUS
  <2>1. i \in 1..n + (k + 1) /\ i <= n
    BY <1>1
  <2> QED
    BY <1>2, <1>3, <2>1
<1>7. ASSUME NEW i \in 1..Len(a), NEW j \in 1..Len(a), a[i] \in Messages, a[j] = a[i] PROVE i = j
  <2>1. i \in 1..n + (k + 1) /\ j \in 1..n + (k + 1)
    BY <1>3, <1>7
  <2>2. ~(i > n + 1) /\ ~(j > n + 1)
    BY <1>4, <1>7, <2>1
  <2>3. (i \in 1..n \/ i = n + 1) /\ (j \in 1..n \/ j = n + 1)
    BY <1>1, <2>1, <2>2
  <2>4. CASE i \in 1..n /\ j \in 1..n
    BY <1>6, <1>7, <2>4 DEF Once, n
  <2> QED
    BY <1>5, <1>6, <1>7, <2>3, <2>4
<1> QED
  BY <1>7 DEF Once, a, l

LEMMA OnceStarts ==
  ASSUME NEW S, NEW q \in Seq(S), NEW r \in Seq(S), Once(q \o r)
  PROVE  /\ Once(q)
         /\ \A i \in 1..Len(q), j \in 1..Len(r) : q[i] \in Messages => r[j] # q[i]
<1> DEFINE n == Len(q)  k == Len(r)  a == q \o r
<1>1. n \in Nat /\ k \in Nat /\ Len(a) = n + k
      /\ \A i \in 1..n + k : a[i] = IF i <= n THEN q[i] ELSE r[i - n]
  BY LenProperties, ConcatProperties
<1>2. \A i, j \in 1..Len(a) : a[i] \in Messages /\ a[j] = a[i] => i = j
  BY DEF Once
<1> HIDE DEF n, k, a
<1>3. ASSUME NEW i \in 1..n PROVE i \in 1..Len(a) /\ a[i] = q[i]
  BY <1>1
<1>4. ASSUME NEW j \in 1..k PROVE n + j \in 1..Len(a) /\ a[n + j] = r[j] /\ n + j > n
  <2>1. n + j \in 1..n + k /\ ~(n + j <= n) /\ (n + j) - n = j /\ n + j > n
    BY <1>1
  <2> QED
    BY <1>1, <2>1
<1>5. ASSUME NEW i \in 1..n, NEW j \in 1..n, q[i] \in Messages, q[j] = q[i] PROVE i = j
  BY <1>2, <1>3, <1>5
<1>6. ASSUME NEW i \in 1..n, NEW j \in 1..k, q[i] \in Messages, r[j] = q[i] PROVE FALSE
  <2>1. i = n + j
    BY <1>2, <1>3, <1>4, <1>6
  <2> QED
    BY <1>1, <2>1
<1> QED
  BY <1>5, <1>6 DEF Once, n, k

LEMMA OnceAppend ==
  ASSUME NEW S, NEW q \in Seq(S), NEW e \in S
  PROVE  Once(Append(q, e)) <=> Once(q) /\ (e \in Messages => \A i \in 1..Len(q) : q[i] # e)
<1> DEFINE n == Len(q)  a == Append(q, e)
<1>1. n \in Nat /\ Len(a) = n + 1 /\ a[n + 1] = e /\ \A i \in 1..n : a[i] = q[i]
  BY LenProperties, AppendProperties
<1> HIDE DEF n, a
<1>2. /\ \A i \in 1..n : i \in 1..Len(a) /\ i # n + 1
      /\ n + 1 \in 1..Len(a)
      /\ \A i \in 1..Len(a) : i \in 1..n \/ i = n + 1
  BY <1>1
<1>3. Once(a) <=> \A i, j \in 1..Len(a) : a[i] \in Messages /\ a[j] = a[i] => i = j
  BY DEF Once
<1>4. Once(q) <=> \A i, j \in 1..n : q[i] \in Messages /\ q[j] = q[i] => i = j
  BY DEF Once, n
<1> QED
  BY <1>1, <1>2, <1>3, <1>4 DEF a, n

LEMMA OnceUnbroken ==
  ASSUME NEW q \in Seq(Cells), Once(q) PROVE Once(Unbroken(q))
<1> DEFINE T == {r \in Seq(Cells) :
                   /\ \A i \in 1..Len(Unbroken(r)) : \E j \in 1..Len(r) : r[j] = Unbroken(r)[i]
                   /\ Once(r) => Once(Unbroken(r))}
<1>1. <<>> \in T
  BY UnbrokenGrows, EmptySeq DEF Once
<1>2. ASSUME NEW r \in Seq(Cells), NEW c \in Cells, r \in T PROVE Append(r, c) \in T
  <2>1. PICK u \in Seq(Text) : u = Unbroken(r)
    BY UnbrokenGrows
  <2>2. PICK a \in Seq(Cells) : a = Append(r, c) /\ Len(a) = Len(r) + 1 /\ a[Len(r) + 1] = c
          /\ (\A j \in 1..Len(r) : a[j] = r[j]) /\ Len(r) \in Nat
    BY AppendProperties, LenProperties
  <2>3. Once(a) <=> Once(r) /\ (c \in Messages => \A i \in 1..Len(r) : r[i] # c)
    BY <2>2, OnceAppend
  <2>4. (\A i \in 1..Len(u) : \E j \in 1..Len(r) : r[j] = u[i]) /\ (Once(r) => Once(u))
    BY <1>2, <2>1
  <2>5. \A j \in 1..Len(r) : j \in 1..Len(a) /\ a[j] = r[j]
    BY <2>2
  <2>6. Len(r) + 1 \in 1..Len(a)
    BY <2>2
  <2>7. CASE c = NL
    <3>1. Unbroken(a) = u
      BY <2>1, <2>2, <2>7, UnbrokenGrows
    <3>2. \A i \in 1..Len(u) : \E j \in 1..Len(a) : a[j] = u[i]
      BY <2>4, <2>5
    <3> QED
      BY <2>2, <2>3, <2>4, <3>1, <3>2
  <2>8. CASE c # NL
    <3>1. c \in Text /\ Unbroken(a) = Append(u, c)
      BY <2>1, <2>2, <2>8, UnbrokenGrows, CellsApart
    <3>2. PICK v \in Seq(Text) : v = Append(u, c) /\ Len(v) = Len(u) + 1 /\ v[Len(u) + 1] = c
            /\ (\A i \in 1..Len(u) : v[i] = u[i]) /\ Len(u) \in Nat
      BY <3>1, AppendProperties, LenProperties
    <3>3. \A i \in 1..Len(v) : i \in 1..Len(u) \/ i = Len(u) + 1
      BY <3>2
    <3>4. \A i \in 1..Len(v) : \E j \in 1..Len(a) : a[j] = v[i]
      BY <2>2, <2>4, <2>5, <2>6, <3>2, <3>3
    <3>5. Once(a) => Once(v)
      <4>1. Once(v) <=> Once(u) /\ (c \in Messages => \A i \in 1..Len(u) : u[i] # c)
        BY <3>1, <3>2, OnceAppend
      <4> QED
        BY <2>3, <2>4, <4>1
    <3> QED
      BY <2>2, <3>1, <3>2, <3>4, <3>5, ZenonT(30)
  <2> QED
    BY <2>7, <2>8
<1> HIDE DEF T
<1>3. q \in T
  BY <1>1, <1>2, SeqInduction
<1> QED
  BY <1>3 DEF T

(* No two lines begin with the same message. *)
Begins(l, m) == l # <<>> /\ Head(l) = m
Apart(recs) ==
  \A k, j \in 1..Len(recs), m \in Messages : Begins(recs[k], m) /\ Begins(recs[j], m) => k = j

LEMMA OnceLines ==
  ASSUME NEW recs \in Seq(Seq(Text)), Once(FlattenSeq(recs)) PROVE Apart(recs)
<1> DEFINE F(r) == FlattenSeq(r)
           T == {r \in Seq(Seq(Text)) :
                   /\ \A k \in 1..Len(r), m \in Messages :
                        Begins(r[k], m) => \E i \in 1..Len(F(r)) : F(r)[i] = m
                   /\ Once(F(r)) => Apart(r)}
<1>1. <<>> \in T
  BY EmptySeq DEF Apart
<1>2. ASSUME NEW r \in Seq(Seq(Text)), NEW l \in Seq(Text), r \in T PROVE Append(r, l) \in T
  <2>1. PICK u \in Seq(Text) : u = FlattenSeq(r) /\ FlattenSeq(Append(r, l)) = u \o l
    BY FlattenAppend
  <2>2. PICK a \in Seq(Seq(Text)) :
          /\ a = Append(r, l) /\ Len(r) \in Nat /\ Len(a) = Len(r) + 1 /\ a[Len(r) + 1] = l
          /\ Len(r) + 1 \in 1..Len(a)
          /\ \A i \in 1..Len(r) : i \in 1..Len(a) /\ a[i] = r[i]
          /\ \A i \in 1..Len(a) : i \in 1..Len(r) \/ i = Len(r) + 1
    BY OneBehind
  <2> DEFINE n == Len(r)
  <2> HIDE DEF n
  <2>3. /\ \A k \in 1..n, m \in Messages : Begins(r[k], m) => \E i \in 1..Len(u) : u[i] = m
        /\ Once(u) => Apart(r)
    BY <1>2, <2>1 DEF n
  <2> DEFINE v == u \o l
  <2>4. /\ v \in Seq(Text) /\ Len(u) \in Nat /\ Len(l) \in Nat /\ Len(v) = Len(u) + Len(l)
        /\ \A i \in 1..Len(u) : i \in 1..Len(v) /\ v[i] = u[i]
        /\ \A j \in 1..Len(l) : Len(u) + j \in 1..Len(v) /\ v[Len(u) + j] = l[j]
    BY Joins
  <2> HIDE DEF v
  <2>5. ASSUME NEW m \in Messages, Begins(l, m) PROVE 1 \in 1..Len(l) /\ l[1] = m
    <3>1. Len(l) # 0 /\ Head(l) = l[1]
      BY <2>5, EmptySeq DEF Begins
    <3> QED
      BY <2>4, <2>5, <3>1 DEF Begins
  <2>6. ASSUME NEW i \in 1..Len(u) PROVE i \in 1..Len(v) /\ v[i] = u[i]
    BY <2>4
  <2>7. ASSUME NEW m \in Messages, Begins(l, m)
        PROVE  Len(u) + 1 \in 1..Len(v) /\ v[Len(u) + 1] = m
    <3>1. PICK j \in 1..Len(l) : j = 1 /\ l[j] = m
      BY <2>5, <2>7
    <3>2. Len(u) + j \in 1..Len(v) /\ v[Len(u) + j] = l[j]
      BY <2>4, Zenon
    <3> QED
      BY <3>1, <3>2
  <2>8. \A k \in 1..Len(a) : (k \in 1..n /\ a[k] = r[k]) \/ (k = n + 1 /\ a[k] = l)
    BY <2>2 DEF n
  <2>9. ASSUME NEW k \in 1..Len(a), NEW m \in Messages, Begins(a[k], m)
        PROVE  \E i \in 1..Len(v) : v[i] = m
    <3>1. CASE k \in 1..n /\ a[k] = r[k]
      BY <2>3, <2>6, <2>9, <3>1
    <3>2. CASE a[k] = l
      BY <2>7, <2>9, <3>2
    <3> QED
      BY <2>8, <3>1, <3>2
  <2>10. ASSUME Once(v) PROVE Apart(a)
    <3>1. Once(u) /\ \A i \in 1..Len(u), j \in 1..Len(l) : u[i] \in Messages => l[j] # u[i]
      BY <2>4, <2>10, OnceStarts DEF v
    <3>2. Apart(r)
      BY <2>3, <3>1
    <3>3. ASSUME NEW m \in Messages, NEW k \in 1..n, Begins(r[k], m), Begins(l, m) PROVE FALSE
      <4>1. PICK i \in 1..Len(u) : u[i] = m
        BY <2>3, <3>3
      <4>2. 1 \in 1..Len(l) /\ l[1] = m
        BY <2>5, <3>3
      <4> QED
        BY <3>1, <4>1, <4>2
    <3>4. ASSUME NEW k \in 1..Len(a), NEW j \in 1..Len(a), NEW m \in Messages,
                 Begins(a[k], m), Begins(a[j], m)
          PROVE  k = j
      <4>1. CASE (k \in 1..n /\ a[k] = r[k]) /\ (j \in 1..n /\ a[j] = r[j])
        BY <3>2, <3>4, <4>1 DEF Apart, n
      <4> QED
        BY <2>8, <3>3, <3>4, <4>1
    <3> QED
      BY <3>4 DEF Apart
  <2> QED
    BY <2>1, <2>2, <2>4, <2>9, <2>10, ZenonT(30) DEF v
<1> HIDE DEF T
<1>3. recs \in T
  BY <1>1, <1>2, SeqInduction
<1> QED
  BY <1>3 DEF T

(* What a pump logged is found among its lines. *)
LEMMA LoggedIs ==
  ASSUME NEW records \in Seq(Entries), log = records, NEW p \in Pumps, NEW k \in 1..Len(log), log[k].kind = p
  PROVE  \E j \in 1..Len(Logged(p)) : Logged(p)[j] = log[k].line
<1> DEFINE f == [e \in Entries |-> IF e.kind = p THEN <<e.line>> ELSE <<>>]
           T == {r \in Seq(Entries) : \A i \in 1..Len(r) : r[i].kind = p =>
                   \E j \in 1..Len(Each(f, r)) : Each(f, r)[j] = r[i].line}
<1>1. Stands(Entries, Seq(Text), f) /\ \A e \in Entries : f[e] = IF e.kind = p THEN <<e.line>> ELSE <<>>
  <2>1. \A e \in Entries : <<e.line>> \in Seq(Seq(Text)) /\ <<>> \in Seq(Seq(Text))
    BY EmptySeq DEF Entries
  <2>2. f \in [Entries -> Seq(Seq(Text))]
    BY <2>1
  <2> QED
    BY <2>2 DEF Stands
<1> HIDE DEF f
<1>2. <<>> \in T
  BY EmptySeq
<1>3. ASSUME NEW r \in Seq(Entries), NEW e \in Entries, r \in T PROVE Append(r, e) \in T
  <2>1. PICK u \in Seq(Seq(Text)) : u = Each(f, r) /\ Each(f, Append(r, e)) = u \o f[e]
    BY <1>1, EachAppend
  <2>2. PICK a \in Seq(Entries) :
          /\ a = Append(r, e) /\ Len(r) \in Nat /\ Len(a) = Len(r) + 1 /\ a[Len(r) + 1] = e
          /\ Len(r) + 1 \in 1..Len(a)
          /\ \A i \in 1..Len(r) : i \in 1..Len(a) /\ a[i] = r[i]
          /\ \A i \in 1..Len(a) : i \in 1..Len(r) \/ i = Len(r) + 1
    BY OneBehind
  <2>3. \A i \in 1..Len(r) : r[i].kind = p => \E j \in 1..Len(u) : u[j] = r[i].line
    BY <1>3, <2>1
  <2>4. PICK g \in Seq(Seq(Text)) : g = f[e] /\ (e.kind = p => g = <<e.line>>)
    BY <1>1 DEF Stands
  <2> DEFINE v == u \o g
  <2>5. /\ v \in Seq(Seq(Text)) /\ Len(u) \in Nat /\ Len(g) \in Nat /\ Len(v) = Len(u) + Len(g)
        /\ \A i \in 1..Len(u) : i \in 1..Len(v) /\ v[i] = u[i]
        /\ \A j \in 1..Len(g) : Len(u) + j \in 1..Len(v) /\ v[Len(u) + j] = g[j]
    <3>1. PICK S : S = Seq(Text)
      OBVIOUS
    <3>2. u \in Seq(S) /\ g \in Seq(S)
      BY <2>1, <2>4, <3>1
    <3>3. /\ v \in Seq(S) /\ Len(u) \in Nat /\ Len(g) \in Nat /\ Len(v) = Len(u) + Len(g)
          /\ \A i \in 1..Len(u) : i \in 1..Len(v) /\ v[i] = u[i]
          /\ \A j \in 1..Len(g) : Len(u) + j \in 1..Len(v) /\ v[Len(u) + j] = g[j]
      BY <3>2, Joins
    <3> QED
      BY <3>1, <3>3, Zenon
  <2> HIDE DEF v
  <2>6. ASSUME e.kind = p PROVE \E j \in 1..Len(v) : v[j] = e.line
    <3>1. g = <<e.line>>
      BY <2>4, <2>6
    <3>2. PICK j \in 1..Len(g) : g[j] = e.line
      BY <3>1
    <3>3. Len(u) + j \in 1..Len(v) /\ v[Len(u) + j] = g[j]
      BY <2>5, Zenon
    <3> QED
      BY <3>2, <3>3
  <2>7. ASSUME NEW i \in 1..Len(a), a[i].kind = p PROVE \E j \in 1..Len(v) : v[j] = a[i].line
    <3>1. CASE i \in 1..Len(r)
      BY <2>2, <2>3, <2>5, <2>7, <3>1
    <3>2. CASE i = Len(r) + 1
      BY <2>2, <2>6, <2>7, <3>2
    <3> QED
      BY <2>2, <3>1, <3>2
  <2>8. Each(f, a) = v
    BY <2>1, <2>2, <2>4, <2>5 DEF v
  <2>9. a \in T
    BY <2>7, <2>8
  <2> QED
    BY <2>2, <2>9
<1> HIDE DEF T
<1>4. records \in T
  BY <1>2, <1>3, SeqInduction
<1>5. Logged(p) = Each(f, records)
  <2>1. \A i \in DOMAIN records : f[records[i]] = IF records[i].kind = p THEN <<records[i].line>> ELSE <<>>
    BY <1>1, LenProperties, ElementOfSeq
  <2>2. [i \in DOMAIN records |-> f[records[i]]]
          = [i \in DOMAIN records |-> IF records[i].kind = p THEN <<records[i].line>> ELSE <<>>]
    BY <2>1
  <2> QED
    BY <2>2, Zenon DEF Logged, Each
<1> QED
  BY <1>4, <1>5 DEF T

-----------------------------------------------------------------------------
(***************************************************************************)
(* An answer is attributed to the session it made.                         *)
(***************************************************************************)
(* A line of the agent's that was sniffed and is not in the log yet.       *)
Working == pc["down"] \in {"mark", "set", "enqueue"}
Underway(m) == Working /\ Begins(Head(lines["down"]), m)
InLog(k, m) == log[k].kind = "down" /\ Begins(log[k].line, m)

(* The request is remembered until a line of the agent's takes its id; what*)
(* was observed of the agent is logged or about to be; and an answer that  *)
(* followed its request is attributed to the session it names.             *)
Pended ==
  \A h \in 1..Len(observed) :
    /\ Asks(observed[h], observed[h].msg.id)
    /\ \A j \in (h + 1)..Len(observed) : ~Takes(observed[j], observed[h].msg.id)
    => observed[h].msg.id \in pendingNew
Settled ==
  \A i \in 1..Len(observed) : observed[i].pump = "down" =>
    Underway(observed[i].msg) \/ \E k \in 1..Len(log) : InLog(k, observed[i].msg)
Attributed ==
  \A i \in 1..Len(observed) : Answers(i) /\ observed[i].msg.result \in Sids =>
    /\ Underway(observed[i].msg) => sniffed["down"] = observed[i].msg.result
    /\ \A k \in 1..Len(log) : InLog(k, observed[i].msg) => log[k].dest = observed[i].msg.result
FoundInv == Once(sent["down"]) /\ Pended /\ Settled /\ Attributed

LEMMA SightingsTyped ==
  ASSUME TypeInv, NEW i \in 1..Len(observed)
  PROVE  observed[i] \in Sightings /\ observed[i].pump \in Pumps /\ observed[i].msg \in Messages
<1>1. observed[i] \in Sightings
  BY ElementOfSeq DEF TypeInv
<1> QED
  BY <1>1 DEF Sightings

LEMMA OncePart ==
  ASSUME NEW q \in Seq(Cells), Once(q), NEW n \in Nat, n <= Len(q)
  PROVE  SubSeq(q, 1, n) \in Seq(Cells) /\ Once(SubSeq(q, 1, n))
<1> DEFINE r == SubSeq(q, 1, n)
<1>1. Len(q) \in Nat /\ \A i \in 1..n : i \in 1..Len(q) /\ q[i] \in Cells
  BY LenProperties, ElementOfSeq
<1>2. r \in Seq(Cells) /\ Len(r) = n /\ \A i \in 1..n : r[i] = q[i]
  BY <1>1, SubSeqProperties
<1> HIDE DEF r
<1>3. Once(r)
  BY <1>1, <1>2 DEF Once
<1> QED
  BY <1>2, <1>3 DEF r

(* A message about to be observed was not logged before. *)
LEMMA Unseen ==
  ASSUME ProxyInv, LinesInv, Once(sent["down"]), lines["down"] # <<>>,
         NEW m \in Messages, Begins(Head(lines["down"]), m), NEW k \in 1..Len(log)
  PROVE  ~InLog(k, m)
<1> SUFFICES ASSUME InLog(k, m) PROVE FALSE
  OBVIOUS
<1>0. PICK p \in Pumps : p = "down"
  BY DEF Pumps
<1>1. /\ sent[p] \in Seq(Cells) /\ forwarded[p] \in Nat /\ lines[p] \in Seq(Seq(Text))
      /\ pending[p] \in Seq(Text) /\ log \in Seq(Entries) /\ LinesFor(p)
  BY DEF ProxyInv, TypeInv, LinesInv
<1>2. PICK records \in Seq(Entries) : records = log
  BY <1>1
<1>3. PICK g \in Seq(Seq(Text)) : g = Logged(p)
  BY <1>2, LoggedGrows
<1>4. PICK j \in 1..Len(g) : g[j] = log[k].line
  BY <1>0, <1>2, <1>3, LoggedIs DEF InLog
<1>5. PICK ls \in Seq(Seq(Text)) : ls = lines[p] /\ ls # <<>>
  BY <1>0, <1>1
<1>6. PICK recs \in Seq(Seq(Text)) : recs = g \o ls
  BY Joins
<1>7. /\ Len(g) \in Nat /\ Len(ls) \in Nat
      /\ \A i \in 1..Len(g) : i \in 1..Len(recs) /\ recs[i] = g[i]
      /\ \A i \in 1..Len(ls) : Len(g) + i \in 1..Len(recs) /\ recs[Len(g) + i] = ls[i]
  <2>1. PICK S : S = Seq(Text)
    OBVIOUS
  <2>2. g \in Seq(S) /\ ls \in Seq(S)
    BY <2>1
  <2>3. /\ Len(g) \in Nat /\ Len(ls) \in Nat
        /\ \A i \in 1..Len(g) : i \in 1..Len(g \o ls) /\ (g \o ls)[i] = g[i]
        /\ \A i \in 1..Len(ls) : Len(g) + i \in 1..Len(g \o ls) /\ (g \o ls)[Len(g) + i] = ls[i]
    BY <2>2, Joins, SMTT(30)
  <2> QED
    BY <1>6, <2>3
<1>8. Apart(recs)
  <2>1. recs = RecordsOf(p)
    BY <1>3, <1>5, <1>6 DEF RecordsOf
  <2>2. Passed(p) \in Seq(Cells) /\ Once(Passed(p))
    BY <1>0, <1>1, OncePart DEF Passed, LinesFor
  <2>3. Once(Unbroken(Passed(p)))
    BY <2>2, OnceUnbroken
  <2>4. FlattenSeq(recs) \o pending[p] = Unbroken(Passed(p))
    BY <1>1, <2>1 DEF LinesFor, Accounted, Spelt
  <2>5. FlattenSeq(recs) \in Seq(Text)
    BY FlattenAppend, <1>1
  <2>6. Once(FlattenSeq(recs))
    BY <1>1, <2>3, <2>4, <2>5, OnceStarts
  <2> QED
    BY <2>6, OnceLines
<1>9. PICK i \in 1..Len(ls) : i = 1 /\ ls[i] = Head(ls)
  <2>1. Len(ls) # 0 /\ Head(ls) = ls[1]
    BY <1>5, EmptySeq
  <2> QED
    BY <1>7, <2>1
<1>10. Begins(recs[j], m) /\ Begins(recs[Len(g) + i], m) /\ j \in 1..Len(recs) /\ Len(g) + i \in 1..Len(recs)
  BY <1>0, <1>4, <1>5, <1>7, <1>9 DEF InLog
<1>11. j = Len(g) + i
  BY <1>8, <1>10 DEF Apart
<1> QED
  BY <1>7, <1>9, <1>11

(* What leaves alone what was observed and the line that is being logged.  *)
LEMMA FoundFrame ==
  ASSUME TypeInv, FoundInv, UNCHANGED <<observed, pendingNew>>, Once(sent["down"])',
         Working' <=> Working, Working => UNCHANGED <<lines["down"], sniffed["down"]>>,
         UNCHANGED log \/ \E e \in Entries : e.kind # "down" /\ log' = Append(log, e)
  PROVE  FoundInv'
<1>1. \A m \in Messages : Underway(m)' <=> Underway(m)
  BY DEF Underway, Begins
<1>2. /\ \A k \in 1..Len(log) : k \in 1..Len(log') /\ log'[k] = log[k]
      /\ \A k \in 1..Len(log') : k \in 1..Len(log) \/ log'[k].kind # "down"
  <2>1. CASE UNCHANGED log
    BY <2>1
  <2>2. ASSUME NEW e \in Entries, e.kind # "down", log' = Append(log, e)
        PROVE  /\ \A k \in 1..Len(log) : k \in 1..Len(log') /\ log'[k] = log[k]
               /\ \A k \in 1..Len(log') : k \in 1..Len(log) \/ log'[k].kind # "down"
    <3>1. Len(log) \in Nat /\ Len(log') = Len(log) + 1 /\ log'[Len(log) + 1] = e
          /\ \A i \in 1..Len(log) : log'[i] = log[i]
      BY <2>2, LogGrows
    <3>2. \A k \in 1..Len(log') : k \in 1..Len(log) \/ k = Len(log) + 1
      BY <3>1
    <3> QED
      BY <2>2, <3>1, <3>2
  <2> QED
    BY <2>1, <2>2
<1>3. \A m \in Messages :
        /\ \A k \in 1..Len(log) : k \in 1..Len(log') /\ (InLog(k, m)' <=> InLog(k, m))
        /\ \A k \in 1..Len(log') : InLog(k, m)' => k \in 1..Len(log)
  BY <1>2 DEF InLog, Begins
<1>4. \A i \in 1..Len(observed) : observed[i].msg \in Messages
  BY SightingsTyped
<1>5. Pended'
  BY DEF FoundInv, Pended, Asks, Takes
<1>6. Settled'
  <2> SUFFICES ASSUME NEW i \in 1..Len(observed), observed[i].pump = "down"
               PROVE  Underway(observed[i].msg)' \/ \E k \in 1..Len(log') : InLog(k, observed[i].msg)'
    BY DEF Settled
  <2>1. PICK m \in Messages : m = observed[i].msg
    BY <1>4
  <2>2. Underway(m) \/ \E k \in 1..Len(log) : InLog(k, m)
    BY <2>1 DEF FoundInv, Settled
  <2>3. Underway(m)' \/ \E k \in 1..Len(log') : InLog(k, m)'
    BY <1>1, <1>3, <2>2
  <2> QED
    BY <2>1, <2>3 DEF Underway, InLog
<1>7. Attributed'
  <2> SUFFICES ASSUME NEW i \in 1..Len(observed), Answers(i)', observed[i].msg.result \in Sids
               PROVE  /\ Underway(observed[i].msg)' => sniffed'["down"] = observed[i].msg.result
                      /\ \A k \in 1..Len(log') : InLog(k, observed[i].msg)' => log'[k].dest = observed[i].msg.result
    BY DEF Attributed
  <2>1. PICK m \in Messages : m = observed[i].msg
    BY <1>4
  <2>2. Answers(i)
    BY DEF Answers, Asks, Takes
  <2>3. /\ Underway(m) => sniffed["down"] = m.result
        /\ \A k \in 1..Len(log) : InLog(k, m) => log[k].dest = m.result
    BY <2>1, <2>2 DEF FoundInv, Attributed
  <2>4. Underway(m)' => sniffed'["down"] = m.result
    BY <1>1, <2>3 DEF Underway
  <2>5. \A k \in 1..Len(log') : InLog(k, m)' => log'[k].dest = m.result
    BY <1>2, <1>3, <2>3
  <2> QED
    BY <2>1, <2>4, <2>5 DEF Underway, InLog
<1> QED
  BY <1>5, <1>6, <1>7 DEF FoundInv

(* The line at hand is logged.                                            *)
LEMMA FoundEnqueued ==
  ASSUME ProxyInv, FoundInv, Enqueue("down") PROVE FoundInv'
<1> USE DEF endVars, pumpVars, mainVars
<1>0. TypeInv /\ Drain /\ "down" \in Pumps
  BY DEF ProxyInv, Pumps
<1>1. PICK e \in Entries : /\ e.kind = "down" /\ e.line = Head(lines["down"])
                           /\ e.dest = Route(Conn, sniffed["down"]) /\ log' = Append(log, e)
  <2>1. Entry(Route(Conn, sniffed["down"]), "down", Head(lines["down"]), Stamped(Conn, sniffed["down"])) \in Entries
    BY <1>0, EnqueueTyped
  <2> QED
    BY <2>1 DEF Enqueue, Entry
<1>2. PICK n \in Nat : n = Len(log)
  BY <1>0, LenProperties DEF TypeInv
<1>3. Len(log) \in Nat /\ Len(log') = Len(log) + 1 /\ log'[Len(log) + 1] = e
      /\ \A k \in 1..Len(log) : log'[k] = log[k]
  BY <1>0, <1>1, LogGrows
<1>4. /\ n + 1 \in 1..Len(log') /\ \A k \in 1..Len(log) : k \in 1..Len(log')
      /\ \A k \in 1..Len(log') : k \in 1..Len(log) \/ k = n + 1
  BY <1>2, <1>3
<1>5. Working /\ ~Working' /\ UNCHANGED <<observed, pendingNew, sent>>
  <2>1. pc["down"] = "enqueue"
    BY DEF Enqueue
  <2>2. PICK l \in {"read", "log"} : pc' = [pc EXCEPT !["down"] = l]
    BY DEF Enqueue, Logging, To
  <2>3. pc'["down"] = l
    BY <1>0, <2>2 DEF TypeInv
  <2> QED
    BY <2>1, <2>3 DEF Working, Enqueue
<1>6. \A m \in Messages :
        /\ Underway(m) <=> InLog(n + 1, m)'
        /\ \A k \in 1..Len(log) : InLog(k, m)' <=> InLog(k, m)
        /\ ~Underway(m)'
  BY <1>1, <1>2, <1>3, <1>5 DEF Underway, InLog, Begins
<1>7. Once(sent["down"])'
  BY <1>5 DEF FoundInv, Once
<1>8. Pended'
  BY <1>5 DEF FoundInv, Pended, Asks, Takes
<1>9. Settled'
  <2> SUFFICES ASSUME NEW i \in 1..Len(observed), observed[i].pump = "down"
               PROVE  \E k \in 1..Len(log') : InLog(k, observed[i].msg)'
    BY <1>5 DEF Settled
  <2>1. PICK m \in Messages : m = observed[i].msg
    BY <1>0, SightingsTyped
  <2>2. Underway(m) \/ \E k \in 1..Len(log) : InLog(k, m)
    BY <2>1 DEF FoundInv, Settled
  <2>3. \E k \in 1..Len(log') : InLog(k, m)'
    BY <1>2, <1>4, <1>6, <2>2
  <2> QED
    BY <1>5, <2>1, <2>3 DEF InLog
<1>10. Attributed'
  <2> SUFFICES ASSUME NEW i \in 1..Len(observed), Answers(i)', observed[i].msg.result \in Sids
               PROVE  /\ ~Underway(observed[i].msg)'
                      /\ \A k \in 1..Len(log') : InLog(k, observed[i].msg)' => log'[k].dest = observed[i].msg.result
    BY <1>5 DEF Attributed
  <2>1. PICK m \in Messages : m = observed[i].msg
    BY <1>0, SightingsTyped
  <2>2. Answers(i)
    BY <1>5 DEF Answers, Asks, Takes
  <2>3. /\ Underway(m) => sniffed["down"] = m.result
        /\ \A k \in 1..Len(log) : InLog(k, m) => log[k].dest = m.result
    BY <2>1, <2>2 DEF FoundInv, Attributed
  <2>4. Underway(m) => e.dest = m.result
    BY <1>1, <2>1, <2>3 DEF Route
  <2>5. \A k \in 1..Len(log') : InLog(k, m)' => log'[k].dest = m.result
    <3> SUFFICES ASSUME NEW k \in 1..Len(log'), InLog(k, m)' PROVE log'[k].dest = m.result
      OBVIOUS
    <3>1. CASE k \in 1..Len(log)
      BY <1>2, <1>3, <1>6, <2>3, <3>1
    <3>2. CASE k = n + 1
      BY <1>1, <1>2, <1>3, <1>6, <2>4, <3>2
    <3> QED
      BY <1>2, <1>4, <3>1, <3>2
  <2> QED
    BY <1>5, <1>6, <2>1, <2>5 DEF InLog, Underway
<1> QED
  BY <1>7, <1>8, <1>9, <1>10 DEF FoundInv

(* What observing m does to the pending ids. *)
LEMMA IdsLeft ==
  ASSUME TypeInv, NEW p \in Pumps, p # "err", NEW l \in Seq(Text), Whole(l)
  PROVE  LET o == Observation(p, l)  m == Head(l) IN
         /\ \A id \in pendingNew : ~Takes([pump |-> p, msg |-> m], id) => id \in o.left
         /\ \A id : Asks([pump |-> p, msg |-> m], id) => id \in o.left
         /\ p = "down" /\ m.id \in pendingNew => o.session = m.result
<1> DEFINE m == Head(l)
<1>1. CASE p = "up"
  <2>1. Observation(p, l) = ObserveRequest(m)
    BY <1>1 DEF Observation
  <2>2. ObserveRequest(m).left = IF m.method = "session/new" /\ m.id # NoId THEN pendingNew \union {m.id} ELSE pendingNew
    BY DEF ObserveRequest, Remembers
  <2> HIDE DEF m
  <2> QED
    BY <1>1, <2>1, <2>2 DEF Asks, Takes, m
<1>2. CASE p = "down"
  <2>1. Observation(p, l) = ObserveResponse(m)
    BY <1>2 DEF Observation
  <2>2. /\ ObserveResponse(m).left = pendingNew \ {m.id} \/ ObserveResponse(m).left = pendingNew
        /\ m.id \in pendingNew => ObserveResponse(m).session = m.result
    BY DEF ObserveResponse
  <2> HIDE DEF m
  <2> QED
    BY <1>2, <2>1, <2>2 DEF Asks, Takes, m
<1> QED
  BY <1>1, <1>2 DEF Pumps

(* The line at hand is observed.                                           *)
LEMMA FoundObserved ==
  ASSUME ProxyInv, LinesInv, FoundInv, NEW p \in Pumps, Observe(p) PROVE FoundInv'
<1> USE DEF endVars, pumpVars, mainVars
<1>0. TypeInv /\ Drain /\ pc \in [Pumps -> Places] /\ sniffed \in [Pumps -> AnySid]
  BY DEF ProxyInv, TypeInv
<1>1. PICK l \in Seq(Text) : l = Head(lines[p])
  BY <1>0, HeadLine DEF Observe
<1>2. PICK o : o = Observation(p, l)
  OBVIOUS
<1>3. PICK sawIt \in BOOLEAN : sawIt <=> p # "err" /\ Whole(l)
  OBVIOUS
<1>4. /\ lines[p] # <<>> /\ pc[p] = "log" /\ UNCHANGED <<sent, lines, log>>
      /\ pendingNew' = o.left /\ sniffed' = [sniffed EXCEPT ![p] = o.session]
      /\ pc' = [pc EXCEPT ![p] = IF o.established \in Sids THEN "mark" ELSE "enqueue"]
      /\ observed' = IF sawIt THEN Append(observed, [pump |-> p, msg |-> Head(l)]) ELSE observed
  BY <1>1, <1>2, <1>3 DEF Observe, To, BindingStarts
<1>5. /\ sniffed'[p] = o.session /\ pc'[p] \in {"mark", "enqueue"}
      /\ \A q \in Pumps \ {p} : UNCHANGED <<sniffed[q], pc[q]>>
  BY <1>0, <1>4
<1>6. Once(sent["down"])'
  BY <1>4 DEF FoundInv, Once
<1>7. \A m, k : InLog(k, m)' <=> InLog(k, m)
  BY <1>4 DEF InLog, Begins
(* The line at hand begins with no message that was observed before. *)
<1>8. ASSUME p = "down", NEW i \in 1..Len(observed), observed[i].pump = "down"
      PROVE  /\ \E k \in 1..Len(log) : InLog(k, observed[i].msg)
             /\ ~Begins(l, observed[i].msg)
  <2>1. ~Working
    BY <1>4, <1>8 DEF Working
  <2>2. PICK k \in 1..Len(log) : InLog(k, observed[i].msg)
    BY <1>8, <2>1 DEF FoundInv, Settled, Underway
  <2>3. observed[i].msg \in Messages
    BY <1>0, SightingsTyped
  <2>4. ~Begins(l, observed[i].msg)
    BY <1>1, <1>4, <1>8, <2>2, <2>3, Unseen DEF FoundInv
  <2> QED
    BY <2>2, <2>4
<1>9. \A m : p # "down" => (Underway(m)' <=> Underway(m)) /\ UNCHANGED sniffed["down"]
  BY <1>4, <1>5 DEF Underway, Working, Begins, Pumps
<1>10. \A m : p = "down" => (Underway(m)' <=> Begins(l, m))
  BY <1>1, <1>4, <1>5 DEF Underway, Working, Begins
(* What was observed before stays settled. *)
<1>11. ASSUME NEW i \in 1..Len(observed), NEW m \in Messages, m = observed[i].msg
       PROVE  /\ observed[i].pump = "down" =>
                   Underway(m)' \/ \E k \in 1..Len(log) : InLog(k, m)
              /\ Answers(i) /\ m.result \in Sids =>
                   /\ Underway(m)' => sniffed'["down"] = m.result
                   /\ \A k \in 1..Len(log) : InLog(k, m) => log[k].dest = m.result
  <2>1. /\ observed[i].pump = "down" => Underway(m) \/ \E k \in 1..Len(log) : InLog(k, m)
        /\ Answers(i) /\ m.result \in Sids =>
             /\ Underway(m) => sniffed["down"] = m.result
             /\ \A k \in 1..Len(log) : InLog(k, m) => log[k].dest = m.result
    BY <1>11 DEF FoundInv, Settled, Attributed
  <2>2. CASE p # "down"
    BY <1>9, <2>1, <2>2
  <2>3. CASE p = "down"
    <3>1. observed[i].pump = "down" => /\ \E k \in 1..Len(log) : InLog(k, m)
                                       /\ ~Begins(l, m)
      BY <1>8, <1>11, <2>3
    <3>2. Answers(i) => observed[i].pump = "down"
      BY DEF Answers
    <3> QED
      BY <1>10, <2>1, <2>3, <3>1, <3>2
  <2> QED
    BY <2>2, <2>3
<1>12. CASE ~sawIt
  <2>1. observed' = observed /\ pendingNew' = pendingNew
    BY <1>2, <1>3, <1>4, <1>12 DEF Observation, Nothing
  <2>2. Pended'
    BY <2>1 DEF FoundInv, Pended, Asks, Takes
  <2>3. \A i \in 1..Len(observed) : Answers(i)' <=> Answers(i)
    BY <2>1 DEF Answers, Asks, Takes
  <2>4. ASSUME NEW i \in 1..Len(observed)
        PROVE  /\ observed[i].pump = "down" =>
                    Underway(observed[i].msg)' \/ \E k \in 1..Len(log) : InLog(k, observed[i].msg)'
               /\ Answers(i)' /\ observed[i].msg.result \in Sids =>
                    /\ Underway(observed[i].msg)' => sniffed'["down"] = observed[i].msg.result
                    /\ \A k \in 1..Len(log) : InLog(k, observed[i].msg)' => log[k].dest = observed[i].msg.result
    <3>1. PICK m \in Messages : m = observed[i].msg /\ m = observed'[i].msg
      BY <1>0, <2>1, SightingsTyped
    <3>2. /\ Underway(observed[i].msg)' <=> Underway(m)'
          /\ \A k : InLog(k, observed[i].msg)' <=> InLog(k, m)
      BY <1>4, <3>1 DEF Underway, InLog
    <3> QED
      BY <1>11, <2>3, <3>1, <3>2
  <2>5. Settled' /\ Attributed'
    BY <1>4, <2>1, <2>4 DEF Settled, Attributed
  <2> QED
    BY <1>6, <2>2, <2>5 DEF FoundInv
<1>13. CASE sawIt
  <2> DEFINE s == [pump |-> p, msg |-> Head(l)]
  <2>1. p # "err" /\ Whole(l) /\ Head(l) \in Messages /\ Begins(l, Head(l))
    BY <1>3, <1>13, WholeTyped DEF Whole, Begins
  <2>2. s \in Sightings /\ s.pump = p /\ s.msg = Head(l)
    BY <2>1 DEF Sightings
  <2>3. /\ \A id \in pendingNew : ~Takes(s, id) => id \in pendingNew'
        /\ \A id : Asks(s, id) => id \in pendingNew'
        /\ p = "down" /\ s.msg.id \in pendingNew => o.session = s.msg.result
    BY <1>0, <1>2, <1>4, <2>1, <2>2, IdsLeft
  <2> HIDE DEF s
  <2>4. PICK n \in Nat, obs \in Seq(Sightings) :
          /\ n = Len(observed) /\ obs = observed' /\ Len(obs) = n + 1 /\ obs[n + 1] = s
          /\ \A i \in 1..n : obs[i] = observed[i]
    <3>1. observed' = Append(observed, s)
      BY <1>4, <1>13 DEF s
    <3>2. observed \in Seq(Sightings)
      BY <1>0 DEF TypeInv
    <3>3. /\ Len(observed) \in Nat /\ Append(observed, s) \in Seq(Sightings)
          /\ Len(Append(observed, s)) = Len(observed) + 1 /\ Append(observed, s)[Len(observed) + 1] = s
          /\ \A i \in 1..Len(observed) : Append(observed, s)[i] = observed[i]
      BY <2>2, <3>2, AppendProperties, LenProperties
    <3> QED
      BY <3>1, <3>3
  <2>5. \A i \in 1..n + 1 : i \in 1..n \/ i = n + 1
    BY <2>4
  <2>6. ASSUME NEW i \in 1..n + 1
        PROVE  Answers(i)' <=> /\ obs[i].pump = "down"
                               /\ \E h \in 1..(i - 1) :
                                    /\ Asks(observed[h], obs[i].msg.id)
                                    /\ \A j \in (h + 1)..(i - 1) : ~Takes(observed[j], obs[i].msg.id)
    <3>1. \A h \in 1..(i - 1) : obs[h] = observed[h]
      BY <2>4
    <3>2. \A h \in 1..(i - 1) : \A j \in (h + 1)..(i - 1) : obs[j] = observed[j]
      BY <2>4
    <3>3. Answers(i)' <=> /\ obs[i].pump = "down"
                          /\ \E h \in 1..(i - 1) :
                               /\ Asks(obs[h], obs[i].msg.id)
                               /\ \A j \in (h + 1)..(i - 1) : ~Takes(obs[j], obs[i].msg.id)
      BY <2>4 DEF Answers, Asks, Takes
    <3>4. PICK id : id = obs[i].msg.id
      OBVIOUS
    <3>5. ASSUME NEW h \in 1..(i - 1)
          PROVE  Asks(obs[h], id) /\ (\A j \in (h + 1)..(i - 1) : ~Takes(obs[j], id))
                 <=> Asks(observed[h], id) /\ (\A j \in (h + 1)..(i - 1) : ~Takes(observed[j], id))
      BY <3>1, <3>2, Zenon
    <3> QED
      BY <3>3, <3>4, <3>5, Zenon
  <2>7. ASSUME NEW i \in 1..n PROVE Answers(i)' <=> Answers(i)
    <3>1. i \in 1..n + 1 /\ obs[i] = observed[i]
      BY <2>4
    <3>2. Answers(i)' <=> /\ observed[i].pump = "down"
                          /\ \E h \in 1..(i - 1) :
                               /\ Asks(observed[h], observed[i].msg.id)
                               /\ \A j \in (h + 1)..(i - 1) : ~Takes(observed[j], observed[i].msg.id)
      BY <2>6, <3>1
    <3> QED
      BY <3>2 DEF Answers
  <2>8. Pended'
    <3> SUFFICES ASSUME NEW h \in 1..n + 1, Asks(obs[h], obs[h].msg.id),
                        \A j \in (h + 1)..(n + 1) : ~Takes(obs[j], obs[h].msg.id)
                 PROVE  obs[h].msg.id \in pendingNew'
      BY <2>4 DEF Pended, Asks, Takes
    <3>1. CASE h \in 1..n
      <4>1. obs[h] = observed[h]
        BY <2>4, <3>1
      <4>2. \A j \in (h + 1)..n : j \in (h + 1)..(n + 1) /\ obs[j] = observed[j]
        BY <2>4, <3>1
      <4>3. n + 1 \in (h + 1)..(n + 1)
        BY <2>4, <3>1
      <4>4. \A j \in (h + 1)..n : ~Takes(observed[j], observed[h].msg.id)
        BY <4>1, <4>2
      <4>5. observed[h].msg.id \in pendingNew
        BY <2>4, <3>1, <4>1, <4>4 DEF FoundInv, Pended
      <4>6. ~Takes(s, observed[h].msg.id)
        BY <2>4, <4>1, <4>3
      <4> QED
        BY <2>3, <4>1, <4>5, <4>6
    <3>2. CASE h = n + 1
      BY <2>3, <2>4, <3>2
    <3> QED
      BY <2>5, <3>1, <3>2
  <2>9. ASSUME NEW i \in 1..n + 1, NEW m \in Messages, m = obs[i].msg
        PROVE  /\ obs[i].pump = "down" => Underway(m)' \/ \E k \in 1..Len(log) : InLog(k, m)
               /\ Answers(i)' /\ m.result \in Sids =>
                    /\ Underway(m)' => sniffed'["down"] = m.result
                    /\ \A k \in 1..Len(log) : InLog(k, m) => log[k].dest = m.result
    <3>1. CASE i \in 1..n
      <4>1. obs[i] = observed[i] /\ i \in 1..Len(observed)
        BY <2>4, <3>1
      <4> QED
        BY <1>11, <2>7, <2>9, <3>1, <4>1
    <3>2. CASE i = n + 1
      <4>1. m = Head(l) /\ obs[i].pump = p /\ obs[i].msg = s.msg
        BY <2>2, <2>4, <2>9, <3>2
      <4>2. p = "down" => Underway(m)'
        BY <1>10, <2>1, <4>1
      <4>3. ASSUME Answers(i)'
            PROVE  p = "down" /\ m.id \in pendingNew
        <5>1. p = "down"
          BY <2>6, <4>1, <4>3
        <5>2. PICK h \in 1..n : /\ Asks(observed[h], m.id)
                                /\ \A j \in (h + 1)..n : ~Takes(observed[j], m.id)
          <6>1. i - 1 = n
            BY <2>4, <3>2
          <6> QED
            BY <2>6, <2>9, <4>3, <6>1
        <5>3. observed[h].msg.id = m.id
          BY <5>2 DEF Asks
        <5> QED
          BY <2>4, <5>1, <5>2, <5>3 DEF FoundInv, Pended
      <4>4. p = "down" => \A k \in 1..Len(log) : ~InLog(k, m)
        BY <1>1, <1>4, <2>1, <4>1, Unseen DEF FoundInv
      <4>5. Answers(i)' => sniffed'["down"] = m.result
        BY <1>5, <2>3, <2>9, <4>1, <4>3
      <4> QED
        BY <4>1, <4>2, <4>3, <4>4, <4>5
    <3> QED
      BY <2>5, <3>1, <3>2
  <2>10. Settled' /\ Attributed'
    <3>1. ASSUME NEW i \in 1..n + 1
          PROVE  /\ obs[i].pump = "down" => Underway(obs[i].msg)' \/ \E k \in 1..Len(log) : InLog(k, obs[i].msg)'
                 /\ Answers(i)' /\ obs[i].msg.result \in Sids =>
                      /\ Underway(obs[i].msg)' => sniffed'["down"] = obs[i].msg.result
                      /\ \A k \in 1..Len(log) : InLog(k, obs[i].msg)' => log[k].dest = obs[i].msg.result
      <4>1. obs[i] \in Sightings
        BY <2>4, ElementOfSeq
      <4>2. PICK m \in Messages : m = obs[i].msg
        BY <4>1 DEF Sightings
      <4> QED
        BY <1>7, <2>9, <4>2
    <3>2. \A i \in 1..n + 1 : obs[i] = observed'[i]
      BY <2>4
    <3>3. Len(observed') = n + 1 /\ Len(log') = Len(log) /\ log' = log
      BY <1>4, <2>4
    <3>4. ASSUME NEW i \in 1..n + 1, observed'[i].pump = "down"
          PROVE  (Underway(observed[i].msg) \/ \E k \in 1..Len(log) : InLog(k, observed[i].msg))'
      BY <3>1, <3>2, <3>3, <3>4 DEF Underway, InLog
    <3>5. ASSUME NEW i \in 1..n + 1, Answers(i)', observed'[i].msg.result \in Sids
          PROVE  /\ Underway(observed[i].msg)' => sniffed'["down"] = observed'[i].msg.result
                 /\ \A k \in 1..Len(log') : InLog(k, observed[i].msg)' => log'[k].dest = observed'[i].msg.result
      BY <3>1, <3>2, <3>3, <3>5 DEF Underway, InLog
    <3>6. Settled'
      BY <3>3, <3>4 DEF Settled
    <3>7. Attributed'
      BY <3>3, <3>5 DEF Attributed
    <3> QED
      BY <3>6, <3>7
  <2> QED
    BY <1>6, <2>8, <2>10 DEF FoundInv
<1> QED
  BY <1>12, <1>13

LEMMA OnceKept ==
  ASSUME TypeInv, FoundInv, [Next]_vars PROVE Once(sent["down"])'
<1> USE DEF endVars, pumpVars, mainVars
<1>0. Once(sent["down"]) /\ sent \in [Pumps -> Seq(Cells)] /\ "down" \in Pumps
  BY DEF FoundInv, TypeInv, Pumps
<1>1. ASSUME UNCHANGED sent["down"] PROVE Once(sent["down"])'
  BY <1>0, <1>1 DEF Once
<1>2. ASSUME NEW m \in AgentMsgs, AgentWrites(m) PROVE Once(sent["down"])'
  <2>1. sent'["down"] = sent["down"] \o Line(m) /\ m \notin ToSet(sent["down"])
    BY <1>0, <1>2 DEF AgentWrites
  <2>2. m \in Messages /\ sent["down"] \in Seq(Cells)
    BY <1>0 DEF Messages
  <2>3. Once(sent["down"] \o Line(m))
    BY <1>0, <2>1, <2>2, OnceMore
  <2> QED
    BY <2>1, <2>3 DEF Once
<1>3. CASE AgentComplains
  BY <1>0, <1>1, <1>3 DEF AgentComplains
<1>4. CASE HolderEnds \/ (\E holds \in BOOLEAN : AgentExits(holds))
  BY <1>1, <1>4 DEF HolderEnds, AgentExits
<1>5. CASE Main \/ Breaks \/ UNCHANGED vars
  BY <1>1, <1>5, BreakingOff DEF Main, Reap, StopForwarding, LogExit, FlushAndExit, BreaksOff, vars
<1>6. ASSUME NEW p \in Pumps, Pump(p) PROVE Once(sent["down"])'
  BY <1>1, <1>6 DEF Pump, Forward, FinishTail, Close, Observe, Mark, Set, Enqueue
<1> QED
  BY <1>2, <1>3, <1>4, <1>5, <1>6 DEF Next, Environment, Breaks

LEMMA FoundKept ==
  ASSUME ProxyInv, LinesInv, FoundInv, [Next]_vars PROVE FoundInv'
<1> USE DEF endVars, pumpVars, mainVars
<1>0. TypeInv /\ Drain /\ pc \in [Pumps -> Places] /\ lines \in [Pumps -> Seq(Seq(Text))]
      /\ sniffed \in [Pumps -> AnySid] /\ "down" \in Pumps
  BY DEF ProxyInv, TypeInv, Pumps
<1>1. Once(sent["down"])'
  BY <1>0, OnceKept
<1>2. ASSUME UNCHANGED <<observed, pendingNew, log, pc, lines, sniffed>> PROVE FoundInv'
  BY <1>0, <1>1, <1>2, FoundFrame DEF Working
<1>3. CASE Environment \/ Reap \/ StopForwarding \/ FlushAndExit \/ UNCHANGED vars
  BY <1>2, <1>3 DEF Environment, AgentWrites, AgentComplains, HolderEnds, AgentExits,
                    Reap, StopForwarding, FlushAndExit, vars
<1>4. CASE LogExit
  <2>1. PICK e \in Entries : e.kind = "exit" /\ log' = Append(log, e)
    <3>1. Entry(Route(Conn, NoSid), "exit", <<>>, bound[Conn]) \in Entries
      BY <1>0, SidFacts, RouteTyped, EmptySeq DEF Entry, Entries, TypeInv
    <3> QED
      BY <1>4, <3>1 DEF LogExit, Entry
  <2>2. UNCHANGED <<observed, pendingNew, pc, lines, sniffed>>
    BY <1>4 DEF LogExit
  <2> QED
    BY <1>0, <1>1, <2>1, <2>2, FoundFrame DEF Working
<1>5. CASE Breaks
  <2>1. PICK p \in Pumps, l \in {"failed", "aborted"} : BreaksOff(p) /\ To(p, l)
    BY <1>5, BreakingOff
  <2>2. UNCHANGED <<observed, pendingNew, log, lines, sniffed>> /\ (Working' <=> Working)
    BY <1>0, <2>1 DEF BreaksOff, To, Working
  <2> QED
    BY <1>0, <1>1, <2>2, FoundFrame
<1>6. ASSUME NEW p \in Pumps, Pump(p) PROVE FoundInv'
  <2>1. ASSUME NEW l \in {"read", "log", "closed"}, pc' = [pc EXCEPT ![p] = l], pc[p] = "read",
               UNCHANGED <<observed, pendingNew, log, sniffed>>,
               \A q \in Pumps \ {p} : UNCHANGED lines[q]
        PROVE  FoundInv'
    <3>1. Working' <=> Working
      BY <1>0, <2>1 DEF Working
    <3>2. Working => UNCHANGED lines["down"]
      BY <1>0, <2>1 DEF Working
    <3> QED
      BY <1>0, <1>1, <2>1, <3>1, <3>2, FoundFrame
  <2>2. CASE Forward(p)
    <3>1. PICK ls \in Seq(Seq(Text)) :
           /\ lines' = [lines EXCEPT ![p] = ls]
           /\ pc' = [pc EXCEPT ![p] = IF ls = <<>> THEN "read" ELSE "log"]
      BY <1>0, <2>2, ForwardTyped
    <3>2. PICK l \in {"read", "log", "closed"} : pc' = [pc EXCEPT ![p] = l]
      BY <3>1
    <3>3. UNCHANGED <<observed, pendingNew, log, sniffed>> /\ pc[p] = "read"
      BY <2>2 DEF Forward, Unread
    <3> QED
      BY <1>0, <2>1, <3>1, <3>2, <3>3
  <2>3. CASE Close(p)
    <3>1. PICK l \in {"read", "log", "closed"} : pc' = [pc EXCEPT ![p] = l]
      BY <2>3 DEF Close, To
    <3> QED
      BY <2>1, <2>3, <3>1 DEF Close, AtEof
  <2>4. CASE FinishTail(p)
    <3>1. /\ pc' = [pc EXCEPT ![p] = "log"] /\ pc[p] = "read"
          /\ UNCHANGED <<observed, pendingNew, log, sniffed>>
      BY <2>4 DEF FinishTail, To, AtEof
    <3>2. \A q \in Pumps \ {p} : UNCHANGED lines[q]
      BY <1>0, <2>4 DEF FinishTail
    <3> QED
      BY <2>1, <3>1, <3>2
  <2>5. CASE Observe(p)
    BY <2>5, FoundObserved
  <2>6. CASE Mark(p)
    <3>1. PICK e \in Entries : e.kind = "session-bound" /\ log' = Append(log, e)
      <4>1. Entry(Conn, "session-bound", <<>>, sniffed[p]) \in Entries
        BY <1>0, SidFacts, EmptySeq DEF Entry, Entries, Dests, TypeInv
      <4> QED
        BY <2>6, <4>1 DEF Mark, Entry
    <3>2. UNCHANGED <<observed, pendingNew, lines, sniffed>>
      BY <2>6 DEF Mark
    <3>3. Working' <=> Working
      BY <1>0, <2>6 DEF Mark, To, Working
    <3> QED
      BY <1>0, <1>1, <3>1, <3>2, <3>3, FoundFrame
  <2>7. CASE Set(p)
    <3>1. UNCHANGED <<observed, pendingNew, lines, sniffed, log>>
      BY <2>7 DEF Set
    <3>2. Working' <=> Working
      BY <1>0, <2>7 DEF Set, To, Working
    <3> QED
      BY <1>0, <1>1, <3>1, <3>2, FoundFrame
  <2>8. CASE Enqueue(p) /\ p # "down"
    <3>1. PICK e \in Entries : e.kind = p /\ log' = Append(log, e)
      <4>1. Entry(Route(Conn, sniffed[p]), p, Head(lines[p]), Stamped(Conn, sniffed[p])) \in Entries
        BY <1>0, <2>8, EnqueueTyped
      <4> QED
        BY <2>8, <4>1 DEF Enqueue, Entry
    <3>2. PICK ls, l : lines' = [lines EXCEPT ![p] = ls] /\ pc' = [pc EXCEPT ![p] = l]
      BY <2>8 DEF Enqueue, Logging, To
    <3>3. UNCHANGED <<observed, pendingNew, sniffed, lines["down"], pc["down"]>>
      BY <1>0, <2>8, <3>2 DEF Enqueue
    <3> QED
      BY <1>0, <1>1, <2>8, <3>1, <3>3, FoundFrame DEF Working
  <2>9. CASE Enqueue(p) /\ p = "down"
    BY <2>9, FoundEnqueued
  <2> QED
    BY <1>6, <2>2, <2>3, <2>4, <2>5, <2>6, <2>7, <2>8, <2>9 DEF Pump
<1> QED
  BY <1>3, <1>4, <1>5, <1>6 DEF Next, Main, Breaks

-----------------------------------------------------------------------------
(***************************************************************************)
(* The theorems.                                                           *)
(***************************************************************************)
LEMMA ProxyInit == Init => ProxyInv
<1> SUFFICES ASSUME Init PROVE ProxyInv
  OBVIOUS
<1>1. PICK c \in Clients :
        /\ sent = [p \in Pumps |-> IF p = "up" THEN Input(c.sends) ELSE <<>>]
        /\ ended = [p \in Pumps |-> p = "up" /\ c.closes]
  BY DEF Init
<1>2. /\ Input(c.sends) \in Seq(Cells) /\ c.closes \in BOOLEAN
      /\ <<>> \in Seq(Cells) /\ <<>> \in Seq(Text) /\ <<>> \in Seq(Seq(Text))
      /\ <<>> \in Seq(Entries) /\ <<>> \in Seq(Sightings) /\ Len(<<>>) = 0
  BY InputTyped, ProxyAssumption, EmptySeq
<1>3. sent \in [Pumps -> Seq(Cells)] /\ ended \in [Pumps -> BOOLEAN]
  BY <1>1, <1>2
<1>4. pending \in [Pumps -> Seq(Text)] /\ lines \in [Pumps -> Seq(Seq(Text))]
  BY <1>2 DEF Init
<1>5. log \in Seq(Entries) /\ observed \in Seq(Sightings)
  BY <1>2, Zenon DEF Init
<1>6. bound \in [Conns -> Sids \union {NoSid}] /\ sniffed \in [Pumps -> AnySid]
  BY SidFacts DEF Init
<1>7. TypeInv
  <2>1. forwarded \in [Pumps -> Nat] /\ pc \in [Pumps -> Places] /\ code \in Int
        /\ status \in Statuses \union {None} /\ pendingNew \in SUBSET Ids
    BY DEF Init, Places
  <2> QED
    BY <1>3, <1>4, <1>5, <1>6, <2>1, Zenon DEF Init, TypeInv
<1>8. Drain
  <2>1. \A p \in OutPumps : ~ended[p]
    BY <1>1, OutPumpsArePumps
  <2>2. \A p \in Pumps : pc[p] = "read" /\ lines[p] = <<>>
    BY DEF Init
  <2> QED
    BY <2>1, <2>2, OutPumpsArePumps DEF Init, Drain, Drains, AtWork
<1>9. Mapped
  <2>1. bound[Conn] = NoSid /\ Len(log) = 0
    BY SidFacts, <1>2 DEF Init
  <2> QED
    BY <2>1, SidFacts DEF Init, Mapped, Mapping
<1>10. Reported
  BY DEF Init, Reported
<1> QED
  BY <1>7, <1>8, <1>9, <1>10 DEF ProxyInv

LEMMA ProxySafe == Spec => []ProxyInv
<1>1. ProxyInv /\ [Next]_vars => ProxyInv'
  BY TypesKept, DrainKept, MappedKept, ReportedKept DEF ProxyInv
<1> QED
  BY <1>1, ProxyInit, PTL DEF Spec

(* Every variable of the proxy keeps its type. *)
THEOREM ProxyTyped == Spec => []TypeInv
<1>1. ProxyInv => TypeInv
  BY DEF ProxyInv
<1> QED
  BY <1>1, ProxySafe, PTL

(* When the agent's exit is reported, all the agent wrote was passed on    *)
(* and logged, unless reading or passing it on failed: the main task waits *)
(* for both output pumps first (pump_child).                               *)
THEOREM NothingIsCutOff == Spec => []NothingCutOff
<1>1. ProxyInv => NothingCutOff
  <2> SUFFICES ASSUME ProxyInv, main \in {"report", "flush", "exited"}, NEW p \in {"down", "err"},
                      pc[p] # "failed"
               PROVE  forwarded[p] = Len(sent[p]) /\ pending[p] \o lines[p] = <<>>
    BY DEF NothingCutOff
  <2>1. Over(p) /\ Drains(p)
    BY DEF ProxyInv, Drain, OutPumps
  <2>2. forwarded[p] = Len(sent[p]) /\ pending[p] = <<>> /\ lines[p] = <<>>
    BY <2>1 DEF Over, Drains
  <2> QED
    BY <2>2
<1> QED
  BY <1>1, ProxySafe, PTL

(* No record inherits a session before the mapping record of that session  *)
(* was given to the sink, whichever of the pumps bound it                  *)
(* (SessionTracker::record_for_frame, ConnectionLog::bind_session).        *)
THEOREM MappingComesFirst == Spec => []MappingFirst
<1>1. ProxyInv => MappingFirst
  <2> SUFFICES ASSUME ProxyInv, NEW i \in DOMAIN log, log[i].dest \in Sids
               PROVE  \/ \E j \in 1..(i - 1) : log[j].kind = "session-bound" /\ log[j].sid = log[i].dest
                      \/ Whole(log[i].line) /\ Head(log[i].line).session = log[i].dest
    BY DEF MappingFirst
  <2>1. i \in 1..Len(log)
    BY LenProperties DEF ProxyInv, TypeInv
  <2> QED
    BY <2>1 DEF ProxyInv, Mapped, Names
<1> QED
  BY <1>1, ProxySafe, PTL

(* The proxy ends with success only if the agent did: neither a signal nor *)
(* a status that does not fit into a byte is narrowed to 0 (exit_code,     *)
(* narrow_exit_code).                                                      *)
THEOREM CrashesShow == Spec => []CrashShows
<1>1. ProxyInv => CrashShows
  <2> SUFFICES ASSUME ProxyInv, main \in {"flush", "exited"}
               PROVE  code = 0 <=> status.signal = 0 /\ status.code = 0
    BY DEF CrashShows
  <2>1. code = ReportedCode(status) /\ status.code \in Int /\ status.signal \in Nat
    BY ProxyAssumption DEF ProxyInv, Reported
  <2> QED
    BY <2>1 DEF ReportedCode
<1> QED
  BY <1>1, ProxySafe, PTL

(* However the reads cut the stream, what a pump passed on is in the log   *)
(* in order or still in its hands, and all of it is logged when the pump   *)
(* has closed; of a pump that broke off the log has a part, from the       *)
(* beginning, and every message that fits and was split before             *)
(* (LineSplitter::push, pump).                                             *)
THEOREM LinesComplete == Spec => []LinesKept
<1>1. ProxyInv /\ LinesInv /\ SpillInv /\ [Next]_vars => LinesInv' /\ SpillInv'
  BY LinesInvKept, SpillKept
<1>2. ProxyInv /\ LinesInv /\ SpillInv => LinesKept
  <2> SUFFICES ASSUME ProxyInv, LinesInv, SpillInv, NEW p \in Pumps
               PROVE  /\ ~BrokenOff(p) => FlattenSeq(RecordsOf(p)) \o pending[p] = Unbroken(Received(p))
                      /\ pc[p] = "closed" => FlattenSeq(Logged(p)) = Unbroken(Received(p))
                      /\ BrokenOff(p) => IsPrefix(FlattenSeq(Logged(p)), Unbroken(Received(p)))
                      /\ \A m \in Messages :
                           m.cells <= MaxPendingLine /\ PassedWhole(p, m)
                             => \E i \in DOMAIN RecordsOf(p) : RecordsOf(p)[i] = Body(m)
    BY Zenon DEF LinesKept
  <2>1. LinesFor(p) /\ sent[p] \in Seq(Cells) /\ forwarded[p] \in Nat /\ lines[p] \in Seq(Seq(Text))
        /\ log \in Seq(Entries)
    BY DEF LinesInv, ProxyInv, TypeInv
  <2>2. FlattenSeq(RecordsOf(p)) \o pending[p] = Unbroken(Passed(p))
    BY <2>1 DEF LinesFor, Accounted, Spelt
  <2>3. RecordsOf(p) \in Seq(Seq(Text))
    <3>1. Logged(p) \in Seq(Seq(Text))
      BY <2>1, LoggedGrows
    <3> QED
      BY <2>1, <3>1, ConcatProperties DEF RecordsOf
  <2>4. Passed(p) \in Seq(Cells) /\ Len(Passed(p)) = forwarded[p] /\ forwarded[p] <= Len(sent[p])
    <3>1. forwarded[p] <= Len(sent[p]) /\ Len(sent[p]) \in Nat
      BY <2>1, LenProperties DEF LinesFor
    <3>2. \A i \in 1..forwarded[p] : i \in 1..Len(sent[p]) /\ sent[p][i] \in Cells
      BY <2>1, <3>1, ElementOfSeq
    <3> QED
      BY <2>1, <3>1, <3>2, SubSeqProperties DEF Passed
  <2>5. ASSUME NEW m \in Messages, m.cells <= MaxPendingLine, PassedWhole(p, m)
        PROVE  \E i \in DOMAIN RecordsOf(p) : RecordsOf(p)[i] = Body(m)
    <3>1. PICK i \in DOMAIN Passed(p) : Passed(p)[i] = m /\ i + m.cells <= Len(Passed(p))
      BY <2>5 DEF PassedWhole
    <3>2. i \in 1..Len(Passed(p)) /\ m.cells \in Nat \ {0}
      BY <2>4, <3>1, LenProperties, MessageFacts
    <3>3. p # "err"
      <4>1. p = "err" => forwarded[p] <= 1
        <5>1. p = "err" => Len(sent[p]) <= 1
          BY <2>1 DEF LinesFor
        <5> QED
          BY <2>1, <2>4, <5>1, LenProperties
      <4>2. i + m.cells <= forwarded[p] /\ i \in Nat \ {0}
        BY <2>4, <3>1, <3>2
      <4> QED
        BY <2>1, <3>2, <4>1, <4>2
    <3>4. \E k \in 1..Len(RecordsOf(p)) : RecordsOf(p)[k] = Body(m)
      BY <2>1, <2>5, <3>1, <3>2, <3>3 DEF LinesFor, Accounted, Kept
    <3> QED
      BY <2>3, <3>4, LenProperties
  <2>6. /\ Spill(p) /\ AtWork(p) /\ spilled[p] \in Nat /\ pending[p] \in Seq(Text) /\ pc[p] \in Places
        /\ Logged(p) \in Seq(Seq(Text)) /\ Len(sent[p]) \in Nat
    BY <2>1, LoggedGrows, LenProperties DEF ProxyInv, TypeInv, Drain, SpillInv
  <2>7. ~BrokenOff(p) => FlattenSeq(RecordsOf(p)) \o pending[p] = Unbroken(Received(p))
    <3>1. ~BrokenOff(p) => forwarded[p] + spilled[p] = forwarded[p]
      BY <2>1, <2>6 DEF Spill
    <3>2. ~BrokenOff(p) => Received(p) = Passed(p)
      BY <3>1 DEF Received, Passed
    <3> QED
      BY <2>2, <3>2
  <2>8. lines[p] = <<>> => RecordsOf(p) = Logged(p)
    BY <2>6, ConcatEmptySeq DEF RecordsOf
  <2>9. PICK f \in Seq(Text) : f = FlattenSeq(Logged(p))
    BY <2>6, FlattenAppend, EmptySeq
  <2>10. ASSUME pc[p] = "closed" PROVE FlattenSeq(Logged(p)) = Unbroken(Received(p))
    <3>1. lines[p] = <<>> /\ pending[p] = <<>> /\ ~BrokenOff(p)
      BY <2>6, <2>10 DEF AtWork, BrokenOff
    <3>2. f \o <<>> = Unbroken(Received(p))
      BY <2>7, <2>8, <2>9, <3>1
    <3> QED
      BY <2>9, <3>2, ConcatEmptySeq
  <2>11. ASSUME BrokenOff(p) PROVE IsPrefix(FlattenSeq(Logged(p)), Unbroken(Received(p)))
    <3>1. RecordsOf(p) = Logged(p)
      BY <2>6, <2>8, <2>11 DEF AtWork, BrokenOff
    <3>2. PICK w \in Seq(Text) : w = pending[p] /\ f \o w = Unbroken(Passed(p))
      BY <2>2, <2>6, <2>9, <3>1
    <3>3. PICK u \in Seq(Text), v \in Seq(Text) :
            u = Unbroken(Passed(p)) /\ v = Unbroken(Received(p)) /\ IsPrefix(u, v)
      <4>1. forwarded[p] + spilled[p] <= Len(sent[p])
        BY <2>6 DEF Spill
      <4> QED
        BY <2>1, <2>6, <4>1, UnbrokenPart DEF Passed, Received
    <3>4. Len(f) \in Nat /\ Len(u) \in Nat /\ Len(f) <= Len(u) /\ \A i \in 1..Len(f) : u[i] = f[i]
      <4>1. /\ Len(f) \in Nat /\ Len(w) \in Nat /\ Len(f \o w) = Len(f) + Len(w)
            /\ \A i \in 1..Len(f) : (f \o w)[i] = f[i]
        BY Joins
      <4> QED
        BY <3>2, <3>3, <4>1
    <3>5. Len(u) <= Len(v) /\ Len(v) \in Nat /\ \A i \in 1..Len(u) : u[i] = v[i]
      BY <3>3, PrefixMeans, LenProperties
    <3>6. Len(f) <= Len(v) /\ \A i \in 1..Len(f) : f[i] = v[i]
      BY <3>4, <3>5
    <3> QED
      BY <2>9, <3>3, <3>6, PrefixMeans
  <2> QED
    BY <2>5, <2>7, <2>10, <2>11
<1>3. Init => SpillInv
  <2> SUFFICES ASSUME Init, NEW p \in Pumps PROVE Spill(p)
    BY DEF SpillInv
  <2>1. forwarded[p] = 0 /\ spilled[p] = 0 /\ TypeInv
    BY ProxyInit DEF Init, ProxyInv
  <2>2. Len(sent[p]) \in Nat
    BY <2>1, LenProperties DEF TypeInv
  <2> QED
    BY <2>1, <2>2 DEF Spill
<1> QED
  BY <1>1, <1>2, <1>3, LinesAtFirst, ProxySafe, PTL DEF Spec

(* The answer to a session/new is logged for the session it made, however  *)
(* many are under way and whichever pump the sniffer was called by last,   *)
(* if the request was sniffed first and the agent did not use its id in    *)
(* between (SessionSniffer::observe_request, observe_response,             *)
(* record_for_frame).                                                      *)
THEOREM NewSessionsAreFound == Spec => []NewSessionsFound
<1>1. Init => FoundInv
  <2> SUFFICES ASSUME Init PROVE FoundInv
    OBVIOUS
  <2>1. PICK c \in Clients : sent = [q \in Pumps |-> IF q = "up" THEN Input(c.sends) ELSE <<>>]
    BY DEF Init
  <2>2. sent["down"] = <<>> /\ Len(<<>>) = 0 /\ observed = <<>>
    BY <2>1, EmptySeq DEF Init, Pumps
  <2> QED
    BY <2>2 DEF FoundInv, Once, Pended, Settled, Attributed
<1>2. ProxyInv /\ LinesInv /\ FoundInv /\ [Next]_vars => LinesInv' /\ FoundInv'
  BY LinesInvKept, FoundKept
<1>3. ProxyInv /\ FoundInv => NewSessionsFound
  <2> SUFFICES ASSUME ProxyInv, FoundInv, NEW i \in DOMAIN observed, NEW k \in DOMAIN log,
                      Answers(i), observed[i].msg.result \in Sids, log[k].kind = "down",
                      log[k].line = Body(observed[i].msg)
               PROVE  log[k].dest = observed[i].msg.result
    BY DEF NewSessionsFound
  <2>1. i \in 1..Len(observed) /\ k \in 1..Len(log)
    BY LenProperties DEF ProxyInv, TypeInv
  <2>2. PICK m \in Messages : m = observed[i].msg
    BY <2>1, SightingsTyped DEF ProxyInv
  <2>3. Begins(Body(m), m)
    <3>1. Body(m) \in Seq(Text) /\ Len(Body(m)) = m.cells /\ m.cells \in Nat \ {0}
          /\ \A j \in 1..m.cells : Body(m)[j] = IF j = 1 THEN m ELSE Rest
      BY LineIs, MessageFacts
    <3>2. 1 \in 1..m.cells
      BY <3>1
    <3>3. Body(m)[1] = m /\ Len(Body(m)) # 0
      BY <3>1, <3>2
    <3>4. Body(m) # <<>> /\ Head(Body(m)) = Body(m)[1]
      BY <3>1, <3>3, EmptySeq
    <3> QED
      BY <3>3, <3>4 DEF Begins
  <2>4. InLog(k, m)
    BY <2>2, <2>3 DEF InLog
  <2> QED
    BY <2>1, <2>2, <2>4 DEF FoundInv, Attributed
<1> QED
  BY <1>1, <1>2, <1>3, ProxySafe, LinesAtFirst, PTL DEF Spec
===============================================================================
