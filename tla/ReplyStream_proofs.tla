-------------------------- MODULE ReplyStream_proofs --------------------------
(***************************************************************************)
(* Proofs about ReplyStream, for every set of answers, price list and      *)
(* number of connections: nothing is lost between task and turn, usage is  *)
(* charged once, and every step keeps the contract of ModelReply.          *)
(***************************************************************************)
EXTENDS ReplyStream, SequenceLemmas

-----------------------------------------------------------------------------
(***************************************************************************)
(* The invariant.                                                          *)
(***************************************************************************)
Kinds == {"thought", "text", "call", "finish", "usage", "error"}
Words == STRING \union {NoField}
EventSet ==
  {e \in [kind : Kinds, index : Nat, id : Words, name : Words, body : Words] :
     e.kind = "usage" => e.body \in DOMAIN Price}

TypeInv ==
  /\ answer \in Answers /\ pos \in 0..Len(answer) /\ connections \in Nat
  /\ task \in {"run", "done"} /\ todo \in Seq(EventSet) /\ sawFinish \in BOOLEAN
  /\ chan \in Seq(EventSet) /\ token \in BOOLEAN
  /\ turn \in {"recv", "reply", "cancelled", "failed"}
  /\ received \in Seq(EventSet) /\ cost \in Nat
  /\ parsed \in Seq(EventSet) /\ spoiled \in BOOLEAN

(* The task has left the stream for good: it was cancelled, or it came to  *)
(* the end of an answer that said it was finished.                         *)
LeftWell == todo = <<>> /\ (token \/ (pos = Len(answer) /\ sawFinish))

(* While the turn listens, either everything is on its way, or the task    *)
(* ended with an error behind the rest.                                    *)
Flowing ==
  /\ parsed = received \o (chan \o todo)
  /\ task = "done" => LeftWell
Erred ==
  /\ task = "done"
  /\ \E head \in Seq(EventSet) : chan = Append(head, Error) /\ parsed = received \o head
InFlight == turn = "recv" => Flowing \/ Erred

(* Usage is charged when the turn leaves its loop, and by nothing else.    *)
Charged ==
  /\ turn = "recv" => cost = 0
  /\ turn = "reply" => task = "done" /\ cost = LastPrice(parsed)
  /\ turn = "cancelled" => cost = LastPrice(received)
  /\ turn = "failed" => cost \in {0, LastPrice(received)}

(* Unless the transport lost or repeated something, what was parsed is     *)
(* what this connection streamed so far, and a finish that was seen, or is *)
(* about to be, is in it.                                                  *)
StreamedUpto(n) == FlattenSeq([i \in 1..n |-> ParseChunk(answer[i])])
Finished == \E i \in 1..pos : answer[i].finish # <<>>
Faithful ==
  ~spoiled =>
    /\ parsed = StreamedUpto(pos)
    /\ sawFinish => Finished
    /\ \A k \in 1..Len(todo) : todo[k].kind = "finish" => Finished

StreamInv == TypeInv /\ InFlight /\ Charged /\ Faithful

-----------------------------------------------------------------------------
(***************************************************************************)
(* What a chunk is parsed into, and what a list of events costs.           *)
(***************************************************************************)
LEMMA EventsIn ==
  ASSUME NEW S, NEW T, NEW kind, NEW bodies \in Seq(T),
         \A i \in 1..Len(bodies) : Event(kind, bodies[i]) \in S
  PROVE  EventsOf(kind, bodies) \in Seq(S)
<1>1. DOMAIN bodies = 1..Len(bodies) /\ Len(bodies) \in Nat
  BY LenProperties
<1>2. EventsOf(kind, bodies) = [i \in 1..Len(bodies) |-> Event(kind, bodies[i])]
  BY <1>1 DEF EventsOf
<1> QED
  BY <1>1, <1>2

LEMMA EventTyped ==
  ASSUME NEW kind \in Kinds, NEW body \in Words,
         kind = "usage" => body \in DOMAIN Price
  PROVE  Event(kind, body) \in EventSet /\ Event(kind, body).kind = kind
  BY DEF Event, EventSet, Words

LEMMA ErrorTyped == Error \in EventSet
  BY EventTyped DEF Error, Kinds, Words

(* Only a chunk with a finish reason is parsed into a finish event.        *)
Events(chunk) == {e \in EventSet : e.kind = "finish" => chunk.finish # <<>>}

LEMMA ChunkParsed ==
  ASSUME NEW chunk \in Chunk
  PROVE  ParseChunk(chunk) \in Seq(Events(chunk))
<1> DEFINE S == Events(chunk)
<1>1. /\ chunk.thought \in Seq(STRING) /\ chunk.text \in Seq(STRING)
      /\ chunk.deltas \in Seq(ToolCallDelta) /\ chunk.finish \in Seq(STRING)
      /\ chunk.usage \in Seq(DOMAIN Price)
  BY DEF Chunk
<1>2. EventsOf("thought", chunk.thought) \in Seq(S)
  <2>1. ASSUME NEW i \in 1..Len(chunk.thought) PROVE Event("thought", chunk.thought[i]) \in S
    <3>1. chunk.thought[i] \in STRING
      BY <1>1, ElementOfSeq
    <3> QED
      BY <3>1, EventTyped DEF Events, Kinds, Words
  <2> HIDE DEF S
  <2> QED
    BY <1>1, <2>1, EventsIn
<1>3. EventsOf("text", chunk.text) \in Seq(S)
  <2>1. ASSUME NEW i \in 1..Len(chunk.text) PROVE Event("text", chunk.text[i]) \in S
    <3>1. chunk.text[i] \in STRING
      BY <1>1, ElementOfSeq
    <3> QED
      BY <3>1, EventTyped DEF Events, Kinds, Words
  <2> HIDE DEF S
  <2> QED
    BY <1>1, <2>1, EventsIn
<1>4. chunk.deltas \in Seq(S)
  <2>1. ToolCallDelta \subseteq S
    BY DEF ToolCallDelta, Events, EventSet, Kinds, Words
  <2> QED
    BY <1>1, <2>1, SeqMonotonic
<1>5. EventsOf("finish", chunk.finish) \in Seq(S)
  <2>1. ASSUME NEW i \in 1..Len(chunk.finish) PROVE Event("finish", chunk.finish[i]) \in S
    <3>1. chunk.finish # <<>>
      BY <2>1, EmptySeq
    <3>2. chunk.finish[i] \in STRING
      BY <1>1, ElementOfSeq
    <3> QED
      BY <3>1, <3>2, EventTyped DEF Events, Kinds, Words
  <2> HIDE DEF S
  <2> QED
    BY <1>1, <2>1, EventsIn
<1>6. EventsOf("usage", chunk.usage) \in Seq(S)
  <2>1. ASSUME NEW i \in 1..Len(chunk.usage) PROVE Event("usage", chunk.usage[i]) \in S
    <3>1. chunk.usage[i] \in DOMAIN Price /\ chunk.usage[i] \in STRING
      BY <1>1, ElementOfSeq, StreamAssumption
    <3> QED
      BY <3>1, EventTyped, ZenonT(30) DEF Events, Kinds, Words
  <2> HIDE DEF S
  <2> QED
    BY <1>1, <2>1, EventsIn
<1> HIDE DEF S
<1> QED
  BY <1>2, <1>3, <1>4, <1>5, <1>6, ConcatProperties DEF ParseChunk, S

LEMMA ParsedTyped ==
  ASSUME NEW chunk \in Chunk
  PROVE  /\ ParseChunk(chunk) \in Seq(EventSet)
         /\ \A k \in 1..Len(ParseChunk(chunk)) :
              ParseChunk(chunk)[k].kind = "finish" => chunk.finish # <<>>
<1>1. Events(chunk) \subseteq EventSet
  BY DEF Events
<1>2. ParseChunk(chunk) \in Seq(Events(chunk))
  BY ChunkParsed
<1>3. \A k \in 1..Len(ParseChunk(chunk)) : ParseChunk(chunk)[k] \in Events(chunk)
  BY <1>2, ElementOfSeq
<1> QED
  BY <1>1, <1>2, <1>3, SeqMonotonic DEF Events

LEMMA LastUsage ==
  ASSUME NEW q \in Seq(EventSet)
  PROVE  /\ LastPrice(q) \in Nat /\ Charge(q) = LastPrice(q)
         /\ LastBody("usage", q) \in Windowless => LastPrice(q) = 0
<1> DEFINE I == {i \in 1..Len(q) : q[i].kind = "usage"}
<1>1. LastOf("usage", q) = IF I # {} THEN Max(I) ELSE 0
  BY DEF LastOf, SelectLastInSeq
<1>2. CASE I = {}
  <2>1. LastOf("usage", q) = 0
    BY <1>1, <1>2
  <2>2. LastPrice(q) = 0 /\ LastBody("usage", q) = NoField
    BY <2>1 DEF LastPrice, LastBody
  <2>3. NoField \notin DOMAIN Price
    BY StreamAssumption
  <2> QED
    BY <2>2, <2>3 DEF Charge
<1>3. CASE I # {}
  <2> DEFINE m == Max(I)
  <2>1. Len(q) \in Nat /\ I \in SUBSET (1..Len(q))
    BY LenProperties
  <2>2. m \in I
    <3> HIDE DEF I
    <3> QED
      BY <1>3, <2>1, GreatestNat
  <2> HIDE DEF m
  <2>3. m # 0 /\ q[m] \in EventSet /\ q[m].kind = "usage"
    BY <2>2, ElementOfSeq
  <2>4. q[m].body \in DOMAIN Price /\ Price[q[m].body] \in Nat
    BY <2>3, StreamAssumption DEF EventSet
  <2>5. LastOf("usage", q) = m
    BY <1>1, <1>3 DEF m
  <2>6. LastPrice(q) = Price[q[m].body] /\ LastBody("usage", q) = q[m].body
    BY <2>3, <2>5 DEF LastPrice, LastBody
  <2>7. q[m].body \in Windowless => Price[q[m].body] = 0
    BY StreamAssumption
  <2> QED
    BY <2>4, <2>6, <2>7 DEF Charge
<1> QED
  BY <1>2, <1>3

(* The ways out of the turn's loop. *)
LEMMA LeavesLoop ==
  ASSUME TypeInv, cost = 0, NEW cut \in BOOLEAN, LeaveLoop(cut)
  PROVE  /\ chan' = <<>> /\ cost' \in {0, LastPrice(received)}
         /\ \/ turn' = "failed"
            \/ turn' = (IF cut THEN "cancelled" ELSE "reply") /\ cost' = LastPrice(received)
<1>1. /\ LastPrice(received) \in Nat /\ Charge(received) = LastPrice(received)
      /\ Skipped => LastPrice(received) = 0
  BY LastUsage DEF TypeInv, Skipped
<1> QED
  BY <1>1 DEF LeaveLoop, UsageFails, Fails, Ending

(* One more chunk of the answer is one more piece of what was streamed. *)
LEMMA ChunkTyped ==
  ASSUME TypeInv, NEW i \in 1..Len(answer) PROVE answer[i] \in Chunk
<1>1. answer \in Seq(Chunk)
  BY StreamAssumption DEF TypeInv
<1> QED
  BY <1>1, ElementOfSeq

LEMMA StreamsNothing == StreamedUpto(0) = <<>>
<1>1. [i \in 1..0 |-> ParseChunk(answer[i])] = <<>>
  OBVIOUS
<1>2. FlattenSeq(<<>>) = <<>>
  BY DEF FlattenSeq
<1> QED
  BY <1>1, <1>2 DEF StreamedUpto

LEMMA StreamsMore ==
  ASSUME TypeInv, NEW n \in Nat, n < Len(answer)
  PROVE  StreamedUpto(n + 1) = StreamedUpto(n) \o ParseChunk(answer[n + 1])
<1>1. answer \in Seq(Chunk) /\ Len(answer) \in Nat
  BY StreamAssumption, LenProperties DEF TypeInv
<1>2. \A i \in 1..n + 1 : i \in 1..Len(answer)
  BY <1>1
<1>3. \A i \in 1..n + 1 : ParseChunk(answer[i]) \in Seq(EventSet)
  BY <1>2, ChunkTyped, ParsedTyped
<1> DEFINE part == [i \in 1..n |-> ParseChunk(answer[i])]
           more == [i \in 1..n + 1 |-> ParseChunk(answer[i])]
           new == ParseChunk(answer[n + 1])
<1>4. part \in Seq(Seq(EventSet)) /\ more \in Seq(Seq(EventSet)) /\ new \in Seq(EventSet)
  BY <1>3
<1>5. Len(part) = n /\ Len(more) = n + 1 /\ more[n + 1] = new
      /\ \A i \in 1..n : more[i] = part[i]
  OBVIOUS
<1> HIDE DEF part, more, new
<1>6. Append(part, new) \in Seq(Seq(EventSet)) /\ Len(Append(part, new)) = n + 1
      /\ \A i \in 1..n + 1 : Append(part, new)[i] = IF i <= n THEN part[i] ELSE new
  BY <1>4, <1>5, AppendProperties
<1>7. more = Append(part, new)
  BY <1>4, <1>5, <1>6, SeqEqual
<1> QED
  BY <1>4, <1>7, FlattenAppend DEF StreamedUpto, part, more, new

-----------------------------------------------------------------------------
(***************************************************************************)
(* Every step keeps the types.                                             *)
(***************************************************************************)
LEMMA StreamInit == Init => StreamInv
<1> SUFFICES ASSUME Init PROVE StreamInv
  OBVIOUS
<1>1. answer \in Seq(Chunk) /\ Len(answer) \in Nat /\ <<>> \in Seq(EventSet) /\ Len(<<>>) = 0
  BY StreamAssumption, LenProperties, EmptySeq DEF Init
<1>2. TypeInv
  <2>1. todo \in Seq(EventSet) /\ chan \in Seq(EventSet)
        /\ received \in Seq(EventSet) /\ parsed \in Seq(EventSet)
    BY <1>1, Zenon DEF Init
  <2>2. pos \in 0..Len(answer) /\ connections \in Nat /\ cost \in Nat
    BY <1>1 DEF Init
  <2> QED
    BY <2>1, <2>2, Zenon DEF Init, TypeInv
<1>3. InFlight
  <2>1. <<>> = <<>> \o (<<>> \o <<>>)
    BY <1>1, ConcatEmptySeq
  <2> QED
    BY <2>1 DEF Init, InFlight, Flowing
<1>4. Charged
  BY DEF Init, Charged
<1>5. Faithful
  BY <1>1, StreamsNothing DEF Init, Faithful
<1> QED
  BY <1>2, <1>3, <1>4, <1>5 DEF StreamInv

LEMMA ChunkRead ==
  ASSUME TypeInv, ReadChunk
  PROVE  /\ pos + 1 \in 1..Len(answer) /\ answer[pos + 1] \in Chunk
         /\ todo' \in Seq(EventSet) /\ todo' = ParseChunk(answer[pos + 1])
         /\ parsed' = parsed \o todo' /\ todo = <<>> /\ task = "run"
         /\ \A k \in 1..Len(todo') : todo'[k].kind = "finish" => answer[pos + 1].finish # <<>>
<1>1. answer \in Seq(Chunk) /\ Len(answer) \in Nat
  BY StreamAssumption, LenProperties DEF TypeInv
<1>2. pos + 1 \in 1..Len(answer)
  BY <1>1 DEF TypeInv, ReadChunk
<1>3. answer[pos + 1] \in Chunk
  BY <1>2, ChunkTyped
<1>4. todo' = ParseChunk(answer[pos + 1]) /\ parsed' = parsed \o todo' /\ todo = <<>> /\ task = "run"
  BY DEF ReadChunk, AtSelect
<1>5. PICK updates : updates = ParseChunk(answer[pos + 1])
  OBVIOUS
<1>6. /\ updates \in Seq(EventSet)
      /\ \A k \in 1..Len(updates) : updates[k].kind = "finish" => answer[pos + 1].finish # <<>>
  BY <1>3, <1>5, ParsedTyped
<1> QED
  BY <1>2, <1>3, <1>4, <1>5, <1>6

LEMMA SentTyped ==
  ASSUME TypeInv, NEW e \in EventSet, Send(e) PROVE chan' \in Seq(EventSet)
  BY AppendProperties DEF TypeInv, Send

LEMMA HeadTyped ==
  ASSUME NEW q \in Seq(EventSet), q # <<>>
  PROVE  Head(q) \in EventSet /\ Tail(q) \in Seq(EventSet)
  BY HeadTailProperties

LEMMA TypesKept ==
  ASSUME StreamInv, [Next]_vars PROVE TypeInv'
<1> USE DEF TypeInv, providerVars, taskVars, turnVars
<1>0. TypeInv /\ Charged
  BY DEF StreamInv
<1>1. CASE Cancel
  BY <1>0, <1>1 DEF Cancel
<1>2. CASE TaskSeesCancel
  BY <1>0, <1>2 DEF TaskSeesCancel
<1>3. CASE ReadChunk
  <2>1. parsed' \in Seq(EventSet)
    <3>1. todo' \in Seq(EventSet) /\ parsed' = parsed \o todo'
      BY <1>0, <1>3, ChunkRead
    <3> QED
      BY <1>0, <3>1
  <2> QED
    BY <1>0, <1>3, <2>1, ChunkRead DEF ReadChunk
<1>4. CASE DiscardChunk
  <2>1. Len(answer) \in Nat
    BY <1>0, StreamAssumption, LenProperties
  <2> QED
    BY <1>0, <1>4, <2>1 DEF DiscardChunk
<1>5. CASE Reconnect
  <2>1. answer' \in Answers /\ pos' = 0 /\ Len(answer') \in Nat
    BY <1>5, StreamAssumption, LenProperties DEF Reconnect, StartsOver
  <2> QED
    BY <1>0, <1>5, <2>1 DEF Reconnect
<1>6. CASE StreamFails
  <2>1. chan' \in Seq(EventSet)
    BY <1>0, <1>6, ErrorTyped, SentTyped DEF StreamFails
  <2> QED
    BY <1>0, <1>6, <2>1 DEF StreamFails
<1>7. CASE Forward
  <2>1. Head(todo) \in EventSet /\ Tail(todo) \in Seq(EventSet)
    BY <1>0, <1>7, HeadTyped DEF Forward
  <2>2. chan' \in Seq(EventSet)
    BY <1>0, <1>7, <2>1, SentTyped DEF Forward
  <2> QED
    BY <1>0, <1>7, <2>1, <2>2 DEF Forward, Unforwarded
<1>8. CASE ReceiverGone
  BY <1>0, <1>8 DEF ReceiverGone
<1>9. CASE EndOfStream
  <2>1. chan' \in Seq(EventSet)
    BY <1>0, <1>9, ErrorTyped, SentTyped DEF EndOfStream
  <2> QED
    BY <1>0, <1>9, <2>1 DEF EndOfStream
<1>10. ASSUME NEW cut \in BOOLEAN, turn = "recv", LeaveLoop(cut),
              UNCHANGED <<providerVars, taskVars, token, received, parsed, spoiled>>
       PROVE  TypeInv'
  <2>1. cost = 0
    BY <1>0, <1>10 DEF Charged
  <2>2. /\ chan' = <<>> /\ cost' \in {0, LastPrice(received)}
        /\ turn' \in {"reply", "cancelled", "failed"}
    BY <1>0, <1>10, <2>1, LeavesLoop
  <2>3. cost' \in Nat /\ chan' \in Seq(EventSet)
    BY <1>0, <2>2, LastUsage, EmptySeq
  <2> QED
    BY <1>0, <1>10, <2>2, <2>3
<1>11. CASE TurnSeesCancel
  BY <1>10, <1>11 DEF TurnSeesCancel
<1>12. CASE Receive
  <2>1. Head(chan) \in EventSet /\ Tail(chan) \in Seq(EventSet)
    BY <1>0, <1>12, HeadTyped DEF Receive
  <2>2. received' \in Seq(EventSet)
    BY <1>0, <1>12, <2>1, AppendProperties DEF Receive
  <2> QED
    BY <1>0, <1>12, <2>1, <2>2 DEF Receive
<1>13. CASE ReceiveError \/ NotifyFails
  <2>1. chan' \in Seq(EventSet)
    BY <1>13, EmptySeq DEF ReceiveError, NotifyFails, Fails
  <2> QED
    BY <1>0, <1>13, <2>1 DEF ReceiveError, NotifyFails, Fails
<1>14. CASE ChannelClosed
  <2>1. CancelledAtClose \in BOOLEAN
    BY <1>0 DEF CancelledAtClose
  <2> QED
    BY <1>10, <1>14, <2>1 DEF ChannelClosed
<1>15. CASE UNCHANGED vars
  BY <1>0, <1>15 DEF vars
<1> QED
  BY <1>1, <1>2, <1>3, <1>4, <1>5, <1>6, <1>7, <1>8, <1>9, <1>11, <1>12, <1>13, <1>14, <1>15
     DEF Next, TaskStep, TurnStep

-----------------------------------------------------------------------------
(***************************************************************************)
(* Every step keeps what is in flight.                                     *)
(***************************************************************************)
(* With nothing left to forward, an error may close the channel. *)
LEMMA ErrorCloses ==
  ASSUME TypeInv, Flowing, todo = <<>>, turn = "recv", Send(Error), task' = "done",
         UNCHANGED <<received, parsed>>
  PROVE  Erred'
<1>1. chan \o todo = chan
  BY ConcatEmptySeq DEF TypeInv
<1>2. parsed' = received' \o chan /\ chan' = Append(chan, Error)
  BY <1>1 DEF Flowing, Send
<1>3. chan \in Seq(EventSet)
  BY DEF TypeInv
<1> QED
  BY <1>2, <1>3, Zenon DEF Erred

LEMMA ForwardKeepsFlow ==
  ASSUME TypeInv, Flowing, Forward PROVE Flowing'
<1>1. chan \o todo = Append(chan, Head(todo)) \o Tail(todo)
  BY HeadMoves DEF TypeInv, Forward
<1>2. chan' = Append(chan, Head(todo)) /\ todo' = Tail(todo)
  BY DEF Forward, Send, Unforwarded
<1>3. parsed' = received' \o (chan' \o todo')
  BY <1>1, <1>2, Zenon DEF Flowing, Forward, turnVars
<1> QED
  BY <1>3 DEF Flowing, Forward

LEMMA ReceiveKeepsFlow ==
  ASSUME TypeInv, Receive, Flowing PROVE Flowing'
<1>1. received \in Seq(EventSet) /\ chan \in Seq(EventSet) /\ todo \in Seq(EventSet)
  BY DEF TypeInv
<1>2. chan # <<>> /\ received' = Append(received, Head(chan)) /\ chan' = Tail(chan)
  BY DEF Receive
<1>3. received' \in Seq(EventSet) /\ chan' \in Seq(EventSet)
  BY <1>1, <1>2, HeadTyped, AppendProperties
<1>4. received \o chan = received' \o chan'
  BY <1>1, <1>2, HeadMoves
<1>5. received \o (chan \o todo) = (received \o chan) \o todo
  BY <1>1, ConcatAssociative, SMTT(30)
<1>6. received' \o (chan' \o todo) = (received' \o chan') \o todo
  <2>1. \A p, q, r \in Seq(EventSet) : (p \o q) \o r = p \o (q \o r)
    BY ConcatAssociative
  <2> QED
    BY <1>1, <1>3, <2>1, ZenonT(30)
<1>7. parsed' = received' \o (chan' \o todo')
  BY <1>4, <1>5, <1>6, Zenon DEF Flowing, Receive, taskVars
<1>8. LeftWell => LeftWell'
  BY DEF LeftWell, Receive, taskVars, providerVars
<1> QED
  BY <1>7, <1>8 DEF Flowing, Receive, taskVars

LEMMA ReceiveKeepsError ==
  ASSUME TypeInv, Receive, Erred PROVE Erred'
<1>1. PICK head \in Seq(EventSet) : chan = Append(head, Error) /\ parsed = received \o head
  BY DEF Erred
<1>2. chan # <<>> /\ received' = Append(received, Head(chan)) /\ chan' = Tail(chan)
      /\ Head(chan) # Error /\ received \in Seq(EventSet)
  BY DEF Receive, TypeInv
<1>3. head # <<>>
  <2>1. Head(Append(<<>>, Error)) = Error
    OBVIOUS
  <2> QED
    BY <1>1, <1>2, <2>1
<1>4. Head(chan) = Head(head) /\ chan' = Append(Tail(head), Error)
  BY <1>1, <1>2, <1>3, ErrorTyped, HeadOfAppend
<1>5. received \o head = Append(received, Head(head)) \o Tail(head)
  BY <1>2, <1>3, HeadMoves
<1>6. Tail(head) \in Seq(EventSet)
  BY <1>3, HeadTyped
<1>7. parsed' = received' \o Tail(head)
  BY <1>1, <1>2, <1>4, <1>5, Zenon DEF Receive
<1>8. task' = "done"
  BY DEF Erred, Receive, taskVars
<1> QED
  BY <1>4, <1>6, <1>7, <1>8, Zenon DEF Erred

LEMMA ReadKeepsFlow ==
  ASSUME TypeInv, ReadChunk, Flowing PROVE Flowing'
<1>1. received \in Seq(EventSet) /\ chan \in Seq(EventSet)
      /\ todo' \in Seq(EventSet) /\ todo = <<>> /\ parsed' = parsed \o todo'
  BY ChunkRead DEF TypeInv
<1>2. PICK updates \in Seq(EventSet) : updates = todo'
  BY <1>1
<1>3. chan \o todo = chan
  BY <1>1, ConcatEmptySeq
<1>4. (received \o chan) \o updates = received \o (chan \o updates)
  BY <1>1, ConcatAssociative
<1>5. parsed' = received' \o (chan' \o todo')
  BY <1>1, <1>2, <1>3, <1>4, Zenon DEF Flowing, ReadChunk, turnVars
<1>6. task' = "run"
  BY ChunkRead DEF ReadChunk
<1> QED
  BY <1>5, <1>6 DEF Flowing

LEMMA FlowKept ==
  ASSUME StreamInv, [Next]_vars PROVE InFlight'
<1>0. /\ TypeInv /\ (turn = "recv" => Flowing \/ Erred)
      /\ (task = "run" => ~Erred)
  BY DEF StreamInv, InFlight, Erred
<1> SUFFICES ASSUME turn' = "recv" PROVE (Flowing \/ Erred)'
  BY DEF InFlight
<1> USE DEF providerVars, taskVars, turnVars
<1>1. CASE Cancel
  BY <1>0, <1>1 DEF Cancel, Flowing, Erred, LeftWell
<1>2. CASE TaskSeesCancel
  BY <1>0, <1>2 DEF TaskSeesCancel, Watched, AtSelect, Flowing, LeftWell
<1>3. CASE ReadChunk
  <2>1. turn = "recv" /\ task = "run"
    BY <1>0, <1>3, ChunkRead DEF ReadChunk
  <2> QED
    BY <1>0, <1>3, <2>1, ReadKeepsFlow
<1>4. CASE DiscardChunk \/ Reconnect
  BY <1>0, <1>4 DEF DiscardChunk, Reconnect, AtSelect, Flowing
<1>5. CASE StreamFails
  BY <1>0, <1>5, ErrorCloses DEF StreamFails, AtSelect
<1>6. CASE Forward
  BY <1>0, <1>6, ForwardKeepsFlow DEF Forward
<1>7. CASE ReceiverGone
  BY <1>7 DEF ReceiverGone
<1>8. CASE EndOfStream
  <2>1. turn = "recv" /\ Flowing /\ todo = <<>> /\ task' = "done" /\ pos = Len(answer)
        /\ UNCHANGED <<answer, pos, todo, sawFinish, token, received, parsed>>
    BY <1>0, <1>8 DEF EndOfStream, AtSelect
  <2>2. CASE EndsWell
    BY <1>8, <2>1, <2>2 DEF EndOfStream, EndsWell, Flowing, LeftWell
  <2>3. CASE ~EndsWell
    BY <1>0, <1>8, <2>1, <2>3, ErrorCloses DEF EndOfStream
  <2> QED
    BY <2>2, <2>3
<1>9. CASE TurnSeesCancel \/ ReceiveError \/ NotifyFails \/ ChannelClosed
  BY <1>9 DEF TurnSeesCancel, ReceiveError, NotifyFails, ChannelClosed, LeaveLoop,
              UsageFails, Fails, Ending
<1>10. CASE Receive
  BY <1>0, <1>10, ReceiveKeepsFlow, ReceiveKeepsError DEF Receive
<1>11. CASE UNCHANGED vars
  BY <1>0, <1>11 DEF vars, Flowing, Erred, LeftWell
<1> QED
  BY <1>1, <1>2, <1>3, <1>4, <1>5, <1>6, <1>7, <1>8, <1>9, <1>10, <1>11
     DEF Next, TaskStep, TurnStep

-----------------------------------------------------------------------------
(***************************************************************************)
(* Every step keeps what was charged, and what was streamed.               *)
(***************************************************************************)
LEMMA ChargedKept ==
  ASSUME StreamInv, [Next]_vars PROVE Charged'
<1>0. TypeInv /\ Charged /\ (turn = "recv" => Flowing \/ Erred)
  BY DEF StreamInv, InFlight
<1> USE DEF providerVars, taskVars, turnVars
<1>1. ASSUME UNCHANGED <<turn, received, cost>>, turn # "reply" \/ UNCHANGED <<task, parsed>>
      PROVE  Charged'
  BY <1>0, <1>1 DEF Charged
<1>2. CASE Cancel
  BY <1>1, <1>2 DEF Cancel
<1>3. CASE TaskSeesCancel \/ ReadChunk \/ DiscardChunk \/ Reconnect \/ StreamFails
            \/ Forward \/ ReceiverGone \/ EndOfStream
  <2>1. UNCHANGED <<turn, received, cost>> /\ task = "run"
    BY <1>3 DEF TaskSeesCancel, ReadChunk, DiscardChunk, Reconnect, StreamFails, Forward,
                ReceiverGone, EndOfStream, Watched, AtSelect
  <2> QED
    BY <1>0, <1>1, <2>1 DEF Charged
<1>4. ASSUME NEW cut \in BOOLEAN, turn = "recv", LeaveLoop(cut), UNCHANGED <<received, parsed, task>>,
             cut \/ (task = "done" /\ parsed = received)
      PROVE  Charged'
  <2>1. cost = 0
    BY <1>0, <1>4 DEF Charged
  <2>2. \/ turn' = "failed" /\ cost' \in {0, LastPrice(received)}
        \/ turn' = (IF cut THEN "cancelled" ELSE "reply") /\ cost' = LastPrice(received)
    BY <1>0, <1>4, <2>1, LeavesLoop
  <2> QED
    BY <1>4, <2>2 DEF Charged
<1>5. CASE TurnSeesCancel
  BY <1>4, <1>5 DEF TurnSeesCancel
<1>6. CASE Receive
  BY <1>0, <1>6 DEF Receive, Charged
<1>7. CASE ReceiveError \/ NotifyFails
  BY <1>0, <1>7 DEF ReceiveError, NotifyFails, Fails, Charged
<1>8. CASE ChannelClosed
  <2>1. turn = "recv" /\ chan = <<>> /\ task = "done" /\ LeaveLoop(CancelledAtClose)
        /\ UNCHANGED <<received, parsed, task>>
    BY <1>8 DEF ChannelClosed
  <2>2. ~Erred
    BY <2>1, ErrorTyped, AppendProperties DEF Erred
  <2>3. Flowing /\ todo = <<>>
    BY <1>0, <2>1, <2>2 DEF Flowing, LeftWell
  <2>4. parsed = received
    BY <1>0, <2>1, <2>3, ConcatEmptySeq DEF Flowing, TypeInv
  <2>5. CancelledAtClose \in BOOLEAN
    BY <1>0 DEF CancelledAtClose, TypeInv
  <2> QED
    BY <1>4, <2>1, <2>4, <2>5
<1>9. CASE UNCHANGED vars
  BY <1>1, <1>9 DEF vars
<1> QED
  BY <1>2, <1>3, <1>5, <1>6, <1>7, <1>8, <1>9 DEF Next, TaskStep, TurnStep

LEMMA FaithfulKept ==
  ASSUME StreamInv, [Next]_vars PROVE Faithful'
<1>0. TypeInv /\ Faithful
  BY DEF StreamInv
<1> USE DEF providerVars, taskVars, turnVars
<1>1. ASSUME UNCHANGED <<answer, pos, todo, sawFinish, parsed, spoiled>> PROVE Faithful'
  BY <1>0, <1>1 DEF Faithful, StreamedUpto, Finished
<1>2. CASE Cancel \/ TaskSeesCancel \/ StreamFails \/ ReceiverGone \/ EndOfStream
            \/ TurnSeesCancel \/ Receive \/ ReceiveError \/ NotifyFails \/ ChannelClosed
  BY <1>1, <1>2 DEF Cancel, TaskSeesCancel, StreamFails, ReceiverGone, EndOfStream,
       TurnSeesCancel, Receive, ReceiveError, NotifyFails, ChannelClosed
<1>3. CASE DiscardChunk \/ Reconnect
  BY <1>3 DEF DiscardChunk, Reconnect, Faithful
<1>4. CASE ReadChunk
  <2> SUFFICES ASSUME ~spoiled' PROVE Faithful'
    BY DEF Faithful
  <2>1. ~spoiled /\ pos' = pos + 1 /\ pos \in Nat /\ UNCHANGED <<answer, sawFinish>>
    BY <1>0, <1>4 DEF ReadChunk, TypeInv
  <2>2. Len(answer) \in Nat /\ pos < Len(answer)
    BY <1>0, <1>4, StreamAssumption, LenProperties DEF TypeInv, ReadChunk
  <2>3. StreamedUpto(pos + 1) = StreamedUpto(pos) \o ParseChunk(answer[pos + 1])
    BY <1>0, <2>1, <2>2, StreamsMore
  <2>4. parsed' = StreamedUpto(pos + 1)
    BY <1>0, <1>4, <2>1, <2>3, ChunkRead DEF Faithful
  <2>5. (\E i \in 1..pos : answer[i].finish # <<>>) \/ answer[pos + 1].finish # <<>>
          => \E i \in 1..pos + 1 : answer[i].finish # <<>>
    BY <2>1
  <2>6. sawFinish => Finished
    BY <1>0, <2>1 DEF Faithful
  <2>7. \A k \in 1..Len(todo') : todo'[k].kind = "finish" => answer[pos + 1].finish # <<>>
    BY <1>0, <1>4, ChunkRead
  <2> QED
    BY <2>1, <2>4, <2>5, <2>6, <2>7 DEF Faithful, Finished, StreamedUpto
<1>5. CASE Forward
  <2>1. todo # <<>> /\ todo' = Tail(todo) /\ sawFinish' = (sawFinish \/ Head(todo).kind = "finish")
        /\ UNCHANGED <<answer, pos, parsed, spoiled>>
    BY <1>5 DEF Forward, Unforwarded
  <2>2. Len(todo) \in Nat /\ Len(todo) # 0 /\ todo \in Seq(EventSet)
    BY <1>0, <2>1, EmptySeq, LenProperties DEF TypeInv
  <2>3. Head(todo) = todo[1] /\ Len(Tail(todo)) = Len(todo) - 1
        /\ \A k \in 1..Len(Tail(todo)) : Tail(todo)[k] = todo[k + 1]
    BY <2>1, <2>2, HeadTailProperties
  <2>4. 1 \in 1..Len(todo) /\ \A k \in 1..Len(Tail(todo)) : k + 1 \in 1..Len(todo)
    BY <2>2, <2>3
  <2>5. ~spoiled => (sawFinish' => Finished)
        /\ \A k \in 1..Len(Tail(todo)) : Tail(todo)[k].kind = "finish" => Finished
    BY <1>0, <2>1, <2>3, <2>4 DEF Faithful
  <2> QED
    BY <1>0, <2>1, <2>5 DEF Faithful, Finished, StreamedUpto
<1>6. CASE UNCHANGED vars
  BY <1>1, <1>6 DEF vars
<1> QED
  BY <1>2, <1>3, <1>4, <1>5, <1>6 DEF Next, TaskStep, TurnStep

LEMMA StreamSafe == Spec => []StreamInv
<1>1. StreamInv /\ [Next]_vars => StreamInv'
  BY TypesKept, FlowKept, ChargedKept, FaithfulKept DEF StreamInv
<1> QED
  BY <1>1, StreamInit, PTL DEF Spec

-----------------------------------------------------------------------------
(***************************************************************************)
(* What PendingToolCalls puts together.                                    *)
(***************************************************************************)
PendingCall == [id : Words, name : Words, arguments : Seq(Words)]

(* A call no delta has come for is as good as empty. *)
CallAt(calls, i) == IF i \in DOMAIN calls THEN calls[i] ELSE NoCall

LEMMA MergedTyped ==
  ASSUME NEW c \in PendingCall, NEW d \in EventSet
  PROVE  Merged(c, d) \in PendingCall /\ NoCall \in PendingCall
<1>1. d.id \in Words /\ d.name \in Words /\ d.body \in Words
  BY DEF EventSet
<1>2. c.id \in Words /\ c.name \in Words /\ c.arguments \in Seq(Words)
  BY DEF PendingCall
<1>3. Append(c.arguments, d.body) \in Seq(Words)
  BY <1>1, <1>2, AppendProperties
<1>4. NoField \in Words /\ <<>> \in Seq(Words)
  BY EmptySeq DEF Words
<1> QED
  BY <1>1, <1>2, <1>3, <1>4 DEF Merged, NoCall, PendingCall

(* A delta changes the call of its index and no other. *)
LEMMA PushMeans ==
  ASSUME NEW calls \in Seq(PendingCall), NEW d \in EventSet
  PROVE  /\ Push(calls, d) \in Seq(PendingCall)
         /\ \A i \in Nat \ {0} : CallAt(Push(calls, d), i) =
              IF i = d.index + 1 THEN Merged(CallAt(calls, i), d) ELSE CallAt(calls, i)
<1> DEFINE n == d.index + 1
           k == IF n > Len(calls) THEN n - Len(calls) ELSE 0
           pad == [i \in 1..k |-> NoCall]
           p == calls \o pad
           r == [p EXCEPT ![n] = Merged(@, d)]
<1>1. Push(calls, d) = r
  BY DEF Push, Padded
<1>2. n \in Nat \ {0} /\ Len(calls) \in Nat /\ DOMAIN calls = 1..Len(calls)
  BY LenProperties DEF EventSet
<1>3. k \in Nat /\ n <= Len(calls) + k /\ (k > 0 => n = Len(calls) + k)
  BY <1>2
<1> HIDE DEF n, k
<1>4. NoCall \in PendingCall
  BY EmptySeq DEF NoCall, PendingCall, Words
<1>5. pad \in Seq(PendingCall) /\ Len(pad) = k /\ \A i \in 1..k : pad[i] = NoCall
  BY <1>3, <1>4
<1> HIDE DEF pad
<1>6. /\ p \in Seq(PendingCall) /\ Len(p) = Len(calls) + k
      /\ \A i \in 1..Len(p) : p[i] = CallAt(calls, i)
  <2>1. p \in Seq(PendingCall) /\ Len(p) = Len(calls) + k
        /\ \A i \in 1..Len(calls) + k : p[i] = IF i <= Len(calls) THEN calls[i] ELSE pad[i - Len(calls)]
    BY <1>3, <1>5, ConcatProperties
  <2>2. ASSUME NEW i \in 1..Len(p) PROVE p[i] = CallAt(calls, i)
    <3>1. CASE i <= Len(calls)
      BY <1>2, <2>1, <3>1 DEF CallAt
    <3>2. CASE i > Len(calls)
      <4>1. i - Len(calls) \in 1..k /\ i \notin DOMAIN calls
        BY <1>2, <1>3, <2>1, <3>2
      <4> QED
        BY <1>2, <1>3, <1>5, <2>1, <3>2, <4>1 DEF CallAt
    <3> QED
      BY <1>2, <1>3, <2>1, <3>1, <3>2
  <2> QED
    BY <2>1, <2>2
<1> HIDE DEF p
<1>7. Len(p) \in Nat /\ DOMAIN p = 1..Len(p) /\ n \in 1..Len(p) /\ p[n] \in PendingCall
  <2>1. Len(p) \in Nat /\ DOMAIN p = 1..Len(p) /\ n \in 1..Len(p)
    BY <1>2, <1>3, <1>6, LenProperties
  <2> QED
    BY <1>6, <2>1, ElementOfSeq
<1>8. Merged(p[n], d) \in PendingCall
  BY <1>7, MergedTyped
<1>9. /\ r \in Seq(PendingCall) /\ Len(r) = Len(p) /\ DOMAIN r = 1..Len(p)
      /\ \A i \in 1..Len(p) : r[i] = IF i = n THEN Merged(p[n], d) ELSE p[i]
  BY <1>6, <1>7, <1>8, ExceptSeq
<1> HIDE DEF r
<1>10. ASSUME NEW i \in Nat \ {0}
       PROVE  CallAt(r, i) = IF i = n THEN Merged(CallAt(calls, i), d) ELSE CallAt(calls, i)
  <2>1. CASE i \in 1..Len(p)
    BY <1>6, <1>7, <1>9, <2>1 DEF CallAt
  <2>2. CASE i \notin 1..Len(p)
    <3>1. i # n /\ i \notin DOMAIN calls /\ i \notin DOMAIN r
      BY <1>2, <1>3, <1>6, <1>7, <1>9, <2>2
    <3> QED
      BY <3>1 DEF CallAt
  <2> QED
    BY <2>1, <2>2
<1> QED
  BY <1>1, <1>9, <1>10 DEF n

CallLists == Seq(PendingCall)

LEMMA UpdateTyped ==
  \A v \in CallLists, e \in EventSet : PushUpdate(v, e) \in CallLists
  BY PushMeans DEF PushUpdate, CallLists

PushSteps(q) == [i \in 1..Len(q) |-> [v \in CallLists |-> PushUpdate(v, q[i])]]

LEMMA PushChain ==
  ASSUME NEW q \in Seq(EventSet)
  PROVE  \E g : /\ Chain(Len(q), CallLists, <<>>, PushSteps(q), g)
                /\ PendingCalls(q) = g[1..Len(q)]
<1> DEFINE n == Len(q)  base == <<>>
           F(h) == [s \in SUBSET (DOMAIN q) |->
                      IF s = {} THEN base ELSE PushUpdate(h[s \ {Max(s)}], q[Max(s)])]
           g == CHOOSE h : h = F(h)
<1>1. n \in Nat /\ DOMAIN q = 1..n /\ \A i \in 1..n : q[i] \in EventSet
  BY LenProperties, ElementOfSeq
<1>2. base \in CallLists /\ \A v \in CallLists, e \in EventSet : PushUpdate(v, e) \in CallLists
  BY UpdateTyped, EmptySeq DEF CallLists
<1>3. PendingCalls(q) = g[1..n]
  BY <1>1 DEF PendingCalls, FoldLeft, MapThenFoldSet
<1> HIDE DEF base, g
<1>4. /\ \A i \in 1..n, v \in CallLists : PushSteps(q)[i][v] = PushUpdate(v, q[i])
      /\ Steps(n, CallLists, base, PushSteps(q))
  BY <1>1, <1>2 DEF Steps, PushSteps
<1>5. PICK h : Table(n, CallLists, base, PushSteps(q), h)
  BY <1>4, FoldTable
<1>6. h = F(h)
  <2>1. h \in [SUBSET (1..n) -> CallLists] /\ h[{}] = base
    BY <1>5 DEF Table
  <2>2. ASSUME NEW s \in SUBSET (1..n), s # {}
        PROVE  h[s] = PushUpdate(h[s \ {Max(s)}], q[Max(s)])
    <3>1. Max(s) \in 1..n
      BY <1>1, <2>2, GreatestNat
    <3>2. h[s \ {Max(s)}] \in CallLists
      BY <2>1
    <3>3. h[s] = PushSteps(q)[Max(s)][h[s \ {Max(s)}]]
      BY <1>5, <2>2 DEF Table
    <3> QED
      BY <1>4, <3>1, <3>2, <3>3
  <2>3. \A s \in SUBSET (1..n) : h[s] = IF s = {} THEN base ELSE PushUpdate(h[s \ {Max(s)}], q[Max(s)])
    BY <2>1, <2>2
  <2> QED
    BY <1>1, <2>1, <2>3
<1>7. g = F(g)
  BY <1>6 DEF g
<1>8. \A s \in SUBSET (1..n) : g[s] = IF s = {} THEN base ELSE PushUpdate(g[s \ {Max(s)}], q[Max(s)])
  BY <1>1, <1>7
<1>9. g[{}] = base
  BY <1>8
<1>10. ASSUME NEW i \in 1..n, g[1..i - 1] \in CallLists
       PROVE  g[1..i] = PushSteps(q)[i][g[1..i - 1]]
  <2>1. 1..i # {} /\ Max(1..i) = i /\ (1..i) \ {i} = 1..i - 1
    BY <1>1, Upto
  <2>2. 1..i \in SUBSET (1..n)
    BY <1>1
  <2>3. g[1..i] = PushUpdate(g[1..i - 1], q[i])
    BY <1>8, <2>1, <2>2
  <2> QED
    BY <1>4, <1>10, <2>3
<1>11. Chain(n, CallLists, base, PushSteps(q), g)
  BY <1>9, <1>10 DEF Chain
<1> QED
  BY <1>3, <1>11 DEF n, base

LEMMA PushAppend ==
  /\ PendingCalls(<<>>) = <<>>
  /\ \A q \in Seq(EventSet) : PendingCalls(q) \in CallLists
  /\ \A q \in Seq(EventSet), e \in EventSet : PendingCalls(Append(q, e)) = PushUpdate(PendingCalls(q), e)
<1> DEFINE base == <<>>
<1>0. base \in CallLists /\ \A v \in CallLists, e \in EventSet : PushUpdate(v, e) \in CallLists
  BY UpdateTyped, EmptySeq DEF CallLists
<1> HIDE DEF base
<1>1. ASSUME NEW q \in Seq(EventSet)
      PROVE  Len(q) \in Nat /\ Steps(Len(q), CallLists, base, PushSteps(q))
  <2>1. Len(q) \in Nat /\ \A i \in 1..Len(q) : q[i] \in EventSet
    BY LenProperties, ElementOfSeq
  <2> QED
    BY <1>0, <2>1 DEF Steps, PushSteps
<1>2. ASSUME NEW q \in Seq(EventSet)
      PROVE  \E g : Chain(Len(q), CallLists, base, PushSteps(q), g) /\ PendingCalls(q) = g[1..Len(q)]
  BY PushChain DEF base
<1>3. PendingCalls(<<>>) = base
  <2>1. <<>> \in Seq(EventSet) /\ Len(<<>>) = 0
    OBVIOUS
  <2>2. PICK g : Chain(0, CallLists, base, PushSteps(<<>>), g) /\ PendingCalls(<<>>) = g[1..0]
    BY <1>2, <2>1
  <2> QED
    BY <2>2, Upto DEF Chain
<1>4. ASSUME NEW q \in Seq(EventSet) PROVE PendingCalls(q) \in CallLists
  <2>1. PICK g : Chain(Len(q), CallLists, base, PushSteps(q), g) /\ PendingCalls(q) = g[1..Len(q)]
    BY <1>2
  <2>2. \A i \in 0..Len(q) : g[1..i] \in CallLists
    BY <1>1, <2>1, ChainTyped
  <2> QED
    BY <1>1, <2>1, <2>2
<1>5. ASSUME NEW q \in Seq(EventSet), NEW e \in EventSet
      PROVE  PendingCalls(Append(q, e)) = PushUpdate(PendingCalls(q), e)
  <2> DEFINE n == Len(q)  a == Append(q, e)
  <2>1. n \in Nat /\ a \in Seq(EventSet) /\ Len(a) = n + 1 /\ a[n + 1] = e /\ \A i \in 1..n : a[i] = q[i]
    BY <1>1, AppendProperties
  <2>2. PICK g : Chain(n, CallLists, base, PushSteps(q), g) /\ PendingCalls(q) = g[1..n]
    BY <1>2
  <2> HIDE DEF a
  <2>3. PICK h : Chain(n + 1, CallLists, base, PushSteps(a), h) /\ PendingCalls(a) = h[1..n + 1]
    BY <1>2, <2>1
  <2>4. Steps(n, CallLists, base, PushSteps(q)) /\ Steps(n + 1, CallLists, base, PushSteps(a))
    BY <1>1, <2>1
  <2>5. /\ \A i \in 1..n : PushSteps(a)[i] = PushSteps(q)[i]
        /\ \A v \in CallLists : PushSteps(a)[n + 1][v] = PushUpdate(v, e)
    BY <2>1 DEF PushSteps
  <2> HIDE DEF n
  <2>6. h[1..n + 1] = PushSteps(a)[n + 1][g[1..n]] /\ g[1..n] \in CallLists
    BY <2>2, <2>3, <2>4, <2>5, ChainGrows
  <2>7. PendingCalls(a) = PushUpdate(PendingCalls(q), e)
    BY <2>2, <2>3, <2>5, <2>6
  <2> QED
    BY <2>7 DEF a
<1> QED
  BY <1>3, <1>4, <1>5 DEF base

-----------------------------------------------------------------------------
(***************************************************************************)
(* What the deltas of one call gave.                                       *)
(***************************************************************************)
Gives(i, field) ==
  [e \in EventSet |-> IF e.kind = "call" /\ e.index + 1 = i /\ e[field] # NoField
                      THEN <<e[field]>> ELSE <<>>]

LEMMA GivenIs ==
  ASSUME NEW i \in Nat \ {0}, NEW field \in {"id", "name", "body"}
  PROVE  /\ Stands(EventSet, Words, Gives(i, field))
         /\ \A q \in Seq(EventSet) : Given(q, i, field) = Each(Gives(i, field), q)
<1>1. \A e \in EventSet : e[field] \in Words
  BY DEF EventSet
<1>2. Stands(EventSet, Words, Gives(i, field))
  <2>1. \A e \in EventSet : e[field] \in Words => <<e[field]>> \in Seq(Words)
    OBVIOUS
  <2>2. <<>> \in Seq(Words)
    BY EmptySeq
  <2> QED
    BY <1>1, <2>1, <2>2 DEF Stands, Gives
<1>3. ASSUME NEW q \in Seq(EventSet) PROVE Given(q, i, field) = Each(Gives(i, field), q)
  <2>1. \A k \in DOMAIN q : q[k] \in EventSet
    BY LenProperties, ElementOfSeq
  <2>2. [k \in DOMAIN q |-> IF q[k].kind = "call" /\ q[k].index + 1 = i /\ q[k][field] # NoField
                            THEN <<q[k][field]>> ELSE <<>>]
        = [k \in DOMAIN q |-> Gives(i, field)[q[k]]]
    BY <2>1 DEF Gives
  <2> QED
    BY <2>2, Zenon DEF Given, Each
<1> QED
  BY <1>2, <1>3

LEMMA GivenAppend ==
  ASSUME NEW i \in Nat \ {0}, NEW field \in {"id", "name", "body"}
  PROVE  /\ Given(<<>>, i, field) = <<>>
         /\ \A q \in Seq(EventSet) : Given(q, i, field) \in Seq(Words)
         /\ \A q \in Seq(EventSet), e \in EventSet :
              Given(Append(q, e), i, field) =
                IF e.kind = "call" /\ e.index + 1 = i /\ e[field] # NoField
                THEN Append(Given(q, i, field), e[field]) ELSE Given(q, i, field)
<1> DEFINE f == Gives(i, field)
<1>1. Stands(EventSet, Words, f) /\ \A q \in Seq(EventSet) : Given(q, i, field) = Each(f, q)
  BY GivenIs
<1>2. \A e \in EventSet : f[e] = IF e.kind = "call" /\ e.index + 1 = i /\ e[field] # NoField
                                 THEN <<e[field]>> ELSE <<>>
  BY DEF Gives
<1>3. \A e \in EventSet : e[field] \in Words
  BY DEF EventSet
<1> HIDE DEF f
<1>4. /\ Each(f, <<>>) = <<>> /\ \A q \in Seq(EventSet) : Each(f, q) \in Seq(Words)
      /\ \A q \in Seq(EventSet), e \in EventSet : Each(f, Append(q, e)) = Each(f, q) \o f[e]
  BY <1>1, EachAppend
<1>5. <<>> \in Seq(EventSet)
  BY EmptySeq
<1>6. ASSUME NEW q \in Seq(EventSet), NEW e \in EventSet
      PROVE  Given(Append(q, e), i, field) =
                IF e.kind = "call" /\ e.index + 1 = i /\ e[field] # NoField
                THEN Append(Given(q, i, field), e[field]) ELSE Given(q, i, field)
  <2>1. Append(q, e) \in Seq(EventSet) /\ Given(q, i, field) \in Seq(Words)
    BY <1>1, <1>4, AppendProperties
  <2>2. Given(Append(q, e), i, field) = Given(q, i, field) \o f[e]
    BY <1>1, <1>4, <2>1
  <2>3. Given(q, i, field) \o <<e[field]>> = Append(Given(q, i, field), e[field])
    BY <1>3, <2>1, AppendIsConcat
  <2>4. Given(q, i, field) \o <<>> = Given(q, i, field)
    BY <2>1, ConcatEmptySeq
  <2> QED
    BY <1>2, <2>2, <2>3, <2>4
<1> QED
  BY <1>1, <1>4, <1>5, <1>6

LEMMA LatestAppend ==
  ASSUME NEW q \in Seq(Words), NEW w \in Words
  PROVE  Latest(<<>>) = NoField /\ Latest(Append(q, w)) = w
<1>1. Append(q, w) # <<>>
  BY AppendProperties
<1>2. Last(Append(q, w)) = w
  BY FrontOfAppend
<1> QED
  BY <1>1, <1>2 DEF Latest

(* What is put together of q so far. *)
Put(q, i) == [id |-> Latest(Given(q, i, "id")), name |-> Latest(Given(q, i, "name")),
              arguments |-> Given(q, i, "body")]

LEMMA PutAppend ==
  ASSUME NEW q \in Seq(EventSet), NEW e \in EventSet, NEW i \in Nat \ {0}
  PROVE  Put(Append(q, e), i) =
           IF e.kind = "call" /\ i = e.index + 1 THEN Merged(Put(q, i), e) ELSE Put(q, i)
<1> DEFINE a == Append(q, e)
<1>1. ASSUME NEW field \in {"id", "name", "body"}
      PROVE  /\ Given(q, i, field) \in Seq(Words)
             /\ Given(a, i, field) =
                  IF e.kind = "call" /\ e.index + 1 = i /\ e[field] # NoField
                  THEN Append(Given(q, i, field), e[field]) ELSE Given(q, i, field)
  BY GivenAppend
<1> HIDE DEF a
<1>2. e["id"] \in Words /\ e["name"] \in Words
  BY DEF EventSet
<1>3. \A g \in Seq(Words), w \in Words : Latest(Append(g, w)) = w
  BY LatestAppend
<1>4. CASE e.kind = "call" /\ i = e.index + 1
  <2>1. Latest(Given(a, i, "id")) = IF e.id = NoField THEN Latest(Given(q, i, "id")) ELSE e.id
    BY <1>1, <1>2, <1>3, <1>4
  <2>2. Latest(Given(a, i, "name")) = IF e.name = NoField THEN Latest(Given(q, i, "name")) ELSE e.name
    BY <1>1, <1>2, <1>3, <1>4
  <2>3. Given(a, i, "body") = IF e.body = NoField THEN Given(q, i, "body")
                              ELSE Append(Given(q, i, "body"), e.body)
    BY <1>1, <1>4
  <2> QED
    BY <1>4, <2>1, <2>2, <2>3 DEF Put, Merged, a
<1>5. CASE ~(e.kind = "call" /\ i = e.index + 1)
  <2>1. e.index \in Nat
    BY DEF EventSet
  <2>2. \A field \in {"id", "name", "body"} : Given(a, i, field) = Given(q, i, field)
    BY <1>1, <1>5, <2>1
  <2> QED
    BY <1>5, <2>2 DEF Put, a
<1> QED
  BY <1>4, <1>5

(* Calls and deltas, by induction over the events. *)
LEMMA CallsPut ==
  \A q \in Seq(EventSet) : \A i \in Nat \ {0} : CallAt(PendingCalls(q), i) = Put(q, i)
<1> DEFINE T == {q \in Seq(EventSet) : \A i \in Nat \ {0} : CallAt(PendingCalls(q), i) = Put(q, i)}
<1>1. <<>> \in T
  <2>1. <<>> \in Seq(EventSet) /\ <<>> \in Seq(Words)
    BY EmptySeq
  <2>2. PendingCalls(<<>>) = <<>>
    BY PushAppend
  <2>3. NoField \in Words
    BY DEF Words
  <2>4. Latest(<<>>) = NoField
    BY <2>1, <2>3, LatestAppend
  <2>5. ASSUME NEW i \in Nat \ {0} PROVE CallAt(PendingCalls(<<>>), i) = Put(<<>>, i)
    <3>1. CallAt(<<>>, i) = NoCall
      BY DEF CallAt
    <3>2. Put(<<>>, i) = NoCall
      BY <2>4, GivenAppend DEF Put, NoCall
    <3> QED
      BY <2>2, <3>1, <3>2
  <2> QED
    BY <2>1, <2>5
<1>2. ASSUME NEW q \in Seq(EventSet), NEW e \in EventSet, q \in T PROVE Append(q, e) \in T
  <2>1. \A i \in Nat \ {0} : CallAt(PendingCalls(q), i) = Put(q, i)
    BY <1>2
  <2> HIDE DEF T
  <2>2. PendingCalls(q) \in Seq(PendingCall)
        /\ PendingCalls(Append(q, e)) = PushUpdate(PendingCalls(q), e)
    BY PushAppend DEF CallLists
  <2>3. Append(q, e) \in Seq(EventSet)
    BY AppendProperties
  <2>4. ASSUME NEW i \in Nat \ {0} PROVE CallAt(PendingCalls(Append(q, e)), i) = Put(Append(q, e), i)
    <3>1. Put(Append(q, e), i) =
            IF e.kind = "call" /\ i = e.index + 1 THEN Merged(Put(q, i), e) ELSE Put(q, i)
      BY PutAppend
    <3>2. CallAt(PushUpdate(PendingCalls(q), e), i) =
            IF e.kind = "call" /\ i = e.index + 1 THEN Merged(CallAt(PendingCalls(q), i), e)
            ELSE CallAt(PendingCalls(q), i)
      BY <2>2, PushMeans DEF PushUpdate
    <3> QED
      BY <2>1, <2>2, <3>1, <3>2
  <2> QED
    BY <2>3, <2>4 DEF T
<1> HIDE DEF T
<1>3. Seq(EventSet) \subseteq T
  BY <1>1, <1>2, SeqInduction
<1> QED
  BY <1>3 DEF T

-----------------------------------------------------------------------------
(***************************************************************************)
(* The theorems.                                                           *)
(***************************************************************************)
(* What the turn has taken, the channel holds and the task has yet to      *)
(* forward are together what was parsed, in order, with an error at most   *)
(* at the very end (run_stream_attempt and its unbounded channel).         *)
THEOREM FlightComplete == Spec => []NothingLostInFlight
<1>1. StreamInv => NothingLostInFlight
  <2> SUFFICES ASSUME StreamInv, turn = "recv" PROVE NothingLostInFlight
    BY DEF NothingLostInFlight
  <2>0. TypeInv /\ (Flowing \/ Erred)
    BY DEF StreamInv, InFlight
  <2>1. CASE Flowing
    <3>1. received \in Seq(EventSet) /\ chan \in Seq(EventSet) /\ todo \in Seq(EventSet)
      BY <2>0 DEF TypeInv
    <3>2. (received \o chan) \o todo = received \o (chan \o todo)
      BY <3>1, ConcatAssociative
    <3> QED
      BY <2>1, <3>2 DEF Flowing, NothingLostInFlight
  <2>2. CASE Erred
    <3>1. PICK head \in Seq(EventSet) : chan = Append(head, Error) /\ parsed = received \o head
      BY <2>2 DEF Erred
    <3>2. Front(chan) = head /\ Last(chan) = Error
      BY <3>1, ErrorTyped, FrontOfAppend
    <3>3. chan # <<>>
      BY <3>1, ErrorTyped, AppendProperties
    <3> QED
      BY <2>2, <3>1, <3>2, <3>3 DEF Erred, NothingLostInFlight
  <2> QED
    BY <2>0, <2>1, <2>2
<1> QED
  BY <1>1, StreamSafe, PTL

(* A reply is charged for the last usage report the provider sent, a       *)
(* cancelled turn for the last one it took, a turn that listens for none   *)
(* (stream_model_turn, SessionStore::record_usage).                        *)
THEOREM ChargeRight == Spec => []ChargedOnce
<1>1. StreamInv => ChargedOnce
  BY DEF StreamInv, TypeInv, Charged, ChargedOnce
<1> QED
  BY <1>1, StreamSafe, PTL

(* However the deltas of several calls are interleaved, each call gets the *)
(* pieces of its own arguments, all of them and in order, and the last id  *)
(* and name that were given for it (PendingToolCalls::push).               *)
THEOREM CallsComplete == Spec => []CallsAssembled
<1>1. StreamInv => CallsAssembled
  <2> SUFFICES ASSUME StreamInv PROVE CallsAssembled
    OBVIOUS
  <2>1. received \in Seq(EventSet)
    BY DEF StreamInv, TypeInv
  <2> DEFINE calls == PendingCalls(received)
  <2>2. calls \in Seq(PendingCall)
    BY <2>1, PushAppend DEF CallLists
  <2>3. \A i \in Nat \ {0} : CallAt(calls, i) = Put(received, i)
    BY <2>1, CallsPut
  <2> HIDE DEF calls
  <2>4. \A i \in DOMAIN calls : i \in Nat \ {0} /\ CallAt(calls, i) = calls[i]
    BY <2>2, LenProperties DEF CallAt
  <2>5. \A i \in DOMAIN calls : calls[i] = Put(received, i)
    BY <2>3, <2>4
  <2> QED
    BY <2>5 DEF CallsAssembled, Put, calls
<1> QED
  BY <1>1, StreamSafe, PTL

(* What a turn is given when nothing was spoiled is a whole answer. *)
LEMMA WholeReply ==
  ASSUME StreamInv, turn = "recv", chan = <<>>, task = "done", ~token, ~spoiled,
         Complete(PendingCalls(received))
  PROVE  Reply(received) \in WholeReplies
<1>0. TypeInv /\ (Flowing \/ Erred) /\ Faithful
  BY DEF StreamInv, InFlight
<1>1. ~Erred
  BY ErrorTyped, AppendProperties DEF Erred
<1>2. Flowing /\ todo = <<>> /\ pos = Len(answer) /\ sawFinish
  BY <1>0, <1>1 DEF Flowing, LeftWell
<1>3. received = parsed
  BY <1>0, <1>2, ConcatEmptySeq DEF Flowing, TypeInv
<1>4. answer \in Answers /\ DOMAIN answer = 1..Len(answer)
  BY <1>0, StreamAssumption, LenProperties DEF TypeInv
<1>5. received = Streamed(answer)
  BY <1>0, <1>2, <1>3, <1>4 DEF Faithful, StreamedUpto, Streamed
<1>6. \E i \in DOMAIN answer : answer[i].finish # <<>>
  BY <1>0, <1>2, <1>4 DEF Faithful, Finished
<1> QED
  BY <1>4, <1>5, <1>6 DEF WholeReplies, WholeAnswers

LEMMA ContractStep ==
  ASSUME StreamInv, [Next]_vars
  PROVE  [Contract!Next]_(Contract!replyVars)
<1> USE DEF providerVars, taskVars, turnVars, Contract!Next, Contract!replyVars
<1>0. token \in BOOLEAN /\ spoiled \in BOOLEAN
  BY DEF StreamInv, TypeInv
<1>1. CASE Cancel
  BY <1>1 DEF Cancel, Contract!Stop, Outcome
<1>2. CASE TaskSeesCancel \/ ReadChunk \/ StreamFails \/ Forward \/ ReceiverGone \/ EndOfStream
  <2>1. UNCHANGED <<turn, received, token, spoiled>>
    BY <1>2 DEF TaskSeesCancel, ReadChunk, StreamFails, Forward, ReceiverGone, EndOfStream
  <2> QED
    BY <2>1 DEF Outcome
<1>3. CASE DiscardChunk \/ Reconnect
  <2>1. UNCHANGED <<turn, received, token>> /\ spoiled' = TRUE
    BY <1>3 DEF DiscardChunk, Reconnect
  <2> QED
    BY <2>1 DEF Outcome, Contract!Spoil
<1>4. ASSUME turn = "recv", turn' = "failed", UNCHANGED <<token, spoiled>>
      PROVE  Contract!Fail
  BY <1>4 DEF Contract!Fail, Outcome
<1>5. CASE TurnSeesCancel
  <2>1. turn = "recv" /\ token /\ UNCHANGED <<token, spoiled>> /\ turn' \in {"failed", "cancelled"}
    BY <1>5 DEF TurnSeesCancel, LeaveLoop, Fails, UsageFails, Ending
  <2> QED
    BY <1>4, <2>1 DEF Contract!GiveUp, Outcome
<1>6. CASE Receive
  BY <1>6 DEF Receive, Outcome
<1>7. CASE ReceiveError \/ NotifyFails
  BY <1>4, <1>7 DEF ReceiveError, NotifyFails, Fails
<1>8. CASE ChannelClosed
  <2>1. /\ turn = "recv" /\ chan = <<>> /\ task = "done" /\ UNCHANGED <<token, received, spoiled>>
        /\ turn' = "failed" \/ (/\ turn' = (IF token THEN "cancelled" ELSE "reply")
                               /\ Complete(PendingCalls(received)))
    BY <1>8 DEF ChannelClosed, LeaveLoop, Fails, UsageFails, Ending, CancelledAtClose
  <2>2. CASE turn' = "failed"
    BY <1>4, <2>1, <2>2
  <2>3. CASE token /\ turn' = "cancelled"
    BY <2>1, <2>3 DEF Contract!GiveUp, Outcome
  <2>4. CASE ~token /\ turn' = "reply" /\ Complete(PendingCalls(received))
    <3>1. spoiled \/ Reply(received) \in WholeReplies
      BY <2>1, <2>4, WholeReply
    <3> QED
      BY <2>1, <2>4, <3>1 DEF Contract!Deliver, Outcome
  <2> QED
    BY <1>0, <2>1, <2>2, <2>3, <2>4
<1>9. CASE UNCHANGED vars
  BY <1>9 DEF vars, Outcome
<1> QED
  BY <1>1, <1>2, <1>3, <1>5, <1>6, <1>7, <1>8, <1>9 DEF Next, TaskStep, TurnStep

(* The turn gets what ModelReply promises: one outcome, which is one whole *)
(* answer of the provider, or an error, or the end of a cancelled turn.    *)
THEOREM ContractKept == Spec => KeepsContract
<1>1. Init => Contract!Init
  BY DEF Init, Contract!Init, Outcome
<1> QED
  BY <1>1, StreamSafe, ContractStep, PTL DEF Spec, KeepsContract, Contract!Spec
===============================================================================
