---------------------------- MODULE ReplyStream ----------------------------
(***************************************************************************)
(* One model request: the task that reads the provider's event stream, the *)
(* unbounded channel it forwards events into, and the turn that takes them *)
(* out and puts the reply together.  The task runs on a thread of its own  *)
(* (tokio::spawn), so the two interleave freely; both watch the turn's     *)
(* cancellation token, each in an unbiased select with its next input.     *)
(***************************************************************************)
EXTENDS Naturals, SequencesExt

CONSTANTS
  Answers,         \* what the provider may stream on one connection
  Price,           \* Price[u]: cost of usage report u, in microdollars
  Windowless,      \* reports of a model without a known context window
  MaxConnections   \* bound: connections the SSE client makes, 1 + drops

NoField == "absent"

(* A piece of a tool call, and a chunk of an answer.  What a chunk leaves  *)
(* out is an empty sequence; an event's kind tells what its body is.       *)
ToolCallDelta ==
  [kind : {"call"}, index : Nat, id : STRING, name : STRING, body : STRING]
Chunk == [thought : Seq(STRING), text : Seq(STRING), deltas : Seq(ToolCallDelta),
          finish : Seq(STRING), usage : Seq(DOMAIN Price)]

ASSUME StreamAssumption ==
  /\ MaxConnections \in Nat \ {0}
  /\ DOMAIN Price \subseteq STRING \ {NoField} /\ \A u \in DOMAIN Price : Price[u] \in Nat
  /\ Windowless \subseteq DOMAIN Price /\ \A u \in Windowless : Price[u] = 0
  /\ Answers \subseteq Seq(Chunk)

VARIABLES
  \* the provider and the SSE client (external)
  answer,       \* the answer this connection streams
  pos,          \* how much of it was read
  connections,
  \* run_stream_attempt
  task,         \* "run" or "done"
  todo,         \* updates of the current chunk still to be forwarded
  sawFinish,
  chan,         \* the channel
  token,        \* the turn's CancellationToken is cancelled
  \* stream_model_turn
  turn,         \* "recv", or how it ended: "reply", "cancelled", "failed"
  received,     \* the events taken so far; its locals are functions of them
  cost,         \* SessionRecord.cost_micros, counted from this request on
  \* bookkeeping
  parsed,       \* the events parsed so far
  spoiled       \* a chunk was repeated or lost without an error

providerVars == <<answer, pos, connections>>
taskVars == <<task, todo, sawFinish>>
turnVars == <<turn, received, cost>>
vars == <<providerVars, taskVars, chan, token, turnVars, parsed, spoiled>>

-----------------------------------------------------------------------------
(***************************************************************************)
(* Events, and what a chunk is parsed into.                                *)
(***************************************************************************)
Delta(index, id, name, arguments) ==
  [kind |-> "call", index |-> index, id |-> id, name |-> name, body |-> arguments]
Event(kind, body) ==
  [kind |-> kind, index |-> 0, id |-> NoField, name |-> NoField, body |-> body]
Error == Event("error", NoField)

EventsOf(kind, bodies) == [i \in DOMAIN bodies |-> Event(kind, bodies[i])]

ParseChunk(chunk) ==
  EventsOf("thought", chunk.thought) \o EventsOf("text", chunk.text)
    \o chunk.deltas
    \o EventsOf("finish", chunk.finish) \o EventsOf("usage", chunk.usage)

Of(kind, events) == SelectSeq(events, LAMBDA e : e.kind = kind)
Shown(events) == SelectSeq(events, LAMBDA e : e.kind \in {"thought", "text"})

(***************************************************************************)
(* PendingToolCalls: one call per index; a later id or name replaces the   *)
(* one before, arguments are joined.                                       *)
(***************************************************************************)
NoCall == [id |-> NoField, name |-> NoField, arguments |-> <<>>]

Padded(calls, n) ==
  calls \o [i \in 1..(IF n > Len(calls) THEN n - Len(calls) ELSE 0) |-> NoCall]

Merged(call, d) ==
  [id |-> IF d.id = NoField THEN call.id ELSE d.id,
   name |-> IF d.name = NoField THEN call.name ELSE d.name,
   arguments |-> IF d.body = NoField THEN call.arguments ELSE Append(call.arguments, d.body)]

(* A bug: a delta without an id is taken for the newest call's. *)
PushNewest(calls, d) ==
  LET n == IF d.id = NoField /\ calls # <<>> THEN Len(calls) ELSE d.index + 1
      padded == Padded(calls, n)
  IN [padded EXCEPT ![n] = Merged(@, d)]

(* Indices count from 0. *)
Push(calls, d) ==
  LET n == d.index + 1
      padded == Padded(calls, n)
  IN [padded EXCEPT ![n] = Merged(@, d)]

(* Of all events only a call's deltas are pushed. *)
PushUpdate(calls, e) == IF e.kind = "call" THEN Push(calls, e) ELSE calls

PendingCalls(events) == FoldLeft(PushUpdate, <<>>, events)

Complete(calls) ==
  \A i \in DOMAIN calls : calls[i].id # NoField /\ calls[i].name # NoField

LastOf(kind, events) == SelectLastInSeq(events, LAMBDA e : e.kind = kind)

LastBody(kind, events) ==
  LET last == LastOf(kind, events) IN IF last = 0 THEN NoField ELSE events[last].body

(* The ModelTurn; without a finish event the reason is "end_turn". *)
Reply(events) ==
  [text |-> Of("text", events), calls |-> PendingCalls(events),
   reason |-> IF LastOf("finish", events) = 0 THEN "end_turn" ELSE LastBody("finish", events),
   usage |-> LastBody("usage", events)]

Charge(events) ==
  LET u == LastBody("usage", events) IN IF u \in DOMAIN Price THEN Price[u] ELSE 0

-----------------------------------------------------------------------------
Init ==
  /\ answer \in Answers /\ pos = 0 /\ connections = 1
  /\ task = "run" /\ todo = <<>> /\ sawFinish = FALSE
  /\ chan = <<>> /\ token = FALSE
  /\ turn = "recv" /\ received = <<>> /\ cost = 0
  /\ parsed = <<>> /\ spoiled = FALSE

(* session/cancel, or the session is deleted. *)
Cancel ==
  /\ ~token /\ turn = "recv"
  /\ token' = TRUE
  /\ UNCHANGED <<providerVars, taskVars, chan, turnVars, parsed, spoiled>>

(***************************************************************************)
(* The stream task.  It looks at the token only between two SSE events.    *)
(***************************************************************************)
AtSelect == task = "run" /\ todo = <<>>

(* A bug: the task does not watch the token. *)
Unwatched == FALSE

Watched == AtSelect /\ token

TaskSeesCancel ==
  /\ Watched
  /\ task' = "done"
  /\ UNCHANGED <<providerVars, todo, sawFinish, chan, token, turnVars, parsed, spoiled>>

ReadChunk ==
  LET updates == ParseChunk(answer[pos + 1]) IN
  /\ AtSelect /\ pos < Len(answer)
  /\ pos' = pos + 1
  /\ todo' = updates /\ parsed' = parsed \o updates
  /\ UNCHANGED <<answer, connections, task, sawFinish, chan, token, turnVars, spoiled>>

(* SseEvent::Discarded: an oversized event is dropped with a warning. *)
DiscardChunk ==
  /\ AtSelect /\ pos < Len(answer)
  /\ pos' = pos + 1 /\ spoiled' = TRUE
  /\ UNCHANGED <<answer, connections, taskVars, chan, token, turnVars, parsed>>

(* A bug: the new connection is read from where the old one broke off. *)
ContinuesThere == UNCHANGED pos

StartsOver == pos' = 0

(* SseEvent::Error: the client connects again and the request is answered  *)
(* from the start; what was forwarded stays forwarded.                     *)
Reconnect ==
  /\ AtSelect /\ connections < MaxConnections
  /\ connections' = connections + 1
  /\ answer' \in Answers /\ StartsOver
  /\ spoiled' = TRUE
  /\ UNCHANGED <<taskVars, chan, token, turnVars, parsed>>

(* Sending fails silently when the receiver is gone. *)
Send(item) == chan' = IF turn = "recv" THEN Append(chan, item) ELSE chan

(* An unreadable chunk, a chunk without choices, or a terminal error. *)
StreamFails ==
  /\ AtSelect
  /\ Send(Error) /\ task' = "done"
  /\ UNCHANGED <<providerVars, todo, sawFinish, token, turnVars, parsed, spoiled>>

(* A bug: only the first update of a chunk is forwarded. *)
FirstOnly == <<>>

Unforwarded == Tail(todo)

Forward ==
  /\ task = "run" /\ todo # <<>> /\ turn = "recv"
  /\ Send(Head(todo))
  /\ todo' = Unforwarded
  /\ sawFinish' = (sawFinish \/ Head(todo).kind = "finish")
  /\ UNCHANGED <<providerVars, task, token, turnVars, parsed, spoiled>>

ReceiverGone ==
  /\ task = "run" /\ todo # <<>> /\ turn # "recv"
  /\ task' = "done"
  /\ UNCHANGED <<providerVars, todo, sawFinish, chan, token, turnVars, parsed, spoiled>>

(* A bug: a stream that just ends is taken for finished. *)
AlwaysFinished == TRUE

EndsWell == sawFinish \/ token

(* [DONE], or the end of the stream. *)
EndOfStream ==
  /\ AtSelect /\ pos = Len(answer)
  /\ task' = "done"
  /\ IF EndsWell THEN UNCHANGED chan ELSE Send(Error)
  /\ UNCHANGED <<providerVars, todo, sawFinish, token, turnVars, parsed, spoiled>>

-----------------------------------------------------------------------------
(***************************************************************************)
(* The turn.                                                               *)
(***************************************************************************)

(* The `?`s of the loop: nothing of the reply is used, nor its usage. *)
Fails == turn' = "failed" /\ chan' = <<>> /\ UNCHANGED cost

Ending(isCancelled) == turn' = IF isCancelled THEN "cancelled" ELSE "reply"

(* A report that cannot be set against a context window is let go, without *)
(* a charge.                                                               *)
Skipped == LastBody("usage", received) \in Windowless

(* The usage update cannot be sent, or the record is gone before it is     *)
(* charged.                                                                *)
UsageFails ==
  /\ LastOf("usage", received) # 0 /\ ~Skipped
  /\ turn' = "failed" /\ chan' = <<>>
  /\ cost' \in {cost, cost + Charge(received)}

(* A bug: what was paid for is charged only when it is used. *)
ChargesReplies(isCancelled) ==
  IF Complete(PendingCalls(received))
  THEN \/ Ending(isCancelled) /\ chan' = <<>>
            /\ cost' = IF isCancelled THEN cost ELSE cost + Charge(received)
       \/ UsageFails
  ELSE Fails

(* The loop was left: the calls are finished first, even of a reply that   *)
(* was cut off, then the usage is charged.                                 *)
LeaveLoop(isCancelled) ==
  IF Complete(PendingCalls(received))
  THEN \/ /\ Ending(isCancelled) /\ chan' = <<>>
          /\ cost' = IF Skipped THEN cost ELSE cost + Charge(received)
       \/ UsageFails
  ELSE Fails

TurnSeesCancel ==
  /\ turn = "recv" /\ token
  /\ LeaveLoop(TRUE)
  /\ UNCHANGED <<providerVars, taskVars, token, received, parsed, spoiled>>

Receive ==
  /\ turn = "recv" /\ chan # <<>> /\ Head(chan) # Error
  /\ received' = Append(received, Head(chan))
  /\ chan' = Tail(chan)
  /\ UNCHANGED <<providerVars, taskVars, token, turn, cost, parsed, spoiled>>

ReceiveError ==
  /\ turn = "recv" /\ chan # <<>> /\ Head(chan) = Error
  /\ Fails
  /\ UNCHANGED <<providerVars, taskVars, token, received, parsed, spoiled>>

(* The client cannot be notified of a piece of text. *)
NotifyFails ==
  /\ turn = "recv" /\ chan # <<>> /\ Shown(<<Head(chan)>>) # <<>>
  /\ Fails
  /\ UNCHANGED <<providerVars, taskVars, token, received, parsed, spoiled>>

(* A bug: the token is not looked at again when the channel closes. *)
ClosedUnlooked == FALSE

CancelledAtClose == token

ChannelClosed ==
  /\ turn = "recv" /\ chan = <<>> /\ task = "done"
  /\ LeaveLoop(CancelledAtClose)
  /\ UNCHANGED <<providerVars, taskVars, token, received, parsed, spoiled>>

TaskStep ==
  \/ TaskSeesCancel \/ ReadChunk \/ DiscardChunk \/ Reconnect \/ StreamFails
  \/ Forward \/ ReceiverGone \/ EndOfStream
TurnStep ==
  TurnSeesCancel \/ Receive \/ ReceiveError \/ NotifyFails \/ ChannelClosed

Next == Cancel \/ TaskStep \/ TurnStep

Spec == Init /\ [][Next]_vars

(***************************************************************************)
(* Fairness: both tasks are polled.  The provider owes nothing: only the   *)
(* steps that need no input from it are fair.                              *)
(***************************************************************************)
FairSpec ==
  /\ Spec
  /\ WF_vars(TaskSeesCancel) /\ WF_vars(Forward \/ ReceiverGone)
  /\ WF_vars(TurnStep)

-----------------------------------------------------------------------------
(***************************************************************************)
(* Properties.                                                             *)
(***************************************************************************)
(* While the turn listens, what it has taken, what is in the channel and   *)
(* what the task has yet to forward are together what was parsed, in that  *)
(* order, with an error at most at the very end.                           *)
NothingLostInFlight ==
  turn = "recv" =>
    \/ parsed = received \o chan \o todo
    \/ task = "done" /\ chan # <<>> /\ Last(chan) = Error
         /\ parsed = received \o Front(chan)

(* Calls are put together by index, whatever the order the deltas of       *)
(* several calls come in: every piece of arguments once, in order, and the *)
(* last id and the last name given (PendingToolCalls::push).               *)
Given(events, i, field) ==
  FlattenSeq([k \in DOMAIN events |->
    IF events[k].kind = "call" /\ events[k].index + 1 = i /\ events[k][field] # NoField
    THEN <<events[k][field]>> ELSE <<>>])
Latest(given) == IF given = <<>> THEN NoField ELSE Last(given)
CallsAssembled ==
  LET calls == PendingCalls(received) IN
  \A i \in DOMAIN calls :
    calls[i] = [id |-> Latest(Given(received, i, "id")), name |-> Latest(Given(received, i, "name")),
                arguments |-> Given(received, i, "body")]

(* A reply is charged for the last usage report the provider sent, though  *)
(* it was parsed by the other task; a cancelled turn for the last one it    *)
(* has taken; a turn that still listens for none, and no turn twice         *)
(* (stream_model_turn).                                                    *)
LastPrice(events) ==
  LET report == LastOf("usage", events) IN
  IF report = 0 THEN 0 ELSE Price[events[report].body]
ChargedOnce ==
  cost \in CASE turn = "reply" -> {LastPrice(parsed)}
             [] turn = "cancelled" -> {LastPrice(received)}
             [] turn = "failed" -> {0, LastPrice(received)}
             [] turn = "recv" -> {0}

(* Once cancelled, task and turn both end, with or without the provider.   *)
CancelEndsBoth == token ~> (turn # "recv" /\ task = "done")

(* The turn gets what ModelReply promises: a reply is one whole answer,    *)
(* each call of which has got an id and a name, and never comes after the  *)
(* cancel.                                                                 *)
Streamed(a) == FlattenSeq([i \in DOMAIN a |-> ParseChunk(a[i])])
WholeAnswers ==
  {a \in Answers : (\E i \in DOMAIN a : a[i].finish # <<>>) /\ Complete(PendingCalls(Streamed(a)))}
WholeReplies == {Reply(Streamed(a)) : a \in WholeAnswers}
Outcome == IF turn = "recv" THEN "pending" ELSE turn
NoReply == [text |-> <<>>, calls |-> <<>>, reason |-> NoField, usage |-> NoField]
Contract == INSTANCE ModelReply WITH
  Whole <- WholeReplies,
  outcome <- Outcome, reply <- IF turn = "reply" THEN Reply(received) ELSE NoReply,
  stopped <- token
KeepsContract == Contract!Spec
=============================================================================
