---------------------------- MODULE Conversation ----------------------------
(***************************************************************************)
(* What one model request says: the conversation of a session as the turn  *)
(* loop grows it, cut down to a byte budget and repaired before it is sent *)
(* (turn.rs).  The conversation is any that prompts, answers, tool cycles, *)
(* failures and mode switches can produce.                                 *)
(***************************************************************************)
EXTENDS Naturals, SequencesExt

CONSTANTS
  Sizes,         \* content lengths of messages that say something
  MaxBytes,      \* the budget of a request (256 KB in the code)
  CallSize,      \* what one tool call adds to a message's size
  MaxMessages,   \* bound: length of a conversation
  MaxCalls,      \* bound: tool calls in one reply
  NoCall

ASSUME ConversationAssumption ==
  /\ Sizes \subseteq Nat \ {0} /\ Sizes # {}
  /\ MaxBytes \in Nat /\ CallSize \in Nat
  /\ MaxMessages \in Nat /\ MaxCalls \in Nat \ {0} /\ NoCall \notin Nat

VARIABLES
  history,   \* the saved conversation
  messages,  \* the turn's copy of it, grown by the loop
  phase,     \* "idle", or "request" when a model request is about to be sent
  plan,      \* the session is in Plan mode
  frozen     \* the turn began in Plan mode

vars == <<history, messages, phase, plan, frozen>>

(***************************************************************************)
(* A message: its role, the ids of its tool calls, the call it answers,    *)
(* the length of its content, and where it comes from: positions in the    *)
(* conversation, several when messages were joined, 0 for the instruction. *)
(***************************************************************************)
ChatMessage(role, calls, answers, content, from) ==
  [role |-> role, calls |-> calls, answers |-> answers,
   content |-> content, from |-> <<from>>]
User(n, at) == ChatMessage("user", <<>>, NoCall, n, at)
Assistant(n, calls, at) == ChatMessage("assistant", calls, NoCall, n, at)
Tool(id, n, at) == ChatMessage("tool", <<>>, id, n, at)
PlanInstruction == ChatMessage("system", <<>>, NoCall, 1, 0)

EstimateSize(m) == 1 + m.content + CallSize * Len(m.calls)
AddSize(sum, m) == sum + EstimateSize(m)
TotalSize(ms) == FoldLeft(AddSize, 0, ms)

(* The messages among ms that are in a set, in their order. *)
Only(ms, kept) == FlattenSeq([i \in DOMAIN ms |-> IF ms[i] \in kept THEN <<ms[i]>> ELSE <<>>])

CallsTools(m) == m.role = "assistant" /\ m.calls # <<>>
Blank(m) == m.role = "assistant" /\ m.calls = <<>> /\ m.content = 0

(* An assistant message that calls tools and the results right behind it   *)
(* make one group; any other message is a group by itself.                 *)
JoinsGroup(groups, m) ==
  m.role = "tool" /\ groups # <<>> /\ CallsTools(Head(Last(groups)))

(* A bug: every message is a group of its own. *)
Ungrouped(ms) == [i \in 1..Len(ms) |-> <<ms[i]>>]

Gather(groups, m) ==
  IF JoinsGroup(groups, m)
  THEN Append(Front(groups), Append(Last(groups), m))
  ELSE Append(groups, <<m>>)

GroupToolCallUnits(ms) == FoldLeft(Gather, <<>>, ms)

Taken(acc, g) == [left |-> acc.left - TotalSize(g), kept |-> <<g>> \o acc.kept]
TakeIfFits(acc, g) == IF TotalSize(g) > acc.left THEN acc ELSE Taken(acc, g)

(* A bug: the first group that does not fit ends the walk. *)
StopAtOversized(groups, budget) ==
  FoldLeft(LAMBDA acc, g : IF TotalSize(g) > acc.left THEN [acc EXCEPT !.left = 0] ELSE Taken(acc, g),
           [left |-> budget, kept |-> <<>>], Reverse(groups)).kept

(* A bug: the budget is compared with, and never charged. *)
EachAlone(groups, budget) == Only(groups, {g \in ToSet(groups) : TotalSize(g) <= budget})

(* From the newest group to the oldest, whatever still fits is kept. *)
KeepGroups(groups, budget) ==
  FoldLeft(TakeIfFits, [left |-> budget, kept |-> <<>>], Reverse(groups)).kept

(* Tool results whose call is gone are dropped. *)
ValidateToolResults(ms) ==
  LET called == UNION {ToSet(m.calls) : m \in ToSet(ms)} IN
  Only(ms, {m \in ToSet(ms) : m.role = "tool" => m.answers \in called})

RestOfBudget(first) ==
  IF EstimateSize(first) > MaxBytes THEN 0 ELSE MaxBytes - EstimateSize(first)

(* The first message stays whatever its size. *)
FilterMessages(ms) ==
  IF TotalSize(ms) <= MaxBytes THEN ms
  ELSE ValidateToolResults(
         <<Head(ms)>> \o FlattenSeq(
           KeepGroups(GroupToolCallUnits(Tail(ms)), RestOfBudget(Head(ms)))))

Mergeable(m) == m.role \in {"user", "assistant"} /\ m.calls = <<>>
Merge(a, b) == [a EXCEPT !.content = @ + b.content, !.from = @ \o b.from]

(* A bug: only user messages are joined. *)
MergesUsersOnly(done, m) ==
  done # <<>> /\ m.role = "user" /\ Last(done).role = "user"

(* A bug: tool calls do not keep a message from being joined. *)
MergesAnyText(done, m) ==
  done # <<>> /\ m.role \in {"user", "assistant"} /\ Last(done).role = m.role

MergesWithLast(done, m) ==
  /\ done # <<>> /\ Mergeable(m)
  /\ Last(done).role = m.role /\ Last(done).calls = <<>>

(* Empty assistant messages go; neighbours of one role are joined. *)
Repair(done, m) ==
  CASE Blank(m) -> done
    [] ~Blank(m) /\ MergesWithLast(done, m) -> Append(Front(done), Merge(Last(done), m))
    [] OTHER -> Append(done, m)

SanitizeConversation(ms) == FoldLeft(Repair, <<>>, ms)

(* In Plan mode the instruction goes in front. *)
RequestMessages == IF frozen THEN <<PlanInstruction>> \o messages ELSE messages
Filtered == FilterMessages(RequestMessages)
Request == SanitizeConversation(Filtered)

(***************************************************************************)
(* session/load shows the client what was said: one update for a prompt or *)
(* a text, and one for a call together with what it returned.              *)
(***************************************************************************)
(* A bug: the next result is the one. *)
NextResult(ms, id) ==
  LET results == {i \in DOMAIN ms : ms[i].role = "tool" /\ ms[i].answers >= id} IN
  IF results = {} THEN <<>> ELSE ms[Min(results)].from

(* The first message that answers the call, or nothing. *)
ToolResultContent(ms, id) ==
  LET results == {i \in DOMAIN ms : ms[i].role = "tool" /\ ms[i].answers = id} IN
  IF results = {} THEN <<>> ELSE ms[Min(results)].from

Update(kind, call, from) == [kind |-> kind, call |-> call, from |-> from]

ReplayMessage(ms, m) ==
  CASE m.role = "user" -> <<Update("user", NoCall, m.from)>>
    [] m.role = "assistant" ->
         (IF m.content = 0 THEN <<>> ELSE <<Update("agent", NoCall, m.from)>>) \o
         [i \in DOMAIN m.calls |->
            Update("call", m.calls[i], ToolResultContent(ms, m.calls[i]))]
    [] OTHER -> <<>>

ReplaySessionHistory(ms) == FlattenSeq([i \in DOMAIN ms |-> ReplayMessage(ms, ms[i])])

-----------------------------------------------------------------------------
Init ==
  /\ history = <<>> /\ messages = <<>>
  /\ phase = "idle" /\ plan = FALSE /\ frozen = FALSE

Room(n) == Len(messages) + n <= MaxMessages
Position == Len(messages) + 1

(* session/prompt: the turn copies the history and freezes the mode. *)
Prompt(n) ==
  /\ phase = "idle" /\ Len(history) < MaxMessages
  /\ messages' = Append(history, User(n, Len(history) + 1))
  /\ phase' = "request" /\ frozen' = plan
  /\ UNCHANGED <<history, plan>>

(* Call ids are never used twice: take the position of the reply and a number. *)
CallIds(k) == [i \in 1..k |-> MaxCalls * Position + i]

(* The model asks for tools; all of them run, and the cycle is saved. *)
ToolCycle(n, results) ==
  LET ids == CallIds(Len(results)) IN
  /\ phase = "request" /\ Room(Len(results) + 1)
  /\ messages' = Append(messages, Assistant(n, ids, Position)) \o
       [i \in DOMAIN results |-> Tool(ids[i], results[i], Position + i)]
  /\ history' = messages'
  /\ UNCHANGED <<phase, plan, frozen>>

(* The model answers, possibly with nothing; or it is cut off behind tool   *)
(* calls, which then are not run.                                           *)
Answer(n, calls) ==
  /\ phase = "request" /\ Room(1)
  /\ messages' = Append(messages, Assistant(n, CallIds(calls), Position))
  /\ history' = messages'
  /\ phase' = "idle"
  /\ UNCHANGED <<plan, frozen>>

(* The turn is cancelled, fails, or has used up its model requests. *)
Abandon ==
  /\ phase = "request"
  /\ phase' = "idle" /\ messages' = history
  /\ UNCHANGED <<history, plan, frozen>>

SwitchMode == plan' = ~plan /\ UNCHANGED <<history, messages, phase, frozen>>

ResultSizes == UNION {[1..k -> Sizes] : k \in 1..MaxCalls}

Next ==
  \/ \E n \in Sizes : Prompt(n)
  \/ \E n \in {0} \union Sizes, results \in ResultSizes : ToolCycle(n, results)
  \/ \E n \in {0} \union Sizes, calls \in 0..MaxCalls : Answer(n, calls)
  \/ Abandon
  \/ SwitchMode

Spec == Init /\ [][Next]_vars

-----------------------------------------------------------------------------
(***************************************************************************)
(* Properties of the request about to be sent.                             *)
(***************************************************************************)
Sending == phase = "request"
Origins(ms) == FlattenSeq([i \in DOMAIN ms |-> ms[i].from])
Answered(ms) == {m.answers : m \in ToSet(ms)} \ {NoCall}

(* A tool result in a request stands behind its call with only results in  *)
(* between, and a call that was answered keeps its answer: size filtering  *)
(* never splits a call from its results (filter_messages_truncate).        *)
PairsKept ==
  Sending =>
    /\ \A i \in DOMAIN Request : Request[i].role = "tool" =>
         \E j \in 1..(i - 1) :
           /\ Request[i].answers \in ToSet(Request[j].calls)
           /\ \A k \in (j + 1)..i : Request[k].role = "tool"
    /\ \A m \in ToSet(Request) :
         ToSet(m.calls) \intersect Answered(messages) \subseteq Answered(Request)

(* No two plain messages of one role stand side by side and no assistant   *)
(* message is empty: the shapes the provider rejects.                      *)
ProviderShape ==
  Sending =>
    /\ \A i \in DOMAIN Request : ~Blank(Request[i])
    /\ \A i \in 1..(Len(Request) - 1) :
         ~ /\ Mergeable(Request[i]) /\ Mergeable(Request[i + 1])
           /\ Request[i].role = Request[i + 1].role

(* Repairing loses no text: apart from empty answers, everything that was  *)
(* kept is in the request, once and in its order.                          *)
NothingLost ==
  Sending =>
    /\ Origins(Request) = Origins(Only(Filtered, {m \in ToSet(Filtered) : ~Blank(m)}))
    /\ \A i, j \in DOMAIN Origins(Request) :
         i < j => Origins(Request)[i] < Origins(Request)[j]
    /\ \A m \in ToSet(Request) : m.calls # <<>> => Len(m.from) = 1

(* A conversation over the budget is cut until it fits, save for a first   *)
(* message that alone is over it.                                          *)
FitsBudget ==
  Sending => TotalSize(Filtered) <= MaxBytes \/ Len(Filtered) = 1

(* Reference definition of what is kept: a group stays exactly when it     *)
(* fits beside the first message and the newer groups that stay.  One big  *)
(* group does not push out smaller, older ones.                            *)
ReferenceKept(groups, budget) ==
  CHOOSE K \in SUBSET (DOMAIN groups) :
    \A i \in DOMAIN groups :
      i \in K <=> TotalSize(FlattenSeq([j \in 1..(Len(groups) - i + 1) |->
                    IF j = 1 THEN groups[i]
                    ELSE IF i + j - 1 \in K THEN groups[i + j - 1] ELSE <<>>])) <= budget

NewestGroupsKept ==
  Sending /\ TotalSize(RequestMessages) > MaxBytes =>
    LET groups == GroupToolCallUnits(Tail(RequestMessages))
        kept == ReferenceKept(groups, RestOfBudget(Head(RequestMessages)))
    IN  ToSet(Filtered) =
          {Head(RequestMessages)} \union UNION {ToSet(groups[i]) : i \in kept}

(* What session/load replays is the conversation: every text once and in   *)
(* its order, every call once, and every result once and with its own call *)
(* (replay_session_history).                                               *)
ReplayIsConversation ==
  LET replay == ReplaySessionHistory(history)
      calls == FlattenSeq([i \in DOMAIN history |-> history[i].calls])
      shown == FlattenSeq([i \in DOMAIN replay |->
                 IF replay[i].kind = "call" THEN <<replay[i].call>> ELSE <<>>])
  IN  /\ Origins(replay) = Origins(Only(history, {m \in ToSet(history) : m.content > 0}))
      /\ shown = calls
      /\ \A u \in ToSet(replay), m \in ToSet(history) :
           u.kind = "call" /\ m.answers = u.call => u.from = m.from

(* What the docs say and the code does not keep: sanitize_conversation     *)
(* repairs the list "into a shape the provider's chat API accepts", which  *)
(* wants an answer for every tool call.                                    *)
EveryCallAnswered ==
  Sending => \A m \in ToSet(Request) : ToSet(m.calls) \subseteq Answered(Request)
=============================================================================
