# TLA+ models of the ACP adapter

The adapter (`acp-llm-adapter`) sits between an editor that speaks the Agent
Client Protocol over stdio and a model behind an HTTP API. It is translator and
harness in one: it keeps sessions, runs the prompt → tool call → result loop,
asks the user for permission, and saves what was said. This directory models
that behaviour in TLA+, checks it with TLC on small instances, and proves the
main safety properties for every instance with TLAPS. Paths below are relative
to the repository (`src/...`).

## The system

| part | state | operations | talks to |
| --- | --- | --- | --- |
| ACP handlers (`acp/mod.rs`) | none of their own | initialize, session/new, load, resume, prompt, cancel, close, delete, list, set_mode, set_config_option | session store, turn, MCP, files |
| session store (`session.rs`) | one mutex over all records: history, active turn's token, mode, options, allow-always set, MCP peers, cost | begin_turn, save_history, clear_active_turn, insert/remove/delete, cancel, setters | files |
| session files (`session_store.rs`) | `meta.json`, `history.jsonl` per session | persist_turn (rename, then append), load_record, delete, list | the file system |
| prompt turn (`turn.rs`) | messages, tool calls, pending mode transition, usage totals | one loop: filter and repair the messages, stream, run the batch, save | model client, tools, store |
| tools (`tools/`) | none between calls | read, list, glob, grep, write, edit, run_command, update_plan, exit_plan_mode, MCP | client requests (files, terminals, permission), local files |
| MCP (`mcp.rs`) | peers and the tools they offer, per session | connect, call | external servers |
| model client (`llm/`) | one task per stream, an unbounded channel | stream_chat, parse, forward | the provider, through an SSE client that reconnects |
| transcript sink (`logsink.rs`) | bounded queue, open files, bound session | log, bind_session, flush, prune | a writer thread |
| process (`main.rs`, `lib.rs`) | transport, signal and end-of-input watchers | serve, shutdown | everything |
| proxy (`proxy.rs`, `bin/acp-proxy.rs`) | two copy loops, session tracker | spawn, pump, wait | a wrapped agent |

What makes it hard: prompt, load, resume and session/new run as tasks of their
own and meet other requests at every await; a record can be dropped or replaced
under a running turn; a save is a rename and a series of appends any of which
may be the last; cancellation is a token looked at in some awaits and not in
others; the user answers late, changes modes and edits files while a tool call
waits; and the history sent to the model is cut to a budget although the
provider insists on its shape.

What makes each part correct:

* store and turns: one turn per session, no slot left behind, history only
  grows, a cancelled turn ends, the client knows the mode;
* files: they hold the messages the record holds, every finished cycle is
  there, only an append that was cut short makes them unreadable, a saved
  session stays listed with its title, cost and options;
* request messages: calls stay with their results, roles alternate, the budget
  holds, and nothing that fits is thrown away; a replay is the conversation;
* tools: no command runs without the user's consent, nothing is touched in a
  Plan turn, every terminal is released once, the diff shown is the edit made;
* model stream: a reply arrives once and whole or not at all, calls are put
  together as sent, each reply is charged once;
* sink and process: what is dropped is counted, a flush drains, sweeps keep the
  newest logs, the process exits with the conversation logged;
* proxy: bytes pass unchanged, the agent's last output arrives and is logged,
  a frame is logged with its session, a crash does not look like success.

## Modules

| module | models |
| --- | --- |
| `TurnSlot` | abstract: what is promised about active turns |
| `SessionTurns` | store, prompt tasks, load/resume tasks, files, crashes |
| `SessionMeta` | title, cost, options and listing of sessions, and their meta.json |
| `Conversation` | the messages of a model request; the replay of a history |
| `ToolCalls` | gate, permission, read, edit, write, command, terminal, MCP call |
| `ModelReply` | abstract: what a turn may count on from the model |
| `ReplyStream` | the stream task, its channel, and the turn that takes from it |
| `ConnectionLog` | how a log handle routes records; used by the next three |
| `LogSink` | queue, flush, writer thread, sweeps |
| `ServeLog` | LogSink under one stdio connection, and the end of the process |
| `Proxy` | pumps, line splitting, session sniffing, the agent's end |
| `SessionTurns_proofs`, `SessionMeta_proofs`, `Conversation_proofs`, `ToolCalls_proofs`, `ReplyStream_proofs`, `ServeLog_proofs`, `Proxy_proofs` | theorems |
| `SequenceLemmas` | lemmas they share: natural numbers, recursive functions, folds, induction over sequences, prefixes, appending, flattening, reversing |
| `MCSessionTurns`, `MCSessionMeta`, `MCToolCalls`, `MCReplyStream`, `MCServeLog`, `MCProxy` | values for TLC |

### SessionTurns

`live`, `slot`, `mode`, `history` are the fields of a `SessionRecord`; a
`CancellationToken` in `active_turn` is the turn that owns it. `pc`, `on`,
`task` are a prompt task with the locals of `handle_prompt_request` and
`run_prompt_turn`; `restore` is a load or resume between its read of the files
and its insert; `disk` is a session directory. A message is its role, the turn
that made it, how many calls it makes, and whether they were run.

One action is the work of a task between two awaits, except that a save is cut
into the writes it consists of, because the process can die between them. Other
tasks do not get in there (`AtAwait`): a request's future and the tasks started
with `cx.spawn` are polled within the connection's own future
(agent-client-protocol 1.3.0, which does not depend on tokio), so two of them
never run at once even on the multi-threaded runtime. Each store operation also
holds the store's mutex.

`NewSession`, `CloseSession`, `DeleteSession`, `CancelTurn`, `SetMode` are the
request handlers. `ReadRecord`, `ConnectFails`, `InsertRestored` are
`restore_persisted_session`, with the MCP servers awaited between the read and
the insert. `ReceivePrompt` dispatches a prompt; `BeginTurn` or `RefuseTurn` is
`begin_turn`; `StreamReply`, `StreamCancelled`, `TurnFails` are the ways out of
a stream; `RunToolCall` is one call of a batch; `StartSave` to `CommitSave` are
`save_history` and the loop's decision behind it, with the mode notification;
`ClearTurn` is `clear_active_turn` and the answer. `Crash` loses memory, keeps
files, and may leave the message being written torn.

Six bookkeeping variables keep the properties honest. `displaced` are
sessions whose record was dropped or replaced under a running turn: the code
does not protect those turns (see the findings), so the promises are stated for
the others. `diverged` are sessions whose record was restored from a file that
had moved on, or whose save failed part way: memory and file are known to
differ. Both are cleared by the next clean load, so what happens afterwards is
checked. `used` are ids ever given out, the only ones a client can name. `told`
is the mode the client heard of last. `interrupted` are sessions whose file
holds an append that a crash or an I/O error cut short, which is all that may
make `read_history` refuse it; `deleted` those deleted and not brought back by a
load that had read them before.

### SessionMeta

The same tasks and files with another projection of their data: a record's
`meta` (directory, model, max_tokens, title, time, cost), its messages with what
each cost, `disk` with `meta.json`, the `meta.json.tmp` beside it and the lines
of the history. `TitleAfter` and `RestoredTitle` are the three places a title
comes from. A save takes a snapshot of the record and then writes; options may
change before and after it. A crash may fall between any two writes, and so may
an I/O error (`SaveFails`), which ends the turn and leaves `LeftBehind`: the old
`meta.json`, or the new one with some of the messages. `Init` includes files of
an older version without a title or a time. `stale` marks a session a load may
have set back because it overlapped a turn, which the code does not prevent: the
cost is promised for the others.

### Conversation

The messages of a session grow as prompts, replies, tool cycles, failures and
mode switches make them; `Request` is `request_messages_for_behavior`,
`filter_messages_by_size` and `sanitize_conversation` in the order of
`stream_model_turn`, and `ReplaySessionHistory` what a loaded session sends to
the client. A message has a length, not a text; `from` remembers which
positions of the conversation went into it, which is how text that is lost or
doubled shows. The operators are folds over sequences in the order of the
code's loops. Ids of calls are unique.

### ToolCalls

One call at a time per session, as the loop of a batch awaits each. `planned`
is what the gate makes of `PromptTurnEnvironment.behavior`, copied when the turn
begins: whether that was Plan mode. `mode` is the live mode, which the
permission check consults; that the two can differ is the point of
`PlanTurnTouchesNothing`. `pending` is `pending_mode_transition`: `ExitPlanMode`
sets the live mode to acceptEdits and asks nobody, and `EndTurn` sets it once
more at the end of the batch, over one the user selected meanwhile. The permission
check happens with no await before it, so it is part of the step that leads to
it. `client` is what the client serves: reads, writes, terminals; each decides
on its own whether a tool works through the client or locally. `file` is one
file as it stands in the client's editor and on disk; a text is the set of
those who have a change in it. A write served by the client goes into the
editor and on disk (the client is external; that is what editors do). `fresh`
says that nobody changed the file since the call read it. `term` is a terminal
of the client, which may answer a release with an error and keep it;
`unreleased` counts the terminals created less the releases requested. `always`,
`granted` and `exited` record who let a call pass, independently of the store's
own set: the user by an answer, by an earlier allow-always or by the mode they
selected, or exit_plan_mode, as long as the live mode is one it set. Of the
tools that only look, `read_file` stands for all. A second turn over a displaced
one is in SessionTurns.

### ModelReply and ReplyStream

`task`, `todo`, `sawFinish` are `run_stream_attempt`; `answer`, `pos`,
`connections` the provider and the SSE client, which reconnects by itself and
then streams again from the start; `chan` the unbounded channel; `turn`,
`received`, `cost` the loop of `stream_model_turn`. The two run on different
threads and interleave freely, each with an unbiased select on the token. A
chunk is parsed into events at once (`ParseChunk`) and forwarded one by one.
`PendingCalls` is `PendingToolCalls`; `LeaveLoop` finishes the calls and then
charges, unless the usage report is of a model without a known context window
(`Skipped`, the reports in `Windowless`; no model with a price is without one,
which `StreamAssumption` states). The model says with `spoiled` that the
transport lost or repeated a part of an answer without an error: nothing above
the SSE client can tell, and `ModelReply` promises a whole answer, with an id
and a name for each of its calls, for the other cases only.

### ConnectionLog, LogSink, ServeLog

`queue` is the bounded channel, `flush` a flush command in it with `ahead`
records in front. `bound` is the binding a handle shares with its clones;
`bind_session` is two steps, the mapping record (`MarkBinding`) and the binding
(`SetBinding`). The writer takes a record, appends it and sweeps (`Sweep`: by
age, then least recently written first until the rest fits); an I/O error can
stop it anywhere and is counted. `open` are the handles in `LogWriter.files`
and `unlinked` those whose file is gone. `ServeLog` adds the transport of
`main.rs` (an outgoing frame is bound, logged, written), sessions with their
directories, trace events, a local command on the blocking pool, and the way
out: `Stop`, `LeaveSelect`, `Flush`, `Exit`. A record is one byte long and
numbered in the order it was logged.

### Proxy

`sent[p]` is what was written to the reader of pump `p` ("up", "down", "err"),
in cells; `forwarded` how much was passed on and split, in chunks of any length.
A read, a write or a flush may fail in any pump, and the input pump may be
aborted, with a part of a further chunk passed on (`BreaksOff`, `spilled`); that
part and the pending line of the pump are logged by nobody. A complete line is
observed (`SessionSniffer`), possibly binds the connection, and is given to the
sink (`log`). `agent`, `held` are the environment: a process the agent left
behind may hold its pipes. The main task waits for the agent, then for the two
output pumps, aborts the input pump, logs the exit, flushes and exits with the
code `ReportedCode`.

## Runs

| run | shows | bounds |
| --- | --- | --- |
| `turns_safety` | slots, history, files, the client's idea of the mode; refinement of `TurnSlot` | 1 session, 2 turns, 1 load or resume, 2 model requests per turn, batches of 2 calls, 1 crash or I/O error |
| `turns_live` | a cancelled turn ends | the same without mode switches |
| `session_meta` | listing, title, cost, options | 1 session, 2 turns of 2 and 1 replies, 1 load, 1 change of an option, 1 crash, 2 models of which one may be missing after a restart |
| `conversation` | the six properties of a request and a replay | 6 messages of length 1 or 4, up to 2 calls, budget 9 |
| `tool_calls` | consent, Plan mode, terminals, diffs, cancellation | 1 session, the four modes, selected by the user at any time, and exit_plan_mode; clients that serve everything, reads only, writes only |
| `reply_stream` | delivery, assembly, charge, cancellation; refinement of `ModelReply` | 5 answers of up to 3 chunks (plain with two usage reports, two interleaved calls, cut off, a call without a name, a model without a known context window), 2 connections |
| `serve_log` | counting, flush, sweeps, exit | 1 connection, 1 session besides an old log, queue of 2, 2 records kept, 1 error, 1 pause, 2 events |
| `proxy` | output, lines, sessions, status, exit | 2 clients (two session/new and an open end; session/load and a closed one), 3 messages and a complaint of which the agent writes 2, lines of 1 or 2 cells with a cap of 1, 2 statuses, 1 pump that fails |
| `single_turn`, `cycle_resumes`, `conversation_calls`, `edit_span` | violated: see below | |

Why the bounds are enough. Sessions share nothing in the store but the mutex, so
one session shows all interleavings of requests for it; two turns are what it
takes for one to run while another is refused, or over a displaced one. One load
at a time can be read before and inserted after any step of a turn, and may be
repeated. Two model requests per turn give a first save that later saves build
on, and a stream that is not the first. One crash or I/O error can hit every
write; what matters after it is the load and the next save, which follow in the same run. A
reply is an answer or a batch of exit_plan_mode (outside Plan mode a call like
any other) and another call, so that the client can select a mode, close or
cancel between the call and the end of the batch. In `conversation` a cycle of a
call and a large result exceeds half of the budget, so every budget decision has
both outcomes, with and without the Plan instruction in front. In `tool_calls` a
client that serves neither reads nor writes is the case of a client that serves
reads only with the sides exchanged; what differs (no waits) only removes steps,
and the theorems cover every client. In `reply_stream` two connections are one
reconnect, at every position. In `serve_log` MaxEvents bounds what is read,
sent, traced, deleted and run together; answers to session/new and the mapping
records come on top, enough to overflow a queue of 2, evict a file and end the
process with the queue full. In `proxy` a line of 2 cells exceeds the cap and
one of 1 cell does not, and two outputs are an answer overtaking or following
another message.

Deadlock is checked in `conversation` and the two runs of `ToolCalls`. The other
systems may really stop: the bounded instance of `SessionTurns` and
`SessionMeta` when its only session is gone and every prompt was answered, a
stream, a process and a proxy when they have ended.

Fairness. `SessionTurns` gives every prompt task weak fairness for what it can
do on its own: its future is polled again when its await is ready, a cancelled
token wakes a stream, and a tool call returns. No fairness for replies: the
model may be silent for ever, and so cancellation must do without it. That a
tool call returns is an assumption there and looked at in `ToolCalls`: the
client answers file and terminal requests except the wait for a command, and
answers a permission request once the turn is cancelled, as the protocol asks;
commands and MCP servers owe nothing. `CancelledCallEnds` then says that only
local commands and MCP calls can hold a cancelled turn up, neither of which
looks at the token. `ReplyStream` polls both tasks for steps that need nothing
from the provider. `ServeLog` runs the writer thread and the main task, and
lets local commands end, without which the runtime would wait for them at the
exit. `Proxy` polls the pumps and the main task, lets the client take what is
written to it or close, and lets whatever the agent left behind end: the
comment at `src/proxy.rs:188-189` takes it for granted that the agent's exit
closes its pipes, which is so only when no descendant holds them. The agent
itself owes nothing.

## What the code does otherwise than its docs say

Four are runs that TLC finds violated; the trace is the scenario.

* `single_turn`: `session/load` or `session/resume` over a running turn inserts
  a record with an empty slot, and the next prompt begins a second turn;
  `begin_turn` is documented to refuse it.
* `cycle_resumes`: message and newline are written separately and appended
  blindly. After a crash between the two the file still loads; after a resume
  the next save joins two messages on one line and the session can not be
  loaded again.
* `conversation_calls`: a reply that was cut off behind its tool calls is saved
  with the calls, and every later request carries them unanswered.
* `edit_span`: edit_file writes the text computed before the permission wait and
  takes back what others changed in the file meanwhile.

Others were met while modelling. The models have the steps, and the properties
leave these cases out by name.

* The transition of exit_plan_mode is applied when the call runs and again at
  the end of the batch (`src/turn.rs:474`), over a mode selected in between,
  though `session/set_mode` "switches posture live" (`README.md:274`).
  exit_plan_mode asks nobody (`src/tools/execution/mod.rs:276-311`), so after a
  Plan turn edits pass that the user has consented to neither by an answer nor
  by a mode; `BuiltinsGranted` allows just these, and no command.
* The first message of a request is exempt from the budget
  (`src/turn.rs:93-101`): if it is larger than the budget the request does not
  fit, though `src/turn.rs:74-76` says that it "fits within the byte budget".
  No message of the run is that large; `FitsBudget` says what holds for any.
  And in Plan mode the first message, which is always kept,
  is the instruction (`src/turn.rs:255`), so the oldest message of the session
  is cut like any other.
* After a dropped connection the SSE client asks again by itself, and
  `src/llm/stream.rs:57-59` only logs a warning: the answer comes again behind
  what was forwarded, and the turn takes a reply that has its text twice.
  `KeepsContract` leaves it out (`spoiled`); that it is charged once and nothing
  is lost or swapped holds there, too.
* MCP tools run without a permission request outside Plan mode
  (`src/mcp.rs:68`), against `src/mcp.rs:28-29` and `README.md:283`.
* A client that serves reads but not writes, or writes but not reads, makes
  edit_file read on one side and write on the other: unsaved text in the editor
  is lost without any race (`src/tools/execution/mod.rs:534`).
* When the save behind exit_plan_mode fails the turn ends before the client
  hears of the new mode (`diverged` excludes it).
* A reply that was cancelled with a half-received tool call ends the turn with
  an error, not as cancelled (`src/turn.rs:695`). A failed usage notification
  fails a turn that has been charged, and no cost is counted when neither the
  API nor the table knows the context window.
* Frames of `serve` carry no session id and go to the session bound last, so
  with two sessions they mix (`src/main.rs:376`, against
  `src/logsink.rs:710-712` and `README.md:187`). session/load and session/resume
  never bind the connection of `serve`, and the proxy does not bind on
  session/resume.
* The mapping record is dropped like any other when the queue is full, though
  the two halves "can always be stitched back together"
  (`src/logsink.rs:24-27`). Write errors and sweep errors share a counter. After
  session/delete the writer goes on writing into the removed file and counts the
  records as written.
* What a pump of the proxy passed on of its last chunk before a write or flush
  failed (`src/proxy.rs:276-277`), and the line it held, is not in the log.
* The proxy forwards a chunk before it sniffs its copy, so an answer may
  overtake the record of its request; and an agent that uses the same id for a
  request of its own consumes the pending one. `NewSessionsFound` excludes
  both. Two pumps that bind at once may leave another mapping record last than
  the binding. A line over the cap is logged in pieces, with an empty record
  when the newline falls right behind a piece.
* A replay shows every call as completed, unanswered ones with an empty output.
* Options that were selected are lost on close or crash unless a turn saved
  them; a max_tokens that is not on offer is accepted.

## Theorems

All are about `Spec` for any constants the modules' assumptions allow.

* `SessionTurns_proofs!TypeCorrect`: `[]TypeOK`. The invariant proved,
  `TypeInv`, adds `WorkLeft`: a task about to write has a message left to
  write, and one that runs a batch has a call left, without which `Head` and
  `Tail` have no type.
* `SessionTurns_proofs!SlotCorrect`: `[](SlotHolderRuns /\ RunningHoldsSlot)`.
  `SlotInv` adds to both that a turn was received for a session that was given
  out (`UsedSessions`), so that a fresh session has no turn on it: without that
  a new record could be inserted under a running turn. The two properties need
  each other: a slot is emptied by the turn that ends, which is its holder only
  because a running turn holds the slot; and a turn takes a slot that is free,
  which means no other runs only because holders run.
* `SessionTurns_proofs!SlotRefinement`: `SlotPromise`, the refinement of
  `TurnSlot` under the mapping that takes a turn to the session it runs on. The
  proof goes action by action; each is a `Take`, a `Release`, a `Displace`, a
  `Heal`, a `Restart`, or leaves the abstract variables alone.
* `SessionTurns_proofs!SlotExclusive`: `[]Slot!Exclusive`. The abstract
  specification excludes two turns on one session by an invariant of its own,
  `SlotHeld`, and the refinement carries it over to the store.
* `SessionTurns_proofs!FilesCorrect`, `CyclesSaved`: `[]DiskMatchesMemory` and
  `[]CycleOnDisk`. The first says three things: outside a save record and file
  hold the same messages; a file is readable unless it was interrupted; the
  files of a deleted session stay away. `FilesInv` has the last two:
  a turn that writes has a live record (`WritersLive`), whose directory was not
  removed (`StaysDeleted`), and a file is whole where it was not interrupted
  (`Whole`): unterminated only while a task is about to write the newline.
  For the first, `HistoryInv` adds to `SlotInv`, for a session that is neither
  displaced nor diverged, what is in the file at every place inside a save
  (`TurnSaved`: file and what is left to write are the turn's messages), that
  one task saves at a time (`OneSaves`) and that ids never given out have no
  files (`KnownIds`). The properties alone are not inductive: they are silent
  during a save, and it is the save that could break them.
* `SessionTurns_proofs!ModeCorrect`: `[]ClientKnowsMode`, from `TurnMode` in
  the same invariant: a save behind exit_plan_mode ends with the notification
  of the mode that was set for the second time before it.
* `SessionTurns_proofs!HistoriesGrow`: `HistoryOnlyGrows`. The record's history
  is a prefix of the turn's messages as long as the turn has not ended, so what
  replaces it extends it; a load replaces it by the file, which equals it.
* `SessionMeta_proofs!ListCorrect`, `TitleCorrect`, `CostCorrect`,
  `SavesCurrentRecord`: `[]SavedStaysListed`, `[]TitleKept`,
  `[]SavedRepliesPaid` and `MetaIsRecord`. `MetaInv` says of every session that
  what a save is about to write is the record (`SavesRecord`), that memory, file
  and loads in flight agree on its directory (`OneHome`) and title (`OneTitle`),
  and that costs cover the messages at each of the places they are kept
  (`RepliesPaid`). A save that fails leaves messages in the file that the record
  does not have and the next save writes again, so it is not enough that the
  record has paid for its own messages: it has paid for the file (`LivePaid`)
  and for what the turn would add to the file (`TurnPaid`). `MetaTyped` is the
  type invariant. Costs are sums over sequences: `Paid` is a fold, and what it
  adds for one more message is proved once, by an induction over natural numbers
  (`Sums`).
* `ReplyStream_proofs!FlightComplete`, `ChargeRight`, `CallsComplete`,
  `ContractKept`: `[]NothingLostInFlight`, `[]ChargedOnce`, `[]CallsAssembled`
  and `KeepsContract`, the refinement of `ModelReply`. `InFlight` has two cases:
  everything parsed is on its way, or the task has ended with an error behind
  the rest. `Faithful` says that, as long as the transport spoiled nothing, what
  was parsed is what the current connection streamed: with `sawFinish` seen at
  the end of an answer that makes a whole answer of a reply. An update changes
  the call of its index only, and there what it gives (`PushMeans`); that what
  is put together agrees with what was given is an induction over the events
  (`CallsPut`).
* `Proxy_proofs!NothingIsCutOff`, `MappingComesFirst`, `CrashesShow`:
  `[]NothingCutOff`, `[]MappingFirst`, `[]CrashShows`; `ProxyTyped` is the type
  invariant. `Drain` says what a pump that has closed must have passed on and
  that the main task reports only after both output pumps are over; `Mapped`
  follows the binding of a session through the two pumps, either of which may
  be between the mapping record and the binding.
* `Proxy_proofs!LinesComplete`: `[]LinesKept`: what a running pump passed on is
  logged or in its hands, what a closed one passed on is logged, and of one that
  broke off the log has a part from the beginning. `LinesInv` accounts for what
  each pump has passed on: the records and what is pending spell it (`Spelt`),
  and a message that fits is a record when its line has ended and all that is
  pending when it has not (`Kept`), which is why a cut at the cap never goes
  through one. `SplitKeeps` is the induction over the cells of a chunk; that
  client and agent write whole lines (`WholeLines`) is part of the invariant.
* `Proxy_proofs!NewSessionsAreFound`: `[]NewSessionsFound`. `FoundInv` says that
  a request that was observed is remembered until its id is taken by an answer
  (`Pended`), that an observed message of the agent is logged or on its way to
  the queue (`Settled`), and that the record of an answer has the session the
  answer made (`Attributed`). Behind an answer's record one has to find the one
  observation it came from: an agent message begins once in what was written
  (`Once`), hence once among the lines, hence once among the records. Client and
  agent may send the same message; only an id the agent uses twice is excluded.
* `Conversation_proofs!ConversationSound`: `[]ConvInv`, the invariant all
  theorems about requests rest on. A conversation begins with a prompt, a result
  stands behind its call with only results in between (`Paired`), message `i`
  knows that it is the `i`-th, and the ids of its calls lie in a range of its
  own (`Placed`), so that no two replies share an id.
* `Conversation_proofs!RequestPaired`: `[]PairsKept`. By induction over the
  conversation, `group_tool_call_units` cuts it into units: a reply with the
  results of its own calls, and no two units that share a call (`Grouped`). So
  whatever units the walk keeps, `validate_tool_results` drops nothing, and a
  call that is kept has its results with it. `sanitize_conversation` joins only
  messages that neither call nor answer: the calls a result may still stand
  behind stay open (`OpenCalls`, `Repaired`).
* `Conversation_proofs!RequestInOrder`, `RequestFits`, `RequestShape`:
  `[]NothingLost`, `[]FitsBudget`, `[]ProviderShape`. The walk goes backwards
  over the units; what it has left and what it keeps add up to the budget
  (`WalkKeeps`), and what it keeps rises as the conversation does
  (`WalkInOrder`). Repairing keeps the positions of all that is not an empty
  answer (`SanitizeOrigins`). The shape holds of any list of messages
  (`RequestShaped`).
* `Conversation_proofs!RequestKeepsNewest`: `[]NewestGroupsKept`. The reference
  chooses a set of units by what it satisfies: a unit is in it iff it fits
  behind the newer ones that are. `ReferenceRight` shows that there is such a
  set, by induction from the newest unit; `WalkIsReference` that the walk of
  `filter_messages_truncate` keeps the units of any such set, and no others.
* `Conversation_proofs!ReplayCorrect`: `[]ReplayIsConversation`. `ReplayInv`
  says that the updates of the messages, put behind one another, carry the texts
  of the messages, and that no two results answer one call. A turn adds a block:
  a reply, and results for the ids of just this reply (`Fresh`), so what was told
  before stays as it was and the block's own calls find their own results
  (`ToldGrows`). `Each` in `SequenceLemmas` is the sequence that each element of
  another stands for, with what it does to one element more and to two sequences.
* `ToolCalls_proofs!ConsentNeeded`, `PlanTurnSafe`, `TerminalsSafe`:
  `[]BuiltinsGranted`, `[]PlanTurnTouchesNothing`, `[](TypeOK /\
  TerminalsReleased)`, from one invariant. Consent is the user's: an answer, an
  allow-always given since the record was inserted, or a mode the user selected
  that was live when the check was made; a mode that exit_plan_mode set counts
  for edits only. It adds `OnlyAnswersKept` (the allow-always set holds only
  what the user allowed for good since the record was inserted) and `ReadKnows`
  (edit_file is checked after its read, with the mode and permissions of that
  moment): without the first a remembered permission proves no consent, without
  the second one found after the read.
* `ToolCalls_proofs!DiffsExact`: `DiffsAreExact`, from `FreshText`: as long as
  nobody changed the file, a call holds the text of the side it read. Only
  three actions read; all others leave the text or the call alone. Of edit_file
  with a client that serves one side only it says no more than that.
* `ServeLog_proofs!NoSilentLoss`, `FlushWaits`, `FramesOut`,
  `SweepsKeepHandles`: `[]LossesCounted`, `[]FlushDrains`,
  `[]NoFrameLeftBehind`, `[]VanishOnlyDeleted`, for any capacity and any number
  of sessions, events and errors. The invariant adds the types of what is
  routed and `LateAreTraces`: there is one flush, it is asked for after the
  select, and what is queued behind it are trace events. Without it a record
  could be behind the flush and in front of the exit.
* `ServeLog_proofs!NewestStay`: the action property `NewestLogsKept`, for any
  number of files and any limit. `FilesInv` has two parts. `Filed` says that the
  order holds the files there are, and that the numbers of their last records
  rise along it. `Numbered` says that records in the queue rise, too, and come
  after all that was written: without it a record could be put behind a newer
  one, and the file written last would not be the newest. `EvictedInTurn` finds
  the place of a victim and of a file that stays; `RestFits` shows that what is
  left when all victims are gone is the part that was found to fit. Both rest on
  what filtering does (`Those`, a fold): it keeps the order, filtering twice is
  filtering by both sets, and two parts are filtered one behind the other.

The proofs rest on `TurnsAssumption`, `MetaAssumption`,
`ConversationAssumption`, `ToolsAssumption`, `StreamAssumption`,
`HandleAssumption`, `SinkAssumption`, `ServeAssumption` and `ProxyAssumption`
only, which TLC evaluates in the runs. `TurnSlot` states what its values have to
satisfy as `Distinct`, which follows from `TurnsAssumption` for the values
`SessionTurns` gives it.

Recursion and induction. The prover has no induction rule with a formula as a
parameter, so `SequenceLemmas` proves one for sets of numbers (`SetInduction`,
from the least number that is missing) and from it that a function defined by
recursion over 0..n exists (`Recursion`); what is proved by induction is stated
as a set of numbers, and what is proved by induction over a sequence as a set
of sequences (`SeqInduction`). The library's `FoldLeft` goes over sets of
positions; `FoldTable`, `ChainTyped` and `ChainGrows` show what one element more
does to it. For that reason the four loops of `Conversation` are folds over
sequences, with a step that is an operator of its own, `Those` of `LogSink` is
a fold and no `SelectSeq` (which the library defines by a local recursion), and
`LineSplitter::push` is a recursive function in `Proxy`.

Only model-checked: liveness (`CancelledTurnEnds`, `CancelledCallEnds`,
`CancelEndsBoth`, `StopEnds`, `AgentExitEnds`), because the prover has no rule
for fairness here. Every invariant and every action property of a passing run
is proved.

## Plan

1. Done: the modules above and their runs, and the theorems listed.
2. Open: a proof of liveness, if the prover learns to do it, and the hazards
   that are listed without a property.

## Not modelled

Formats and wording (JSON, titles, notifications, error texts, redaction), id
and path validation, directory listing, glob, grep and output truncation (pure
functions), the price table, the order of session/list, timestamps,
configuration from the environment, smoke tests and fixtures. Session ids are
UUIDs and never reused. The Plan instruction is one message of the smallest
length. Names of MCP tools and their collisions: a call is one kind of tool.
session/delete is atomic in `SessionMeta`; SessionTurns has the torn lines of a
history. A refused load (another working directory) changes nothing and is left
out. A log queue of capacity 0, failing spawn or wait of the proxy and its
launch record are left out, and so is a read error on the incoming side of
`serve` (`src/main.rs:374`), which is not logged and goes to the protocol
library. Log files written at the same time stamp are taken in the order they
were written.
