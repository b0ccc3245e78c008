---------------------------- MODULE SessionTurns ----------------------------
(***************************************************************************)
(* The core of the adapter: the in-memory session store, the prompt turns  *)
(* that work on it, the files a session is saved to, and the requests that *)
(* create, close, delete, load and resume sessions meanwhile.              *)
(*                                                                         *)
(* Every request that can await (prompt, load, resume) is a task, here an  *)
(* element of Turns or Restores; the others are one action each.  The      *)
(* tasks of a connection take turns at their await points.  Between two    *)
(* awaits a task is cut into several steps only because the process can    *)
(* die there, with some of the writes of a save done and others not.       *)
(***************************************************************************)
EXTENDS Naturals, SequencesExt

CONSTANTS
  Sessions,         \* session ids
  Turns,            \* session/prompt requests, each received at most once
  Restores,         \* session/load and session/resume requests in flight
  Replies,          \* what the model may answer: [calls, finish] records
  ClientModes,      \* modes the client may select
  MaxTurnRequests,  \* model requests per turn (--max-turn-requests)
  MaxFaults,        \* bound: how often the process dies or a save meets an I/O error
  NoTurn, NoSession, NoMode

Modes == {"ask", "acceptEdits", "plan", "yolo"}
Tools == {"exit_plan_mode", "other"}
Finishes == {"tool_calls", "stop"}

ASSUME TurnsAssumption ==
  /\ NoTurn \notin Turns /\ NoSession \notin Sessions /\ NoMode \notin Modes
  /\ Replies \subseteq [calls : Seq(Tools), finish : Finishes]
  /\ ClientModes \subseteq Modes
  /\ MaxTurnRequests \in Nat \ {0} /\ MaxFaults \in Nat

VARIABLES
  \* AdapterState.sessions
  live,       \* ids with a record in memory
  slot,       \* slot[s]: the turn whose token is in active_turn, or NoTurn
  mode,       \* mode[s]
  history,    \* history[s]
  \* the prompt tasks
  pc,         \* pc[t]: where the task of turn t stands
  on,         \* on[t]: the session of the request
  cancelled,  \* running turns whose CancellationToken is cancelled
  task,       \* task[t]: the locals of handle_prompt_request and run_prompt_turn
  \* the load and resume tasks, and the session directories
  restore,    \* restore[r]: the record read from disk, until it is inserted
  disk,       \* disk[s]: meta.json and history.jsonl
  \* bookkeeping for the properties and the bounds
  used,       \* ids ever given out
  displaced,  \* sessions whose record went or was replaced under a turn
  diverged,   \* sessions whose record and file part for another known reason
  told,       \* told[s]: the mode the client was last told, NoMode: it is gone
  interrupted,\* sessions whose file holds an append that was cut short
  deleted,    \* sessions deleted, and not loaded again by a request under way
  faults

storeVars == <<live, slot, mode, history>>
turnVars == <<pc, on, cancelled, task>>
ghostVars == <<used, displaced, diverged, told, interrupted, deleted, faults>>
vars == <<storeVars, turnVars, restore, disk, ghostVars>>

(***************************************************************************)
(* Messages keep what the properties tell apart: role, the turn that made  *)
(* them, how many tool calls an assistant message makes, and whether the   *)
(* turn went on to run them.                                               *)
(***************************************************************************)
Message == [role : {"user", "assistant", "tool"}, turn : Turns,
            calls : Nat, ran : BOOLEAN]

UserMessage(t) == [role |-> "user", turn |-> t, calls |-> 0, ran |-> FALSE]
ToolResult(t) == [role |-> "tool", turn |-> t, calls |-> 0, ran |-> FALSE]
RunsTools(reply) == reply.finish = "tool_calls" /\ reply.calls # <<>>
AssistantMessage(t, reply) ==
  [role |-> "assistant", turn |-> t, calls |-> Len(reply.calls), ran |-> RunsTools(reply)]

NewTask == [messages |-> <<>>, batch |-> <<>>, pending |-> NoMode,
            left |-> 0, last |-> FALSE, meta |-> NoMode, todo |-> <<>>]
NoFiles == [meta |-> NoMode, lines |-> <<>>, open |-> FALSE, corrupt |-> FALSE]
IdleRestore == [session |-> NoSession, meta |-> NoMode, lines |-> <<>>]

SavePCs == {"meta", "body", "newline", "commit"}
(* Where a task stands between two awaits.  The tasks of a connection are  *)
(* polled by one future, so no other task runs until it awaits again.      *)
SyncPCs == {"save", "clear"} \union SavePCs
ActivePCs == {"stream", "batch"} \union SyncPCs
AtAwait == \A t \in Turns : pc[t] \notin SyncPCs
Running(s) == {t \in Turns : on[t] = s /\ pc[t] \in ActivePCs}

-----------------------------------------------------------------------------
Init ==
  /\ live = {} /\ used = {} /\ displaced = {} /\ diverged = {} /\ faults = 0
  /\ interrupted = {} /\ deleted = {}
  /\ cancelled = {}
  /\ slot = [s \in Sessions |-> NoTurn]
  /\ mode = [s \in Sessions |-> "ask"] /\ told = [s \in Sessions |-> "ask"]
  /\ history = [s \in Sessions |-> <<>>]
  /\ disk = [s \in Sessions |-> NoFiles]
  /\ pc = [t \in Turns |-> "idle"]
  /\ on = [t \in Turns |-> NoSession]
  /\ task = [t \in Turns |-> NewTask]
  /\ restore = [r \in Restores |-> IdleRestore]

(* The client learns a mode from an answer or a notification.              *)
Tell(s, m) == told' = [told EXCEPT ![s] = m]

(***************************************************************************)
(* Requests on the store.                                                  *)
(***************************************************************************)
InsertRecord(s, m, h) ==
  /\ live' = live \union {s}
  /\ slot' = [slot EXCEPT ![s] = NoTurn]
  /\ mode' = [mode EXCEPT ![s] = m]
  /\ history' = [history EXCEPT ![s] = h]

RemoveRecord(s) ==
  /\ live' = live \ {s}
  /\ slot' = [slot EXCEPT ![s] = NoTurn]
  /\ mode' = [mode EXCEPT ![s] = "ask"]
  /\ history' = [history EXCEPT ![s] = <<>>]
  /\ displaced' = IF Running(s) = {} THEN displaced ELSE displaced \union {s}

(* session/new: a fresh id, an empty record in Ask mode. *)
NewSession(s) ==
  /\ AtAwait
  /\ s \notin used
  /\ used' = used \union {s}
  /\ InsertRecord(s, "ask", <<>>)
  /\ Tell(s, "ask")
  /\ UNCHANGED <<turnVars, restore, disk, displaced, diverged, interrupted, deleted,
                 faults>>

(* session/close: the record goes; a turn that runs on it is not told. *)
CloseSession(s) ==
  /\ AtAwait
  /\ s \in live
  /\ RemoveRecord(s)
  /\ UNCHANGED <<turnVars, restore, disk, used, diverged, told, interrupted, deleted,
                 faults>>

(* A bug: the empty slot is taken for a token. *)
CancelAnySlot(s) == cancelled' = cancelled \union {slot[s]}

CancelToken(s) == cancelled' = cancelled \union ({slot[s]} \ {NoTurn})

(* session/delete: cancels the active turn, drops the record and the files. *)
DeleteSession(s) ==
  /\ AtAwait
  /\ s \in live \/ disk[s] # NoFiles
  /\ CancelToken(s)
  /\ RemoveRecord(s)
  /\ disk' = [disk EXCEPT ![s] = NoFiles]
  /\ deleted' = deleted \union {s} /\ interrupted' = interrupted \ {s}
  /\ UNCHANGED <<pc, on, task, restore, used, diverged, told, faults>>

(* session/cancel. *)
CancelTurn(s) ==
  /\ AtAwait
  /\ s \in live
  /\ CancelToken(s)
  /\ UNCHANGED <<storeVars, pc, on, task, restore, disk, ghostVars>>

(* session/set_mode, and the mode option of session/set_config_option. *)
SetMode(s, m) ==
  /\ AtAwait
  /\ s \in live
  /\ mode' = [mode EXCEPT ![s] = m]
  /\ Tell(s, m)
  /\ UNCHANGED <<live, slot, history, turnVars, restore, disk,
                 used, displaced, diverged, interrupted, deleted, faults>>

(***************************************************************************)
(* session/load and session/resume: read the files, await the MCP servers, *)
(* insert what was read.                                                   *)
(***************************************************************************)
(* read_history refuses a file with a line that does not parse.            *)
Readable(s) == ~disk[s].corrupt

ReadRecord(r, s) ==
  /\ AtAwait
  /\ restore[r] = IdleRestore
  /\ disk[s].meta # NoMode /\ Readable(s)
  /\ restore' = [restore EXCEPT ![r] =
       [session |-> s, meta |-> disk[s].meta, lines |-> disk[s].lines]]
  /\ UNCHANGED <<storeVars, turnVars, disk, ghostVars>>

ConnectFails(r) ==
  /\ AtAwait
  /\ restore[r] # IdleRestore
  /\ restore' = [restore EXCEPT ![r] = IdleRestore]
  /\ UNCHANGED <<storeVars, turnVars, disk, ghostVars>>

InsertRestored(r) ==
  LET s == restore[r].session IN
  /\ AtAwait /\ s # NoSession
  /\ InsertRecord(s, restore[r].meta, restore[r].lines)
  /\ Tell(s, restore[r].meta)
  /\ restore' = [restore EXCEPT ![r] = IdleRestore]
  /\ displaced' = IF Running(s) = {} THEN displaced \ {s} ELSE displaced \union {s}
  /\ diverged' = IF restore[r].lines = disk[s].lines THEN diverged \ {s}
                                                     ELSE diverged \union {s}
  /\ deleted' = deleted \ {s}
  /\ UNCHANGED <<turnVars, disk, used, interrupted, faults>>

-----------------------------------------------------------------------------
(***************************************************************************)
(* The prompt task.  The request is dispatched first and its task begins   *)
(* the turn later: a cancel between the two finds no token.                *)
(***************************************************************************)
ReceivePrompt(t, s) ==
  /\ AtAwait
  /\ pc[t] = "idle" /\ s \in used
  /\ pc' = [pc EXCEPT ![t] = "spawned"]
  /\ on' = [on EXCEPT ![t] = s]
  /\ UNCHANGED <<storeVars, cancelled, task, restore, disk, ghostVars>>

(* A bug: begin_turn does not look at the slot. *)
AnyLiveSession(s) == s \in live

CanBegin(s) == s \in live /\ slot[s] = NoTurn

(* The request ends with an error before the turn owns anything. *)
RefuseTurn(t) ==
  /\ AtAwait
  /\ pc[t] = "spawned" /\ ~CanBegin(on[t])
  /\ pc' = [pc EXCEPT ![t] = "done"]
  /\ UNCHANGED <<storeVars, on, cancelled, task, restore, disk, ghostVars>>

(* A bug: the turn starts from an empty conversation. *)
PromptOnly(s, t) == <<UserMessage(t)>>

(* The record's history is copied, and the prompt put behind it. *)
Conversation(s, t) == Append(history[s], UserMessage(t))

BeginTurn(t) ==
  LET s == on[t] IN
  /\ AtAwait
  /\ pc[t] = "spawned" /\ CanBegin(s)
  /\ slot' = [slot EXCEPT ![s] = t]
  /\ pc' = [pc EXCEPT ![t] = "stream"]
  /\ task' = [task EXCEPT ![t] =
       [NewTask EXCEPT !.left = MaxTurnRequests, !.messages = Conversation(s, t)]]
  /\ UNCHANGED <<live, mode, history, on, cancelled, restore, disk, ghostVars>>

(* A bug: an early return skips clear_active_turn. *)
Abandons(t) == pc' = [pc EXCEPT ![t] = "done"] /\ UNCHANGED task

(* Any early return on the way ends in clear_active_turn. *)
Ends(t) == pc' = [pc EXCEPT ![t] = "clear"] /\ UNCHANGED task

(* A bug: only the first model request of a turn watches the token. *)
FirstStreamSees(t) == t \in cancelled /\ task[t].left = MaxTurnRequests

(* A stream watches the token, and looks at it once more when it ends. *)
TokenSeen(t) == t \in cancelled

AfterReply(t, reply) ==
  [task[t] EXCEPT !.messages = Append(@, AssistantMessage(t, reply)),
                  !.batch = IF RunsTools(reply) THEN reply.calls ELSE <<>>,
                  !.last = ~RunsTools(reply)]

(* The stream ended with a reply. *)
StreamReply(t) ==
  /\ AtAwait
  /\ pc[t] = "stream" /\ ~TokenSeen(t)
  /\ \E reply \in Replies :
       /\ task' = [task EXCEPT ![t] = AfterReply(t, reply)]
       /\ pc' = [pc EXCEPT ![t] = IF RunsTools(reply) THEN "batch" ELSE "save"]
  /\ UNCHANGED <<storeVars, on, cancelled, restore, disk, ghostVars>>

(* What was streamed is dropped.  (A tool call cut off in the middle makes *)
(* the answer an error instead of "cancelled"; the turn ends all the same.) *)
StreamCancelled(t) ==
  /\ AtAwait
  /\ pc[t] = "stream" /\ TokenSeen(t)
  /\ Ends(t)
  /\ UNCHANGED <<storeVars, on, cancelled, restore, disk, ghostVars>>

(* The stream fails, or an update cannot be sent: the client is gone. *)
TurnFails(t) ==
  /\ AtAwait
  /\ pc[t] \in {"stream", "batch"}
  /\ Ends(t)
  /\ Tell(on[t], IF pc[t] = "batch" THEN NoMode ELSE told[on[t]])
  /\ UNCHANGED <<storeVars, on, cancelled, restore, disk,
                 used, displaced, diverged, interrupted, deleted, faults>>

ExitsPlanMode(t) ==
  Head(task[t].batch) = "exit_plan_mode" /\ on[t] \in live /\ mode[on[t]] = "plan"

AfterCall(t) ==
  [task[t] EXCEPT !.batch = Tail(@), !.messages = Append(@, ToolResult(t)),
                  !.pending = IF ExitsPlanMode(t) THEN "acceptEdits" ELSE @]

(* One call of the batch.  exit_plan_mode switches the live mode at once   *)
(* and leaves a transition for the end of the batch.  Nothing looks at the *)
(* token between two calls.                                                *)
RunToolCall(t) ==
  /\ AtAwait
  /\ pc[t] = "batch"
  /\ mode' = [mode EXCEPT ![on[t]] = IF ExitsPlanMode(t) THEN "acceptEdits" ELSE @]
  /\ task' = [task EXCEPT ![t] = AfterCall(t)]
  /\ pc' = [pc EXCEPT ![t] = IF Len(task[t].batch) = 1 THEN "save" ELSE "batch"]
  /\ UNCHANGED <<live, slot, history, on, cancelled, restore, disk, ghostVars>>

(* Two bugs: one message too many, or too few, is taken for saved. *)
AllButOldest(t) ==
  SubSeq(task[t].messages, Len(history[on[t]]) + 2, Len(task[t].messages))
AllButNewest(t) ==
  SubSeq(task[t].messages, Len(history[on[t]]) + 1, Len(task[t].messages) - 1)

(* What save_history appends: the messages past the record's history. *)
Unsaved(t) ==
  SubSeq(task[t].messages, Len(history[on[t]]) + 1, Len(task[t].messages))

(* The pending transition is set again; save_history then copies the meta  *)
(* data and the messages past the length of the record's history.          *)
StartSave(t) ==
  LET s == on[t]
      m == IF task[t].pending = NoMode THEN mode[s] ELSE task[t].pending
  IN
  /\ pc[t] = "save"
  /\ \/ /\ s \notin live
        /\ Ends(t)
        /\ UNCHANGED mode
     \/ /\ s \in live
        /\ mode' = [mode EXCEPT ![s] = m]
        /\ pc' = [pc EXCEPT ![t] = "meta"]
        /\ task' = [task EXCEPT ![t] = [task[t] EXCEPT !.meta = m, !.todo = Unsaved(t)]]
  /\ UNCHANGED <<live, slot, history, on, cancelled, restore, disk, ghostVars>>

NextWrite(todo) == IF todo = <<>> THEN "commit" ELSE "body"

(* The directory is created and meta.json replaced by a rename. *)
WriteMeta(t) ==
  /\ pc[t] = "meta"
  /\ disk' = [disk EXCEPT ![on[t]].meta = task[t].meta]
  /\ pc' = [pc EXCEPT ![t] = NextWrite(task[t].todo)]
  /\ UNCHANGED <<storeVars, on, cancelled, task, restore, ghostVars>>

(* One message is appended: first its JSON, then the newline.  JSON put    *)
(* behind a line that never got its newline makes a line that won't parse. *)
WriteBody(t) ==
  LET s == on[t] IN
  /\ pc[t] = "body"
  /\ disk' = [disk EXCEPT ![s] =
       [disk[s] EXCEPT !.lines = Append(@, Head(task[t].todo)), !.open = TRUE,
                       !.corrupt = @ \/ disk[s].open]]
  /\ pc' = [pc EXCEPT ![t] = "newline"]
  /\ UNCHANGED <<storeVars, on, cancelled, task, restore, ghostVars>>

WriteNewline(t) ==
  /\ pc[t] = "newline"
  /\ disk' = [disk EXCEPT ![on[t]].open = FALSE]
  /\ task' = [task EXCEPT ![t].todo = Tail(@)]
  /\ pc' = [pc EXCEPT ![t] = NextWrite(Tail(task[t].todo))]
  /\ UNCHANGED <<storeVars, on, cancelled, restore, ghostVars>>

(* A message written in part makes a line that won't parse. *)
Tear(file, torn) == [file EXCEPT !.corrupt = @ \/ torn]

(* An I/O error ends the turn; what was written stays written. *)
SaveFails(t) ==
  /\ faults < MaxFaults
  /\ faults' = faults + 1
  /\ pc[t] \in {"meta", "body", "newline"}
  /\ Ends(t)
  /\ \E torn \in {FALSE, pc[t] = "body"} :
       /\ disk' = [disk EXCEPT ![on[t]] = Tear(@, torn)]
       /\ interrupted' = IF torn \/ pc[t] = "newline" THEN interrupted \union {on[t]}
                                                     ELSE interrupted
  /\ diverged' = diverged \union {on[t]}
  /\ UNCHANGED <<storeVars, on, cancelled, restore, used, displaced, told, deleted>>

(* A bug: the transition is not reported. *)
ToldNothing(t) == UNCHANGED told

(* The client learns of a mode transition once the batch is saved. *)
TellTransition(t) ==
  Tell(on[t], IF task[t].pending = NoMode THEN told[on[t]] ELSE task[t].pending)

(* The record takes the turn's messages, and the loop goes on or ends. *)
CommitSave(t) ==
  LET goesOn == ~task[t].last /\ task[t].pending = NoMode /\ task[t].left > 1 IN
  /\ pc[t] = "commit"
  /\ history' = [history EXCEPT ![on[t]] = task[t].messages]
  /\ \/ ~goesOn /\ Ends(t)
     \/ /\ goesOn
        /\ task' = [task EXCEPT ![t].left = @ - 1]
        /\ pc' = [pc EXCEPT ![t] = "stream"]
  /\ TellTransition(t)
  /\ UNCHANGED <<live, slot, mode, on, cancelled, restore, disk,
                 used, displaced, diverged, interrupted, deleted, faults>>

(* clear_active_turn empties the slot whoever is in it; a session that is  *)
(* gone is no error here.  The answer is sent and the locals are gone.     *)
ClearTurn(t) ==
  /\ pc[t] = "clear"
  /\ slot' = [slot EXCEPT ![on[t]] = NoTurn]
  /\ pc' = [pc EXCEPT ![t] = "done"]
  /\ task' = [task EXCEPT ![t] = NewTask]
  /\ cancelled' = cancelled \ {t}
  /\ UNCHANGED <<live, mode, history, on, restore, disk, ghostVars>>

(***************************************************************************)
(* The process dies.  Memory and tasks are lost, the files stay; a message *)
(* whose JSON was being written may be left torn.                          *)
(***************************************************************************)
Crash ==
  /\ faults < MaxFaults
  /\ faults' = faults + 1
  /\ live' = {} /\ displaced' = {} /\ diverged' = {}
  /\ slot' = [s \in Sessions |-> NoTurn]
  /\ mode' = [s \in Sessions |-> "ask"]
  /\ history' = [s \in Sessions |-> <<>>]
  /\ restore' = [r \in Restores |-> IdleRestore]
  /\ pc' = [t \in Turns |-> IF pc[t] = "idle" THEN "idle" ELSE "done"]
  /\ task' = [t \in Turns |-> NewTask]
  /\ cancelled' = {}
  /\ \E torn \in SUBSET {t \in Turns : pc[t] = "body"} :
       /\ disk' = [s \in Sessions |->
            Tear(disk[s], \E t \in torn : on[t] = s)]
       /\ interrupted' = interrupted \union
            {on[t] : t \in torn \union {u \in Turns : pc[u] = "newline"}}
  /\ UNCHANGED <<on, used, told, deleted>>

(* The steps of a task that start from an await point. *)
AwaitStep(t) ==
  \/ RefuseTurn(t) \/ BeginTurn(t)
  \/ StreamReply(t) \/ StreamCancelled(t) \/ TurnFails(t)
  \/ RunToolCall(t)

(* The steps in between, which no other task gets into. *)
SyncStep(t) ==
  \/ StartSave(t) \/ WriteMeta(t) \/ WriteBody(t) \/ WriteNewline(t)
  \/ SaveFails(t) \/ CommitSave(t)
  \/ ClearTurn(t)

SessionStep(s) ==
  \/ NewSession(s) \/ CloseSession(s) \/ DeleteSession(s) \/ CancelTurn(s)
  \/ \E m \in ClientModes : SetMode(s, m)
  \/ \E t \in Turns : ReceivePrompt(t, s)
  \/ \E r \in Restores : ReadRecord(r, s)

RestoreStep(r) == ConnectFails(r) \/ InsertRestored(r)

Next ==
  \/ \E s \in Sessions : SessionStep(s)
  \/ \E r \in Restores : RestoreStep(r)
  \/ \E t \in Turns : AwaitStep(t) \/ SyncStep(t)
  \/ Crash

Spec == Init /\ [][Next]_vars

(***************************************************************************)
(* Fairness: a task that can go on does.  A tool call returns (the client  *)
(* answers, commands end).  The model owes no reply, but a cancelled       *)
(* stream is left.                                                         *)
(***************************************************************************)
Progress(t) ==
  \/ RefuseTurn(t) \/ BeginTurn(t) \/ StreamCancelled(t) \/ RunToolCall(t)
  \/ SyncStep(t)

FairSpec == Spec /\ \A t \in Turns : WF_vars(Progress(t))

-----------------------------------------------------------------------------
(***************************************************************************)
(* Properties.                                                             *)
(***************************************************************************)
TaskRecord ==
  [messages : Seq(Message), batch : Seq(Tools),
   pending : Modes \union {NoMode}, left : Nat, last : BOOLEAN,
   meta : Modes \union {NoMode}, todo : Seq(Message)]
FileRecord == [meta : Modes \union {NoMode}, lines : Seq(Message),
               open : BOOLEAN, corrupt : BOOLEAN]
RestoreRecord == {IdleRestore} \union
                 [session : Sessions, meta : Modes, lines : Seq(Message)]

(* Every variable keeps its type, and a turn that was received has a       *)
(* session to work on.                                                     *)
TypeOK ==
  /\ live \in SUBSET Sessions
  /\ slot \in [Sessions -> Turns \union {NoTurn}]
  /\ mode \in [Sessions -> Modes]
  /\ history \in [Sessions -> Seq(Message)]
  /\ pc \in [Turns -> {"idle", "spawned", "done"} \union ActivePCs]
  /\ on \in [Turns -> Sessions \union {NoSession}]
  /\ \A t \in Turns : pc[t] # "idle" => on[t] \in Sessions
  /\ cancelled \in SUBSET Turns
  /\ task \in [Turns -> TaskRecord]
  /\ restore \in [Restores -> RestoreRecord]
  /\ disk \in [Sessions -> FileRecord]
  /\ used \in SUBSET Sessions
  /\ displaced \in SUBSET Sessions /\ diverged \in SUBSET Sessions
  /\ told \in [Sessions -> Modes \union {NoMode}]
  /\ interrupted \in SUBSET Sessions /\ deleted \in SUBSET Sessions
  /\ faults \in Nat

(* A slot is never left to a turn that has ended, whatever way the turn    *)
(* ended and whatever happened to the session: no session is stuck with    *)
(* "already has an active turn" (clear_active_turn on every path).         *)
SlotHolderRuns ==
  \A s \in Sessions : slot[s] # NoTurn => slot[s] \in Running(s)

(* Unless the record was dropped or replaced under it, a running turn      *)
(* holds the slot of a live session: the session has no second turn, and   *)
(* session/cancel reaches this one.                                        *)
RunningHoldsSlot ==
  \A s \in Sessions \ displaced : \A t \in Running(s) : s \in live /\ slot[s] = t

(* Outside a save, the messages of a record are those of history.jsonl     *)
(* (save_history appends past the old length only, so one lost or doubled  *)
(* message would stay for good).  read_history takes the file, whatever    *)
(* was saved, closed, loaded and reloaded meanwhile: only an append that a *)
(* crash or an I/O error cut short can make it unreadable (what happens    *)
(* then is SavedCycleResumes).  And the files of a deleted session do not  *)
(* come back by a turn that was running on it.                             *)
Saving(s) == \E t \in Running(s) : pc[t] \in SavePCs
DiskMatchesMemory ==
  /\ \A s \in live \ (displaced \union diverged) :
       ~Saving(s) => disk[s].lines = history[s]
  /\ \A s \in Sessions \ interrupted : Readable(s)
  /\ \A s \in deleted : disk[s] = NoFiles

(* While a turn waits for a later model request, everything the turn has   *)
(* said and done so far is in the file ("history up to this point is       *)
(* already on disk", run_prompt_turn).                                     *)
CycleOnDisk ==
  \A s \in Sessions \ (displaced \union diverged) : \A t \in Running(s) :
    pc[t] = "stream" /\ task[t].left < MaxTurnRequests
      => disk[s].lines = task[t].messages

(* A live, undisturbed session never forgets: no step of any task shortens *)
(* or rewrites its history.                                                *)
Undisturbed(s) == s \in live /\ s \notin displaced /\ s \notin diverged
HistoryOnlyGrows ==
  [][\A s \in Sessions : Undisturbed(s) /\ Undisturbed(s)'
       => IsPrefix(history[s], history[s]')]_vars

(* The client knows the mode of a session.  exit_plan_mode switches it     *)
(* under the turn and the batch may switch it back and forth with the      *)
(* client's own choice, but once the batch is saved, record and client     *)
(* agree (emit_mode_transition_notifications); unless the record was       *)
(* displaced or the save failed.                                           *)
Switching(s) == \E t \in Running(s) :
  task[t].pending # NoMode /\ pc[t] \in {"batch", "save"} \union SavePCs
ClientKnowsMode ==
  \A s \in live \ (displaced \union diverged) :
    ~Switching(s) => told[s] \in {mode[s], NoMode}

(* A cancelled turn ends, without the model's help.                        *)
CancelledTurnEnds == \A t \in Turns : t \in cancelled ~> pc[t] = "done"

(* The store keeps the promise of TurnSlot.                                *)
ActiveOn == [t \in Turns |-> IF pc[t] \in ActivePCs THEN on[t] ELSE NoSession]
Slot == INSTANCE TurnSlot WITH holder <- slot, running <- ActiveOn
SlotPromise == Slot!Spec

(* What the docs say and the code does not keep.                           *)

(* begin_turn "returns an error if a turn is already active".              *)
SingleActiveTurn ==
  \A s \in Sessions : \A t1, t2 \in Running(s) : t1 = t2

(* "If the process crashes during the next LLM stream, history up to this  *)
(* point is already on disk and can be resumed" (run_prompt_turn).         *)
SavedCycleResumes ==
  \A s \in Sessions \ (displaced \union diverged) : \A t \in Running(s) :
    pc[t] = "stream" /\ task[t].left < MaxTurnRequests => Readable(s)
=============================================================================
