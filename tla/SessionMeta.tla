----------------------------- MODULE SessionMeta -----------------------------
(***************************************************************************)
(* What a session is known by besides its conversation: title, time of the *)
(* last activity, selected options and cost.  They live in the record      *)
(* (session.rs), are written to meta.json whenever a turn saves            *)
(* (session_store.rs), come back with session/load and session/resume, and *)
(* are what session/list shows (acp/mod.rs).                               *)
(*                                                                         *)
(* Tasks interleave at their awaits, as in SessionTurns; a save is cut     *)
(* short by a crash of the process or an I/O error only.  A history is the *)
(* sequence of its prompts and replies; SessionTurns has its torn lines.   *)
(***************************************************************************)
EXTENDS Integers, SequencesExt

CONSTANTS
  Sessions,
  Turns,        \* session/prompt requests, each received at most once
  Restores,     \* session/load and session/resume requests in flight
  Dirs,         \* working directories
  Prompt,       \* Prompt[t]: [shown, whole], its last text block and its whole text
  Offers,       \* the sets of models the provider may report at start-up
  DefaultModel, \* the default: in every offer
  Price,        \* what one reply of a model costs, 0 when it is not priced
  Caps,         \* values of the max_tokens option, Uncapped among them
  Uncapped,
  NoTitle, NewTitle, NoTime, NoMeta, Torn, NoOne,
  MaxReplies,   \* bound: replies of each turn
  MaxChanges,   \* bound: changes of an option
  MaxCrashes    \* bound: restarts of the process

Models == UNION Offers
Texts == (UNION {{Prompt[t].shown, Prompt[t].whole} : t \in Turns}) \ {NoTitle}
Meta == [cwd : Dirs, model : Models, cap : Caps, title : Texts \union {NoTitle, NewTitle},
         updated : Nat \union {NoTime}, cost : Nat]
Message == [text : Texts \union {NoTitle}, cost : Nat]  \* a reply has no text of its own
Record == [meta : Meta, history : Seq(Message), active : Turns \union {NoOne}]

ASSUME MetaAssumption ==
  /\ \A offer \in Offers : DefaultModel \in offer
  /\ Price \in [Models -> Nat] /\ Uncapped \in Caps
  /\ NewTitle \notin Texts /\ NoTitle # NewTitle
  /\ NoTime \notin Nat /\ NoOne \notin Sessions \union Turns
  /\ NoMeta # Torn /\ {NoMeta, Torn} \intersect Meta = {} /\ NoMeta \notin Record
  /\ MaxReplies \in [Turns -> Nat] /\ MaxChanges \in Nat /\ MaxCrashes \in Nat

VARIABLES
  available,  \* models discovered by this process
  live,       \* live[s]: the record, or NoMeta
  disk,       \* disk[s]: meta.json, meta.json.tmp and the history file
  turn,       \* turn[t]: where the task stands and its locals
  restore,    \* restore[r]: what was read, until it is inserted
  clock,      \* iso_timestamp_now: ticks when a turn begins
  changes, crashes,
  used,       \* ids ever given out
  saved,      \* sessions with a meta.json that nobody deleted
  stale       \* sessions a load may have set back: it overlapped a turn

ghosts == <<changes, crashes, used, saved, stale>>
vars == <<available, live, disk, turn, restore, clock, ghosts>>

NoFiles == [meta |-> NoMeta, tmp |-> NoMeta, lines |-> <<>>]
IdleTurn == [pc |-> "idle", on |-> NoOne, model |-> DefaultModel, cap |-> Uncapped,
             messages |-> <<>>, meta |-> NoMeta, left |-> 0]
IdleRestore == [on |-> NoOne, meta |-> NoMeta, lines |-> <<>>]

SyncPCs == {"save", "write", "first", "second"}
AtAwait == \A t \in Turns : turn[t].pc \notin SyncPCs
Running(s) == {t \in Turns : turn[t].on = s /\ turn[t].pc # "idle"}
Readable(m) == m \notin {NoMeta, Torn}

(***************************************************************************)
(* Titles: the last text block of the first prompt; where a record comes   *)
(* without one, the first prompt in the history.                           *)
(***************************************************************************)
DeriveSessionTitle(history) ==
  LET first == SelectInSeq(history, LAMBDA m : m.text # NoTitle) IN
  IF first = 0 THEN NewTitle ELSE history[first].text

PromptTitle(prompt, history) ==
  IF prompt.shown # NoTitle THEN prompt.shown
  ELSE DeriveSessionTitle(Append(history, [text |-> prompt.whole, cost |-> 0]))

(* A bug: every prompt names the session. *)
NamedByLast(record, prompt) == PromptTitle(prompt, record.history)

TitleAfter(record, prompt) ==
  IF record.meta.title = NoTitle THEN PromptTitle(prompt, record.history)
                                 ELSE record.meta.title

RestoredTitle(meta, lines) ==
  IF meta.title = NoTitle THEN DeriveSessionTitle(lines) ELSE meta.title

-----------------------------------------------------------------------------
(* The state directory may hold a session of an older version: no title,   *)
(* no time.                                                                *)
OldFiles(d, lines) ==
  [NoFiles EXCEPT !.meta = [cwd |-> d, model |-> DefaultModel, cap |-> Uncapped,
                            title |-> NoTitle, updated |-> NoTime, cost |-> 0],
                  !.lines = lines]

Init ==
  /\ available \in Offers
  /\ live = [s \in Sessions |-> NoMeta]
  /\ \E old \in SUBSET Sessions, d \in Dirs, t \in Turns :
       /\ \E lines \in {<<>>, <<[text |-> Prompt[t].whole, cost |-> 0]>>} :
            disk = [s \in Sessions |-> IF s \in old THEN OldFiles(d, lines) ELSE NoFiles]
       /\ saved = old /\ used = old
  /\ turn = [t \in Turns |-> IdleTurn]
  /\ restore = [r \in Restores |-> IdleRestore]
  /\ clock = 0 /\ changes = 0 /\ crashes = 0 /\ stale = {}

(* session/new: a fresh id. *)
NewSession(s, d) ==
  /\ AtAwait
  /\ s \notin used
  /\ used' = used \union {s}
  /\ live' = [live EXCEPT ![s] =
       [meta |-> [cwd |-> d, model |-> DefaultModel, cap |-> Uncapped,
                  title |-> NoTitle, updated |-> clock, cost |-> 0],
        history |-> <<>>, active |-> NoOne]]
  /\ UNCHANGED <<available, disk, turn, restore, clock, changes, crashes, saved, stale>>

(***************************************************************************)
(* session/set_config_option.  A model must be on offer or already         *)
(* selected; validation and assignment take the lock one after the other,  *)
(* but nothing is awaited between them.                                    *)
(***************************************************************************)
Selectable(s, m) == m \in available \/ m = live[s].meta.model

SetOption(s, m, c) ==
  /\ AtAwait
  /\ live[s] # NoMeta /\ changes < MaxChanges
  /\ changes' = changes + 1
  /\ \/ Selectable(s, m) /\ live' = [live EXCEPT ![s].meta.model = m]
     \/ live' = [live EXCEPT ![s].meta.cap = c]
  /\ UNCHANGED <<available, disk, turn, restore, clock, crashes, used, saved, stale>>

(* session/close and session/delete. *)
CloseSession(s) ==
  /\ AtAwait
  /\ live[s] # NoMeta
  /\ live' = [live EXCEPT ![s] = NoMeta]
  /\ UNCHANGED <<available, disk, turn, restore, clock, ghosts>>

DeleteSession(s) ==
  /\ AtAwait
  /\ live[s] # NoMeta \/ disk[s] # NoFiles
  /\ live' = [live EXCEPT ![s] = NoMeta]
  /\ disk' = [disk EXCEPT ![s] = NoFiles]
  /\ saved' = saved \ {s}
  /\ UNCHANGED <<available, turn, restore, clock, changes, crashes, used, stale>>

(***************************************************************************)
(* session/load and session/resume.                                        *)
(***************************************************************************)
ReadRecord(r, s) ==
  /\ AtAwait
  /\ restore[r] = IdleRestore /\ Readable(disk[s].meta)
  /\ restore' = [restore EXCEPT ![r] =
       [on |-> s, meta |-> disk[s].meta, lines |-> disk[s].lines]]
  /\ UNCHANGED <<available, live, disk, turn, clock, ghosts>>

ConnectFails(r) ==
  /\ AtAwait
  /\ restore[r] # IdleRestore
  /\ restore' = [restore EXCEPT ![r] = IdleRestore]
  /\ UNCHANGED <<available, live, disk, turn, clock, ghosts>>

InsertRestored(r) ==
  LET s == restore[r].on  meta == restore[r].meta IN
  /\ AtAwait /\ s # NoOne
  /\ live' = [live EXCEPT ![s] =
       [meta |-> [meta EXCEPT !.title = RestoredTitle(meta, restore[r].lines),
                              !.updated = IF @ = NoTime THEN clock ELSE @],
        history |-> restore[r].lines, active |-> NoOne]]
  /\ restore' = [restore EXCEPT ![r] = IdleRestore]
  /\ stale' = stale \union (IF \/ Running(s) # {}
                               \/ disk[s].lines # restore[r].lines
                               \/ disk[s].meta # meta THEN {s} ELSE {})
  /\ UNCHANGED <<available, disk, turn, clock, changes, crashes, used, saved>>

-----------------------------------------------------------------------------
(***************************************************************************)
(* A turn: it takes the options as they are when it begins, charges the    *)
(* record for every reply, and saves record and messages after it.         *)
(***************************************************************************)
BeginTurn(t, s) ==
  /\ AtAwait
  /\ turn[t] = IdleTurn
  /\ live[s] # NoMeta /\ live[s].active = NoOne
  /\ clock' = clock + 1
  /\ live' = [live EXCEPT ![s].active = t, ![s].meta.updated = clock + 1,
                          ![s].meta.title = TitleAfter(live[s], Prompt[t])]
  /\ turn' = [turn EXCEPT ![t] =
       [pc |-> "stream", on |-> s, model |-> live[s].meta.model, cap |-> live[s].meta.cap,
        messages |-> Append(live[s].history, [text |-> Prompt[t].whole, cost |-> 0]),
        meta |-> NoMeta, left |-> MaxReplies[t]]]
  /\ UNCHANGED <<available, disk, restore, ghosts>>

(* A task that ends empties the slot, whoever holds it.                    *)
End(t) == [turn EXCEPT ![t] = [IdleTurn EXCEPT !.pc = "done"]]

(* The stream ends with an answer.  What it cost is charged right away, if *)
(* the provider told the usage and the model has a price; a record that is *)
(* gone ends the turn there.                                               *)
ModelAnswers(t) ==
  LET s == turn[t].on IN
  /\ AtAwait
  /\ turn[t].pc = "stream"
  /\ \E cost \in {0, Price[turn[t].model]}, pc \in {"batch", "save"} :
       /\ live[s] # NoMeta \/ cost = 0
       /\ live' = IF live[s] = NoMeta THEN live ELSE [live EXCEPT ![s].meta.cost = @ + cost]
       /\ turn' = [turn EXCEPT ![t].pc = pc,
            ![t].left = IF pc = "save" THEN 0 ELSE @ - 1,
            ![t].messages = Append(@, [text |-> NoTitle, cost |-> cost])]
  /\ UNCHANGED <<available, disk, restore, clock, ghosts>>

(* Cancelled or failed: charged if the usage came, and nothing saved. *)
TurnFails(t) ==
  LET s == turn[t].on IN
  /\ AtAwait
  /\ turn[t].pc \in {"stream", "batch"}
  /\ \E charged \in {0} \union IF turn[t].pc = "stream" THEN {Price[turn[t].model]} ELSE {} :
       live' = IF live[s] = NoMeta THEN live
               ELSE [live EXCEPT ![s].meta.cost = @ + charged, ![s].active = NoOne]
  /\ turn' = End(t)
  /\ UNCHANGED <<available, disk, restore, clock, ghosts>>

ToolsDone(t) ==
  /\ AtAwait
  /\ turn[t].pc = "batch"
  /\ turn' = [turn EXCEPT ![t].pc = "save"]
  /\ UNCHANGED <<available, live, disk, restore, clock, ghosts>>

(***************************************************************************)
(* save_history: a snapshot of the record under the lock; then meta.json,  *)
(* beside its old version and renamed over it, then the new messages, what *)
(* lies past the record's length.                                          *)
(***************************************************************************)
(* A bug: what the turn began with is saved over what was selected since. *)
AsBegun(t) == [live[turn[t].on].meta EXCEPT !.model = turn[t].model, !.cap = turn[t].cap]

MetaToSave(t) == live[turn[t].on].meta

SaveSnapshot(t) ==
  /\ turn[t].pc = "save"
  /\ turn' = IF live[turn[t].on] = NoMeta THEN End(t)
             ELSE [turn EXCEPT ![t].pc = "write", ![t].meta = MetaToSave(t)]
  /\ UNCHANGED <<available, live, disk, restore, clock, ghosts>>

(* A bug: meta.json is written in place. *)
InPlace(files) == [files EXCEPT !.meta = Torn]

BesideIt(files) == [files EXCEPT !.tmp = Torn]

WriteMeta(t) ==
  /\ turn[t].pc = "write"
  /\ disk' = [disk EXCEPT ![turn[t].on] = BesideIt(@)]
  /\ turn' = [turn EXCEPT ![t].pc = "first"]
  /\ UNCHANGED <<available, live, restore, clock, ghosts>>

Renamed(t) == [disk[turn[t].on] EXCEPT !.meta = turn[t].meta, !.tmp = NoMeta]

(* The files with the messages of the turn up to the nth behind those the  *)
(* record has.                                                             *)
AppendedTo(t, n) == [disk[turn[t].on] EXCEPT !.lines =
  @ \o SubSeq(turn[t].messages, Len(live[turn[t].on].history) + 1, n)]
Appended(t) == AppendedTo(t, Len(turn[t].messages))

(* A bug: the messages go out before the record that has paid for them. *)
HistoryFirst(t) == IF turn[t].pc = "first" THEN Appended(t) ELSE [Renamed(t) EXCEPT !.tmp = NoMeta]

MetaFirst(t) == IF turn[t].pc = "first" THEN Renamed(t) ELSE Appended(t)

RenameMeta(t) ==
  LET s == turn[t].on IN
  /\ turn[t].pc = "first"
  /\ disk' = [disk EXCEPT ![s] = MetaFirst(t)]
  /\ saved' = saved \union {s}
  /\ turn' = [turn EXCEPT ![t].pc = "second"]
  /\ UNCHANGED <<available, live, restore, clock, changes, crashes, used, stale>>

LastSave(t) == turn[t].left = 0

AppendHistory(t) ==
  LET s == turn[t].on IN
  /\ turn[t].pc = "second"
  /\ disk' = [disk EXCEPT ![s] = MetaFirst(t)]
  /\ live' = [live EXCEPT ![s].history = turn[t].messages,
                          ![s].active = IF LastSave(t) THEN NoOne ELSE @]
  /\ turn' = IF LastSave(t) THEN End(t) ELSE [turn EXCEPT ![t].pc = "stream"]
  /\ UNCHANGED <<available, restore, clock, ghosts>>

(* An I/O error ends the turn with what was written so far: the old        *)
(* meta.json, or the new one and some of the messages.  The record keeps   *)
(* the history it had.                                                     *)
LeftBehind(t) ==
  LET files == disk[turn[t].on] IN
  CASE turn[t].pc = "write"  -> {files, BesideIt(files)}
    [] turn[t].pc = "first"  -> {files}
    [] turn[t].pc = "second" ->
         {AppendedTo(t, n) : n \in Len(live[turn[t].on].history) .. Len(turn[t].messages)}

SaveFails(t) ==
  LET s == turn[t].on IN
  /\ turn[t].pc \in {"write", "first", "second"}
  /\ \E files \in LeftBehind(t) : disk' = [disk EXCEPT ![s] = files]
  /\ live' = [live EXCEPT ![s].active = NoOne]
  /\ turn' = End(t)
  /\ UNCHANGED <<available, restore, clock, ghosts>>

(* The process dies and starts again: another list of models. *)
Crash ==
  /\ crashes < MaxCrashes
  /\ crashes' = crashes + 1
  /\ live' = [s \in Sessions |-> NoMeta]
  /\ turn' = [t \in Turns |->
       IF turn[t].pc = "idle" THEN IdleTurn ELSE [IdleTurn EXCEPT !.pc = "done"]]
  /\ restore' = [r \in Restores |-> IdleRestore]
  /\ available' \in Offers
  /\ UNCHANGED <<disk, clock, changes, used, saved, stale>>

Next ==
  \/ \E s \in Sessions :
       \/ \E d \in Dirs : NewSession(s, d)
       \/ \E m \in Models, c \in Caps : SetOption(s, m, c)
       \/ CloseSession(s) \/ DeleteSession(s)
       \/ \E r \in Restores : ReadRecord(r, s)
       \/ \E t \in Turns : BeginTurn(t, s)
  \/ \E r \in Restores : ConnectFails(r) \/ InsertRestored(r)
  \/ \E t \in Turns :
       \/ ModelAnswers(t) \/ TurnFails(t) \/ ToolsDone(t) \/ SaveSnapshot(t)
       \/ WriteMeta(t) \/ RenameMeta(t) \/ AppendHistory(t) \/ SaveFails(t)
  \/ Crash

Spec == Init /\ [][Next]_vars

-----------------------------------------------------------------------------
(***************************************************************************)
(* session/list for one directory: the records in memory, then what the    *)
(* state directory has beyond them.  (The sort by time is left out.)       *)
(***************************************************************************)
Info(s, meta) == [id |-> s, title |-> meta.title, updated |-> meta.updated]
InMemory(d) == {s \in Sessions : live[s] # NoMeta /\ live[s].meta.cwd = d}

OnlyOnDisk(d) ==
  {s \in Sessions \ InMemory(d) : Readable(disk[s].meta) /\ disk[s].meta.cwd = d}

ListSessions(d) ==
  {Info(s, live[s].meta) : s \in InMemory(d)} \union
  {Info(s, disk[s].meta) : s \in OnlyOnDisk(d)}

(***************************************************************************)
(* A session the client has once seen saved is on the list of its          *)
(* directory exactly once until it is deleted, open or closed, whatever    *)
(* save was cut short by a crash or an I/O error; so is every open one     *)
(* (SessionStore::list_sessions, write_meta).                              *)
(***************************************************************************)
SavedStaysListed ==
  \A s \in Sessions :
    Cardinality(UNION {{d} \X {info \in ListSessions(d) : info.id = s} : d \in Dirs})
      = IF live[s] # NoMeta \/ s \in saved THEN 1 ELSE 0

(***************************************************************************)
(* A session has one title: the record in memory, the one a load would     *)
(* give it now and the one a load in flight is about to give it never      *)
(* disagree, though it may come from three places (begin_turn,             *)
(* restore_persisted_session).                                             *)
(***************************************************************************)
Titles(s) ==
  (IF live[s] = NoMeta THEN {} ELSE {live[s].meta.title} \ {NoTitle}) \union
  (IF Readable(disk[s].meta) THEN {RestoredTitle(disk[s].meta, disk[s].lines)} ELSE {}) \union
  {RestoredTitle(restore[r].meta, restore[r].lines) : r \in {r \in Restores : restore[r].on = s}}

TitleKept == \A s \in Sessions : Cardinality(Titles(s)) <= 1

(***************************************************************************)
(* The cost of a session covers every reply in its file, and the record in *)
(* memory is never behind the file - unless a load overlapped a turn and   *)
(* set the record back (add_cost_micros, save_history).                    *)
(***************************************************************************)
Paid(lines) ==
  LET sum[n \in 0..Len(lines)] == IF n = 0 THEN 0 ELSE sum[n - 1] + lines[n].cost
  IN  sum[Len(lines)]

SavedRepliesPaid ==
  \A s \in {s \in used \ stale : Readable(disk[s].meta)} :
    /\ Paid(disk[s].lines) <= disk[s].meta.cost
    /\ live[s] # NoMeta => disk[s].meta.cost <= live[s].meta.cost

(***************************************************************************)
(* What a save writes is the record at that moment: options selected while *)
(* the turn ran are in it, not those the turn began with (save_history).   *)
(***************************************************************************)
MetaIsRecord ==
  [][\A s \in Sessions :
       disk'[s].meta # disk[s].meta /\ Readable(disk'[s].meta) =>
         live[s] # NoMeta /\ disk'[s].meta = live[s].meta]_vars
=============================================================================
