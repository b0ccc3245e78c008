------------------------- MODULE SessionTurns_proofs ------------------------
(***************************************************************************)
(* Proofs about SessionTurns, for any number of sessions, turns, restores, *)
(* model requests and crashes: saves are exclusive, the turn slots are     *)
(* those of TurnSlot, record and file agree, a history only grows, and the *)
(* client knows the mode.                                                  *)
(***************************************************************************)
EXTENDS SessionTurns, SequenceLemmas

(* There is work left where a task is about to take some.                  *)
WorkLeft ==
  \A t \in Turns :
    /\ pc[t] = "batch" => task[t].batch # <<>>
    /\ pc[t] \in {"body", "newline"} => task[t].todo # <<>>

TypeInv == TypeOK /\ WorkLeft

-----------------------------------------------------------------------------
(***************************************************************************)
(* Types.                                                                  *)
(***************************************************************************)
LEMMA NewTaskTyped == NewTask \in TaskRecord
  BY DEF NewTask, TaskRecord

LEMMA MessagesTyped ==
  ASSUME NEW t \in Turns
  PROVE  /\ UserMessage(t) \in Message
         /\ ToolResult(t) \in Message
         /\ \A reply \in Replies : AssistantMessage(t, reply) \in Message
<1>1. \A reply \in Replies : Len(reply.calls) \in Nat
  BY TurnsAssumption DEF TurnsAssumption
<1> QED
  BY <1>1 DEF UserMessage, ToolResult, AssistantMessage, RunsTools, Message

LEMMA TearTyped ==
  ASSUME NEW file \in FileRecord, NEW torn \in BOOLEAN
  PROVE  Tear(file, torn) \in FileRecord
  BY DEF Tear, FileRecord

LEMMA TailLeft ==
  ASSUME NEW q \in Seq(Tools), q # <<>>
  PROVE  Tail(q) \in Seq(Tools) /\ (Len(q) # 1 => Tail(q) # <<>>)
<1>1. Tail(q) \in Seq(Tools) /\ Len(Tail(q)) = Len(q) - 1
  BY HeadTailProperties
<1>2. Len(q) \in Nat \ {0}
  BY EmptySeq
<1> QED
  BY <1>1, <1>2, EmptySeq

LEMMA UnsavedTyped ==
  ASSUME NEW t \in Turns,
         task[t].messages \in Seq(Message), history[on[t]] \in Seq(Message)
  PROVE  Unsaved(t) \in Seq(Message)
<1>1. Len(task[t].messages) \in Nat /\ Len(history[on[t]]) \in Nat
  BY LenProperties
<1>2. \A i \in Len(history[on[t]]) + 1 .. Len(task[t].messages) :
        task[t].messages[i] \in Message
  BY <1>1, ElementOfSeq
<1> QED
  BY <1>1, <1>2, SubSeqProperties DEF Unsaved

LEMMA InitTyped == Init => TypeInv
<1> SUFFICES ASSUME Init PROVE TypeInv
  OBVIOUS
<1>1. NoFiles \in FileRecord /\ IdleRestore \in RestoreRecord
  BY DEF NoFiles, FileRecord, IdleRestore, RestoreRecord
<1>2. WorkLeft
  BY DEF Init, WorkLeft
<1>3. TypeOK
  BY <1>1, NewTaskTyped DEF Init, TypeOK, Modes
<1> QED
  BY <1>2, <1>3 DEF TypeInv

(* The requests on the store and the restores.                             *)
LEMMA RequestsTyped ==
  ASSUME TypeInv,
         \/ \E s \in Sessions : SessionStep(s)
         \/ \E r \in Restores : RestoreStep(r)
  PROVE  TypeInv'
<1> USE TurnsAssumption DEF TurnsAssumption, TypeInv, TypeOK, WorkLeft
<1>1. NoFiles \in FileRecord /\ IdleRestore \in RestoreRecord /\ "ask" \in Modes
  BY DEF NoFiles, FileRecord, IdleRestore, RestoreRecord, Modes
<1>2. ASSUME NEW s \in Sessions, NewSession(s) PROVE TypeInv'
  BY <1>1, <1>2 DEF NewSession, InsertRecord, Tell, turnVars
<1>3. ASSUME NEW s \in Sessions, CloseSession(s) PROVE TypeInv'
  BY <1>1, <1>3 DEF CloseSession, RemoveRecord, turnVars
<1>4. ASSUME NEW s \in Sessions, CancelToken(s) PROVE cancelled' \in SUBSET Turns
  BY <1>4 DEF CancelToken
<1>5. ASSUME NEW s \in Sessions, DeleteSession(s) PROVE TypeInv'
  BY <1>1, <1>4, <1>5 DEF DeleteSession, RemoveRecord
<1>6. ASSUME NEW s \in Sessions, CancelTurn(s) PROVE TypeInv'
  BY <1>4, <1>6 DEF CancelTurn, storeVars, ghostVars
<1>7. ASSUME NEW s \in Sessions, NEW m \in ClientModes, SetMode(s, m) PROVE TypeInv'
  BY <1>7 DEF SetMode, Tell, turnVars, ghostVars
<1>8. ASSUME NEW s \in Sessions, NEW t \in Turns, ReceivePrompt(t, s) PROVE TypeInv'
  BY <1>8 DEF ReceivePrompt, storeVars, ghostVars
<1>9. ASSUME NEW s \in Sessions, NEW r \in Restores, ReadRecord(r, s) PROVE TypeInv'
  BY <1>9 DEF ReadRecord, storeVars, turnVars, ghostVars, FileRecord, RestoreRecord
<1>10. ASSUME NEW r \in Restores, ConnectFails(r) PROVE TypeInv'
  BY <1>1, <1>10 DEF ConnectFails, storeVars, turnVars, ghostVars
<1>11. ASSUME NEW r \in Restores, InsertRestored(r) PROVE TypeInv'
  BY <1>1, <1>11
     DEF InsertRestored, InsertRecord, Tell, turnVars, RestoreRecord, IdleRestore
<1> HIDE DEF TypeInv
<1> QED
  BY <1>2, <1>3, <1>5, <1>6, <1>7, <1>8, <1>9, <1>10, <1>11
     DEF SessionStep, RestoreStep

(* The steps of a task from one await to the next.                         *)
LEMMA AwaitStepsTyped ==
  ASSUME TypeInv, NEW t \in Turns, AwaitStep(t)
  PROVE  TypeInv'
<1> USE TurnsAssumption DEF TurnsAssumption, TypeInv, TypeOK, WorkLeft
<1>1. task[t] \in TaskRecord
  OBVIOUS
<1>2. CASE RefuseTurn(t)
  BY <1>2 DEF RefuseTurn, storeVars, ghostVars
<1>3. CASE BeginTurn(t)
  <2>1. Conversation(on[t], t) \in Seq(Message)
    BY <1>3, MessagesTyped, AppendProperties DEF BeginTurn, CanBegin, Conversation
  <2>2. [NewTask EXCEPT !.left = MaxTurnRequests, !.messages = Conversation(on[t], t)]
          \in TaskRecord
    BY <2>1, NewTaskTyped DEF TaskRecord
  <2> QED
    BY <1>3, <2>2 DEF BeginTurn, ActivePCs, ghostVars
<1>4. CASE StreamReply(t)
  <2>1. PICK reply \in Replies :
          /\ task' = [task EXCEPT ![t] = AfterReply(t, reply)]
          /\ pc' = [pc EXCEPT ![t] = IF RunsTools(reply) THEN "batch" ELSE "save"]
    BY <1>4 DEF StreamReply
  <2>2. Append(task[t].messages, AssistantMessage(t, reply)) \in Seq(Message)
    BY <1>1, MessagesTyped, AppendProperties DEF TaskRecord
  <2>3. reply.calls \in Seq(Tools) /\ <<>> \in Seq(Tools) /\ RunsTools(reply) \in BOOLEAN
    BY DEF RunsTools
  <2>4. AfterReply(t, reply) \in TaskRecord
    BY <1>1, <2>2, <2>3 DEF TaskRecord, AfterReply
  <2>5. RunsTools(reply) => AfterReply(t, reply).batch # <<>>
    BY <1>1 DEF TaskRecord, AfterReply, RunsTools
  <2> QED
    BY <1>4, <2>1, <2>4, <2>5 DEF StreamReply, ActivePCs, SyncPCs, storeVars, ghostVars
<1>5. CASE StreamCancelled(t)
  BY <1>5 DEF StreamCancelled, Ends, ActivePCs, SyncPCs, storeVars, ghostVars
<1>6. CASE TurnFails(t)
  BY <1>6 DEF TurnFails, Ends, Tell, ActivePCs, SyncPCs, storeVars, ghostVars
<1>7. CASE RunToolCall(t)
  <2>1. task[t].batch \in Seq(Tools) /\ task[t].batch # <<>>
    BY <1>1, <1>7 DEF RunToolCall, TaskRecord
  <2>2. /\ Tail(task[t].batch) \in Seq(Tools)
        /\ Len(task[t].batch) # 1 => Tail(task[t].batch) # <<>>
    BY <2>1, TailLeft
  <2>3. Append(task[t].messages, ToolResult(t)) \in Seq(Message)
    BY <1>1, MessagesTyped, AppendProperties DEF TaskRecord
  <2>4. /\ AfterCall(t) \in TaskRecord
        /\ AfterCall(t).batch = Tail(task[t].batch)
    BY <1>1, <2>2, <2>3 DEF TaskRecord, AfterCall, Modes
  <2> QED
    BY <1>7, <2>2, <2>4
       DEF RunToolCall, ActivePCs, SyncPCs, Modes, ghostVars
<1> HIDE DEF TypeInv
<1> QED
  BY <1>2, <1>3, <1>4, <1>5, <1>6, <1>7 DEF AwaitStep

(* The steps of a save, and the end of a turn.                             *)
LEMMA SyncStepsTyped ==
  ASSUME TypeInv, NEW t \in Turns, SyncStep(t)
  PROVE  TypeInv'
<1> USE TurnsAssumption DEF TurnsAssumption, TypeInv, TypeOK, WorkLeft
<1> USE DEF ActivePCs, SyncPCs, SavePCs
<1>1. task[t] \in TaskRecord
  OBVIOUS
<1>2. pc[t] # "idle" => on[t] \in Sessions /\ disk[on[t]] \in FileRecord
  OBVIOUS
<1>3. CASE StartSave(t)
  <2>1. CASE on[t] \notin live
    BY <1>3, <2>1 DEF StartSave, Ends, ghostVars
  <2>2. CASE on[t] \in live
    <3> DEFINE m == IF task[t].pending = NoMode THEN mode[on[t]] ELSE task[t].pending
    <3>1. on[t] \in Sessions /\ m \in Modes
      BY <1>1, <1>2, <1>3 DEF StartSave, TaskRecord
    <3>2. Unsaved(t) \in Seq(Message)
      BY <1>1, <3>1, UnsavedTyped DEF TaskRecord
    <3>3. [task[t] EXCEPT !.meta = m, !.todo = Unsaved(t)] \in TaskRecord
      BY <1>1, <3>1, <3>2 DEF TaskRecord
    <3>4. /\ mode' = [mode EXCEPT ![on[t]] = m]
          /\ pc' = [pc EXCEPT ![t] = "meta"]
          /\ task' = [task EXCEPT ![t] = [task[t] EXCEPT !.meta = m, !.todo = Unsaved(t)]]
      BY <1>3, <2>2 DEF StartSave
    <3> HIDE DEF m
    <3> QED
      BY <1>3, <3>1, <3>3, <3>4 DEF StartSave, ghostVars
  <2> QED
    BY <2>1, <2>2
<1>4. NextWrite(task[t].todo) = "body" => task[t].todo # <<>>
  BY DEF NextWrite
<1>5. CASE WriteMeta(t)
  BY <1>1, <1>2, <1>4, <1>5
     DEF WriteMeta, NextWrite, FileRecord, TaskRecord, storeVars, ghostVars
<1>6. CASE WriteBody(t)
  <2>1. Head(task[t].todo) \in Message
    BY <1>1, <1>6, HeadTailProperties DEF WriteBody, TaskRecord
  <2>2. Append(disk[on[t]].lines, Head(task[t].todo)) \in Seq(Message)
    BY <1>2, <1>6, <2>1, AppendProperties DEF WriteBody, FileRecord
  <2>3. [disk[on[t]] EXCEPT !.lines = Append(@, Head(task[t].todo)), !.open = TRUE,
                            !.corrupt = @ \/ disk[on[t]].open] \in FileRecord
    BY <1>2, <1>6, <2>2 DEF WriteBody, FileRecord
  <2> QED
    BY <1>2, <1>6, <2>3 DEF WriteBody, storeVars, ghostVars
<1>7. CASE WriteNewline(t)
  <2>1. Tail(task[t].todo) \in Seq(Message)
    BY <1>1, <1>7, HeadTailProperties DEF WriteNewline, TaskRecord
  <2>2. [task[t] EXCEPT !.todo = Tail(@)] \in TaskRecord
    BY <1>1, <2>1 DEF TaskRecord
  <2>3. disk' \in [Sessions -> FileRecord]
    BY <1>2, <1>7 DEF WriteNewline, FileRecord
  <2>4. /\ task' \in [Turns -> TaskRecord] /\ task'[t].todo = Tail(task[t].todo)
        /\ \A u \in Turns \ {t} : task'[u] = task[u]
    BY <1>1, <1>7, <2>2 DEF WriteNewline, TaskRecord
  <2> QED
    BY <1>2, <1>7, <2>3, <2>4 DEF WriteNewline, NextWrite, storeVars, ghostVars
<1>8. CASE SaveFails(t)
  <2>1. PICK torn \in {FALSE, pc[t] = "body"} :
          disk' = [disk EXCEPT ![on[t]] = Tear(@, torn)]
    BY <1>8 DEF SaveFails
  <2>2. Tear(disk[on[t]], torn) \in FileRecord
    BY <1>2, <1>8, TearTyped DEF SaveFails
  <2>3. disk' \in [Sessions -> FileRecord]
    BY <2>1, <2>2
  <2> QED
    BY <1>2, <1>8, <2>3 DEF SaveFails, Ends, storeVars
<1>9. CASE CommitSave(t)
  <2>1. task[t].messages \in Seq(Message) /\ task[t].left \in Nat
    BY <1>1 DEF TaskRecord
  <2>2. history' \in [Sessions -> Seq(Message)]
    BY <1>2, <1>9, <2>1 DEF CommitSave
  <2>5. told' \in [Sessions -> Modes \union {NoMode}]
    BY <1>1, <1>2, <1>9 DEF CommitSave, TellTransition, Tell, TaskRecord
  <2>3. CASE Ends(t)
    BY <1>2, <1>9, <2>2, <2>3, <2>5 DEF CommitSave, Ends, ghostVars
  <2>4. CASE ~Ends(t)
    <3>1. /\ task[t].left > 1 /\ task' = [task EXCEPT ![t].left = @ - 1]
          /\ pc' = [pc EXCEPT ![t] = "stream"]
      BY <1>9, <2>4 DEF CommitSave
    <3>2. [task[t] EXCEPT !.left = @ - 1] \in TaskRecord
      <4>1. task[t].left - 1 \in Nat
        BY <2>1, <3>1
      <4> QED
        BY <1>1, <4>1 DEF TaskRecord
    <3> QED
      BY <1>2, <1>9, <2>2, <2>5, <3>1, <3>2 DEF CommitSave, ghostVars
  <2> QED
    BY <2>3, <2>4
<1>10. CASE ClearTurn(t)
  BY <1>2, <1>10, NewTaskTyped DEF ClearTurn, ghostVars
<1> HIDE DEF TypeInv
<1> QED
  BY <1>3, <1>5, <1>6, <1>7, <1>8, <1>9, <1>10 DEF SyncStep

LEMMA CrashTyped ==
  ASSUME TypeInv, Crash
  PROVE  TypeInv'
<1>1. /\ disk' \in [Sessions -> FileRecord]
      /\ interrupted' \in SUBSET Sessions
  <2>1. PICK torn \in SUBSET {t \in Turns : pc[t] = "body"} :
          /\ disk' = [s \in Sessions |-> Tear(disk[s], \E t \in torn : on[t] = s)]
          /\ interrupted' = interrupted \union
               {on[t] : t \in torn \union {u \in Turns : pc[u] = "newline"}}
    BY DEF Crash
  <2>2. disk' \in [Sessions -> FileRecord]
    BY <2>1, TearTyped DEF TypeInv, TypeOK
  <2>3. \A t \in torn \union {u \in Turns : pc[u] = "newline"} : on[t] \in Sessions
    BY DEF TypeInv, TypeOK
  <2>4. interrupted \subseteq Sessions
    BY DEF TypeInv, TypeOK
  <2>5. interrupted' \subseteq Sessions
    BY <2>1, <2>3, <2>4
  <2> QED
    BY <2>2, <2>5
<1>2. /\ pc' \in [Turns -> {"idle", "done"}]
      /\ \A t \in Turns : pc'[t] # "idle" => pc[t] # "idle"
  BY DEF Crash
<1>3. /\ task' \in [Turns -> TaskRecord]
      /\ restore' \in [Restores -> RestoreRecord]
  BY NewTaskTyped DEF Crash, RestoreRecord
<1>4. /\ mode' \in [Sessions -> Modes]
      /\ history' \in [Sessions -> Seq(Message)]
      /\ slot' \in [Sessions -> Turns \union {NoTurn}]
  BY EmptySeq DEF Crash, Modes
<1>5. /\ live' = {} /\ displaced' = {} /\ diverged' = {}
      /\ cancelled' = {} /\ UNCHANGED <<on, used, told, deleted>>
      /\ faults' = faults + 1
  BY DEF Crash
<1>6. WorkLeft'
  BY <1>2 DEF WorkLeft
<1>7. pc' \in [Turns -> {"idle", "spawned", "done"} \union ActivePCs]
  BY <1>2
<1>8. TypeOK'
  BY <1>1, <1>2, <1>3, <1>4, <1>5, <1>7 DEF TypeInv, TypeOK
<1> QED
  BY <1>6, <1>8 DEF TypeInv

LEMMA StepTyped == TypeInv /\ [Next]_vars => TypeInv'
<1> SUFFICES ASSUME TypeInv, [Next]_vars PROVE TypeInv'
  OBVIOUS
<1>1. CASE UNCHANGED vars
  BY <1>1 DEF vars, storeVars, turnVars, ghostVars, TypeInv, TypeOK, WorkLeft
<1> QED
  BY <1>1, RequestsTyped, AwaitStepsTyped, SyncStepsTyped, CrashTyped DEF Next

(* Every variable keeps its type, and no task takes from an empty batch or *)
(* an empty list of messages to write.                                     *)
THEOREM TypeCorrect == Spec => []TypeOK
<1>1. TypeInv => TypeOK
  BY DEF TypeInv
<1> QED
  BY <1>1, InitTyped, StepTyped, PTL DEF Spec

-----------------------------------------------------------------------------
(***************************************************************************)
(* Slots.  A turn holds a slot exactly while it runs.  What makes this     *)
(* inductive is that a turn only ever runs on an id that was given out:    *)
(* session/new does not put a fresh record under a running turn.           *)
(***************************************************************************)
UsedSessions == \A t \in Turns : pc[t] # "idle" => on[t] \in used

HolderRuns == \A s \in Sessions : slot[s] # NoTurn => ActiveOn[slot[s]] = s
RunnerHolds ==
  \A t \in Turns : \A s \in Sessions \ displaced :
    ActiveOn[t] = s => s \in live /\ slot[s] = t

SlotInv == TypeInv /\ UsedSessions /\ HolderRuns /\ RunnerHolds

LEMMA RunningIsActive ==
  ASSUME TypeInv
  PROVE  /\ ActiveOn \in [Turns -> Sessions \union {NoSession}]
         /\ \A s \in Sessions : Running(s) = {t \in Turns : ActiveOn[t] = s}
  BY TurnsAssumption DEF TurnsAssumption, TypeInv, TypeOK, ActiveOn, Running

(* In terms of Running, as the runs check it.                              *)
LEMMA SlotInvMeans ==
  ASSUME SlotInv
  PROVE  SlotHolderRuns /\ RunningHoldsSlot
<1>1. TypeInv
  BY DEF SlotInv
<1>2. \A s \in Sessions : Running(s) = {t \in Turns : ActiveOn[t] = s}
  BY <1>1, RunningIsActive
<1>3. SlotHolderRuns
  BY <1>1, <1>2 DEF SlotInv, HolderRuns, SlotHolderRuns, TypeInv, TypeOK
<1>4. RunningHoldsSlot
  BY <1>2 DEF SlotInv, RunnerHolds, RunningHoldsSlot
<1> QED
  BY <1>3, <1>4

LEMMA InitSlots == Init => SlotInv
<1> SUFFICES ASSUME Init PROVE SlotInv
  OBVIOUS
<1>1. \A t \in Turns : ActiveOn[t] = NoSession
  BY DEF Init, ActiveOn, ActivePCs, SyncPCs, SavePCs
<1>2. UsedSessions /\ HolderRuns
  BY DEF Init, UsedSessions, HolderRuns
<1>3. RunnerHolds
  BY <1>1, TurnsAssumption DEF TurnsAssumption, RunnerHolds
<1> QED
  BY <1>2, <1>3, InitTyped DEF SlotInv

LEMMA StepUsed ==
  ASSUME SlotInv, [Next]_vars
  PROVE  UsedSessions'
<1> USE DEF SlotInv, TypeInv, TypeOK, UsedSessions
<1>1. CASE UNCHANGED <<pc, on, used>>
  BY <1>1
<1>2. ASSUME NEW s \in Sessions, SessionStep(s) PROVE UsedSessions'
  BY <1>2 DEF SessionStep, NewSession, CloseSession, DeleteSession, CancelTurn,
              SetMode, ReceivePrompt, ReadRecord, turnVars, ghostVars
<1>3. ASSUME NEW r \in Restores, RestoreStep(r) PROVE UsedSessions'
  BY <1>3 DEF RestoreStep, ConnectFails, InsertRestored, turnVars, ghostVars
<1>4. ASSUME NEW t \in Turns, AwaitStep(t) PROVE UsedSessions'
  BY <1>4 DEF AwaitStep, RefuseTurn, BeginTurn, StreamReply, StreamCancelled,
              TurnFails, RunToolCall, Ends, ghostVars
<1>5. ASSUME NEW t \in Turns, SyncStep(t) PROVE UsedSessions'
  BY <1>5 DEF SyncStep, StartSave, WriteMeta, WriteBody, WriteNewline, SaveFails,
              CommitSave, ClearTurn, Ends, ghostVars
<1>6. CASE Crash
  BY <1>6 DEF Crash
<1> HIDE DEF SlotInv, UsedSessions
<1> QED
  BY <1>1, <1>2, <1>3, <1>4, <1>5, <1>6 DEF Next, vars, turnVars, ghostVars

(***************************************************************************)
(* What each action does to the slots, in the terms of TurnSlot.           *)
(***************************************************************************)
Replaced(s) ==
  /\ slot' = [slot EXCEPT ![s] = NoTurn]
  /\ ActiveOn' = ActiveOn
  /\ live \ {s} \subseteq live'

Quiet == UNCHANGED <<live, slot, displaced>> /\ ActiveOn' = ActiveOn

LEMMA SessionStepOnSlots ==
  ASSUME TypeInv, NEW s \in Sessions, SessionStep(s)
  PROVE  \/ Quiet
         \/ /\ Replaced(s) /\ s \notin used
            /\ s \in live' /\ UNCHANGED displaced
         \/ /\ Replaced(s)
            /\ displaced' = IF Running(s) = {} THEN displaced ELSE displaced \union {s}
<1> USE DEF ActiveOn, Quiet, Replaced
<1>1. CASE NewSession(s)
  BY <1>1 DEF NewSession, InsertRecord, turnVars
<1>2. CASE CloseSession(s)
  BY <1>2 DEF CloseSession, RemoveRecord, turnVars
<1>3. CASE DeleteSession(s)
  BY <1>3 DEF DeleteSession, RemoveRecord
<1>4. CASE CancelTurn(s)
  BY <1>4 DEF CancelTurn, storeVars, ghostVars
<1>5. ASSUME NEW m \in ClientModes, SetMode(s, m) PROVE Quiet
  BY <1>5 DEF SetMode, turnVars, ghostVars
<1>6. ASSUME NEW t \in Turns, ReceivePrompt(t, s) PROVE Quiet
  BY <1>6 DEF ReceivePrompt, TypeInv, TypeOK, ActivePCs, SyncPCs, SavePCs,
              storeVars, ghostVars
<1>7. ASSUME NEW r \in Restores, ReadRecord(r, s) PROVE Quiet
  BY <1>7 DEF ReadRecord, storeVars, turnVars, ghostVars
<1> HIDE DEF Quiet, Replaced
<1> QED
  BY <1>1, <1>2, <1>3, <1>4, <1>5, <1>6, <1>7 DEF SessionStep

LEMMA RestoreStepOnSlots ==
  ASSUME TypeInv, NEW r \in Restores, RestoreStep(r)
  PROVE  \/ Quiet
         \/ \E s \in Sessions :
              /\ Replaced(s) /\ s \in live'
              /\ displaced' = IF Running(s) = {} THEN displaced \ {s}
                                                ELSE displaced \union {s}
<1> USE DEF ActiveOn, Quiet, Replaced
<1>1. CASE ConnectFails(r)
  BY <1>1 DEF ConnectFails, storeVars, turnVars, ghostVars
<1>2. CASE InsertRestored(r)
  <2>1. restore[r].session \in Sessions
    BY <1>2 DEF InsertRestored, TypeInv, TypeOK, RestoreRecord, IdleRestore
  <2> QED
    BY <1>2, <2>1 DEF InsertRestored, InsertRecord, turnVars
<1> QED
  BY <1>1, <1>2 DEF RestoreStep

Taken(s, t) ==
  /\ s \in live /\ slot[s] = NoTurn /\ ActiveOn[t] = NoSession
  /\ slot' = [slot EXCEPT ![s] = t]
  /\ ActiveOn' = [ActiveOn EXCEPT ![t] = s]
  /\ UNCHANGED <<live, displaced>>

Released(s, t) ==
  /\ ActiveOn[t] = s
  /\ slot' = [slot EXCEPT ![s] = NoTurn]
  /\ ActiveOn' = [ActiveOn EXCEPT ![t] = NoSession]
  /\ UNCHANGED <<live, displaced>>

LEMMA AwaitStepOnSlots ==
  ASSUME TypeInv, NEW t \in Turns, AwaitStep(t)
  PROVE  Quiet \/ \E s \in Sessions : Taken(s, t)
<1> USE DEF ActivePCs, SyncPCs, SavePCs, TypeInv, TypeOK
<1>1. CASE RefuseTurn(t)
  BY <1>1 DEF RefuseTurn, Quiet, ActiveOn, storeVars, ghostVars
<1>2. CASE BeginTurn(t)
  BY <1>2 DEF BeginTurn, CanBegin, Taken, ActiveOn, ghostVars
<1>3. CASE StreamReply(t)
  <2>1. PICK p \in {"batch", "save"} : pc[t] = "stream" /\ pc' = [pc EXCEPT ![t] = p]
    BY <1>3 DEF StreamReply
  <2> QED
    BY <1>3, <2>1 DEF StreamReply, Quiet, ActiveOn, storeVars, ghostVars
<1>4. CASE StreamCancelled(t)
  BY <1>4 DEF StreamCancelled, Ends, Quiet, ActiveOn, storeVars, ghostVars
<1>5. CASE TurnFails(t)
  BY <1>5 DEF TurnFails, Ends, Quiet, ActiveOn, storeVars, ghostVars
<1>6. CASE RunToolCall(t)
  <2>1. PICK p \in {"batch", "save"} : pc[t] = "batch" /\ pc' = [pc EXCEPT ![t] = p]
    BY <1>6 DEF RunToolCall
  <2> QED
    BY <1>6, <2>1 DEF RunToolCall, Quiet, ActiveOn, storeVars, ghostVars
<1> QED
  BY <1>1, <1>2, <1>3, <1>4, <1>5, <1>6 DEF AwaitStep

LEMMA SyncStepOnSlots ==
  ASSUME TypeInv, NEW t \in Turns, SyncStep(t)
  PROVE  Quiet \/ \E s \in Sessions : Released(s, t)
<1> USE DEF ActivePCs, SyncPCs, SavePCs, TypeInv, TypeOK
<1>1. CASE ClearTurn(t)
  BY <1>1 DEF ClearTurn, Released, ActiveOn, ghostVars
<1>2. CASE ~ClearTurn(t)
  <2>1. /\ UNCHANGED <<live, slot, displaced, on>>
        /\ pc[t] \in ActivePCs
        /\ \E p \in ActivePCs : pc' = [pc EXCEPT ![t] = p]
    BY <1>2 DEF SyncStep, StartSave, WriteMeta, WriteBody, WriteNewline, SaveFails,
                CommitSave, Ends, NextWrite, storeVars, ghostVars
  <2> QED
    BY <2>1 DEF Quiet, ActiveOn
<1> QED
  BY <1>1, <1>2

-----------------------------------------------------------------------------
(***************************************************************************)
(* The slot invariant and the refinement, one case for each effect.        *)
(***************************************************************************)
Slots == HolderRuns /\ RunnerHolds

LEMMA QuietKeeps ==
  ASSUME Slots, Quiet
  PROVE  Slots' /\ UNCHANGED <<slot, ActiveOn, displaced>>
  BY DEF Slots, HolderRuns, RunnerHolds, Quiet

(* The record of s goes or is replaced, and no turn runs on s.             *)
LEMMA ReplaceIdle ==
  ASSUME TypeInv, Slots, NEW s \in Sessions, Replaced(s),
         \A t \in Turns : ActiveOn[t] # s,
         displaced' = displaced \/ displaced' = displaced \ {s}
  PROVE  Slots' /\ UNCHANGED slot
<1>1. slot[s] = NoTurn
  BY DEF TypeInv, TypeOK, Slots, HolderRuns
<1>2. UNCHANGED slot
  BY <1>1 DEF Replaced, TypeInv, TypeOK
<1> QED
  BY <1>2 DEF Slots, HolderRuns, RunnerHolds, Replaced

(* The same with a turn running on s: the promise is suspended.            *)
LEMMA ReplaceBusy ==
  ASSUME TypeInv, Slots, NEW s \in Sessions, Replaced(s),
         displaced' = displaced \union {s}
  PROVE  Slots'
  BY TurnsAssumption
     DEF TurnsAssumption, TypeInv, TypeOK, Slots, HolderRuns, RunnerHolds, Replaced

LEMMA TakeKeeps ==
  ASSUME TypeInv, Slots, NEW s \in Sessions, NEW t \in Turns, Taken(s, t)
  PROVE  Slots' /\ Slot!Take(s, t)
<1>1. /\ ActiveOn \in [Turns -> Sessions \union {NoSession}]
      /\ NoTurn \notin Turns /\ NoSession \notin Sessions
  BY RunningIsActive, TurnsAssumption DEF TurnsAssumption
<1>2. slot \in [Sessions -> Turns \union {NoTurn}]
  BY DEF TypeInv, TypeOK
<1>3. HolderRuns'
  BY <1>1, <1>2 DEF Slots, HolderRuns, Taken
<1>4. RunnerHolds'
  BY <1>1, <1>2 DEF Slots, RunnerHolds, Taken
<1> QED
  BY <1>3, <1>4 DEF Slots, Taken, Slot!Take

LEMMA ReleaseKeeps ==
  ASSUME TypeInv, Slots, NEW s \in Sessions, NEW t \in Turns, Released(s, t)
  PROVE  Slots' /\ Slot!Release(s, t)
<1>1. /\ ActiveOn \in [Turns -> Sessions \union {NoSession}]
      /\ NoTurn \notin Turns /\ NoSession \notin Sessions
  BY RunningIsActive, TurnsAssumption DEF TurnsAssumption
<1>2. Slots'
  BY <1>1 DEF TypeInv, TypeOK, Slots, HolderRuns, RunnerHolds, Released
<1>3. s \in displaced \/ slot[s] = t
  BY DEF Slots, RunnerHolds, Released
<1> QED
  BY <1>2, <1>3 DEF Released, Slot!Release

(* A record that goes or is replaced, whoever runs on it.                  *)
LEMMA ReplaceKeeps ==
  ASSUME TypeInv, Slots, NEW s \in Sessions, Replaced(s),
         \/ displaced' = IF Running(s) = {} THEN displaced ELSE displaced \union {s}
         \/ displaced' = IF Running(s) = {} THEN displaced \ {s}
                                           ELSE displaced \union {s}
  PROVE  Slots' /\ [Slot!Next]_Slot!slotVars
<1>1. Running(s) = {t \in Turns : ActiveOn[t] = s}
  BY RunningIsActive
<1>2. CASE Running(s) = {}
  <2>1. \A t \in Turns : ActiveOn[t] # s
    BY <1>1, <1>2
  <2>2. Slots' /\ UNCHANGED slot
    BY <1>2, <2>1, ReplaceIdle
  <2>3. displaced' = displaced \/ Slot!Heal(s)
    BY <1>2, <2>1 DEF Replaced, Slot!Heal
  <2> QED
    BY <2>2, <2>3 DEF Replaced, Slot!Next, Slot!slotVars
<1>3. CASE Running(s) # {}
  <2>1. Slots'
    BY <1>3, ReplaceBusy
  <2>2. Slot!Displace(s)
    BY <1>1, <1>3 DEF Replaced, Slot!Displace
  <2> QED
    BY <2>1, <2>2 DEF Slot!Next
<1> QED
  BY <1>2, <1>3

(* A new record, for an id no turn runs on.                                *)
LEMMA NewKeeps ==
  ASSUME SlotInv, NEW s \in Sessions, Replaced(s), s \notin used, UNCHANGED displaced
  PROVE  Slots' /\ [Slot!Next]_Slot!slotVars
<1>1. \A t \in Turns : ActiveOn[t] # s
  BY TurnsAssumption
     DEF TurnsAssumption, SlotInv, UsedSessions, ActiveOn, ActivePCs, SyncPCs, SavePCs
<1>2. Slots' /\ UNCHANGED slot
  BY <1>1, ReplaceIdle DEF SlotInv, Slots
<1> QED
  BY <1>2 DEF Replaced, Slot!slotVars

LEMMA CrashKeeps ==
  ASSUME Crash
  PROVE  Slots' /\ Slot!Restart
<1>1. ActiveOn' = [t \in Turns |-> NoSession]
  BY DEF Crash, ActiveOn, ActivePCs, SyncPCs, SavePCs
<1>2. Slots'
  BY <1>1, TurnsAssumption DEF TurnsAssumption, Crash, Slots, HolderRuns, RunnerHolds
<1> QED
  BY <1>1, <1>2 DEF Crash, Slot!Restart

LEMMA StepSlots ==
  ASSUME SlotInv, [Next]_vars
  PROVE  SlotInv' /\ [Slot!Next]_Slot!slotVars
<1>1. TypeInv /\ Slots
  BY DEF SlotInv, Slots
<1>2. ASSUME Quiet PROVE Slots' /\ [Slot!Next]_Slot!slotVars
  BY <1>1, <1>2, QuietKeeps DEF Slot!slotVars
<1>3. ASSUME UNCHANGED vars PROVE Quiet
  BY <1>3 DEF vars, storeVars, turnVars, ghostVars, Quiet, ActiveOn
<1>4. ASSUME NEW s \in Sessions, SessionStep(s)
      PROVE  Slots' /\ [Slot!Next]_Slot!slotVars
  BY <1>1, <1>2, <1>4, SessionStepOnSlots, ReplaceKeeps, NewKeeps
<1>5. ASSUME NEW r \in Restores, RestoreStep(r)
      PROVE  Slots' /\ [Slot!Next]_Slot!slotVars
  BY <1>1, <1>2, <1>5, RestoreStepOnSlots, ReplaceKeeps
<1>6. ASSUME NEW t \in Turns, AwaitStep(t)
      PROVE  Slots' /\ [Slot!Next]_Slot!slotVars
  BY <1>1, <1>2, <1>6, AwaitStepOnSlots, TakeKeeps DEF Slot!Next
<1>7. ASSUME NEW t \in Turns, SyncStep(t)
      PROVE  Slots' /\ [Slot!Next]_Slot!slotVars
  BY <1>1, <1>2, <1>7, SyncStepOnSlots, ReleaseKeeps DEF Slot!Next
<1>8. ASSUME Crash PROVE Slots' /\ [Slot!Next]_Slot!slotVars
  BY <1>8, CrashKeeps DEF Slot!Next
<1>9. Slots' /\ [Slot!Next]_Slot!slotVars
  BY <1>2, <1>3, <1>4, <1>5, <1>6, <1>7, <1>8 DEF Next
<1>10. TypeInv' /\ UsedSessions'
  BY <1>1, StepTyped, StepUsed
<1> QED
  BY <1>9, <1>10 DEF SlotInv, Slots

(* A slot is never left to a turn that has ended, and a turn whose record  *)
(* was not dropped or replaced under it holds the slot of a live session.  *)
THEOREM SlotCorrect == Spec => [](SlotHolderRuns /\ RunningHoldsSlot)
<1>1. SlotInv => SlotHolderRuns /\ RunningHoldsSlot
  BY SlotInvMeans
<1>2. SlotInv /\ [Next]_vars => SlotInv'
  BY StepSlots
<1> QED
  BY <1>1, <1>2, InitSlots, PTL DEF Spec

(* The store with all its requests, saves, restores and crashes keeps the  *)
(* promise of TurnSlot.                                                    *)
THEOREM SlotRefinement == Spec => SlotPromise
<1>1. Init => Slot!Init
  BY DEF Init, Slot!Init, ActiveOn, ActivePCs, SyncPCs, SavePCs
<1>2. SlotInv /\ [Next]_vars => SlotInv' /\ [Slot!Next]_Slot!slotVars
  BY StepSlots
<1> QED
  BY <1>1, <1>2, InitSlots, PTL DEF Spec, SlotPromise, Slot!Spec

-----------------------------------------------------------------------------
(***************************************************************************)
(* What the slots of TurnSlot promise, and so those of SessionTurns.       *)
(***************************************************************************)
SlotHeld == Slot!TypeOK /\ Slot!HoldsSlot

LEMMA SlotInit == Slot!Distinct /\ Slot!Init => SlotHeld
  BY DEF Slot!Distinct, Slot!Init, SlotHeld, Slot!TypeOK, Slot!HoldsSlot

LEMMA SlotStep ==
  ASSUME Slot!Distinct, SlotHeld, [Slot!Next]_Slot!slotVars PROVE SlotHeld'
<1> USE DEF Slot!Distinct, SlotHeld, Slot!TypeOK, Slot!HoldsSlot
<1>1. ASSUME NEW s \in Sessions, NEW t \in Turns, Slot!Take(s, t) PROVE SlotHeld'
  BY <1>1 DEF Slot!Take
<1>2. ASSUME NEW s \in Sessions, NEW t \in Turns, Slot!Release(s, t) PROVE SlotHeld'
  BY <1>2 DEF Slot!Release
<1>3. ASSUME NEW s \in Sessions, Slot!Displace(s) PROVE SlotHeld'
  BY <1>3 DEF Slot!Displace
<1>4. ASSUME NEW s \in Sessions, Slot!Heal(s) PROVE SlotHeld'
  BY <1>4 DEF Slot!Heal
<1>5. CASE Slot!Restart
  BY <1>5 DEF Slot!Restart
<1>6. CASE UNCHANGED Slot!slotVars
  BY <1>6 DEF Slot!slotVars
<1> QED
  BY <1>1, <1>2, <1>3, <1>4, <1>5, <1>6 DEF Slot!Next

(* Two turns never work on one session whose record was left in place:     *)
(* both would hold its one slot (begin_turn refuses a second turn).        *)
THEOREM SlotExclusive == Spec => []Slot!Exclusive
<1>1. Slot!Distinct
  BY TurnsAssumption DEF Slot!Distinct
<1>2. SlotHeld => Slot!Exclusive
  BY DEF SlotHeld, Slot!TypeOK, Slot!HoldsSlot, Slot!Exclusive
<1>3. Slot!Spec => []Slot!Exclusive
  BY <1>1, <1>2, SlotInit, SlotStep, PTL DEF Slot!Spec
<1> QED
  BY <1>3, SlotRefinement, PTL DEF SlotPromise

-----------------------------------------------------------------------------
-----------------------------------------------------------------------------
(***************************************************************************)
(* The invariant.  While a save is under way nothing else runs, a record   *)
(* and its file differ by what is left to write, and a conversation that   *)
(* waits for the model is the saved one, with the prompt behind it at the  *)
(* start of the turn.                                                      *)
(***************************************************************************)
OneSaves == \A t, u \in Turns : pc[t] \in SyncPCs /\ pc[u] \in SyncPCs => t = u

KnownIds ==
  /\ live \subseteq used
  /\ \A r \in Restores : restore[r].session # NoSession => restore[r].session \in used
  /\ \A s \in Sessions \ used : disk[s] = NoFiles

TurnSaved(s, t) ==
  /\ pc[t] \notin {"body", "newline", "commit"} => disk[s].lines = history[s]
  /\ pc[t] # "clear" => IsPrefix(history[s], task[t].messages)
  /\ pc[t] = "stream" /\ task[t].left < MaxTurnRequests => task[t].messages = history[s]
  /\ pc[t] \in {"meta", "body"} => task[t].messages = disk[s].lines \o task[t].todo
  /\ pc[t] = "newline" => task[t].messages = disk[s].lines \o Tail(task[t].todo)
  /\ pc[t] = "commit" => task[t].messages = disk[s].lines

SessionSaved(s) ==
  s \notin displaced \union diverged =>
    /\ s \in live /\ Running(s) = {} => disk[s].lines = history[s]
    /\ \A t \in Running(s) : TurnSaved(s, t)

(* The client is not told yet of a transition the batch has made.          *)
Owes(t) == task[t].pending # NoMode /\ pc[t] \in {"batch", "save"} \union SavePCs

TurnMode(s, t) ==
  /\ pc[t] = "stream" => task[t].pending = NoMode
  /\ Owes(t) /\ pc[t] \in SavePCs => mode[s] = task[t].pending

ModeKnown(s) ==
  s \notin displaced \union diverged =>
    /\ s \in live /\ (\A t \in Running(s) : ~Owes(t)) => told[s] \in {mode[s], NoMode}
    /\ \A t \in Running(s) : TurnMode(s, t)

Kept(s) == SessionSaved(s) /\ ModeKnown(s)

HistoryInv == SlotInv /\ OneSaves /\ KnownIds /\ \A s \in Sessions : Kept(s)

RecordsMatch ==
  \A s \in live \ (displaced \union diverged) :
    ~Saving(s) => disk[s].lines = history[s]

LEMMA HistoryInvMeans ==
  ASSUME HistoryInv
  PROVE  RecordsMatch /\ CycleOnDisk /\ ClientKnowsMode
<1>1. TypeOK /\ RunningHoldsSlot
  BY SlotInvMeans DEF HistoryInv, SlotInv, TypeInv
<1>2. \A s \in Sessions : \A t, u \in Running(s) : s \notin displaced => t = u /\ s \in live
  BY <1>1 DEF RunningHoldsSlot
<1>3. RecordsMatch
  <2> SUFFICES ASSUME NEW s \in Sessions, s \in live, s \notin displaced \union diverged,
                      ~Saving(s)
               PROVE  disk[s].lines = history[s]
    BY <1>1 DEF RecordsMatch, TypeOK
  <2> QED
    BY DEF Saving, HistoryInv, Kept, SessionSaved, TurnSaved, SavePCs
<1>4. CycleOnDisk
  BY DEF CycleOnDisk, HistoryInv, Kept, SessionSaved, TurnSaved
<1>5. ClientKnowsMode
  <2> SUFFICES ASSUME NEW s \in Sessions, s \in live, s \notin displaced \union diverged,
                      ~Switching(s)
               PROVE  told[s] \in {mode[s], NoMode}
    BY <1>1 DEF ClientKnowsMode, TypeOK
  <2> QED
    BY DEF HistoryInv, Kept, ModeKnown, Switching, Owes
<1> QED
  BY <1>3, <1>4, <1>5

LEMMA InitHistory == Init => HistoryInv
<1> SUFFICES ASSUME Init PROVE HistoryInv
  OBVIOUS
<1>1. SlotInv
  BY InitSlots
<1>2. OneSaves /\ KnownIds
  BY DEF Init, OneSaves, KnownIds, IdleRestore, SyncPCs, SavePCs
<1>3. ASSUME NEW s \in Sessions PROVE Running(s) = {} /\ live = {}
  BY DEF Init, Running, ActivePCs, SyncPCs, SavePCs
<1>4. \A s \in Sessions : Kept(s)
  BY <1>3 DEF Kept, SessionSaved, ModeKnown
<1> QED
  BY <1>1, <1>2, <1>4 DEF HistoryInv

-----------------------------------------------------------------------------
(***************************************************************************)
(* Sessions a step leaves alone, or leaves without a record.               *)
(***************************************************************************)
Alone(s) ==
  /\ history'[s] = history[s] /\ disk'[s] = disk[s]
  /\ mode'[s] = mode[s] /\ told'[s] = told[s]
  /\ s \in live' => s \in live
  /\ s \in displaced \union diverged => s \in displaced' \union diverged'
  /\ Running(s)' = Running(s)
  /\ \A t \in Running(s) : pc'[t] = pc[t] /\ task'[t] = task[t]

LEMMA AloneKept ==
  ASSUME NEW s \in Sessions, Alone(s), Kept(s)
  PROVE  Kept(s)'
<1>1. SessionSaved(s)'
  BY DEF Alone, Kept, SessionSaved, TurnSaved
<1>2. ModeKnown(s)'
  BY DEF Alone, Kept, ModeKnown, TurnMode, Owes
<1> QED
  BY <1>1, <1>2 DEF Kept

Gone(s) == s \notin live' /\ (Running(s)' = {} \/ s \in displaced')

LEMMA GoneKept ==
  ASSUME NEW s \in Sessions, Gone(s)
  PROVE  Kept(s)'
  BY DEF Gone, Kept, SessionSaved, ModeKnown

(* A step of a task touches its own session and itself only.               *)
Local(t) ==
  /\ UNCHANGED <<on, restore, used, displaced, live>>
  /\ pc[t] # "idle"
  /\ \A u \in Turns \ {t} : pc'[u] = pc[u] /\ task'[u] = task[u]
  /\ \A s \in Sessions \ {on[t]} :
       /\ history'[s] = history[s] /\ disk'[s] = disk[s]
       /\ mode'[s] = mode[s] /\ told'[s] = told[s]
  /\ diverged \subseteq diverged'

LEMMA AwaitStepIsLocal ==
  ASSUME TypeInv, NEW t \in Turns, AwaitStep(t)
  PROVE  Local(t) /\ AtAwait
<1> USE DEF TypeInv, TypeOK, Local, ghostVars, storeVars
<1>1. CASE RefuseTurn(t)
  BY <1>1 DEF RefuseTurn
<1>2. CASE BeginTurn(t)
  BY <1>2 DEF BeginTurn
<1>3. CASE StreamReply(t)
  BY <1>3 DEF StreamReply
<1>4. CASE StreamCancelled(t)
  BY <1>4 DEF StreamCancelled, Ends
<1>5. CASE TurnFails(t)
  BY <1>5 DEF TurnFails, Ends, Tell
<1>6. CASE RunToolCall(t)
  BY <1>6 DEF RunToolCall
<1> QED
  BY <1>1, <1>2, <1>3, <1>4, <1>5, <1>6 DEF AwaitStep

LEMMA SyncStepIsLocal ==
  ASSUME TypeInv, NEW t \in Turns, SyncStep(t)
  PROVE  Local(t) /\ pc[t] \in SyncPCs
<1> USE DEF TypeInv, TypeOK, Local, ghostVars, storeVars, SyncPCs, SavePCs
<1>1. CASE StartSave(t)
  BY <1>1 DEF StartSave, Ends
<1>2. CASE WriteMeta(t)
  BY <1>2 DEF WriteMeta
<1>3. CASE WriteBody(t)
  BY <1>3 DEF WriteBody
<1>4. CASE WriteNewline(t)
  BY <1>4 DEF WriteNewline
<1>5. CASE SaveFails(t)
  BY <1>5 DEF SaveFails, Ends
<1>6. CASE CommitSave(t)
  BY <1>6 DEF CommitSave, Ends, TellTransition, Tell
<1>7. CASE ClearTurn(t)
  BY <1>7 DEF ClearTurn
<1> QED
  BY <1>1, <1>2, <1>3, <1>4, <1>5, <1>6, <1>7 DEF SyncStep

LEMMA LocalLeavesAlone ==
  ASSUME NEW t \in Turns, Local(t), NEW s \in Sessions \ {on[t]}
  PROVE  Alone(s)
  BY DEF Local, Alone, Running
-----------------------------------------------------------------------------
(***************************************************************************)
(* Requests and restores.                                                  *)
(***************************************************************************)
LEMMA NewSessionKeeps ==
  ASSUME HistoryInv, NEW s \in Sessions, NewSession(s)
  PROVE  \A x \in Sessions : Kept(x)'
<1> USE DEF HistoryInv, SlotInv, TypeInv, TypeOK
<1>1. \A x \in Sessions \ {s} : Alone(x)
  BY DEF NewSession, InsertRecord, Tell, turnVars, Alone, Running
<1>2. Running(s) = {} /\ Running(s)' = {}
  BY DEF NewSession, turnVars, Running, UsedSessions, ActivePCs, SyncPCs, SavePCs
<1>3. s \notin used /\ disk[s].lines = <<>>
  BY DEF NewSession, KnownIds, NoFiles
<1>4. history'[s] = <<>> /\ disk'[s] = disk[s] /\ told'[s] = mode'[s]
  BY DEF NewSession, InsertRecord, Tell
<1>5. Kept(s)'
  BY <1>2, <1>3, <1>4 DEF Kept, SessionSaved, ModeKnown
<1> HIDE DEF TypeOK
<1> QED
  BY <1>1, <1>5, AloneKept

LEMMA RecordRemoved ==
  ASSUME HistoryInv, NEW s \in Sessions, CloseSession(s) \/ DeleteSession(s)
  PROVE  \A x \in Sessions : Kept(x)'
<1> USE DEF HistoryInv, SlotInv, TypeInv, TypeOK
<1>1. UNCHANGED <<pc, on, task, told, diverged>> /\ RemoveRecord(s)
      /\ \A x \in Sessions \ {s} : disk'[x] = disk[x]
  BY DEF CloseSession, DeleteSession, turnVars
<1>2. \A x \in Sessions \ {s} : Alone(x)
  BY <1>1 DEF RemoveRecord, Alone, Running
<1>3. Gone(s)
  BY <1>1 DEF RemoveRecord, Gone, Running
<1> HIDE DEF TypeOK
<1> QED
  BY <1>2, <1>3, AloneKept, GoneKept

LEMMA SetModeKeeps ==
  ASSUME HistoryInv, NEW s \in Sessions, NEW m \in ClientModes, SetMode(s, m)
  PROVE  \A x \in Sessions : Kept(x)'
<1> USE DEF HistoryInv, SlotInv, TypeInv, TypeOK
<1>1. \A x \in Sessions \ {s} : Alone(x)
  BY DEF SetMode, Tell, turnVars, Alone, Running
<1>2. Running(s)' = Running(s) /\ UNCHANGED <<pc, task, history, disk, live, displaced, diverged>>
  BY DEF SetMode, turnVars, Running
<1>3. \A t \in Running(s) : pc[t] \notin SavePCs
  BY DEF SetMode, AtAwait, SyncPCs, Running
<1>4. told'[s] = mode'[s]
  BY DEF SetMode, Tell
<1>5. SessionSaved(s)'
  BY <1>2 DEF Kept, SessionSaved, TurnSaved
<1>6. ModeKnown(s)'
  BY <1>2, <1>3, <1>4 DEF Kept, ModeKnown, TurnMode
<1>7. Kept(s)'
  BY <1>5, <1>6 DEF Kept
<1> HIDE DEF TypeOK
<1> QED
  BY <1>1, <1>7, AloneKept

LEMMA SessionStepKeeps ==
  ASSUME HistoryInv, NEW s \in Sessions, SessionStep(s)
  PROVE  \A x \in Sessions : Kept(x)'
<1>1. CASE CancelTurn(s)
  <2>1. \A x \in Sessions : Alone(x)
    BY <1>1 DEF CancelTurn, storeVars, ghostVars, Alone, Running
  <2> QED
    BY <2>1, AloneKept DEF HistoryInv
<1>2. ASSUME NEW t \in Turns, ReceivePrompt(t, s) PROVE \A x \in Sessions : Kept(x)'
  <2>1. \A x \in Sessions : Alone(x)
    BY <1>2 DEF ReceivePrompt, storeVars, ghostVars, Alone, Running, HistoryInv, SlotInv,
                TypeInv, TypeOK, ActivePCs, SyncPCs, SavePCs
  <2> QED
    BY <2>1, AloneKept DEF HistoryInv
<1>3. ASSUME NEW r \in Restores, ReadRecord(r, s) PROVE \A x \in Sessions : Kept(x)'
  <2>1. \A x \in Sessions : Alone(x)
    BY <1>3 DEF ReadRecord, storeVars, turnVars, ghostVars, Alone, Running
  <2> QED
    BY <2>1, AloneKept DEF HistoryInv
<1> QED
  BY <1>1, <1>2, <1>3, NewSessionKeeps, RecordRemoved, SetModeKeeps DEF SessionStep

LEMMA InsertRestoredKeeps ==
  ASSUME HistoryInv, NEW r \in Restores, InsertRestored(r)
  PROVE  \A x \in Sessions : Kept(x)'
<1> USE DEF HistoryInv, SlotInv, TypeInv, TypeOK
<1>1. PICK s \in Sessions : s = restore[r].session
  BY DEF InsertRestored, RestoreRecord, IdleRestore
<1>2. \A x \in Sessions \ {s} : Alone(x)
  BY <1>1 DEF InsertRestored, InsertRecord, Tell, turnVars, Alone, Running
<1>3. Running(s)' = Running(s)
  BY DEF InsertRestored, turnVars, Running
<1>4. CASE Running(s) # {}
  <2>1. s \in displaced'
    BY <1>1, <1>4 DEF InsertRestored
  <2>2. Kept(s)'
    BY <2>1 DEF Kept, SessionSaved, ModeKnown
  <2> HIDE DEF TypeOK
  <2> QED
    BY <1>2, <2>2, AloneKept
<1>5. CASE Running(s) = {}
  <2>1. s \notin diverged' => restore[r].lines = disk[s].lines
    BY <1>1 DEF InsertRestored
  <2>2. /\ disk'[s] = disk[s] /\ history'[s] = restore[r].lines
        /\ told'[s] = mode'[s]
    BY <1>1 DEF InsertRestored, InsertRecord, Tell
  <2>3. Kept(s)'
    BY <1>3, <1>5, <2>1, <2>2 DEF Kept, SessionSaved, ModeKnown
  <2> HIDE DEF TypeOK
  <2> QED
    BY <1>1, <1>2, <2>3, AloneKept
<1> QED
  BY <1>4, <1>5

LEMMA RestoreStepKeeps ==
  ASSUME HistoryInv, NEW r \in Restores, RestoreStep(r)
  PROVE  \A x \in Sessions : Kept(x)'
<1>1. CASE ConnectFails(r)
  <2>1. \A x \in Sessions : Alone(x)
    BY <1>1 DEF ConnectFails, storeVars, turnVars, ghostVars, Alone, Running
  <2> QED
    BY <2>1, AloneKept DEF HistoryInv
<1> QED
  BY <1>1, InsertRestoredKeeps DEF RestoreStep

LEMMA CrashKeepsHistory ==
  ASSUME Crash
  PROVE  \A x \in Sessions : Kept(x)'
<1>1. \A x \in Sessions : Gone(x)
  BY DEF Crash, Gone, Running, ActivePCs, SyncPCs, SavePCs
<1> QED
  BY <1>1, GoneKept
-----------------------------------------------------------------------------
(***************************************************************************)
(* The steps of a turn that is the only one on its session.                *)
(***************************************************************************)
LEMMA OneRuns ==
  ASSUME HistoryInv, NEW s \in Sessions, s \notin displaced, NEW t \in Running(s)
  PROVE  Running(s) = {t} /\ s \in live
  BY SlotInvMeans DEF HistoryInv, RunningHoldsSlot

ToldRight(s, t) == ~Owes(t) => told[s] \in {mode[s], NoMode}

TurnKept(s, t) == TurnSaved(s, t) /\ TurnMode(s, t) /\ ToldRight(s, t)

LEMMA OneTurnKept ==
  ASSUME HistoryInv, NEW s \in Sessions, s \notin displaced \union diverged,
         NEW t \in Running(s)
  PROVE  TurnKept(s, t)
<1>1. Running(s) = {t} /\ s \in live
  BY OneRuns
<1> QED
  BY <1>1 DEF HistoryInv, Kept, SessionSaved, ModeKnown, TurnKept, ToldRight

LEMMA KeptByTurn ==
  ASSUME NEW s \in Sessions, NEW t \in Turns, Running(s)' = {t}, TurnKept(s, t)'
  PROVE  Kept(s)'
  BY DEF Kept, SessionSaved, ModeKnown, TurnKept, ToldRight

LEMMA BeginTurnKeeps ==
  ASSUME HistoryInv, NEW t \in Turns, BeginTurn(t)
  PROVE  Kept(on[t])'
<1> USE DEF HistoryInv, SlotInv, TypeInv, TypeOK
<1>1. PICK s \in Sessions : s = on[t] /\ on'[t] = s
  BY DEF BeginTurn
<1>2. CASE s \in displaced \union diverged
  BY <1>1, <1>2 DEF BeginTurn, ghostVars, Kept, SessionSaved, ModeKnown
<1>3. CASE s \notin displaced \union diverged
  <2>1. Running(s) = {} /\ s \in live
    BY <1>1, <1>3, OneRuns, SlotInvMeans, TurnsAssumption
       DEF BeginTurn, CanBegin, RunningHoldsSlot, TurnsAssumption, Running
  <2>2. Running(s)' = {t}
    BY <1>1, <2>1 DEF BeginTurn, Running, ActivePCs, SyncPCs, SavePCs
  <2>3. disk[s].lines = history[s] /\ told[s] \in {mode[s], NoMode}
    BY <1>3, <2>1 DEF Kept, SessionSaved, ModeKnown
  <2>4. IsPrefix(history[s], Conversation(s, t))
    BY PrefixOfItself, PrefixOfAppend, MessagesTyped DEF Conversation
  <2>5. /\ pc'[t] = "stream" /\ task'[t].messages = Conversation(s, t)
        /\ task'[t].pending = NoMode /\ task'[t].left = MaxTurnRequests
        /\ UNCHANGED <<history, disk, mode, told>>
    BY <1>1 DEF BeginTurn, NewTask, ghostVars
  <2>6. TurnSaved(s, t)'
    BY <2>3, <2>4, <2>5, TurnsAssumption DEF TurnSaved, TurnsAssumption
  <2>7. TurnMode(s, t)' /\ ToldRight(s, t)'
    BY <2>3, <2>5 DEF TurnMode, ToldRight, Owes
  <2> HIDE DEF TypeOK
  <2> QED
    BY <1>1, <2>2, <2>6, <2>7, KeptByTurn DEF TurnKept
<1> QED
  BY <1>2, <1>3

(* A step of a running turn that leaves it running.                        *)
RunsOn(t) ==
  /\ pc[t] \in ActivePCs /\ pc'[t] \in ActivePCs
  /\ Local(t)
  /\ on[t] \notin displaced \union diverged' => TurnKept(on[t], t)'

LEMMA RunsOnKeeps ==
  ASSUME HistoryInv, NEW t \in Turns, RunsOn(t)
  PROVE  Kept(on[t])'
<1> USE DEF HistoryInv, SlotInv, TypeInv, TypeOK
<1>1. PICK s \in Sessions : s = on[t] /\ on'[t] = s
  BY DEF RunsOn, Local
<1>2. CASE s \in displaced \union diverged'
  BY <1>1, <1>2 DEF RunsOn, Local, Kept, SessionSaved, ModeKnown
<1>3. CASE s \notin displaced \union diverged'
  <2>1. t \in Running(s) /\ s \notin displaced
    BY <1>1, <1>3 DEF RunsOn, Running
  <2>2. Running(s) = {t}
    BY <2>1, OneRuns
  <2>3. Running(s)' = {t}
    BY <1>1, <2>2 DEF RunsOn, Local, Running
  <2>4. TurnKept(s, t)'
    BY <1>1, <1>3 DEF RunsOn
  <2> HIDE DEF TypeOK
  <2> QED
    BY <1>1, <2>3, <2>4, KeptByTurn
<1> QED
  BY <1>2, <1>3
(* Before such a step: the session, and what the turn has kept so far.     *)
LEMMA Before ==
  ASSUME HistoryInv, NEW t \in Turns, Local(t), pc[t] \in ActivePCs
  PROVE  \E s \in Sessions :
           /\ on[t] = s /\ on'[t] = s
           /\ s \notin displaced \union diverged' => TurnKept(s, t) /\ s \in live
<1>1. on[t] \in Sessions /\ on'[t] = on[t]
  BY DEF HistoryInv, SlotInv, TypeInv, TypeOK, Local
<1>2. t \in Running(on[t])
  BY DEF Running
<1> QED
  BY <1>1, <1>2, OneRuns, OneTurnKept DEF Local

LEMMA StreamReplyKeeps ==
  ASSUME HistoryInv, NEW t \in Turns, StreamReply(t)
  PROVE  RunsOn(t)
<1> USE DEF HistoryInv, SlotInv, TypeInv, TypeOK
<1>1. Local(t)
  BY AwaitStepIsLocal DEF AwaitStep
<1>2. pc[t] = "stream" /\ pc'[t] \in {"batch", "save"}
      /\ UNCHANGED <<history, disk, mode, told>>
  BY DEF StreamReply, storeVars, ghostVars
<1>3. PICK s \in Sessions :
        /\ on[t] = s /\ on'[t] = s
        /\ s \notin displaced \union diverged' => TurnKept(s, t) /\ s \in live
  BY <1>1, <1>2, Before DEF ActivePCs
<1>4. PICK reply \in Replies : task' = [task EXCEPT ![t] = AfterReply(t, reply)]
  BY DEF StreamReply
<1>5. /\ task'[t].messages = Append(task[t].messages, AssistantMessage(t, reply))
      /\ task'[t].pending = task[t].pending
  BY <1>4 DEF AfterReply, TaskRecord
<1>6. ASSUME s \notin displaced \union diverged' PROVE TurnKept(s, t)'
  <2>1. TurnSaved(s, t) /\ TurnMode(s, t) /\ ToldRight(s, t)
    BY <1>3, <1>6 DEF TurnKept
  <2>2. IsPrefix(history[s], task'[t].messages)
    <3>1. /\ history[s] \in Seq(Message) /\ task[t].messages \in Seq(Message)
          /\ AssistantMessage(t, reply) \in Message
      BY MessagesTyped DEF TaskRecord
    <3>2. IsPrefix(history[s], task[t].messages)
      BY <1>2, <2>1 DEF TurnSaved
    <3> QED
      BY <1>5, <3>1, <3>2, PrefixOfAppend
  <2>3. TurnSaved(s, t)'
    BY <1>2, <2>1, <2>2 DEF TurnSaved
  <2>4. TurnMode(s, t)' /\ ToldRight(s, t)'
    BY <1>2, <1>5, <2>1 DEF TurnMode, ToldRight, Owes, SavePCs
  <2> QED
    BY <2>3, <2>4 DEF TurnKept
<1> QED
  BY <1>1, <1>2, <1>3, <1>6 DEF RunsOn, ActivePCs, SyncPCs

(* A turn that gives up: its conversation does not matter any more.        *)
LEMMA EndingKeeps ==
  ASSUME HistoryInv, NEW t \in Turns, StreamCancelled(t) \/ TurnFails(t)
  PROVE  RunsOn(t)
<1> USE DEF HistoryInv, SlotInv, TypeInv, TypeOK
<1>1. Local(t)
  BY AwaitStepIsLocal DEF AwaitStep
<1>2. /\ pc[t] \in {"stream", "batch"} /\ pc'[t] = "clear"
      /\ UNCHANGED <<history, disk, mode, task>>
  BY DEF StreamCancelled, TurnFails, Ends, storeVars, ghostVars
<1>3. PICK s \in Sessions :
        /\ on[t] = s /\ on'[t] = s
        /\ s \notin displaced \union diverged' => TurnKept(s, t) /\ s \in live
  BY <1>1, <1>2, Before DEF ActivePCs
<1>4. told'[s] = IF pc[t] = "batch" THEN NoMode ELSE told[s]
  BY <1>3 DEF StreamCancelled, TurnFails, Tell, storeVars, ghostVars
<1>5. ASSUME s \notin displaced \union diverged' PROVE TurnKept(s, t)'
  <2>1. TurnSaved(s, t) /\ TurnMode(s, t) /\ ToldRight(s, t)
    BY <1>3, <1>5 DEF TurnKept
  <2>2. TurnSaved(s, t)'
    BY <1>2, <2>1 DEF TurnSaved
  <2>3. TurnMode(s, t)' /\ ToldRight(s, t)'
    BY <1>2, <1>4, <2>1 DEF TurnMode, ToldRight, Owes, SavePCs
  <2> QED
    BY <2>2, <2>3 DEF TurnKept
<1> QED
  BY <1>1, <1>2, <1>3, <1>5 DEF RunsOn, ActivePCs, SyncPCs

LEMMA RunToolCallKeeps ==
  ASSUME HistoryInv, NEW t \in Turns, RunToolCall(t)
  PROVE  RunsOn(t)
<1> USE DEF HistoryInv, SlotInv, TypeInv, TypeOK
<1>1. Local(t)
  BY AwaitStepIsLocal DEF AwaitStep
<1>2. pc[t] = "batch" /\ pc'[t] \in {"batch", "save"}
      /\ UNCHANGED <<history, disk, told>>
  BY DEF RunToolCall, storeVars, ghostVars
<1>3. PICK s \in Sessions :
        /\ on[t] = s /\ on'[t] = s
        /\ s \notin displaced \union diverged' => TurnKept(s, t) /\ s \in live
  BY <1>1, <1>2, Before DEF ActivePCs
<1>4. /\ task'[t].messages = Append(task[t].messages, ToolResult(t))
      /\ task'[t].pending = IF ExitsPlanMode(t) THEN "acceptEdits" ELSE task[t].pending
      /\ mode'[s] = IF ExitsPlanMode(t) THEN "acceptEdits" ELSE mode[s]
  BY <1>3 DEF RunToolCall, AfterCall, TaskRecord
<1>5. ASSUME s \notin displaced \union diverged' PROVE TurnKept(s, t)'
  <2>1. TurnSaved(s, t) /\ TurnMode(s, t) /\ ToldRight(s, t)
    BY <1>3, <1>5 DEF TurnKept
  <2>2. IsPrefix(history[s], task'[t].messages)
    <3>1. /\ history[s] \in Seq(Message) /\ task[t].messages \in Seq(Message)
          /\ ToolResult(t) \in Message
      BY MessagesTyped DEF TaskRecord
    <3>2. IsPrefix(history[s], task[t].messages)
      BY <1>2, <2>1 DEF TurnSaved
    <3> QED
      BY <1>4, <3>1, <3>2, PrefixOfAppend
  <2>3. TurnSaved(s, t)'
    BY <1>2, <2>1, <2>2 DEF TurnSaved
  <2>4. "acceptEdits" # NoMode
    BY TurnsAssumption DEF TurnsAssumption, Modes
  <2>5. TurnMode(s, t)' /\ ToldRight(s, t)'
    BY <1>2, <1>4, <2>1, <2>4 DEF TurnMode, ToldRight, Owes, SavePCs
  <2> QED
    BY <2>3, <2>5 DEF TurnKept
<1> QED
  BY <1>1, <1>2, <1>3, <1>5 DEF RunsOn, ActivePCs, SyncPCs

LEMMA RefuseTurnKeeps ==
  ASSUME HistoryInv, NEW t \in Turns, RefuseTurn(t)
  PROVE  Kept(on[t])'
<1>1. PICK s \in Sessions : s = on[t] /\ on'[t] = s
  BY DEF RefuseTurn, HistoryInv, SlotInv, TypeInv, TypeOK
<1>2. Alone(s)
  BY DEF RefuseTurn, storeVars, ghostVars, Alone, Running, HistoryInv, SlotInv, TypeInv,
         TypeOK, ActivePCs, SyncPCs, SavePCs
<1>3. Kept(s)'
  BY <1>2, AloneKept DEF HistoryInv
<1> QED
  BY <1>1, <1>3

LEMMA AwaitStepKeeps ==
  ASSUME HistoryInv, NEW t \in Turns, AwaitStep(t)
  PROVE  \A x \in Sessions : Kept(x)'
<1>1. TypeInv
  BY DEF HistoryInv, SlotInv
<1>2. Local(t)
  BY <1>1, AwaitStepIsLocal
<1>3. PICK s \in Sessions : s = on[t] /\ on'[t] = s
  BY <1>1, <1>2 DEF Local, TypeInv, TypeOK
<1>4. Kept(on[t])'
  BY RefuseTurnKeeps, BeginTurnKeeps, StreamReplyKeeps, EndingKeeps, RunToolCallKeeps,
     RunsOnKeeps DEF AwaitStep
<1>5. Kept(s)'
  BY <1>3, <1>4
<1>6. \A x \in Sessions \ {s} : Kept(x)'
  BY <1>2, <1>3, LocalLeavesAlone, AloneKept DEF HistoryInv
<1> QED
  BY <1>5, <1>6
-----------------------------------------------------------------------------
(***************************************************************************)
(* The steps of a save.                                                    *)
(***************************************************************************)
LEMMA StartSaveKeeps ==
  ASSUME HistoryInv, NEW t \in Turns, StartSave(t)
  PROVE  RunsOn(t)
<1> USE DEF HistoryInv, SlotInv, TypeInv, TypeOK
<1>1. Local(t)
  BY SyncStepIsLocal DEF SyncStep
<1>2. pc[t] = "save" /\ pc'[t] \in {"clear", "meta"} /\ UNCHANGED <<history, disk, told, diverged>>
  BY DEF StartSave, Ends, ghostVars
<1>3. PICK s \in Sessions :
        /\ on[t] = s /\ on'[t] = s
        /\ s \notin displaced \union diverged' => TurnKept(s, t) /\ s \in live
  BY <1>1, <1>2, Before DEF ActivePCs, SyncPCs
<1>4. ASSUME s \notin displaced \union diverged' PROVE TurnKept(s, t)'
  <2>1. TurnSaved(s, t) /\ TurnMode(s, t) /\ ToldRight(s, t) /\ s \in live
    BY <1>3, <1>4 DEF TurnKept
  <2>2. /\ pc'[t] = "meta"
        /\ task'[t].messages = task[t].messages /\ task'[t].todo = Unsaved(t)
        /\ task'[t].pending = task[t].pending
        /\ mode'[s] = IF task[t].pending = NoMode THEN mode[s] ELSE task[t].pending
    <3> DEFINE m == IF task[t].pending = NoMode THEN mode[s] ELSE task[t].pending
    <3>1. /\ pc' = [pc EXCEPT ![t] = "meta"] /\ mode' = [mode EXCEPT ![s] = m]
          /\ task' = [task EXCEPT ![t] = [task[t] EXCEPT !.meta = m, !.todo = Unsaved(t)]]
      BY <1>3, <2>1 DEF StartSave
    <3>2. task[t] \in TaskRecord
      OBVIOUS
    <3> HIDE DEF m
    <3>3. task'[t] = [task[t] EXCEPT !.meta = m, !.todo = Unsaved(t)]
      BY <3>1
    <3>4. /\ task'[t].messages = task[t].messages /\ task'[t].todo = Unsaved(t)
          /\ task'[t].pending = task[t].pending
      BY <3>2, <3>3 DEF TaskRecord
    <3> QED
      BY <3>1, <3>4 DEF m
  <2>3. disk[s].lines = history[s] /\ IsPrefix(history[s], task[t].messages)
    BY <1>2, <2>1 DEF TurnSaved
  <2>4. task[t].messages = history[s] \o Unsaved(t)
    BY <1>3, <2>3, PrefixCompleted DEF TaskRecord, Unsaved
  <2>5. TurnSaved(s, t)'
    BY <1>2, <2>2, <2>3, <2>4 DEF TurnSaved
  <2>6. TurnMode(s, t)' /\ ToldRight(s, t)'
    BY <1>2, <2>1, <2>2 DEF TurnMode, ToldRight, Owes, SavePCs
  <2> QED
    BY <2>5, <2>6 DEF TurnKept
<1> QED
  BY <1>1, <1>2, <1>3, <1>4 DEF RunsOn, ActivePCs, SyncPCs, SavePCs

(* The three writes change the file, and nothing the client knows of.      *)
LEMMA WritesKeepMode ==
  ASSUME NEW s \in Sessions, NEW t \in Turns,
         pc[t] \in SavePCs, pc'[t] \in SavePCs, UNCHANGED <<mode, told>>,
         task'[t].pending = task[t].pending, TurnMode(s, t), ToldRight(s, t)
  PROVE  TurnMode(s, t)' /\ ToldRight(s, t)'
  BY DEF TurnMode, ToldRight, Owes, SavePCs

LEMMA WriteMetaKeeps ==
  ASSUME HistoryInv, NEW t \in Turns, WriteMeta(t)
  PROVE  RunsOn(t)
<1> USE DEF HistoryInv, SlotInv, TypeInv, TypeOK
<1>1. Local(t)
  BY SyncStepIsLocal DEF SyncStep
<1>2. /\ pc[t] = "meta" /\ pc'[t] = NextWrite(task[t].todo)
      /\ UNCHANGED <<history, mode, told, diverged, task>>
  BY DEF WriteMeta, storeVars, ghostVars
<1>3. PICK s \in Sessions :
        /\ on[t] = s /\ on'[t] = s
        /\ s \notin displaced \union diverged' => TurnKept(s, t) /\ s \in live
  BY <1>1, <1>2, Before DEF ActivePCs, SyncPCs, SavePCs
<1>4. pc'[t] \in {"body", "commit"} /\ (pc'[t] = "commit" => task[t].todo = <<>>)
  BY <1>2 DEF NextWrite
<1>5. disk'[s].lines = disk[s].lines
  BY <1>3 DEF WriteMeta, FileRecord
<1>6. ASSUME s \notin displaced \union diverged' PROVE TurnKept(s, t)'
  <2>1. TurnSaved(s, t) /\ TurnMode(s, t) /\ ToldRight(s, t)
    BY <1>3, <1>6 DEF TurnKept
  <2>2. task[t].messages = disk[s].lines \o task[t].todo
    BY <1>2, <2>1 DEF TurnSaved
  <2>3. task[t].todo = <<>> => task[t].messages = disk[s].lines
    BY <2>2, ConcatEmptySeq DEF FileRecord
  <2>4. TurnSaved(s, t)'
    BY <1>2, <1>4, <1>5, <2>1, <2>2, <2>3 DEF TurnSaved
  <2>5. TurnMode(s, t)' /\ ToldRight(s, t)'
    BY <1>2, <1>4, <2>1, WritesKeepMode DEF SavePCs
  <2> QED
    BY <2>4, <2>5 DEF TurnKept
<1> QED
  BY <1>1, <1>2, <1>3, <1>4, <1>6 DEF RunsOn, ActivePCs, SyncPCs, SavePCs

LEMMA WriteBodyKeeps ==
  ASSUME HistoryInv, NEW t \in Turns, WriteBody(t)
  PROVE  RunsOn(t)
<1> USE DEF HistoryInv, SlotInv, TypeInv, TypeOK
<1>1. Local(t)
  BY SyncStepIsLocal DEF SyncStep
<1>2. /\ pc[t] = "body" /\ pc'[t] = "newline"
      /\ UNCHANGED <<history, mode, told, diverged, task>>
  BY DEF WriteBody, storeVars, ghostVars
<1>3. PICK s \in Sessions :
        /\ on[t] = s /\ on'[t] = s
        /\ s \notin displaced \union diverged' => TurnKept(s, t) /\ s \in live
  BY <1>1, <1>2, Before DEF ActivePCs, SyncPCs, SavePCs
<1>4. disk'[s].lines = Append(disk[s].lines, Head(task[t].todo))
  BY <1>3 DEF WriteBody, FileRecord
<1>5. task[t].todo # <<>> /\ task[t].todo \in Seq(Message) /\ disk[s].lines \in Seq(Message)
  BY <1>2 DEF WorkLeft, TaskRecord, FileRecord
<1>6. ASSUME s \notin displaced \union diverged' PROVE TurnKept(s, t)'
  <2>1. TurnSaved(s, t) /\ TurnMode(s, t) /\ ToldRight(s, t)
    BY <1>3, <1>6 DEF TurnKept
  <2>2. task[t].messages = disk[s].lines \o task[t].todo
    BY <1>2, <2>1 DEF TurnSaved
  <2>3. task[t].messages = disk'[s].lines \o Tail(task[t].todo)
    <3>1. disk[s].lines \o task[t].todo
            = Append(disk[s].lines, Head(task[t].todo)) \o Tail(task[t].todo)
      BY <1>5, HeadMoves
    <3> QED
      BY <1>4, <2>2, <3>1
  <2>4. TurnSaved(s, t)'
    BY <1>2, <2>1, <2>3 DEF TurnSaved
  <2>5. TurnMode(s, t)' /\ ToldRight(s, t)'
    BY <1>2, <2>1, WritesKeepMode DEF SavePCs
  <2> QED
    BY <2>4, <2>5 DEF TurnKept
<1> QED
  BY <1>1, <1>2, <1>3, <1>6 DEF RunsOn, ActivePCs, SyncPCs, SavePCs

LEMMA WriteNewlineKeeps ==
  ASSUME HistoryInv, NEW t \in Turns, WriteNewline(t)
  PROVE  RunsOn(t)
<1> USE DEF HistoryInv, SlotInv, TypeInv, TypeOK
<1>1. Local(t)
  BY SyncStepIsLocal DEF SyncStep
<1>2. /\ pc[t] = "newline" /\ pc'[t] = NextWrite(Tail(task[t].todo))
      /\ UNCHANGED <<history, mode, told, diverged>>
  BY DEF WriteNewline, storeVars, ghostVars
<1>3. PICK s \in Sessions :
        /\ on[t] = s /\ on'[t] = s
        /\ s \notin displaced \union diverged' => TurnKept(s, t) /\ s \in live
  BY <1>1, <1>2, Before DEF ActivePCs, SyncPCs, SavePCs
<1>4. /\ task'[t].todo = Tail(task[t].todo)
      /\ task'[t].messages = task[t].messages /\ task'[t].pending = task[t].pending
  BY DEF WriteNewline, TaskRecord
<1>5. pc'[t] \in {"body", "commit"} /\ (pc'[t] = "commit" => Tail(task[t].todo) = <<>>)
  BY <1>2 DEF NextWrite
<1>6. disk'[s].lines = disk[s].lines
  BY <1>3 DEF WriteNewline, FileRecord
<1>7. ASSUME s \notin displaced \union diverged' PROVE TurnKept(s, t)'
  <2>1. TurnSaved(s, t) /\ TurnMode(s, t) /\ ToldRight(s, t)
    BY <1>3, <1>7 DEF TurnKept
  <2>2. task[t].messages = disk[s].lines \o Tail(task[t].todo)
    BY <1>2, <2>1 DEF TurnSaved
  <2>3. Tail(task[t].todo) = <<>> => task[t].messages = disk[s].lines
    BY <2>2, ConcatEmptySeq DEF FileRecord
  <2>4. TurnSaved(s, t)'
    BY <1>2, <1>4, <1>5, <1>6, <2>1, <2>2, <2>3 DEF TurnSaved
  <2>5. TurnMode(s, t)' /\ ToldRight(s, t)'
    BY <1>2, <1>4, <1>5, <2>1, WritesKeepMode DEF SavePCs
  <2> QED
    BY <2>4, <2>5 DEF TurnKept
<1> QED
  BY <1>1, <1>2, <1>3, <1>5, <1>7 DEF RunsOn, ActivePCs, SyncPCs, SavePCs

LEMMA SaveFailsKeeps ==
  ASSUME HistoryInv, NEW t \in Turns, SaveFails(t)
  PROVE  RunsOn(t)
<1> USE DEF HistoryInv, SlotInv, TypeInv, TypeOK
<1>1. Local(t)
  BY SyncStepIsLocal DEF SyncStep
<1>2. on[t] \in diverged' /\ pc[t] \in SavePCs /\ pc'[t] = "clear"
  BY DEF SaveFails, Ends, SavePCs
<1> QED
  BY <1>1, <1>2 DEF RunsOn, ActivePCs, SyncPCs

LEMMA CommitSaveKeeps ==
  ASSUME HistoryInv, NEW t \in Turns, CommitSave(t)
  PROVE  RunsOn(t)
<1> USE DEF HistoryInv, SlotInv, TypeInv, TypeOK
<1>1. Local(t)
  BY SyncStepIsLocal DEF SyncStep
<1>2. pc[t] = "commit" /\ UNCHANGED <<disk, mode, diverged>>
  BY DEF CommitSave
<1>3. PICK s \in Sessions :
        /\ on[t] = s /\ on'[t] = s
        /\ s \notin displaced \union diverged' => TurnKept(s, t) /\ s \in live
  BY <1>1, <1>2, Before DEF ActivePCs, SyncPCs, SavePCs
<1>4. /\ history'[s] = task[t].messages
      /\ told'[s] = IF task[t].pending = NoMode THEN told[s] ELSE task[t].pending
  BY <1>3 DEF CommitSave, TellTransition, Tell
<1>5. /\ task'[t].messages = task[t].messages /\ task'[t].pending = task[t].pending
      /\ \/ pc'[t] = "clear"
         \/ pc'[t] = "stream" /\ task[t].pending = NoMode
  BY DEF CommitSave, Ends, TaskRecord
<1>6. ASSUME s \notin displaced \union diverged' PROVE TurnKept(s, t)'
  <2>1. TurnSaved(s, t) /\ TurnMode(s, t) /\ ToldRight(s, t)
    BY <1>3, <1>6 DEF TurnKept
  <2>2. task[t].messages = disk[s].lines
    BY <1>2, <2>1 DEF TurnSaved
  <2>3. IsPrefix(task[t].messages, task[t].messages)
    BY PrefixOfItself DEF TaskRecord
  <2>4. TurnSaved(s, t)'
    BY <1>2, <1>4, <1>5, <2>2, <2>3 DEF TurnSaved
  <2>5. TurnMode(s, t)' /\ ToldRight(s, t)'
    BY <1>2, <1>4, <1>5, <2>1 DEF TurnMode, ToldRight, Owes, SavePCs
  <2> QED
    BY <2>4, <2>5 DEF TurnKept
<1> QED
  BY <1>1, <1>2, <1>3, <1>5, <1>6 DEF RunsOn, ActivePCs, SyncPCs, SavePCs

LEMMA ClearTurnKeeps ==
  ASSUME HistoryInv, NEW t \in Turns, ClearTurn(t)
  PROVE  Kept(on[t])'
<1> USE DEF HistoryInv, SlotInv, TypeInv, TypeOK
<1>1. Local(t) /\ pc[t] = "clear" /\ pc'[t] = "done" /\ UNCHANGED <<history, disk, mode, told, diverged>>
  BY SyncStepIsLocal DEF SyncStep, ClearTurn, ghostVars
<1>2. PICK s \in Sessions :
        /\ on[t] = s /\ on'[t] = s
        /\ s \notin displaced \union diverged' => TurnKept(s, t) /\ s \in live
  BY <1>1, Before DEF ActivePCs, SyncPCs
<1>3. CASE s \in displaced \union diverged
  BY <1>1, <1>2, <1>3 DEF Local, Kept, SessionSaved, ModeKnown
<1>4. CASE s \notin displaced \union diverged
  <2>1. TurnSaved(s, t) /\ ToldRight(s, t)
    BY <1>1, <1>2, <1>4 DEF TurnKept
  <2>2. Running(s) = {t}
    BY <1>1, <1>2, <1>4, OneRuns DEF Running, ActivePCs, SyncPCs
  <2>3. Running(s)' = {}
    BY <1>1, <1>2, <2>2 DEF Local, Running, ActivePCs, SyncPCs, SavePCs
  <2>4. disk[s].lines = history[s] /\ told[s] \in {mode[s], NoMode}
    BY <1>1, <2>1 DEF TurnSaved, ToldRight, Owes, SavePCs
  <2>5. Kept(s)'
    BY <1>1, <2>3, <2>4 DEF Kept, SessionSaved, ModeKnown
  <2> QED
    BY <1>2, <2>5
<1> QED
  BY <1>3, <1>4

LEMMA SyncStepKeeps ==
  ASSUME HistoryInv, NEW t \in Turns, SyncStep(t)
  PROVE  \A x \in Sessions : Kept(x)'
<1>1. TypeInv
  BY DEF HistoryInv, SlotInv
<1>2. Local(t)
  BY <1>1, SyncStepIsLocal
<1>3. PICK s \in Sessions : s = on[t] /\ on'[t] = s
  BY <1>1, <1>2 DEF Local, TypeInv, TypeOK
<1>4. Kept(on[t])'
  BY StartSaveKeeps, WriteMetaKeeps, WriteBodyKeeps, WriteNewlineKeeps, SaveFailsKeeps,
     CommitSaveKeeps, ClearTurnKeeps, RunsOnKeeps DEF SyncStep
<1>5. Kept(s)'
  BY <1>3, <1>4
<1>6. \A x \in Sessions \ {s} : Kept(x)'
  BY <1>2, <1>3, LocalLeavesAlone, AloneKept DEF HistoryInv
<1> QED
  BY <1>5, <1>6
-----------------------------------------------------------------------------
(***************************************************************************)
(* The invariant.                                                          *)
(***************************************************************************)
LEMMA StepOneSaves ==
  ASSUME HistoryInv, [Next]_vars
  PROVE  OneSaves'
<1> USE DEF HistoryInv, SlotInv, TypeInv, TypeOK, OneSaves
<1>1. CASE UNCHANGED pc
  BY <1>1
<1>2. ASSUME NEW s \in Sessions, SessionStep(s) PROVE OneSaves'
  <2>1. ASSUME NEW t \in Turns, ReceivePrompt(t, s) PROVE OneSaves'
    BY <2>1 DEF ReceivePrompt, SyncPCs, SavePCs
  <2>2. (\A t \in Turns : ~ReceivePrompt(t, s)) => UNCHANGED pc
    BY <1>2 DEF SessionStep, NewSession, CloseSession, DeleteSession, CancelTurn, SetMode,
                ReadRecord, turnVars
  <2> QED
    BY <1>1, <2>1, <2>2
<1>3. ASSUME NEW r \in Restores, RestoreStep(r) PROVE UNCHANGED pc
  BY <1>3 DEF RestoreStep, ConnectFails, InsertRestored, turnVars
<1>4. ASSUME NEW t \in Turns, AwaitStep(t) PROVE OneSaves'
  BY <1>4, AwaitStepIsLocal DEF Local, AtAwait
<1>5. ASSUME NEW t \in Turns, SyncStep(t) PROVE OneSaves'
  BY <1>5, SyncStepIsLocal DEF Local
<1>6. CASE Crash
  BY <1>6 DEF Crash, SyncPCs, SavePCs
<1> HIDE DEF HistoryInv, OneSaves
<1> QED
  BY <1>1, <1>2, <1>3, <1>4, <1>5, <1>6 DEF Next, vars, turnVars

LEMMA StepKnownIds ==
  ASSUME HistoryInv, [Next]_vars
  PROVE  KnownIds'
<1> USE DEF HistoryInv, SlotInv, TypeInv, TypeOK, KnownIds
<1>1. CASE UNCHANGED vars
  BY <1>1 DEF vars, storeVars, ghostVars
<1>2. ASSUME NEW s \in Sessions, SessionStep(s) PROVE KnownIds'
  <2>1. CASE NewSession(s)
    BY <2>1 DEF NewSession, InsertRecord
  <2>2. CASE CloseSession(s) \/ DeleteSession(s)
    BY <2>2 DEF CloseSession, DeleteSession, RemoveRecord
  <2>3. CASE CancelTurn(s)
    BY <2>3 DEF CancelTurn, storeVars, ghostVars
  <2>4. ASSUME NEW m \in ClientModes, SetMode(s, m) PROVE KnownIds'
    BY <2>4 DEF SetMode
  <2>5. ASSUME NEW t \in Turns, ReceivePrompt(t, s) PROVE KnownIds'
    BY <2>5 DEF ReceivePrompt, storeVars, ghostVars
  <2>6. ASSUME NEW r \in Restores, ReadRecord(r, s) PROVE KnownIds'
    BY <2>6 DEF ReadRecord, storeVars, ghostVars, NoFiles
  <2> QED
    BY <1>2, <2>1, <2>2, <2>3, <2>4, <2>5, <2>6 DEF SessionStep
<1>3. ASSUME NEW r \in Restores, RestoreStep(r) PROVE KnownIds'
  <2>1. CASE ConnectFails(r)
    BY <2>1 DEF ConnectFails, storeVars, ghostVars, IdleRestore
  <2>2. CASE InsertRestored(r)
    BY <2>2 DEF InsertRestored, InsertRecord, IdleRestore
  <2> QED
    BY <1>3, <2>1, <2>2 DEF RestoreStep
<1>4. ASSUME NEW t \in Turns, AwaitStep(t) \/ SyncStep(t) PROVE KnownIds'
  BY <1>4, AwaitStepIsLocal, SyncStepIsLocal DEF Local, UsedSessions
<1>5. CASE Crash
  <2>1. PICK torn \in SUBSET {t \in Turns : pc[t] = "body"} :
          disk' = [s \in Sessions |-> Tear(disk[s], \E t \in torn : on[t] = s)]
    BY <1>5 DEF Crash
  <2>2. ASSUME NEW s \in Sessions \ used PROVE disk'[s] = NoFiles
    <3>1. \A t \in torn : on[t] # s
      BY DEF UsedSessions
    <3>2. disk'[s] = Tear(NoFiles, FALSE)
      BY <2>1, <3>1
    <3> QED
      BY <3>2 DEF Tear, NoFiles
  <2> QED
    BY <1>5, <2>2 DEF Crash, IdleRestore
<1> HIDE DEF HistoryInv, KnownIds
<1> QED
  BY <1>1, <1>2, <1>3, <1>4, <1>5 DEF Next

LEMMA StepHistory == HistoryInv /\ [Next]_vars => HistoryInv'
<1> SUFFICES ASSUME HistoryInv, [Next]_vars PROVE HistoryInv'
  OBVIOUS
<1>1. SlotInv'
  BY StepSlots DEF HistoryInv
<1>2. CASE UNCHANGED vars
  <2>1. \A x \in Sessions : Alone(x)
    BY <1>2 DEF vars, storeVars, turnVars, ghostVars, Alone, Running
  <2> QED
    BY <1>1, <2>1, StepOneSaves, StepKnownIds, AloneKept DEF HistoryInv
<1>3. CASE Next
  <2>1. \A x \in Sessions : Kept(x)'
    BY <1>3, SessionStepKeeps, RestoreStepKeeps, AwaitStepKeeps, SyncStepKeeps,
       CrashKeepsHistory DEF Next
  <2> QED
    BY <1>1, <2>1, StepOneSaves, StepKnownIds DEF HistoryInv
<1> QED
  BY <1>2, <1>3

(***************************************************************************)
(* The files.  A line without its newline belongs to the one save under    *)
(* way or to an append that was cut short, and only a turn whose record is *)
(* there writes.                                                           *)
(***************************************************************************)
WritersLive == \A t \in Turns : pc[t] \in SavePCs => on[t] \in live
Whole(s) ==
  s \notin interrupted =>
    /\ Readable(s)
    /\ disk[s].open => \E t \in Turns : on[t] = s /\ pc[t] = "newline"
StaysDeleted(s) == s \in deleted => disk[s] = NoFiles /\ s \notin live /\ s \in used

FilesInv ==
  HistoryInv /\ WritersLive /\ \A s \in Sessions : Whole(s) /\ StaysDeleted(s)

LEMMA InitFiles == Init => FilesInv
<1> SUFFICES ASSUME Init PROVE FilesInv
  OBVIOUS
<1>1. HistoryInv
  BY InitHistory
<1>2. WritersLive /\ \A s \in Sessions : Whole(s) /\ StaysDeleted(s)
  BY DEF Init, WritersLive, SavePCs, Whole, Readable, StaysDeleted, NoFiles
<1> QED
  BY <1>1, <1>2 DEF FilesInv

(* What a step leaves of the files of a session it does not write.         *)
Untouched(s) ==
  /\ disk'[s] = disk[s]
  /\ s \in interrupted => s \in interrupted'
  /\ s \in deleted' => s \in deleted
  /\ s \in used => s \in used'
  /\ s \in live' => s \in live
  /\ \A t \in Turns : on[t] = s /\ pc[t] = "newline" => on'[t] = s /\ pc'[t] = "newline"

LEMMA UntouchedKept ==
  ASSUME NEW s \in Sessions, Untouched(s), Whole(s), StaysDeleted(s)
  PROVE  Whole(s)' /\ StaysDeleted(s)'
  BY DEF Untouched, Whole, Readable, StaysDeleted

LEMMA SessionStepKeepsFiles ==
  ASSUME FilesInv, NEW x \in Sessions, SessionStep(x)
  PROVE  WritersLive' /\ \A s \in Sessions : Whole(s)' /\ StaysDeleted(s)'
<1> USE DEF SyncPCs, SavePCs, FilesInv, WritersLive
<1>1. CASE NewSession(x)
  <2>1. \A s \in Sessions \ {x} : Untouched(s)
    BY <1>1 DEF NewSession, InsertRecord, turnVars, Untouched
  <2>2. Whole(x)' /\ StaysDeleted(x)'
    BY <1>1 DEF NewSession, InsertRecord, turnVars, Whole, Readable, StaysDeleted
  <2>3. WritersLive'
    BY <1>1 DEF NewSession, InsertRecord, turnVars
  <2> QED
    BY <2>1, <2>2, <2>3, UntouchedKept
<1>2. CASE CloseSession(x)
  <2>1. \A s \in Sessions : Untouched(s)
    BY <1>2 DEF CloseSession, RemoveRecord, turnVars, Untouched
  <2>2. WritersLive'
    BY <1>2 DEF CloseSession, RemoveRecord, turnVars, AtAwait
  <2> QED
    BY <2>1, <2>2, UntouchedKept
<1>3. CASE DeleteSession(x)
  <2>1. /\ disk' = [disk EXCEPT ![x] = NoFiles] /\ live' = live \ {x}
        /\ deleted' = deleted \union {x} /\ interrupted' = interrupted \ {x}
        /\ AtAwait /\ UNCHANGED <<pc, on, used>> /\ (x \in live \/ disk[x] # NoFiles)
    BY <1>3 DEF DeleteSession, RemoveRecord
  <2>2. \A s \in Sessions \ {x} : Untouched(s)
    BY <2>1 DEF Untouched
  <2>3. x \in used
    BY <2>1 DEF HistoryInv, KnownIds
  <2>4. disk'[x] = NoFiles
    BY <2>1 DEF HistoryInv, SlotInv, TypeInv, TypeOK
  <2>5. Whole(x)' /\ StaysDeleted(x)'
    BY <2>1, <2>3, <2>4 DEF Whole, Readable, StaysDeleted, NoFiles
  <2>6. WritersLive'
    BY <2>1 DEF AtAwait
  <2> QED
    BY <2>2, <2>5, <2>6, UntouchedKept
<1>4. ASSUME CancelTurn(x) \/ (\E m \in ClientModes : SetMode(x, m))
               \/ (\E r \in Restores : ReadRecord(r, x))
      PROVE  WritersLive' /\ \A s \in Sessions : Untouched(s)
  BY <1>4 DEF CancelTurn, SetMode, ReadRecord, storeVars, turnVars, ghostVars, Untouched
<1>5. ASSUME NEW t \in Turns, ReceivePrompt(t, x)
      PROVE  WritersLive' /\ \A s \in Sessions : Untouched(s)
  <2>1. /\ pc[t] = "idle" /\ pc' = [pc EXCEPT ![t] = "spawned"] /\ on' = [on EXCEPT ![t] = x]
        /\ UNCHANGED <<live, disk, used, interrupted, deleted>>
    BY <1>5 DEF ReceivePrompt, storeVars, ghostVars
  <2>2. \A u \in Turns \ {t} : pc'[u] = pc[u] /\ on'[u] = on[u]
    BY <2>1 DEF HistoryInv, SlotInv, TypeInv, TypeOK
  <2>3. pc'[t] = "spawned"
    BY <2>1 DEF HistoryInv, SlotInv, TypeInv, TypeOK
  <2> QED
    BY <2>1, <2>2, <2>3 DEF Untouched
<1> HIDE DEF FilesInv, WritersLive
<1> QED
  BY <1>1, <1>2, <1>3, <1>4, <1>5, UntouchedKept DEF SessionStep, FilesInv

LEMMA RestoreStepKeepsFiles ==
  ASSUME FilesInv, NEW r \in Restores, RestoreStep(r)
  PROVE  WritersLive' /\ \A s \in Sessions : Whole(s)' /\ StaysDeleted(s)'
<1> USE DEF FilesInv, WritersLive
<1>1. CASE ConnectFails(r)
  <2>1. WritersLive' /\ \A s \in Sessions : Untouched(s)
    BY <1>1 DEF ConnectFails, storeVars, turnVars, ghostVars, Untouched
  <2> QED
    BY <2>1, UntouchedKept
<1>2. CASE InsertRestored(r)
  <2>1. PICK x : x = restore[r].session
    OBVIOUS
  <2>2. /\ live' = live \union {x} /\ deleted' = deleted \ {x}
        /\ UNCHANGED <<pc, on, disk, used, interrupted>>
    BY <1>2, <2>1 DEF InsertRestored, InsertRecord, turnVars
  <2>3. \A s \in Sessions \ {x} : Untouched(s)
    BY <2>2 DEF Untouched
  <2>4. x \in Sessions => Whole(x)' /\ StaysDeleted(x)'
    BY <2>2 DEF Whole, Readable, StaysDeleted
  <2>5. WritersLive'
    BY <2>2
  <2> QED
    BY <2>3, <2>4, <2>5, UntouchedKept
<1> QED
  BY <1>1, <1>2 DEF RestoreStep

(* The steps of a task that write no file.                                 *)
Writes(t) == WriteBody(t) \/ WriteNewline(t) \/ SaveFails(t)

LEMMA TaskStepKeepsFiles ==
  ASSUME FilesInv, NEW t \in Turns, AwaitStep(t) \/ SyncStep(t), ~Writes(t)
  PROVE  WritersLive' /\ \A s \in Sessions : Whole(s)' /\ StaysDeleted(s)'
<1> USE DEF HistoryInv, SlotInv, TypeInv, TypeOK
<1>1. Local(t) /\ TypeInv
  BY AwaitStepIsLocal, SyncStepIsLocal DEF FilesInv
<1>2. UNCHANGED <<interrupted, deleted>>
  BY DEF AwaitStep, SyncStep, Writes, RefuseTurn, BeginTurn, StreamReply, StreamCancelled,
         TurnFails, RunToolCall, StartSave, WriteMeta, CommitSave, ClearTurn, ghostVars
<1>3. pc[t] # "newline" /\ (pc'[t] \in SavePCs => on[t] \in live)
  <2>1. CASE AwaitStep(t)
    BY <2>1 DEF AwaitStep, FilesInv, AtAwait, SyncPCs, SavePCs, RefuseTurn, BeginTurn,
                StreamReply, StreamCancelled, TurnFails, RunToolCall, Ends
  <2>2. CASE StartSave(t)
    BY <2>2 DEF StartSave, FilesInv, Ends, SavePCs
  <2>3. CASE WriteMeta(t)
    BY <2>3 DEF WriteMeta, FilesInv, WritersLive, SavePCs
  <2>4. CASE CommitSave(t) \/ ClearTurn(t)
    BY <2>4 DEF CommitSave, ClearTurn, FilesInv, Ends, SavePCs
  <2> QED
    BY <2>1, <2>2, <2>3, <2>4 DEF SyncStep, Writes
<1>4. WritersLive'
  BY <1>1, <1>3 DEF FilesInv, WritersLive, Local
<1>5. \A u \in Turns : pc[u] = "newline" => pc'[u] = "newline" /\ on'[u] = on[u]
  BY <1>1, <1>3 DEF Local
<1>6. PICK s : s = on[t]
  OBVIOUS
<1>7. \A x \in Sessions \ {s} : Untouched(x)
  BY <1>1, <1>2, <1>5, <1>6 DEF Untouched, Local
<1>8. ASSUME s \in Sessions PROVE Whole(s)' /\ StaysDeleted(s)'
  <2>1. UNCHANGED <<live, used>>
    BY <1>1 DEF Local
  <2>2. CASE disk'[s] = disk[s]
    <3>1. Untouched(s)
      BY <1>2, <1>5, <2>1, <2>2 DEF Untouched
    <3> QED
      BY <1>8, <3>1, UntouchedKept DEF FilesInv
  <2>3. CASE disk'[s] # disk[s]
    <3>1. WriteMeta(t)
      BY <1>6, <2>3 DEF AwaitStep, SyncStep, Writes, RefuseTurn, BeginTurn, StreamReply,
         StreamCancelled, TurnFails, RunToolCall, StartSave, CommitSave, ClearTurn
    <3>2. /\ disk'[s].corrupt = disk[s].corrupt
          /\ disk'[s].open = disk[s].open
      BY <1>6, <1>8, <3>1 DEF WriteMeta, FilesInv, FileRecord
    <3>3. s \in live
      BY <1>6, <3>1 DEF WriteMeta, FilesInv, WritersLive, SavePCs
    <3>4. Whole(s) /\ s \notin deleted
      BY <1>8, <3>3 DEF FilesInv, StaysDeleted
    <3> QED
      BY <1>2, <1>5, <3>2, <3>4 DEF Whole, Readable, StaysDeleted
  <2> QED
    BY <2>2, <2>3
<1> QED
  BY <1>4, <1>7, <1>8, UntouchedKept DEF FilesInv

LEMMA WritesKeepFiles ==
  ASSUME FilesInv, NEW t \in Turns, Writes(t)
  PROVE  WritersLive' /\ \A s \in Sessions : Whole(s)' /\ StaysDeleted(s)'
<1> USE DEF HistoryInv, SlotInv, TypeInv, TypeOK
<1>1. Local(t)
  BY SyncStepIsLocal DEF Writes, SyncStep, FilesInv
<1>2. PICK s : s = on[t]
  OBVIOUS
<1>3. pc[t] \in SavePCs /\ s \in live /\ s \in Sessions
  BY <1>2 DEF Writes, WriteBody, WriteNewline, SaveFails, SavePCs, FilesInv, WritersLive
<1>4. s \notin deleted
  BY <1>3 DEF FilesInv, StaysDeleted
<1>5. UNCHANGED <<deleted, on, live, used>> /\ interrupted \subseteq interrupted'
  BY <1>1 DEF Local, Writes, WriteBody, WriteNewline, SaveFails, ghostVars
<1>6. \A u \in Turns : pc[u] = "newline" => u = t \/ pc'[u] = "newline"
  BY <1>1 DEF Local
<1>7. \A x \in Sessions \ {s} : Untouched(x)
  BY <1>1, <1>2, <1>5, <1>6 DEF Untouched, Local
<1>8. StaysDeleted(s)' /\ WritersLive'
  BY <1>1, <1>2, <1>3, <1>4, <1>5 DEF StaysDeleted, FilesInv, WritersLive, Local
<1>9. Whole(s)
  BY <1>3 DEF FilesInv
<1>10. CASE WriteBody(t)
  <2>1. \A u \in Turns : pc[u] # "newline"
    BY <1>10 DEF WriteBody, FilesInv, OneSaves, SyncPCs, SavePCs
  <2>2. disk'[s].corrupt = (disk[s].corrupt \/ disk[s].open)
    BY <1>2, <1>3, <1>10 DEF WriteBody, FilesInv, FileRecord
  <2>3. on'[t] = s /\ pc'[t] = "newline" /\ interrupted' = interrupted
    BY <1>2, <1>5, <1>10 DEF WriteBody, FilesInv, ghostVars
  <2> QED
    BY <1>7, <1>8, <1>9, <2>1, <2>2, <2>3, UntouchedKept DEF FilesInv, Whole, Readable
<1>11. CASE WriteNewline(t)
  <2>1. /\ disk'[s].open = FALSE /\ disk'[s].corrupt = disk[s].corrupt
        /\ interrupted' = interrupted
    BY <1>2, <1>3, <1>11 DEF WriteNewline, FilesInv, FileRecord, ghostVars
  <2> QED
    BY <1>7, <1>8, <1>9, <2>1, UntouchedKept DEF FilesInv, Whole, Readable
<1>12. CASE SaveFails(t)
  <2>1. PICK torn \in {FALSE, pc[t] = "body"} :
          /\ disk' = [disk EXCEPT ![s] = Tear(@, torn)]
          /\ interrupted' = IF torn \/ pc[t] = "newline" THEN interrupted \union {s}
                                                        ELSE interrupted
    BY <1>2, <1>12 DEF SaveFails
  <2>2. CASE torn \/ pc[t] = "newline"
    BY <1>7, <1>8, <2>1, <2>2, UntouchedKept DEF FilesInv, Whole
  <2>3. CASE ~torn /\ pc[t] # "newline"
    <3>1. disk'[s].open = disk[s].open /\ disk'[s].corrupt = disk[s].corrupt
      BY <1>3, <2>1, <2>3 DEF Tear, FilesInv, FileRecord
    <3>2. interrupted' = interrupted /\ \A u \in Turns : pc[u] = "newline" => pc'[u] = "newline"
      BY <1>6, <2>1, <2>3
    <3> QED
      BY <1>5, <1>7, <1>8, <1>9, <3>1, <3>2, UntouchedKept DEF FilesInv, Whole, Readable
  <2> QED
    BY <2>2, <2>3
<1> QED
  BY <1>10, <1>11, <1>12 DEF Writes

LEMMA CrashKeepsFiles ==
  ASSUME FilesInv, Crash
  PROVE  WritersLive' /\ \A s \in Sessions : Whole(s)' /\ StaysDeleted(s)'
<1>1. PICK torn \in SUBSET {t \in Turns : pc[t] = "body"} :
        /\ disk' = [s \in Sessions |-> Tear(disk[s], \E t \in torn : on[t] = s)]
        /\ interrupted' = interrupted \union
             {on[t] : t \in torn \union {u \in Turns : pc[u] = "newline"}}
  BY DEF Crash
<1>2. live' = {} /\ UNCHANGED <<used, deleted>> /\ \A t \in Turns : pc'[t] \in {"idle", "done"}
  BY DEF Crash
<1>3. WritersLive'
  BY <1>2 DEF WritersLive, SavePCs
<1>4. ASSUME NEW s \in Sessions PROVE Whole(s)' /\ StaysDeleted(s)'
  <2>1. CASE \E t \in torn : on[t] = s
    <3>1. s \in live /\ s \in interrupted'
      BY <1>1, <2>1 DEF FilesInv, WritersLive, SavePCs
    <3> QED
      BY <1>2, <3>1 DEF FilesInv, Whole, StaysDeleted
  <2>2. CASE ~ \E t \in torn : on[t] = s
    <3>1. disk'[s] = Tear(disk[s], FALSE)
      BY <1>1, <2>2
    <3>2. disk[s] \in FileRecord
      BY DEF FilesInv, HistoryInv, SlotInv, TypeInv, TypeOK
    <3>3. disk'[s] = disk[s]
      BY <3>1, <3>2 DEF Tear, FileRecord
    <3>4. s \notin interrupted' => ~ \E t \in Turns : on[t] = s /\ pc[t] = "newline"
      BY <1>1
    <3>5. s \notin interrupted' => s \notin interrupted
      BY <1>1
    <3> QED
      BY <1>2, <3>3, <3>4, <3>5 DEF FilesInv, Whole, Readable, StaysDeleted
  <2> QED
    BY <2>1, <2>2
<1> QED
  BY <1>3, <1>4

LEMMA StepFiles == FilesInv /\ [Next]_vars => FilesInv'
<1> SUFFICES ASSUME FilesInv, [Next]_vars PROVE FilesInv'
  OBVIOUS
<1>1. HistoryInv'
  BY StepHistory DEF FilesInv
<1>2. CASE UNCHANGED vars
  BY <1>1, <1>2 DEF vars, storeVars, turnVars, ghostVars, FilesInv, WritersLive, Whole,
                    Readable, StaysDeleted
<1>3. CASE Next
  <2>1. WritersLive' /\ \A s \in Sessions : Whole(s)' /\ StaysDeleted(s)'
    BY <1>3, SessionStepKeepsFiles, RestoreStepKeepsFiles, TaskStepKeepsFiles,
       WritesKeepFiles, CrashKeepsFiles DEF Next
  <2> QED
    BY <1>1, <2>1 DEF FilesInv
<1> QED
  BY <1>2, <1>3

(* Outside a save, record and history.jsonl hold the same messages         *)
(* (save_history appends past the old length of the record only); a file   *)
(* read_history refuses holds an append a crash or an I/O error cut short; *)
(* and a deleted session has no files.                                     *)
THEOREM FilesCorrect == Spec => []DiskMatchesMemory
<1>1. FilesInv => DiskMatchesMemory
  <2> SUFFICES ASSUME FilesInv PROVE DiskMatchesMemory
    OBVIOUS
  <2>1. RecordsMatch
    BY HistoryInvMeans DEF FilesInv
  <2>2. (\A s \in Sessions \ interrupted : Readable(s)) /\ \A s \in deleted : disk[s] = NoFiles
    BY DEF FilesInv, HistoryInv, SlotInv, TypeInv, TypeOK, Whole, StaysDeleted
  <2> QED
    BY <2>1, <2>2 DEF DiskMatchesMemory, RecordsMatch
<1> QED
  BY <1>1, InitFiles, StepFiles, PTL DEF Spec

(* A turn that waits for a later model request has its whole conversation  *)
(* on disk (run_prompt_turn saves each cycle before it streams again).     *)
THEOREM CyclesSaved == Spec => []CycleOnDisk
<1>1. HistoryInv => CycleOnDisk
  BY HistoryInvMeans
<1> QED
  BY <1>1, InitHistory, StepHistory, PTL DEF Spec

(* Once a batch is saved, the mode the client was told is the mode the     *)
(* next request runs in, whatever it and exit_plan_mode set meanwhile.     *)
THEOREM ModeCorrect == Spec => []ClientKnowsMode
<1>1. HistoryInv => ClientKnowsMode
  BY HistoryInvMeans
<1> QED
  BY <1>1, InitHistory, StepHistory, PTL DEF Spec

-----------------------------------------------------------------------------
(***************************************************************************)
(* Histories only grow: only a commit and a restore write one, the commit  *)
(* what the turn began from with more behind it, the restore what the file *)
(* holds, which is the same.                                               *)
(***************************************************************************)
LEMMA StepGrows ==
  ASSUME HistoryInv, [Next]_vars, NEW s \in Sessions, Undisturbed(s), Undisturbed(s)'
  PROVE  IsPrefix(history[s], history'[s])
<1> USE DEF HistoryInv, SlotInv, TypeInv, TypeOK
<1>1. CASE history'[s] = history[s]
  BY <1>1, PrefixOfItself
<1>2. ASSUME NEW x \in Sessions, SessionStep(x) PROVE history'[s] = history[s]
  <2>1. CASE NewSession(x)
    BY <2>1 DEF NewSession, InsertRecord, Undisturbed, KnownIds
  <2>2. CASE CloseSession(x) \/ DeleteSession(x)
    BY <2>2 DEF CloseSession, DeleteSession, RemoveRecord, Undisturbed
  <2> QED
    BY <1>2, <2>1, <2>2 DEF SessionStep, CancelTurn, SetMode, ReceivePrompt, ReadRecord,
                            storeVars
<1>3. ASSUME NEW r \in Restores, RestoreStep(r) PROVE history'[s] = history[s]
  <2>1. CASE ConnectFails(r) \/ s # restore[r].session
    BY <1>3, <2>1 DEF RestoreStep, ConnectFails, InsertRestored, InsertRecord, storeVars
  <2>2. CASE InsertRestored(r) /\ s = restore[r].session
    <3>1. Running(s) = {}
      BY <2>2 DEF InsertRestored, Undisturbed
    <3>2. disk[s].lines = history[s]
      BY <3>1 DEF Kept, SessionSaved, Undisturbed
    <3>3. restore[r].lines = disk[s].lines
      BY <2>2 DEF InsertRestored, Undisturbed
    <3> QED
      BY <2>2, <3>2, <3>3 DEF InsertRestored, InsertRecord
  <2> QED
    BY <1>3, <2>1, <2>2 DEF RestoreStep
<1>4. ASSUME NEW t \in Turns, AwaitStep(t) PROVE history'[s] = history[s]
  BY <1>4 DEF AwaitStep, RefuseTurn, BeginTurn, StreamReply, StreamCancelled, TurnFails,
              RunToolCall, storeVars
<1>5. ASSUME NEW t \in Turns, SyncStep(t) PROVE IsPrefix(history[s], history'[s])
  <2>1. CASE CommitSave(t) /\ on[t] = s
    <3>1. t \in Running(s) /\ pc[t] = "commit" /\ history'[s] = task[t].messages
      BY <2>1 DEF CommitSave, Running, ActivePCs, SyncPCs, SavePCs
    <3> QED
      BY <3>1 DEF Kept, SessionSaved, TurnSaved, Undisturbed
  <2>2. CASE ~(CommitSave(t) /\ on[t] = s)
    <3>1. history'[s] = history[s]
      BY <1>5, <2>2 DEF SyncStep, StartSave, WriteMeta, WriteBody, WriteNewline, SaveFails,
                        CommitSave, ClearTurn, storeVars
    <3> QED
      BY <1>1, <3>1
  <2> QED
    BY <2>1, <2>2
<1>6. CASE Crash
  BY <1>6 DEF Crash, Undisturbed
<1>7. CASE UNCHANGED vars
  BY <1>1, <1>7 DEF vars, storeVars
<1> QED
  BY <1>1, <1>2, <1>3, <1>4, <1>5, <1>6, <1>7 DEF Next

(* No step of any task shortens or rewrites the history of a live session  *)
(* that was not displaced and whose last save and load went through.       *)
THEOREM HistoriesGrow == Spec => HistoryOnlyGrows
<1>1. HistoryInv /\ [Next]_vars =>
        [\A s \in Sessions : Undisturbed(s) /\ Undisturbed(s)'
           => IsPrefix(history[s], history[s]')]_vars
  BY StepGrows
<1> QED
  BY <1>1, InitHistory, StepHistory, PTL DEF Spec, HistoryOnlyGrows
===============================================================================
