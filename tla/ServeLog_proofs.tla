--------------------------- MODULE ServeLog_proofs --------------------------
(***************************************************************************)
(* Proofs about ServeLog: what is said of the sink holds for any capacity  *)
(* of the queue, any number of sessions, errors and events.                *)
(***************************************************************************)
EXTENDS ServeLog, SequenceLemmas

Entry == [dest : Dests, rec : Record]

(* The queue, what routes a record into it, and the counters have their    *)
(* types; the transport works on a frame when it is past "next".           *)
Typed ==
  /\ queue \in Seq(Entry)
  /\ bound \in [Conns -> Sids \union {NoSid}]
  /\ sessions \subseteq Sids
  /\ out \in Seq([established : Sids \union {NoSid}])
  /\ outPc # "next" => out # <<>>
  /\ ahead \in Nat /\ dropped \in Nat /\ errors \in Nat /\ logged \in Nat
  /\ written \in Nat /\ failed \in Nat /\ vanished \in Nat /\ mark \in Nat

IsTrace(e) == e.rec.kind = "trace-event"

(* serve() flushes once, after the select; what is logged from then on are *)
(* trace events, and they are all a flush has behind it.                   *)
LateAreTraces ==
  /\ flush \in {"idle", "waiting", "acked"}
  /\ phase \in {"serving", "flushing", "exited"}
  /\ flush # "idle" => phase # "serving"
  /\ phase = "exited" => flush = "acked"
  /\ flush = "waiting" => \A i \in DOMAIN queue : i > ahead => IsTrace(queue[i])
  /\ flush = "acked" => \A i \in DOMAIN queue : IsTrace(queue[i])

Inv == Typed /\ LossesCounted /\ FlushDrains /\ LateAreTraces /\ VanishOnlyDeleted

-----------------------------------------------------------------------------
LEMMA InitInv == Init => Inv
<1> SUFFICES ASSUME Init PROVE Inv
  OBVIOUS
<1> USE DEF Init, SinkInit
<1>1. Typed
  BY DEF Typed, Entry
<1>2. LossesCounted /\ FlushDrains
  BY DEF LossesCounted, FlushDrains
<1>3. LateAreTraces /\ VanishOnlyDeleted
  BY DEF LateAreTraces, VanishOnlyDeleted
<1> QED
  BY <1>1, <1>2, <1>3 DEF Inv

(* What a logging step puts into the queue is well-formed.                 *)
LEMMA RouteTyped ==
  ASSUME NEW c \in Conns, NEW sid \in Sids \union {NoSid}, NEW kind \in Kinds, Typed
  PROVE  /\ Route(c, sid) \in Dests
         /\ LogRecord(kind, Stamped(c, sid)) \in Record
         /\ LogRecord(kind, sid) \in Record
<1>1. Len(Leftover) \in Nat
  BY SinkAssumption
<1>2. Route(c, sid) \in Dests
  BY DEF Route, Dests, Typed
<1>3. Stamped(c, sid) \in AnySid /\ sid \in AnySid
  BY DEF Stamped, AnySid, Typed
<1> QED
  BY <1>1, <1>2, <1>3 DEF LogRecord, Record, Typed

(* The queue's part of the invariant.                                      *)
QueueInv ==
  /\ queue \in Seq(Entry) /\ dropped \in Nat /\ logged \in Nat
  /\ LossesCounted /\ FlushDrains /\ LateAreTraces

(* Offering a record to the queue: it is there or counted, a flush that    *)
(* waits has it behind it, and after the select it is a trace event.       *)
LEMMA OfferKeeps ==
  ASSUME Inv, NEW d \in Dests, NEW r \in Record, Offer(d, r),
         phase = "serving" \/ r.kind = "trace-event", UNCHANGED phase
  PROVE  QueueInv'
<1> DEFINE e == [dest |-> d, rec |-> r]
<1>1. e \in Entry
  BY DEF Entry
<1> HIDE DEF e
<1> USE DEF Inv, Typed
<1>2. UNCHANGED <<flush, ahead, mark, written, failed, errors, phase>> /\ logged' = logged + 1
  BY DEF Offer, writerVars
<1>3. CASE HasRoom
  <2>1. queue' = Append(queue, e) /\ dropped' = dropped
    BY <1>3 DEF Offer, Enqueue, e
  <2>2. queue' \in Seq(Entry) /\ Len(queue') = Len(queue) + 1
    BY <2>1, <1>1
  <2>3. \A i \in DOMAIN queue' : queue'[i] = IF i = Len(queue) + 1 THEN e ELSE queue[i]
    BY <2>1, <1>1
  <2>4. LossesCounted' /\ FlushDrains'
    BY <1>2, <2>1, <2>2 DEF LossesCounted, FlushDrains
  <2>5. flush # "idle" => IsTrace(e)
    BY DEF LateAreTraces, IsTrace, e
  <2>6. LateAreTraces'
    BY <1>2, <2>2, <2>3, <2>5 DEF LateAreTraces
  <2> QED
    BY <1>2, <2>1, <2>2, <2>4, <2>6 DEF QueueInv
<1>4. CASE ~HasRoom
  <2>1. queue' = queue /\ dropped' = dropped + 1
    BY <1>4 DEF Offer, Enqueue
  <2> QED
    BY <1>2, <2>1 DEF QueueInv, LossesCounted, FlushDrains, LateAreTraces
<1> QED
  BY <1>3, <1>4

(* What is on its way to the client.                                       *)
OutTyped ==
  /\ sessions \subseteq Sids
  /\ out \in Seq([established : Sids \union {NoSid}])
  /\ outPc # "next" => out # <<>>

-----------------------------------------------------------------------------
(* A step that logs.                                                       *)
LEMMA LogStepKeeps ==
  ASSUME Inv, OutTyped', UNCHANGED <<phase, bound, deleted>>,
         NEW d \in Dests, NEW r \in Record, Offer(d, r),
         phase = "serving" \/ r.kind = "trace-event"
  PROVE  Inv'
<1>1. QueueInv'
  BY OfferKeeps
<1>2. UNCHANGED <<flush, ahead, mark, errors, unlinked, written, failed, vanished>>
  BY DEF Offer, writerVars
<1>3. Typed'
  BY <1>1, <1>2 DEF Inv, Typed, OutTyped, QueueInv
<1>4. VanishOnlyDeleted'
  BY <1>2 DEF Inv, VanishOnlyDeleted
<1> QED
  BY <1>1, <1>3, <1>4 DEF Inv, QueueInv

LEMMA LogKeeps ==
  ASSUME Inv, OutTyped', UNCHANGED <<phase, deleted>>,
         NEW sid \in Sids \union {NoSid}, NEW kind \in Kinds, Log(Conn, kind, sid),
         phase = "serving" \/ kind = "trace-event"
  PROVE  Inv'
<1> DEFINE d == Route(Conn, sid)
           r == LogRecord(kind, Stamped(Conn, sid))
<1>1. d \in Dests /\ r \in Record
  BY RouteTyped, ServeAssumption DEF Inv
<1>2. Offer(d, r) /\ UNCHANGED bound
  BY DEF Log
<1>3. r.kind = kind
  BY DEF LogRecord
<1> HIDE DEF d, r
<1> QED
  BY <1>1, <1>2, <1>3, LogStepKeeps

LEMMA LogFallbackKeeps ==
  ASSUME Inv, OutTyped', UNCHANGED <<phase, deleted, bound>>,
         NEW sid \in Sids \union {NoSid}, NEW kind \in Kinds,
         Offer(Conn, LogRecord(kind, sid)),
         phase = "serving" \/ kind = "trace-event"
  PROVE  Inv'
<1> DEFINE r == LogRecord(kind, sid)
<1>1. Conn \in Dests /\ r \in Record
  BY RouteTyped, ServeAssumption DEF Inv, Dests
<1>2. r.kind = kind
  BY DEF LogRecord
<1> HIDE DEF r
<1>3. Offer(Conn, r)
  BY DEF r
<1> QED
  BY <1>1, <1>2, <1>3, LogStepKeeps

(* A step that leaves the sink alone, or sets a binding.                   *)
LEMMA OutsideKeeps ==
  ASSUME Inv, OutTyped', LateAreTraces', UNCHANGED deleted,
         bound' \in [Conns -> Sids \union {NoSid}],
         UNCHANGED <<queue, flush, ahead, dropped, writerVars, logged, mark>>
  PROVE  Inv'
<1> USE DEF Inv, writerVars
<1>1. Typed'
  BY DEF Typed, OutTyped
<1>2. LossesCounted' /\ FlushDrains' /\ VanishOnlyDeleted'
  BY DEF LossesCounted, FlushDrains, VanishOnlyDeleted
<1> QED
  BY <1>1, <1>2

(* The first frame of a non-empty queue to the client.                     *)
LEMMA FirstFrame ==
  ASSUME Typed, out # <<>>
  PROVE  /\ Head(out) \in [established : Sids \union {NoSid}]
         /\ Tail(out) \in Seq([established : Sids \union {NoSid}])
<1> DEFINE S == [established : Sids \union {NoSid}]
<1>1. out \in Seq(S)
  BY DEF Typed
<1> HIDE DEF S
<1>2. Head(out) \in S /\ Tail(out) \in Seq(S)
  BY <1>1, HeadTailProperties
<1> QED
  BY <1>2 DEF S

-----------------------------------------------------------------------------
LEMMA TransportKeeps ==
  ASSUME Inv, ReadFrame \/ Transport
  PROVE  Inv'
<1>0. Typed
  BY DEF Inv
<1>1. CASE ReadFrame
  <2>1. OutTyped'
    BY <1>0, <1>1 DEF ReadFrame, Typed, OutTyped, outVars
  <2>2. /\ Log(Conn, "frame", NoSid)
        /\ UNCHANGED <<phase, deleted>> /\ phase = "serving"
    BY <1>0, <1>1 DEF ReadFrame
  <2>3. "frame" \in Kinds /\ NoSid \in Sids \union {NoSid}
    BY DEF Kinds
  <2> QED
    BY <2>1, <2>2, <2>3, LogKeeps
<1>2. CASE MarkSession
  <2>1. OutTyped'
    BY <1>0, <1>2 DEF MarkSession, Typed, OutTyped, agentVars
  <2>2. Head(out).established \in Sids \union {NoSid}
    BY <1>0, <1>2, FirstFrame DEF MarkSession
  <2>3. /\ Offer(Conn, LogRecord("session-bound", Head(out).established))
        /\ UNCHANGED <<phase, bound, deleted>> /\ phase = "serving"
    BY <1>0, <1>2 DEF MarkSession, MarkBinding, agentVars
  <2>4. "session-bound" \in Kinds
    BY DEF Kinds
  <2> QED
    BY <2>1, <2>2, <2>3, <2>4, LogFallbackKeeps
<1>3. CASE BindSession
  <2>1. OutTyped'
    BY <1>0, <1>3 DEF BindSession, Typed, OutTyped, agentVars
  <2>2. Head(out).established \in Sids \union {NoSid}
    BY <1>0, <1>3, FirstFrame DEF BindSession, Typed
  <2>3. bound' \in [Conns -> Sids \union {NoSid}]
    BY <1>0, <1>3, <2>2 DEF BindSession, SetBinding, Bind, Typed
  <2>4. UNCHANGED <<queue, flush, ahead, dropped, writerVars, logged, mark, phase, deleted>>
    BY <1>0, <1>3 DEF BindSession, SetBinding, agentVars
  <2> QED
    BY <2>1, <2>3, <2>4, OutsideKeeps DEF LateAreTraces, Inv
<1>4. CASE LogFrame
  <2>1. OutTyped'
    BY <1>0, <1>4 DEF LogFrame, Typed, OutTyped, agentVars
  <2>2. /\ Log(Conn, "frame", NoSid)
        /\ UNCHANGED <<phase, deleted>> /\ phase = "serving"
    BY <1>0, <1>4 DEF LogFrame, agentVars
  <2>3. "frame" \in Kinds /\ NoSid \in Sids \union {NoSid}
    BY DEF Kinds
  <2> QED
    BY <2>1, <2>2, <2>3, LogKeeps
<1>5. CASE WriteFrame \/ WriteFrameFails
  <2>1. OutTyped'
    BY <1>0, <1>5, FirstFrame DEF WriteFrame, WriteFrameFails, Typed, OutTyped, outVars, agentVars
  <2>2. UNCHANGED <<queueVars, writerVars, logged, mark, deleted>>
    BY <1>0, <1>5 DEF WriteFrame, WriteFrameFails, sinkVars, agentVars
  <2>3. phase = "serving" /\ phase' \in {"serving", "flushing"}
    BY <1>0, <1>5 DEF WriteFrame, WriteFrameFails
  <2> QED
    BY <2>1, <2>2, <2>3, <1>0, OutsideKeeps DEF LateAreTraces, queueVars, Typed, Inv
<1> QED
  BY <1>0, <1>1, <1>2, <1>3, <1>4, <1>5 DEF Transport

LEMMA AgentKeeps ==
  ASSUME Inv, Agent
  PROVE  Inv'
<1>0. Typed
  BY DEF Inv
<1>1. ASSUME NEW s \in Sids, AnswerSessionNew(s) PROVE Inv'
  <2>1. Frame(s) \in [established : Sids \union {NoSid}]
    BY DEF Frame
  <2>2. OutTyped'
    BY <1>0, <1>1, <2>1 DEF AnswerSessionNew, Typed, OutTyped
  <2> QED
    BY <1>0, <1>1, <2>2, OutsideKeeps
    DEF AnswerSessionNew, sinkVars, queueVars, LateAreTraces, Inv, Typed
<1>2. ASSUME NEW s \in Sids, DeleteSession(s) PROVE Inv'
  <2>1. PlainFrame \in [established : Sids \union {NoSid}]
    BY DEF Frame, PlainFrame
  <2>2. OutTyped'
    BY <1>0, <1>2, <2>1 DEF DeleteSession, Typed, OutTyped
  <2>3. /\ UNCHANGED <<queueVars, errors, written, failed, vanished, logged, mark, phase>>
        /\ unlinked' \subseteq unlinked \union {s} /\ deleted' = deleted \union {s}
    BY <1>2 DEF DeleteSession, DirectoryRemoved
  <2>4. Typed'
    BY <1>0, <2>2, <2>3 DEF Typed, OutTyped, queueVars
  <2>5. LossesCounted' /\ FlushDrains' /\ LateAreTraces'
    BY <2>3 DEF Inv, LossesCounted, FlushDrains, LateAreTraces, queueVars
  <2>6. VanishOnlyDeleted'
    BY <2>3 DEF Inv, VanishOnlyDeleted
  <2> QED
    BY <2>4, <2>5, <2>6 DEF Inv
<1>3. CASE SendFrame
  <2>1. PlainFrame \in [established : Sids \union {NoSid}]
    BY DEF Frame, PlainFrame
  <2>2. OutTyped'
    BY <1>0, <1>3, <2>1 DEF SendFrame, Typed, OutTyped, agentVars
  <2> QED
    BY <1>0, <1>3, <2>2, OutsideKeeps
    DEF SendFrame, agentVars, sinkVars, queueVars, LateAreTraces, Inv, Typed
<1>4. CASE RunCommand \/ CommandEnds
  <2>1. OutTyped'
    BY <1>0, <1>4 DEF RunCommand, CommandEnds, Typed, OutTyped, outVars
  <2> QED
    BY <1>0, <1>4, <2>1, OutsideKeeps
    DEF RunCommand, CommandEnds, sinkVars, queueVars, LateAreTraces, Inv, Typed
<1>5. ASSUME NEW s \in sessions \union {NoSid}, Trace(s) PROVE Inv'
  <2>1. OutTyped' /\ UNCHANGED <<phase, deleted>>
    BY <1>0, <1>5 DEF Trace, Typed, OutTyped, outVars, agentVars
  <2>2. "trace-event" \in Kinds /\ s \in Sids \union {NoSid} /\ NoSid \in Sids \union {NoSid}
    BY <1>0 DEF Kinds, Typed
  <2>3. CASE s = NoSid
    <3>1. Offer(Conn, LogRecord("trace-event", NoSid)) /\ UNCHANGED bound
      BY <1>5, <2>3 DEF Trace, LogFallback
    <3> QED
      BY <2>1, <2>2, <3>1, LogFallbackKeeps
  <2>4. CASE s # NoSid
    BY <1>5, <2>1, <2>2, <2>4, LogKeeps DEF Trace
  <2> QED
    BY <2>3, <2>4
<1> QED
  BY <1>1, <1>2, <1>3, <1>4, <1>5 DEF Agent

(* The end of the process.  The one flush is asked for behind everything   *)
(* that was logged while serving.                                          *)
LEMMA ShutdownKeeps ==
  ASSUME Inv, Shutdown
  PROVE  Inv'
<1> USE DEF Inv
<1>1. CASE Stop \/ LeaveSelect
  <2>1. OutTyped' /\ UNCHANGED <<sinkVars, deleted>>
    BY <1>1 DEF Stop, LeaveSelect, Typed, OutTyped, outVars, agentVars
  <2>2. LateAreTraces'
    BY <1>1 DEF Stop, LeaveSelect, LateAreTraces, sinkVars, queueVars
  <2> QED
    BY <2>1, <2>2, OutsideKeeps DEF sinkVars, queueVars, Typed
<1>2. CASE Flush
  <2>1. /\ flush' = "waiting" /\ ahead' = Len(queue) /\ mark' = written + failed + Len(queue)
        /\ flush = "idle" /\ phase = "flushing"
        /\ UNCHANGED <<queue, bound, dropped, writerVars, logged, serveVars>>
    BY <1>2 DEF Flush, AskFlush
  <2>2. Len(queue) \in Nat /\ DOMAIN queue = 1..Len(queue)
    BY DEF Typed
  <2>3. Typed'
    BY <2>1, <2>2 DEF Typed, writerVars, serveVars, outVars, agentVars
  <2>4. LossesCounted' /\ FlushDrains' /\ VanishOnlyDeleted'
    BY <2>1, <2>2 DEF LossesCounted, FlushDrains, VanishOnlyDeleted, Typed,
                      writerVars, serveVars, agentVars
  <2>5. LateAreTraces'
    BY <2>1, <2>2 DEF LateAreTraces, serveVars
  <2> QED
    BY <2>3, <2>4, <2>5
<1>3. CASE Exit
  <2>1. OutTyped' /\ UNCHANGED <<sinkVars, deleted>> /\ flush = "acked" /\ phase' = "exited"
    BY <1>3 DEF Exit, Flushed, Typed, OutTyped, outVars, agentVars
  <2>2. LateAreTraces'
    BY <2>1 DEF LateAreTraces, sinkVars, queueVars
  <2> QED
    BY <2>1, <2>2, OutsideKeeps DEF sinkVars, queueVars, Typed
<1> QED
  BY <1>1, <1>2, <1>3 DEF Shutdown

-----------------------------------------------------------------------------
(* A sweep drops the handle of every file it removes, and counts an error. *)
LEMMA SweepKeeps ==
  ASSUME Inv, NEW f, NEW ord, NEW expired, NEW handles, Sweep(f, ord, expired, handles)
  PROVE  unlinked' \subseteq unlinked /\ errors' \in Nat /\ errors' >= errors
<1>1. PICK fails \in {FALSE, faults < MaxFaults} :
        \E gone : /\ open' = handles \ HandlesDropped(gone)
                  /\ unlinked' = (unlinked \union gone) \intersect open'
                  /\ errors' = errors + (IF fails THEN 1 ELSE 0)
  BY DEF Sweep
<1>2. unlinked' \subseteq unlinked
  BY <1>1 DEF HandlesDropped
<1> QED
  BY <1>1, <1>2 DEF Inv, Typed

(* The writer takes a record: never one behind a flush that waits.         *)
LEMMA TakeKeeps ==
  ASSUME Inv, TakeRecord, UNCHANGED phase,
         \/ written' = written + 1 /\ failed' = failed /\ errors' \in Nat /\ errors' >= errors
         \/ written' = written /\ failed' = failed + 1 /\ errors' = errors + 1
  PROVE  QueueInv' /\ ahead' \in Nat
<1>1. /\ queue # <<>> /\ queue' = Tail(queue)
      /\ flush = "waiting" => ahead # 0 /\ ahead' = ahead - 1
      /\ flush # "waiting" => ahead' = ahead
      /\ flush' = flush /\ dropped' = dropped /\ logged' = logged /\ mark' = mark
  BY DEF TakeRecord, NextIsRecord
<1>2. queue' \in Seq(Entry) /\ Len(queue') = Len(queue) - 1 /\ Len(queue) \in Nat \ {0}
      /\ \A i \in DOMAIN queue' : queue'[i] = queue[i + 1] /\ i + 1 \in DOMAIN queue /\ i \in Nat
  BY <1>1, HeadTailProperties, EmptySeq DEF Inv, Typed
<1>3. /\ Len(queue') = Len(queue) - 1 /\ Len(queue) \in Nat
      /\ ahead \in Nat /\ mark \in Nat /\ dropped \in Nat /\ logged \in Nat
      /\ written \in Nat /\ failed \in Nat /\ errors \in Nat
      /\ LossesCounted /\ FlushDrains
  BY <1>2 DEF Inv, Typed
<1>4. ahead' \in Nat
  BY <1>1, <1>3
<1>5. ASSUME written' = written + 1, failed' = failed, errors' \in Nat, errors' >= errors
      PROVE  LossesCounted' /\ FlushDrains'
  <2>1. LossesCounted'
    BY <1>1, <1>3, <1>5 DEF LossesCounted
  <2>2. FlushDrains'
    BY <1>1, <1>3, <1>5 DEF FlushDrains
  <2> QED
    BY <2>1, <2>2
<1>6. ASSUME written' = written, failed' = failed + 1, errors' = errors + 1
      PROVE  LossesCounted' /\ FlushDrains'
  <2>1. LossesCounted'
    BY <1>1, <1>3, <1>6 DEF LossesCounted
  <2>2. FlushDrains'
    BY <1>1, <1>3, <1>6 DEF FlushDrains
  <2> QED
    BY <2>1, <2>2
<1>7. LateAreTraces'
  BY <1>1, <1>2, <1>3 DEF Inv, Typed, LateAreTraces, IsTrace
<1>8. LossesCounted' /\ FlushDrains'
  BY <1>5, <1>6
<1> QED
  BY <1>1, <1>2, <1>3, <1>4, <1>7, <1>8 DEF QueueInv

LEMMA SinkKeeps ==
  ASSUME Inv, Sink
  PROVE  Inv'
<1>0. Typed /\ UNCHANGED <<serveVars, phase, deleted, sessions, out, outPc>>
  BY DEF Inv, Sink, serveVars, outVars, agentVars
<1>1. CASE StartWriter
  <2>1. unlinked' \subseteq unlinked /\ errors' \in Nat /\ errors' >= errors
    BY <1>1, SweepKeeps DEF StartWriter
  <2>2. UNCHANGED <<queueVars, logged, written, failed, vanished, mark>>
    BY <1>1 DEF StartWriter
  <2>3. Typed'
    BY <1>0, <2>1, <2>2 DEF Typed, queueVars
  <2>4. LossesCounted' /\ FlushDrains' /\ LateAreTraces' /\ VanishOnlyDeleted'
    BY <1>0, <2>1, <2>2
    DEF Inv, Typed, LossesCounted, FlushDrains, LateAreTraces, VanishOnlyDeleted, queueVars
  <2> QED
    BY <2>3, <2>4 DEF Inv
<1>2. CASE WriteRecord \/ WriteUnlinked
  <2>1. unlinked' \subseteq unlinked /\ errors' \in Nat /\ errors' >= errors
    BY <1>2, SweepKeeps DEF WriteRecord, WriteUnlinked
  <2>2. /\ TakeRecord /\ written' = written + 1 /\ failed' = failed
        /\ vanished' = vanished \/ (vanished' = vanished + 1 /\ unlinked # {})
    BY <1>2 DEF WriteRecord, WriteUnlinked
  <2>3. QueueInv' /\ ahead' \in Nat
    BY <1>0, <2>1, <2>2, TakeKeeps DEF Typed, Inv, LossesCounted
  <2>4. Typed'
    BY <1>0, <2>1, <2>2, <2>3 DEF Typed, QueueInv, TakeRecord
  <2>5. VanishOnlyDeleted'
    BY <1>0, <2>1, <2>2 DEF Inv, VanishOnlyDeleted, Typed
  <2> QED
    BY <2>3, <2>4, <2>5 DEF Inv, QueueInv
<1>3. CASE WriteFails
  <2>1. /\ TakeRecord /\ failed' = failed + 1 /\ errors' = errors + 1
        /\ UNCHANGED <<unlinked, written, vanished>>
    BY <1>3 DEF WriteFails
  <2>2. QueueInv' /\ ahead' \in Nat
    BY <1>0, <2>1, TakeKeeps DEF Typed, Inv, LossesCounted
  <2>3. Typed'
    BY <1>0, <2>1, <2>2 DEF Typed, QueueInv, TakeRecord
  <2>4. VanishOnlyDeleted'
    BY <1>0, <2>1 DEF Inv, VanishOnlyDeleted
  <2> QED
    BY <2>2, <2>3, <2>4 DEF Inv, QueueInv
<1>4. CASE AnswerFlush
  <2>1. /\ flush = "waiting" /\ ahead = 0 /\ flush' = "acked"
        /\ UNCHANGED <<queue, ahead, bound, dropped, writerVars, logged, mark>>
    BY <1>4 DEF AnswerFlush, Answerable
  <2>2. DOMAIN queue = 1..Len(queue)
    BY <1>0 DEF Typed
  <2>3. Typed'
    BY <1>0, <2>1 DEF Typed, writerVars
  <2>4. LossesCounted' /\ FlushDrains' /\ VanishOnlyDeleted'
    BY <1>0, <2>1 DEF Inv, Typed, LossesCounted, FlushDrains, VanishOnlyDeleted, writerVars
  <2>5. LateAreTraces'
    BY <1>0, <2>1, <2>2 DEF Inv, LateAreTraces
  <2> QED
    BY <2>3, <2>4, <2>5 DEF Inv
<1>5. CASE Pause
  <2>1. UNCHANGED <<queueVars, errors, unlinked, written, failed, vanished, logged, mark>>
    BY <1>5 DEF Pause
  <2>2. Typed'
    BY <1>0, <2>1 DEF Typed, queueVars
  <2>3. LossesCounted' /\ FlushDrains' /\ LateAreTraces' /\ VanishOnlyDeleted'
    BY <1>0, <2>1 DEF Inv, LossesCounted, FlushDrains, LateAreTraces, VanishOnlyDeleted, queueVars
  <2> QED
    BY <2>2, <2>3 DEF Inv
<1> QED
  BY <1>1, <1>2, <1>3, <1>4, <1>5 DEF Sink, WriterStep

LEMMA NextKeeps == Inv /\ [Next]_vars => Inv'
<1> SUFFICES ASSUME Inv, [Next]_vars PROVE Inv'
  OBVIOUS
<1>1. CASE Next
  BY <1>1, TransportKeeps, AgentKeeps, ShutdownKeeps, SinkKeeps DEF Next
<1>2. CASE UNCHANGED vars
  BY <1>2 DEF vars, sinkVars, queueVars, writerVars, serveVars, outVars, agentVars,
              Inv, Typed, LossesCounted, FlushDrains, LateAreTraces, VanishOnlyDeleted
<1> QED
  BY <1>1, <1>2

LEMMA Invariant == Spec => []Inv
  BY InitInv, NextKeeps, PTL DEF Spec

-----------------------------------------------------------------------------
(* However small the queue and however often the writer fails: no record   *)
(* is lost uncounted.                                                      *)
THEOREM NoSilentLoss == Spec => []LossesCounted
<1>1. Inv => LossesCounted
  BY DEF Inv
<1> QED
  BY <1>1, Invariant, PTL

(* A flush is answered when what was offered before it was handled.        *)
THEOREM FlushWaits == Spec => []FlushDrains
<1>1. Inv => FlushDrains
  BY DEF Inv
<1> QED
  BY <1>1, Invariant, PTL

(* No frame that was logged while serving is in the queue at the exit.     *)
THEOREM FramesOut == Spec => []NoFrameLeftBehind
<1>1. Inv => NoFrameLeftBehind
  BY DEF Inv, LateAreTraces, NoFrameLeftBehind, IsTrace
<1> QED
  BY <1>1, Invariant, PTL

(* The writer writes into a removed file only after a session/delete: its  *)
(* own sweeps drop the handle with the file.                               *)
THEOREM SweepsKeepHandles == Spec => []VanishOnlyDeleted
<1>1. Inv => VanishOnlyDeleted
  BY DEF Inv
<1> QED
  BY <1>1, Invariant, PTL

-----------------------------------------------------------------------------
(***************************************************************************)
(* What a sweep goes over: the two folds, for one file more.               *)
(***************************************************************************)
Logs(f) == f \in [Dests -> Seq(Record)]

KeepIf(those, d, dests) == IF d \in dests THEN Append(those, d) ELSE those
KeepSteps(q, T) == [i \in 1..Len(q) |-> [v \in Seq(Dests) |-> KeepIf(v, q[i], T)]]
AddLength(v, d, f) == v + Len(f[d])
SumSteps(q, f) == [i \in 1..Len(q) |-> [v \in Nat |-> AddLength(v, q[i], f)]]

LEMMA ThoseChain ==
  ASSUME NEW T, NEW q \in Seq(Dests)
  PROVE  \E g : /\ Chain(Len(q), Seq(Dests), <<>>, KeepSteps(q, T), g)
                /\ Those(q, T) = g[1..Len(q)]
<1> DEFINE n == Len(q)  base == <<>>
           F(h) == [s \in SUBSET (DOMAIN q) |->
                      IF s = {} THEN base
                      ELSE IF q[Max(s)] \in T THEN Append(h[s \ {Max(s)}], q[Max(s)])
                           ELSE h[s \ {Max(s)}]]
           g == CHOOSE h : h = F(h)
<1>1. n \in Nat /\ DOMAIN q = 1..n /\ \A i \in 1..n : q[i] \in Dests
  BY LenProperties, ElementOfSeq
<1>2. base \in Seq(Dests) /\ \A v \in Seq(Dests), d \in Dests : KeepIf(v, d, T) \in Seq(Dests)
  BY AppendProperties DEF KeepIf
<1>3. Those(q, T) = g[1..n]
  BY <1>1 DEF Those, FoldLeft, MapThenFoldSet
<1> HIDE DEF base, g
<1>4. /\ \A i \in 1..n, v \in Seq(Dests) : KeepSteps(q, T)[i][v] = KeepIf(v, q[i], T)
      /\ Steps(n, Seq(Dests), base, KeepSteps(q, T))
  <2>1. \A i \in 1..n, v \in Seq(Dests) : KeepIf(v, q[i], T) \in Seq(Dests)
    BY <1>1, <1>2
  <2> QED
    BY <1>1, <1>2, <2>1 DEF Steps, KeepSteps
<1>5. PICK h : Table(n, Seq(Dests), base, KeepSteps(q, T), h)
  BY <1>4, FoldTable
<1>6. h = F(h)
  <2>1. h \in [SUBSET (1..n) -> Seq(Dests)] /\ h[{}] = base
    BY <1>5 DEF Table
  <2>2. ASSUME NEW s \in SUBSET (1..n), s # {}
        PROVE  h[s] = KeepIf(h[s \ {Max(s)}], q[Max(s)], T)
    <3>1. Max(s) \in 1..n
      BY <1>1, <2>2, GreatestNat
    <3>2. h[s \ {Max(s)}] \in Seq(Dests)
      BY <2>1
    <3>3. h[s] = KeepSteps(q, T)[Max(s)][h[s \ {Max(s)}]]
      BY <1>5, <2>2 DEF Table
    <3> QED
      BY <1>4, <3>1, <3>2, <3>3
  <2>3. \A s \in SUBSET (1..n) : h[s] = IF s = {} THEN base ELSE KeepIf(h[s \ {Max(s)}], q[Max(s)], T)
    BY <2>1, <2>2
  <2> QED
    BY <1>1, <2>1, <2>3 DEF KeepIf
<1>7. g = F(g)
  BY <1>6 DEF g
<1>8. \A s \in SUBSET (1..n) : g[s] = IF s = {} THEN base ELSE KeepIf(g[s \ {Max(s)}], q[Max(s)], T)
  BY <1>1, <1>7 DEF KeepIf
<1>9. g[{}] = base
  BY <1>8
<1>10. ASSUME NEW i \in 1..n, g[1..i - 1] \in Seq(Dests)
       PROVE  g[1..i] = KeepSteps(q, T)[i][g[1..i - 1]]
  <2>1. 1..i # {} /\ Max(1..i) = i /\ (1..i) \ {i} = 1..i - 1
    BY <1>1, Upto
  <2>2. 1..i \in SUBSET (1..n)
    BY <1>1
  <2>3. g[1..i] = KeepIf(g[1..i - 1], q[i], T)
    BY <1>8, <2>1, <2>2
  <2> QED
    BY <1>4, <1>10, <2>3
<1>11. Chain(n, Seq(Dests), base, KeepSteps(q, T), g)
  BY <1>9, <1>10 DEF Chain
<1> QED
  BY <1>3, <1>11 DEF n, base

LEMMA ThoseAppend ==
  ASSUME NEW T
  PROVE  /\ Those(<<>>, T) = <<>>
         /\ \A q \in Seq(Dests) : Those(q, T) \in Seq(Dests)
         /\ \A q \in Seq(Dests), d \in Dests : Those(Append(q, d), T) = KeepIf(Those(q, T), d, T)
<1> DEFINE base == <<>>
<1>0. base \in Seq(Dests) /\ \A v \in Seq(Dests), d \in Dests : KeepIf(v, d, T) \in Seq(Dests)
  BY AppendProperties DEF KeepIf
<1> HIDE DEF base
<1>1. ASSUME NEW q \in Seq(Dests)
      PROVE  Len(q) \in Nat /\ Steps(Len(q), Seq(Dests), base, KeepSteps(q, T))
  <2>1. Len(q) \in Nat /\ \A i \in 1..Len(q) : q[i] \in Dests
    BY LenProperties, ElementOfSeq
  <2>2. \A i \in 1..Len(q), v \in Seq(Dests) : KeepIf(v, q[i], T) \in Seq(Dests)
    BY <1>0, <2>1
  <2> QED
    BY <1>0, <2>1, <2>2 DEF Steps, KeepSteps
<1>2. ASSUME NEW q \in Seq(Dests)
      PROVE  \E g : Chain(Len(q), Seq(Dests), base, KeepSteps(q, T), g) /\ Those(q, T) = g[1..Len(q)]
  BY ThoseChain DEF base
<1>3. Those(<<>>, T) = base
  <2>1. <<>> \in Seq(Dests) /\ Len(<<>>) = 0
    OBVIOUS
  <2>2. PICK g : Chain(0, Seq(Dests), base, KeepSteps(<<>>, T), g) /\ Those(<<>>, T) = g[1..0]
    BY <1>2, <2>1
  <2> QED
    BY <2>2, Upto DEF Chain
<1>4. ASSUME NEW q \in Seq(Dests) PROVE Those(q, T) \in Seq(Dests)
  <2>1. PICK g : Chain(Len(q), Seq(Dests), base, KeepSteps(q, T), g) /\ Those(q, T) = g[1..Len(q)]
    BY <1>2
  <2>2. \A i \in 0..Len(q) : g[1..i] \in Seq(Dests)
    BY <1>1, <2>1, ChainTyped
  <2> QED
    BY <1>1, <2>1, <2>2
<1>5. ASSUME NEW q \in Seq(Dests), NEW d \in Dests
      PROVE  Those(Append(q, d), T) = KeepIf(Those(q, T), d, T)
  <2> DEFINE n == Len(q)  a == Append(q, d)
  <2>1. n \in Nat /\ a \in Seq(Dests) /\ Len(a) = n + 1 /\ a[n + 1] = d /\ \A i \in 1..n : a[i] = q[i]
    BY <1>1, AppendProperties
  <2>2. PICK g : Chain(n, Seq(Dests), base, KeepSteps(q, T), g) /\ Those(q, T) = g[1..n]
    BY <1>2
  <2> HIDE DEF a
  <2>3. PICK h : Chain(n + 1, Seq(Dests), base, KeepSteps(a, T), h) /\ Those(a, T) = h[1..n + 1]
    BY <1>2, <2>1
  <2>4. Steps(n, Seq(Dests), base, KeepSteps(q, T)) /\ Steps(n + 1, Seq(Dests), base, KeepSteps(a, T))
    BY <1>1, <2>1
  <2>5. /\ \A i \in 1..n : KeepSteps(a, T)[i] = KeepSteps(q, T)[i]
        /\ \A v \in Seq(Dests) : KeepSteps(a, T)[n + 1][v] = KeepIf(v, d, T)
    BY <2>1 DEF KeepSteps
  <2> HIDE DEF n
  <2>6. h[1..n + 1] = KeepSteps(a, T)[n + 1][g[1..n]] /\ g[1..n] \in Seq(Dests)
    BY <2>2, <2>3, <2>4, <2>5, ChainGrows
  <2>7. Those(a, T) = KeepIf(Those(q, T), d, T)
    BY <2>2, <2>3, <2>5, <2>6
  <2> QED
    BY <2>7 DEF a
<1> QED
  BY <1>3, <1>4, <1>5 DEF base

LEMMA SizeChain ==
  ASSUME NEW f, Logs(f), NEW q \in Seq(Dests)
  PROVE  \E g : /\ Chain(Len(q), Nat, 0, SumSteps(q, f), g)
                /\ SizeOf(f, q) = g[1..Len(q)]
<1> DEFINE n == Len(q)  base == 0
           F(h) == [s \in SUBSET (DOMAIN q) |->
                      IF s = {} THEN base ELSE h[s \ {Max(s)}] + Len(f[q[Max(s)]])]
           g == CHOOSE h : h = F(h)
<1>1. n \in Nat /\ DOMAIN q = 1..n /\ \A i \in 1..n : q[i] \in Dests
  BY LenProperties, ElementOfSeq
<1>2. base \in Nat /\ \A v \in Nat, d \in Dests : AddLength(v, d, f) \in Nat
  BY LenProperties DEF AddLength, Logs
<1>3. SizeOf(f, q) = g[1..n]
  BY <1>1 DEF SizeOf, FoldLeft, MapThenFoldSet
<1> HIDE DEF base, g
<1>4. /\ \A i \in 1..n, v \in Nat : SumSteps(q, f)[i][v] = AddLength(v, q[i], f)
      /\ Steps(n, Nat, base, SumSteps(q, f))
  <2>1. \A i \in 1..n, v \in Nat : AddLength(v, q[i], f) \in Nat
    BY <1>1, <1>2
  <2> QED
    BY <1>1, <1>2, <2>1 DEF Steps, SumSteps
<1>5. PICK h : Table(n, Nat, base, SumSteps(q, f), h)
  BY <1>4, FoldTable
<1>6. h = F(h)
  <2>1. h \in [SUBSET (1..n) -> Nat] /\ h[{}] = base
    BY <1>5 DEF Table
  <2>2. ASSUME NEW s \in SUBSET (1..n), s # {}
        PROVE  h[s] = AddLength(h[s \ {Max(s)}], q[Max(s)], f)
    <3>1. Max(s) \in 1..n
      BY <1>1, <2>2, GreatestNat
    <3>2. h[s \ {Max(s)}] \in Nat
      BY <2>1
    <3>3. h[s] = SumSteps(q, f)[Max(s)][h[s \ {Max(s)}]]
      BY <1>5, <2>2 DEF Table
    <3> QED
      BY <1>4, <3>1, <3>2, <3>3
  <2>3. \A s \in SUBSET (1..n) : h[s] = IF s = {} THEN base ELSE AddLength(h[s \ {Max(s)}], q[Max(s)], f)
    BY <2>1, <2>2
  <2> QED
    BY <1>1, <2>1, <2>3 DEF AddLength
<1>7. g = F(g)
  BY <1>6 DEF g
<1>8. \A s \in SUBSET (1..n) : g[s] = IF s = {} THEN base ELSE AddLength(g[s \ {Max(s)}], q[Max(s)], f)
  BY <1>1, <1>7 DEF AddLength
<1>9. g[{}] = base
  BY <1>8
<1>10. ASSUME NEW i \in 1..n, g[1..i - 1] \in Nat
       PROVE  g[1..i] = SumSteps(q, f)[i][g[1..i - 1]]
  <2>1. 1..i # {} /\ Max(1..i) = i /\ (1..i) \ {i} = 1..i - 1
    BY <1>1, Upto
  <2>2. 1..i \in SUBSET (1..n)
    BY <1>1
  <2>3. g[1..i] = AddLength(g[1..i - 1], q[i], f)
    BY <1>8, <2>1, <2>2
  <2> QED
    BY <1>4, <1>10, <2>3
<1>11. Chain(n, Nat, base, SumSteps(q, f), g)
  BY <1>9, <1>10 DEF Chain
<1> QED
  BY <1>3, <1>11 DEF n, base

LEMMA SizeAppend ==
  ASSUME NEW f, Logs(f)
  PROVE  /\ SizeOf(f, <<>>) = 0
         /\ \A q \in Seq(Dests) : SizeOf(f, q) \in Nat
         /\ \A q \in Seq(Dests), d \in Dests : SizeOf(f, Append(q, d)) = AddLength(SizeOf(f, q), d, f)
<1> DEFINE base == 0
<1>0. base \in Nat /\ \A v \in Nat, d \in Dests : AddLength(v, d, f) \in Nat
  BY LenProperties DEF AddLength, Logs
<1> HIDE DEF base
<1>1. ASSUME NEW q \in Seq(Dests)
      PROVE  Len(q) \in Nat /\ Steps(Len(q), Nat, base, SumSteps(q, f))
  <2>1. Len(q) \in Nat /\ \A i \in 1..Len(q) : q[i] \in Dests
    BY LenProperties, ElementOfSeq
  <2>2. \A i \in 1..Len(q), v \in Nat : AddLength(v, q[i], f) \in Nat
    BY <1>0, <2>1
  <2> QED
    BY <1>0, <2>1, <2>2 DEF Steps, SumSteps
<1>2. ASSUME NEW q \in Seq(Dests)
      PROVE  \E g : Chain(Len(q), Nat, base, SumSteps(q, f), g) /\ SizeOf(f, q) = g[1..Len(q)]
  BY SizeChain DEF base
<1>3. SizeOf(f, <<>>) = base
  <2>1. <<>> \in Seq(Dests) /\ Len(<<>>) = 0
    OBVIOUS
  <2>2. PICK g : Chain(0, Nat, base, SumSteps(<<>>, f), g) /\ SizeOf(f, <<>>) = g[1..0]
    BY <1>2, <2>1
  <2> QED
    BY <2>2, Upto DEF Chain
<1>4. ASSUME NEW q \in Seq(Dests) PROVE SizeOf(f, q) \in Nat
  <2>1. PICK g : Chain(Len(q), Nat, base, SumSteps(q, f), g) /\ SizeOf(f, q) = g[1..Len(q)]
    BY <1>2
  <2>2. \A i \in 0..Len(q) : g[1..i] \in Nat
    BY <1>1, <2>1, ChainTyped
  <2> QED
    BY <1>1, <2>1, <2>2
<1>5. ASSUME NEW q \in Seq(Dests), NEW d \in Dests
      PROVE  SizeOf(f, Append(q, d)) = AddLength(SizeOf(f, q), d, f)
  <2> DEFINE n == Len(q)  a == Append(q, d)
  <2>1. n \in Nat /\ a \in Seq(Dests) /\ Len(a) = n + 1 /\ a[n + 1] = d /\ \A i \in 1..n : a[i] = q[i]
    BY <1>1, AppendProperties
  <2>2. PICK g : Chain(n, Nat, base, SumSteps(q, f), g) /\ SizeOf(f, q) = g[1..n]
    BY <1>2
  <2> HIDE DEF a
  <2>3. PICK h : Chain(n + 1, Nat, base, SumSteps(a, f), h) /\ SizeOf(f, a) = h[1..n + 1]
    BY <1>2, <2>1
  <2>4. Steps(n, Nat, base, SumSteps(q, f)) /\ Steps(n + 1, Nat, base, SumSteps(a, f))
    BY <1>1, <2>1
  <2>5. /\ \A i \in 1..n : SumSteps(a, f)[i] = SumSteps(q, f)[i]
        /\ \A v \in Nat : SumSteps(a, f)[n + 1][v] = AddLength(v, d, f)
    BY <2>1 DEF SumSteps
  <2> HIDE DEF n
  <2>6. h[1..n + 1] = SumSteps(a, f)[n + 1][g[1..n]] /\ g[1..n] \in Nat
    BY <2>2, <2>3, <2>4, <2>5, ChainGrows
  <2>7. SizeOf(f, a) = AddLength(SizeOf(f, q), d, f)
    BY <2>2, <2>3, <2>5, <2>6
  <2> QED
    BY <2>7 DEF a
<1> QED
  BY <1>3, <1>4, <1>5 DEF base

(* The members of a sequence, and of one with one more. *)
LEMMA MembersAppend ==
  ASSUME NEW S
  PROVE  /\ ToSet(<<>>) = {}
         /\ \A q \in Seq(S), d \in S : ToSet(Append(q, d)) = ToSet(q) \union {d}
         /\ \A q \in Seq(S) : ToSet(q) \subseteq S
<1>1. ToSet(<<>>) = {}
  BY DEF ToSet
<1>2. ASSUME NEW q \in Seq(S), NEW d \in S PROVE ToSet(Append(q, d)) = ToSet(q) \union {d}
  <2>1. PICK a \in Seq(S) :
           /\ a = Append(q, d) /\ Len(q) \in Nat /\ Len(a) = Len(q) + 1 /\ a[Len(q) + 1] = d
           /\ Len(q) + 1 \in 1..Len(a)
           /\ \A i \in 1..Len(q) : i \in 1..Len(a) /\ a[i] = q[i]
           /\ \A i \in 1..Len(a) : i \in 1..Len(q) \/ i = Len(q) + 1
    BY OneBehind
  <2>2. DOMAIN a = 1..Len(a) /\ DOMAIN q = 1..Len(q)
    BY LenProperties
  <2>3. ToSet(a) = ToSet(q) \union {d}
    BY <2>1, <2>2 DEF ToSet
  <2> QED
    BY <2>1, <2>3
<1>3. ASSUME NEW q \in Seq(S) PROVE ToSet(q) \subseteq S
  BY ElementOfSeq, LenProperties DEF ToSet
<1> QED
  BY <1>1, <1>2, <1>3

(* A filtered sequence has the members it shares with the set; only they   *)
(* matter, and filtering twice is filtering by both sets.                  *)
LEMMA ThoseMembers ==
  ASSUME NEW T, NEW q \in Seq(Dests)
  PROVE  Those(q, T) \in Seq(Dests) /\ ToSet(Those(q, T)) = ToSet(q) \intersect T
<1> DEFINE Q == {p \in Seq(Dests) : ToSet(Those(p, T)) = ToSet(p) \intersect T}
<1>1. <<>> \in Q
  BY ThoseAppend, MembersAppend
<1>2. ASSUME NEW p \in Seq(Dests), NEW d \in Dests, p \in Q PROVE Append(p, d) \in Q
  <2>1. /\ Append(p, d) \in Seq(Dests) /\ Those(p, T) \in Seq(Dests)
        /\ Those(Append(p, d), T) = KeepIf(Those(p, T), d, T)
    BY ThoseAppend, AppendProperties
  <2>2. ToSet(Append(p, d)) = ToSet(p) \union {d}
    BY MembersAppend
  <2>3. ToSet(Append(Those(p, T), d)) = ToSet(Those(p, T)) \union {d}
    BY <2>1, MembersAppend
  <2> QED
    BY <1>2, <2>1, <2>2, <2>3 DEF KeepIf
<1> HIDE DEF Q
<1>3. Seq(Dests) \subseteq Q
  BY <1>1, <1>2, SeqInduction
<1> QED
  BY <1>3, ThoseAppend DEF Q

LEMMA ThoseSame ==
  ASSUME NEW T, NEW U, NEW q \in Seq(Dests), \A d \in ToSet(q) : d \in T <=> d \in U
  PROVE  Those(q, T) = Those(q, U)
<1> DEFINE Q == {p \in Seq(Dests) : (\A d \in ToSet(p) : d \in T <=> d \in U) => Those(p, T) = Those(p, U)}
<1>1. <<>> \in Q
  BY ThoseAppend
<1>2. ASSUME NEW p \in Seq(Dests), NEW d \in Dests, p \in Q PROVE Append(p, d) \in Q
  <2>1. /\ Append(p, d) \in Seq(Dests)
        /\ Those(Append(p, d), T) = KeepIf(Those(p, T), d, T)
        /\ Those(Append(p, d), U) = KeepIf(Those(p, U), d, U)
    BY ThoseAppend, AppendProperties
  <2>2. ToSet(Append(p, d)) = ToSet(p) \union {d}
    BY MembersAppend
  <2>3. ASSUME \A e \in ToSet(Append(p, d)) : e \in T <=> e \in U
        PROVE  Those(Append(p, d), T) = Those(Append(p, d), U)
    <3>1. Those(p, T) = Those(p, U) /\ (d \in T <=> d \in U)
      BY <1>2, <2>2, <2>3
    <3> QED
      BY <2>1, <3>1, Zenon DEF KeepIf
  <2> QED
    BY <2>1, <2>3
<1> HIDE DEF Q
<1>3. Seq(Dests) \subseteq Q
  BY <1>1, <1>2, SeqInduction
<1> QED
  BY <1>3 DEF Q

LEMMA ThoseTwice ==
  ASSUME NEW T, NEW U, NEW q \in Seq(Dests)
  PROVE  Those(Those(q, T), U) = Those(q, T \intersect U)
<1> DEFINE Q == {p \in Seq(Dests) : Those(Those(p, T), U) = Those(p, T \intersect U)}
<1>1. <<>> \in Q
  BY ThoseAppend
<1>2. ASSUME NEW p \in Seq(Dests), NEW d \in Dests, p \in Q PROVE Append(p, d) \in Q
  <2>1. /\ Append(p, d) \in Seq(Dests) /\ Those(p, T) \in Seq(Dests)
        /\ Those(Append(p, d), T) = KeepIf(Those(p, T), d, T)
        /\ Those(Append(p, d), T \intersect U) = KeepIf(Those(p, T \intersect U), d, T \intersect U)
    BY ThoseAppend, AppendProperties
  <2>2. Those(Append(Those(p, T), d), U) = KeepIf(Those(Those(p, T), U), d, U)
    BY <2>1, ThoseAppend
  <2>3. Those(Those(p, T), U) = Those(p, T \intersect U)
    BY <1>2
  <2>4. d \in T \intersect U <=> d \in T /\ d \in U
    OBVIOUS
  <2>5. Those(Those(Append(p, d), T), U) = Those(Append(p, d), T \intersect U)
    BY <2>1, <2>2, <2>3, <2>4, Zenon DEF KeepIf
  <2> QED
    BY <2>1, <2>5
<1> HIDE DEF Q
<1>3. Seq(Dests) \subseteq Q
  BY <1>1, <1>2, SeqInduction
<1> QED
  BY <1>3 DEF Q

(* Two sequences are filtered one behind the other.                        *)
LEMMA ThoseBoth ==
  ASSUME NEW T, NEW p \in Seq(Dests), NEW q \in Seq(Dests)
  PROVE  Those(p \o q, T) = Those(p, T) \o Those(q, T)
<1> DEFINE Q == {r \in Seq(Dests) : Those(p \o r, T) = Those(p, T) \o Those(r, T)}
<1>0. Those(p, T) \in Seq(Dests)
  BY ThoseAppend
<1>1. <<>> \in Q
  <2>1. p \o <<>> = p /\ Those(p, T) \o <<>> = Those(p, T) /\ <<>> \in Seq(Dests)
    BY <1>0, ConcatEmptySeq
  <2> QED
    BY <2>1, ThoseAppend
<1>2. ASSUME NEW r \in Seq(Dests), NEW d \in Dests, r \in Q PROVE Append(r, d) \in Q
  <2>1. /\ Append(r, d) \in Seq(Dests) /\ Those(r, T) \in Seq(Dests) /\ p \o r \in Seq(Dests)
        /\ Those(Append(r, d), T) = KeepIf(Those(r, T), d, T)
    BY ThoseAppend, AppendProperties, ConcatProperties
  <2>2. Those(Append(p \o r, d), T) = KeepIf(Those(p \o r, T), d, T)
    BY <2>1, ThoseAppend
  <2>3. p \o Append(r, d) = Append(p \o r, d)
    BY AppendToConcat
  <2>4. Those(p, T) \o Append(Those(r, T), d) = Append(Those(p, T) \o Those(r, T), d)
    BY <1>0, <2>1, AppendToConcat
  <2>5. Those(p \o r, T) = Those(p, T) \o Those(r, T)
    BY <1>2
  <2>6. Those(p \o Append(r, d), T) = Those(p, T) \o Those(Append(r, d), T)
    BY <2>1, <2>2, <2>3, <2>4, <2>5, Zenon DEF KeepIf
  <2> QED
    BY <2>1, <2>6
<1> HIDE DEF Q
<1>3. Seq(Dests) \subseteq Q
  BY <1>1, <1>2, SeqInduction
<1> QED
  BY <1>3 DEF Q

(* A set with all the members leaves a sequence as it is, one with none    *)
(* leaves nothing.                                                         *)
LEMMA ThoseAll ==
  ASSUME NEW T, NEW q \in Seq(Dests)
  PROVE  /\ ToSet(q) \subseteq T => Those(q, T) = q
         /\ ToSet(q) \intersect T = {} => Those(q, T) = <<>>
<1> DEFINE Q == {p \in Seq(Dests) : /\ ToSet(p) \subseteq T => Those(p, T) = p
                                    /\ ToSet(p) \intersect T = {} => Those(p, T) = <<>>}
<1>1. <<>> \in Q
  BY ThoseAppend
<1>2. ASSUME NEW p \in Seq(Dests), NEW d \in Dests, p \in Q PROVE Append(p, d) \in Q
  <2>1. /\ Append(p, d) \in Seq(Dests)
        /\ Those(Append(p, d), T) = KeepIf(Those(p, T), d, T)
    BY ThoseAppend, AppendProperties
  <2>2. ToSet(Append(p, d)) = ToSet(p) \union {d}
    BY MembersAppend
  <2> QED
    BY <1>2, <2>1, <2>2 DEF KeepIf
<1> HIDE DEF Q
<1>3. Seq(Dests) \subseteq Q
  BY <1>1, <1>2, SeqInduction
<1> QED
  BY <1>3 DEF Q

(* The size of some files depends on what is in those files only.          *)
LEMMA SizeSame ==
  ASSUME NEW f, Logs(f), NEW g, Logs(g), NEW q \in Seq(Dests), \A d \in ToSet(q) : f[d] = g[d]
  PROVE  SizeOf(f, q) = SizeOf(g, q)
<1> DEFINE Q == {p \in Seq(Dests) : (\A d \in ToSet(p) : f[d] = g[d]) => SizeOf(f, p) = SizeOf(g, p)}
<1>1. <<>> \in Q
  BY SizeAppend
<1>2. ASSUME NEW p \in Seq(Dests), NEW d \in Dests, p \in Q PROVE Append(p, d) \in Q
  <2>1. /\ Append(p, d) \in Seq(Dests)
        /\ SizeOf(f, Append(p, d)) = AddLength(SizeOf(f, p), d, f)
        /\ SizeOf(g, Append(p, d)) = AddLength(SizeOf(g, p), d, g)
    BY SizeAppend, AppendProperties
  <2>2. ToSet(Append(p, d)) = ToSet(p) \union {d}
    BY MembersAppend
  <2> QED
    BY <1>2, <2>1, <2>2 DEF AddLength
<1> HIDE DEF Q
<1>3. Seq(Dests) \subseteq Q
  BY <1>1, <1>2, SeqInduction
<1> QED
  BY <1>3 DEF Q

-----------------------------------------------------------------------------
(* The files of a sequence, each last written before those behind it.      *)
Rising(q, v) == \A i, j \in 1..Len(q) : i < j => v[q[i]] < v[q[j]]

LEMMA RisingAppend ==
  ASSUME NEW v, NEW q \in Seq(Dests), NEW d \in Dests
  PROVE  Rising(Append(q, d), v) <=> Rising(q, v) /\ \A e \in ToSet(q) : v[e] < v[d]
<1>1. PICK a \in Seq(Dests) :
           /\ a = Append(q, d) /\ Len(q) \in Nat /\ Len(a) = Len(q) + 1 /\ a[Len(q) + 1] = d
           /\ Len(q) + 1 \in 1..Len(a)
           /\ \A i \in 1..Len(q) : i \in 1..Len(a) /\ a[i] = q[i]
           /\ \A i \in 1..Len(a) : i \in 1..Len(q) \/ i = Len(q) + 1
  BY OneBehind
<1>2. DOMAIN q = 1..Len(q)
  BY LenProperties
<1>3. ASSUME Rising(a, v) PROVE Rising(q, v) /\ \A e \in ToSet(q) : v[e] < v[d]
  <2>1. ASSUME NEW i \in 1..Len(q) PROVE v[q[i]] < v[d]
    <3>1. i < Len(q) + 1
      BY <1>1
    <3> QED
      BY <1>1, <1>3, <3>1 DEF Rising
  <2>2. Rising(q, v)
    BY <1>1, <1>3 DEF Rising
  <2> QED
    BY <1>2, <2>1, <2>2 DEF ToSet
<1>4. ASSUME Rising(q, v), \A e \in ToSet(q) : v[e] < v[d] PROVE Rising(a, v)
  <2> SUFFICES ASSUME NEW i \in 1..Len(a), NEW j \in 1..Len(a), i < j PROVE v[a[i]] < v[a[j]]
    BY DEF Rising
  <2>1. i \in 1..Len(q)
    BY <1>1
  <2>2. CASE j \in 1..Len(q)
    BY <1>1, <1>4, <2>1, <2>2 DEF Rising
  <2>3. CASE j = Len(q) + 1
    <3>1. q[i] \in ToSet(q)
      BY <1>2, <2>1 DEF ToSet
    <3> QED
      BY <1>1, <1>4, <2>1, <2>3, <3>1
  <2> QED
    BY <1>1, <2>2, <2>3
<1> QED
  BY <1>1, <1>3, <1>4

LEMMA ThoseRise ==
  ASSUME NEW v, NEW T, NEW q \in Seq(Dests), Rising(q, v)
  PROVE  Rising(Those(q, T), v)
<1> DEFINE Q == {p \in Seq(Dests) : Rising(p, v) => Rising(Those(p, T), v)}
<1>1. <<>> \in Q
  BY ThoseAppend
<1>2. ASSUME NEW p \in Seq(Dests), NEW d \in Dests, p \in Q PROVE Append(p, d) \in Q
  <2>0. Append(p, d) \in Seq(Dests)
    BY AppendProperties
  <2> SUFFICES ASSUME Rising(Append(p, d), v) PROVE Rising(Those(Append(p, d), T), v)
    BY <2>0
  <2>1. /\ Those(p, T) \in Seq(Dests)
        /\ Those(Append(p, d), T) = KeepIf(Those(p, T), d, T)
    BY ThoseAppend
  <2>2. Rising(p, v) /\ \A e \in ToSet(p) : v[e] < v[d]
    BY RisingAppend
  <2>3. Rising(Those(p, T), v)
    BY <1>2, <2>2
  <2>4. \A e \in ToSet(Those(p, T)) : v[e] < v[d]
    BY <2>2, ThoseMembers
  <2>5. Rising(Append(Those(p, T), d), v)
    BY <2>1, <2>3, <2>4, RisingAppend
  <2> QED
    BY <2>1, <2>3, <2>5 DEF KeepIf
<1> HIDE DEF Q
<1>3. Seq(Dests) \subseteq Q
  BY <1>1, <1>2, SeqInduction
<1> QED
  BY <1>3 DEF Q

(* The number of the last record of each file; the sequence of the files   *)
(* there are goes by it.                                                   *)
Latest(f) == [d \in Dests |-> IF f[d] = <<>> THEN 0 ELSE Last(f[d]).n]

Filed(f, ord) ==
  /\ Logs(f) /\ ord \in Seq(Dests)
  /\ ToSet(ord) = {d \in Dests : f[d] # <<>>}
  /\ Rising(ord, Latest(f))

LEMMA LatestTyped ==
  ASSUME NEW f, Logs(f), NEW d \in Dests
  PROVE  Latest(f)[d] \in Nat
<1>1. f[d] \in Seq(Record)
  BY DEF Logs
<1>2. CASE f[d] # <<>>
  <2>1. Last(f[d]) \in Record
    BY <1>1, <1>2, LastApart
  <2> QED
    BY <1>2, <2>1 DEF Latest, Record
<1> QED
  BY <1>2 DEF Latest

(* The victims: the expired, and as many of the others as are too much.    *)
Parts(f, ord, expired, rest, m) ==
  /\ rest = Those(ord, Dests \ expired) /\ m <= Len(rest)
  /\ SizeOf(f, SubSeq(rest, m + 1, Len(rest))) <= MaxBytes
  /\ Victims(f, ord, expired) = Those(ord, expired) \o SubSeq(rest, 1, m)

LEMMA VictimsParts ==
  ASSUME NEW f, Logs(f), NEW ord \in Seq(Dests), NEW expired
  PROVE  \E m \in Nat, rest \in Seq(Dests) : Parts(f, ord, expired, rest, m)
<1>1. PICK rest \in Seq(Dests) : rest = Those(ord, Dests \ expired)
  BY ThoseAppend
<1> DEFINE enough == {k \in 0..Len(rest) : SizeOf(f, SubSeq(rest, k + 1, Len(rest))) <= MaxBytes}
<1>2. Len(rest) \in Nat
  BY LenProperties
<1>3. Len(rest) \in enough
  <2>1. SubSeq(rest, Len(rest) + 1, Len(rest)) = <<>>
    BY <1>2, SubSeqEmpty
  <2>2. SizeOf(f, <<>>) <= MaxBytes
    BY SizeAppend, SinkAssumption
  <2>3. Len(rest) \in 0..Len(rest)
    BY <1>2
  <2>4. SizeOf(f, SubSeq(rest, Len(rest) + 1, Len(rest))) <= MaxBytes
    BY <2>1, <2>2
  <2> QED
    BY <2>3, <2>4
<1>4. enough \in SUBSET Nat /\ enough # {}
  BY <1>2, <1>3
<1>5. Victims(f, ord, expired) = Those(ord, expired) \o SubSeq(rest, 1, Min(enough))
  BY <1>1 DEF Victims
<1> HIDE DEF enough
<1>6. PICK k \in enough : \A j \in enough : k <= j
  BY <1>4, LeastNat
<1>7. Min(enough) \in enough
  BY <1>6 DEF Min
<1>8. /\ Min(enough) \in 0..Len(rest)
      /\ SizeOf(f, SubSeq(rest, Min(enough) + 1, Len(rest))) <= MaxBytes
  BY <1>7 DEF enough
<1>9. PICK m \in Nat : m = Min(enough) /\ m <= Len(rest)
  BY <1>2, <1>8
<1>10. Parts(f, ord, expired, rest, m)
  BY <1>1, <1>5, <1>8, <1>9 DEF Parts
<1> QED
  BY <1>10

LEMMA RisingApart ==
  ASSUME NEW f, Logs(f), NEW q \in Seq(Dests), Rising(q, Latest(f)),
         NEW i \in 1..Len(q), NEW j \in 1..Len(q), q[i] = q[j]
  PROVE  i = j
<1>1. q[i] \in Dests /\ Len(q) \in Nat
  BY ElementOfSeq, LenProperties
<1>2. Latest(f)[q[i]] \in Nat
  BY <1>1, LatestTyped
<1>3. ~(i < j) /\ ~(j < i)
  BY <1>2 DEF Rising
<1> QED
  BY <1>1, <1>3

(* What is evicted for its size was written before all that stays.         *)
LEMMA EvictedInTurn ==
  ASSUME NEW f, Logs(f), NEW ord \in Seq(Dests), Rising(ord, Latest(f)), NEW expired,
         NEW k \in 0..Len(Victims(f, ord, expired)),
         NEW gone, gone = ToSet(SubSeq(Victims(f, ord, expired), 1, k)),
         NEW e \in gone \ expired, NEW d \in ToSet(ord) \ gone
  PROVE  Latest(f)[e] < Latest(f)[d]
<1>0. PICK m \in Nat, rest \in Seq(Dests) : Parts(f, ord, expired, rest, m)
  BY VictimsParts
<1>1. /\ rest = Those(ord, Dests \ expired) /\ m <= Len(rest)
      /\ Victims(f, ord, expired) = Those(ord, expired) \o SubSeq(rest, 1, m)
  BY <1>0 DEF Parts
<1>2. PICK aged \in Seq(Dests) : aged = Those(ord, expired) /\ ToSet(aged) = ToSet(ord) \intersect expired
  BY ThoseMembers
<1>3. PICK part \in Seq(Dests) : part = SubSeq(rest, 1, m) /\ Len(part) = m /\ \A i \in 1..m : part[i] = rest[i]
  <2>1. /\ SubSeq(rest, 1, m) \in Seq(Dests) /\ Len(SubSeq(rest, 1, m)) = m
        /\ \A i \in 1..m : SubSeq(rest, 1, m)[i] = rest[i]
    <3>1. Len(rest) \in Nat
      BY LenProperties
    <3>2. 1 \in 1..(Len(rest) + 1) /\ m \in 0..Len(rest) /\ m - 1 + 1 = m
      BY <1>1, <3>1
    <3> DEFINE s == SubSeq(rest, 1, m)
    <3>3. s \in Seq(Dests) /\ Len(s) = (IF 1 <= m THEN m - 1 + 1 ELSE 0) /\ \A i \in 1..m - 1 + 1 : s[i] = rest[1 + i - 1]
      BY <1>1, <3>1, <3>2, SubSeqProperties
    <3> HIDE DEF s
    <3>4. s \in Seq(Dests) /\ Len(s) = m /\ \A i \in 1..m : s[i] = rest[i]
      BY <3>3
    <3> QED
      BY <3>4 DEF s
  <2> QED
    BY <2>1
<1>4. PICK all \in Seq(Dests) :
        /\ all = aged \o part /\ Victims(f, ord, expired) = all
        /\ Len(aged) \in Nat /\ Len(all) = Len(aged) + m
        /\ \A i \in 1..Len(aged) : i \in 1..Len(all) /\ all[i] = aged[i]
        /\ \A j \in 1..m : Len(aged) + j \in 1..Len(all) /\ all[Len(aged) + j] = rest[j]
  <2>1. /\ aged \o part \in Seq(Dests) /\ Len(aged) \in Nat
        /\ Len(aged \o part) = Len(aged) + Len(part)
        /\ \A i \in 1..Len(aged) : i \in 1..Len(aged \o part) /\ (aged \o part)[i] = aged[i]
        /\ \A j \in 1..Len(part) :
             Len(aged) + j \in 1..Len(aged \o part) /\ (aged \o part)[Len(aged) + j] = part[j]
    BY Joins
  <2>2. Victims(f, ord, expired) = aged \o part
    BY <1>1, <1>2, <1>3
  <2> DEFINE all == aged \o part
  <2> HIDE DEF all
  <2>3. /\ all \in Seq(Dests) /\ Len(all) = Len(aged) + m
        /\ \A i \in 1..Len(aged) : i \in 1..Len(all) /\ all[i] = aged[i]
        /\ \A j \in 1..m : Len(aged) + j \in 1..Len(all) /\ all[Len(aged) + j] = rest[j]
    BY <1>3, <2>1 DEF all
  <2> QED
    BY <2>1, <2>2, <2>3 DEF all
<1>5. /\ \A i \in 1..Len(all) : i <= k => all[i] \in gone
      /\ \A x \in gone : \E i \in 1..Len(all) : i <= k /\ all[i] = x
  <2>1. Len(all) \in Nat /\ k \in 0..Len(all) /\ gone = ToSet(SubSeq(all, 1, k))
    BY <1>4, LenProperties
  <2> DEFINE s == SubSeq(all, 1, k)
  <2>2. s \in Seq(Dests) /\ Len(s) = (IF 1 <= k THEN k - 1 + 1 ELSE 0) /\ \A i \in 1..k - 1 + 1 : s[i] = all[1 + i - 1]
    <3>1. 1 \in 1..(Len(all) + 1)
      BY <2>1
    <3> QED
      BY <2>1, <3>1, SubSeqProperties
  <2>3. DOMAIN s = 1..Len(s)
    BY <2>2, LenProperties
  <2> HIDE DEF s
  <2>4. DOMAIN s = 1..k /\ \A i \in 1..k : s[i] = all[i]
    BY <2>1, <2>2, <2>3
  <2>5. gone = {s[i] : i \in 1..k}
    BY <2>1, <2>4 DEF ToSet, s
  <2>6. gone = {all[i] : i \in 1..k}
    BY <2>4, <2>5
  <2>7. \A i \in 1..Len(all) : i <= k => i \in 1..k
    BY <2>1
  <2>8. \A i \in 1..k : i \in 1..Len(all) /\ i <= k
    BY <2>1
  <2> QED
    BY <2>6, <2>7, <2>8
<1>6. PICK i \in 1..Len(all) : i <= k /\ all[i] = e
  BY <1>5
<1>7. PICK a \in 1..m : i = Len(aged) + a /\ rest[a] = e
  <2>1. ~(i <= Len(aged))
    <3> SUFFICES ASSUME i <= Len(aged) PROVE FALSE
      OBVIOUS
    <3>1. i \in 1..Len(aged) /\ DOMAIN aged = 1..Len(aged)
      BY <1>4, LenProperties
    <3>2. aged[i] = e
      BY <1>4, <1>6, <3>1
    <3>3. e \in ToSet(aged)
      BY <3>1, <3>2 DEF ToSet
    <3> QED
      BY <1>2, <3>3
  <2>2. i - Len(aged) \in 1..m
    BY <1>4, <2>1
  <2>3. i = Len(aged) + (i - Len(aged))
    BY <1>4
  <2> QED
    BY <1>4, <1>6, <2>2, <2>3
<1>8. d \in ToSet(ord) /\ d \in Dests /\ d \notin expired
  <2>1. d \in Dests
    BY MembersAppend
  <2>2. ASSUME d \in expired PROVE FALSE
    <3>1. d \in ToSet(aged)
      BY <1>2, <2>2
    <3>2. PICK j \in 1..Len(aged) : aged[j] = d
      BY <3>1, LenProperties DEF ToSet
    <3>3. j \in 1..Len(all) /\ all[j] = d /\ j <= k
      BY <1>4, <1>6, <1>7, <3>2
    <3> QED
      BY <1>5, <3>3
  <2> QED
    BY <2>1, <2>2
<1>9. PICK b \in 1..Len(rest) : rest[b] = d
  <2>1. d \in ToSet(rest)
    BY <1>1, <1>8, ThoseMembers
  <2> QED
    BY <2>1, LenProperties DEF ToSet
<1>10. a < b /\ a \in 1..Len(rest)
  <2>0. Len(rest) \in Nat
    BY LenProperties
  <2>1. ASSUME b <= a PROVE FALSE
    <3>1. b \in 1..m /\ Len(aged) + b <= k
      BY <1>4, <1>6, <1>7, <2>0, <2>1
    <3>2. Len(aged) + b \in 1..Len(all) /\ all[Len(aged) + b] = d
      BY <1>4, <1>9, <3>1
    <3> QED
      BY <1>5, <3>1, <3>2
  <2> QED
    BY <1>1, <2>0, <2>1
<1>11. Rising(rest, Latest(f))
  BY <1>1, ThoseRise
<1> QED
  BY <1>7, <1>9, <1>10, <1>11 DEF Rising

(* What is left when all victims are removed: it is not too much.          *)
LEMMA RestFits ==
  ASSUME NEW f, Logs(f), NEW ord \in Seq(Dests), Rising(ord, Latest(f)), NEW expired,
         NEW gone, gone = ToSet(Victims(f, ord, expired))
  PROVE  SizeOf(f, Those(ord, Dests \ gone)) <= MaxBytes
<1>0. PICK m \in Nat, rest \in Seq(Dests) : Parts(f, ord, expired, rest, m)
  BY VictimsParts
<1>1. /\ rest = Those(ord, Dests \ expired) /\ m <= Len(rest)
      /\ SizeOf(f, SubSeq(rest, m + 1, Len(rest))) <= MaxBytes
      /\ Victims(f, ord, expired) = Those(ord, expired) \o SubSeq(rest, 1, m)
  BY <1>0 DEF Parts
<1>2. /\ Those(ord, expired) \in Seq(Dests) /\ ToSet(Those(ord, expired)) = ToSet(ord) \intersect expired
      /\ ToSet(rest) = ToSet(ord) \intersect (Dests \ expired)
  BY <1>1, ThoseMembers
<1>3. PICK n \in Nat : n = Len(rest)
  BY LenProperties
<1>4. PICK p \in Seq(Dests), s \in Seq(Dests) :
        /\ p = SubSeq(rest, 1, m) /\ s = SubSeq(rest, m + 1, n) /\ rest = p \o s
        /\ Len(p) = m /\ \A i \in 1..m : p[i] = rest[i]
        /\ Len(s) = n - m /\ \A i \in 1..n - m : s[i] = rest[m + i]
  <2> DEFINE p == SubSeq(rest, 1, m)  s == SubSeq(rest, m + 1, n)
  <2>1. 1 \in 1..(n + 1) /\ m \in 0..n /\ m + 1 \in 1..(n + 1) /\ n \in 0..n
    BY <1>1, <1>3
  <2>2. p \in Seq(Dests) /\ Len(p) = (IF 1 <= m THEN m - 1 + 1 ELSE 0) /\ \A i \in 1..m - 1 + 1 : p[i] = rest[1 + i - 1]
    BY <1>3, <2>1, SubSeqProperties
  <2>3. /\ s \in Seq(Dests) /\ Len(s) = (IF m + 1 <= n THEN n - (m + 1) + 1 ELSE 0)
        /\ \A i \in 1..n - (m + 1) + 1 : s[i] = rest[m + 1 + i - 1]
    BY <1>3, <2>1, SubSeqProperties
  <2>4. rest = p \o s
    <3>1. p \o s = SubSeq(rest, 1, n)
      <4>1. 1 \in 1..Len(rest) + 1 /\ m \in 1 - 1..Len(rest) /\ n \in m..Len(rest)
        BY <1>1, <1>3
      <4> QED
        BY <1>3, <4>1, ConcatAdjacentSubSeq
    <3>2. SubSeq(rest, 1, n) = rest
      BY <1>3, SubSeqFull
    <3> QED
      BY <3>1, <3>2
  <2> HIDE DEF p, s
  <2>5. Len(p) = m /\ \A i \in 1..m : p[i] = rest[i]
    BY <2>2
  <2>6. Len(s) = n - m /\ \A i \in 1..n - m : s[i] = rest[m + i]
    <3>1. n - (m + 1) + 1 = n - m /\ \A i \in 1..n - m : m + 1 + i - 1 = m + i
      OBVIOUS
    <3>2. Len(s) = n - m
      BY <1>1, <1>3, <2>3, <3>1
    <3>3. \A i \in 1..n - m : s[i] = rest[m + i]
      BY <2>3, <3>1
    <3> QED
      BY <3>2, <3>3
  <2> QED
    BY <2>2, <2>3, <2>4, <2>5, <2>6 DEF p, s
<1>5. gone = (ToSet(ord) \intersect expired) \union ToSet(p)
  <2>1. gone = ToSet(Those(ord, expired) \o p)
    BY <1>1, <1>4
  <2>2. Range(Those(ord, expired) \o p) = Range(Those(ord, expired)) \union Range(p)
    BY <1>2, RangeConcatenation
  <2>3. \A q : ToSet(q) = Range(q)
    BY DEF ToSet, Range
  <2> QED
    BY <1>2, <2>1, <2>2, <2>3
<1>6. ToSet(s) \intersect ToSet(p) = {}
  <2> SUFFICES ASSUME NEW d \in ToSet(p), d \in ToSet(s) PROVE FALSE
    OBVIOUS
  <2>1. PICK i \in 1..m : p[i] = d
    BY <1>4, LenProperties DEF ToSet
  <2>2. PICK j \in 1..n - m : s[j] = d
    BY <1>4, LenProperties DEF ToSet
  <2>3. rest[i] = d /\ rest[m + j] = d
    BY <1>4, <2>1, <2>2
  <2>6. i \in 1..n /\ m + j \in 1..n /\ i # m + j
    BY <1>1, <1>3
  <2>4. Rising(rest, Latest(f))
    BY <1>1, ThoseRise
  <2>5. i = m + j
    BY <1>3, <2>3, <2>4, <2>6, RisingApart
  <2> QED
    BY <2>5, <2>6
<1>7. ToSet(s) \subseteq ToSet(rest)
  <2> SUFFICES ASSUME NEW d \in ToSet(s) PROVE d \in ToSet(rest)
    OBVIOUS
  <2>1. PICK j \in 1..n - m : s[j] = d
    BY <1>4, LenProperties DEF ToSet
  <2>2. m + j \in 1..n /\ rest[m + j] = d
    BY <1>1, <1>3, <1>4, <2>1
  <2> QED
    BY <1>3, <2>2, LenProperties DEF ToSet
<1>8. Those(ord, Dests \ gone) = Those(rest, Dests \ ToSet(p))
  <2>1. Those(rest, Dests \ ToSet(p)) = Those(ord, (Dests \ expired) \intersect (Dests \ ToSet(p)))
    BY <1>1, ThoseTwice
  <2>2. \A d \in ToSet(ord) : d \in Dests \ gone <=> d \in (Dests \ expired) \intersect (Dests \ ToSet(p))
    BY <1>5
  <2>3. Those(ord, Dests \ gone) = Those(ord, (Dests \ expired) \intersect (Dests \ ToSet(p)))
    BY <2>2, ThoseSame
  <2> QED
    BY <2>1, <2>3
<1>9. Those(rest, Dests \ ToSet(p)) = s
  <2>1. Those(p, Dests \ ToSet(p)) = <<>>
    BY ThoseAll
  <2>2. ToSet(s) \subseteq Dests \ ToSet(p)
    BY <1>6, MembersAppend
  <2>3. Those(s, Dests \ ToSet(p)) = s
    BY <2>2, ThoseAll
  <2>4. Those(p \o s, Dests \ ToSet(p)) = Those(p, Dests \ ToSet(p)) \o Those(s, Dests \ ToSet(p))
    BY ThoseBoth
  <2>5. <<>> \o s = s
    BY ConcatEmptySeq
  <2> QED
    BY <1>4, <2>1, <2>3, <2>4, <2>5
<1> QED
  BY <1>1, <1>3, <1>4, <1>8, <1>9

(* What one sweep does: files go or stay as they are, those that stay are  *)
(* filed, what went for its size was older, and if nothing failed it fits. *)
LEMMA SweepMeans ==
  ASSUME NEW f, NEW ord, Filed(f, ord), NEW expired, NEW handles,
         Sweep(f, ord, expired, handles), errors \in Nat
  PROVE  /\ Filed(file', order')
         /\ \A d \in Dests : file'[d] = <<>> \/ file'[d] = f[d]
         /\ \A d, e \in Dests : f[e] # <<>> /\ file'[e] = <<>> /\ e \notin expired /\ file'[d] # <<>>
              => Latest(f)[e] < Latest(f)[d]
         /\ errors' = errors => SizeOf(file', order') <= MaxBytes
<1>0. Logs(f) /\ ord \in Seq(Dests) /\ ToSet(ord) = {d \in Dests : f[d] # <<>>} /\ Rising(ord, Latest(f))
  BY DEF Filed
<1>a. PICK V \in {Victims(f, ord, expired)}, fails \in {FALSE, faults < MaxFaults} :
        \E gone \in {ToSet(SubSeq(V, 1, k)) : k \in IF fails THEN 0..Len(V) ELSE {Len(V)}} :
          /\ file' = [d \in Dests |-> IF d \in gone THEN <<>> ELSE f[d]]
          /\ order' = Those(ord, Dests \ gone)
          /\ errors' = errors + (IF fails THEN 1 ELSE 0)
  BY Zenon DEF Sweep
<1>b. PICK gone \in {ToSet(SubSeq(V, 1, k)) : k \in IF fails THEN 0..Len(V) ELSE {Len(V)}} :
        /\ file' = [d \in Dests |-> IF d \in gone THEN <<>> ELSE f[d]]
        /\ order' = Those(ord, Dests \ gone)
        /\ errors' = errors + (IF fails THEN 1 ELSE 0)
  BY <1>a, Zenon
<1>c. PICK k \in IF fails THEN 0..Len(V) ELSE {Len(V)} : gone = ToSet(SubSeq(V, 1, k))
  BY <1>b
<1>1. /\ fails \in {FALSE, faults < MaxFaults}
      /\ k \in IF fails THEN 0..Len(Victims(f, ord, expired)) ELSE {Len(Victims(f, ord, expired))}
      /\ gone = ToSet(SubSeq(Victims(f, ord, expired), 1, k))
      /\ file' = [d \in Dests |-> IF d \in gone THEN <<>> ELSE f[d]]
      /\ order' = Those(ord, Dests \ gone)
      /\ errors' = errors + (IF fails THEN 1 ELSE 0)
  BY <1>a, <1>b, <1>c
<1>2. PICK victims \in Seq(Dests) : victims = Victims(f, ord, expired)
  <2>1. PICK m \in Nat, rest \in Seq(Dests) : Parts(f, ord, expired, rest, m)
    BY <1>0, VictimsParts
  <2>2. Those(ord, expired) \in Seq(Dests)
    BY <1>0, ThoseAppend
  <2>3. SubSeq(rest, 1, m) \in Seq(Dests)
    <3>1. Len(rest) \in Nat /\ m <= Len(rest)
      BY <2>1, LenProperties DEF Parts
    <3>2. 1 \in 1..Len(rest) + 1 /\ m \in 0..Len(rest)
      BY <3>1
    <3> QED
      BY <3>2, SubSeqProperties
  <2> QED
    BY <2>1, <2>2, <2>3, ConcatProperties DEF Parts
<1>3. Len(victims) \in Nat /\ k \in 0..Len(victims)
  BY <1>1, <1>2, LenProperties
<1>4. Logs(file')
  BY <1>0, <1>1 DEF Logs
<1>5. order' \in Seq(Dests) /\ ToSet(order') = ToSet(ord) \intersect (Dests \ gone)
  BY <1>0, <1>1, ThoseMembers
<1>6. ToSet(order') = {d \in Dests : file'[d] # <<>>}
  BY <1>0, <1>1, <1>5
<1>7. \A d \in ToSet(order') : d \in Dests /\ file'[d] = f[d]
  BY <1>1, <1>5
<1>8. Rising(order', Latest(file'))
  <2>1. Rising(order', Latest(f))
    BY <1>0, <1>1, ThoseRise
  <2>2. \A d \in ToSet(order') : Latest(file')[d] = Latest(f)[d]
    BY <1>7 DEF Latest
  <2>3. \A i \in 1..Len(order') : order'[i] \in ToSet(order')
    BY <1>5, LenProperties DEF ToSet
  <2> QED
    BY <2>1, <2>2, <2>3 DEF Rising
<1>9. Filed(file', order')
  BY <1>4, <1>5, <1>6, <1>8 DEF Filed
<1>10. ASSUME NEW d \in Dests, NEW e \in Dests, f[e] # <<>>, file'[e] = <<>>, e \notin expired, file'[d] # <<>>
       PROVE  Latest(f)[e] < Latest(f)[d]
  <2>1. e \in gone /\ d \notin gone /\ f[d] # <<>>
    BY <1>1, <1>10
  <2>2. e \in gone \ expired /\ d \in ToSet(ord) \ gone
    BY <1>0, <1>10, <2>1
  <2> QED
    BY <1>0, <1>1, <1>2, <1>3, <2>2, EvictedInTurn
<1>11. ASSUME errors' = errors PROVE SizeOf(file', order') <= MaxBytes
  <2>1. ~fails
    BY <1>1, <1>11
  <2>2. gone = ToSet(victims)
    <3>1. k = Len(victims)
      BY <1>1, <1>2, <2>1
    <3>2. SubSeq(victims, 1, Len(victims)) = victims
      BY SubSeqFull
    <3> QED
      BY <1>1, <1>2, <3>1, <3>2
  <2>3. SizeOf(f, Those(ord, Dests \ gone)) <= MaxBytes
    BY <1>0, <1>2, <2>2, RestFits
  <2>4. SizeOf(file', order') = SizeOf(f, order')
    BY <1>0, <1>4, <1>5, <1>7, SizeSame
  <2> QED
    BY <1>1, <2>3, <2>4
<1> QED
  BY <1>1, <1>9, <1>10, <1>11

(* A file that is written becomes the last.                                *)
Gains(f, d, r, g) == g = [f EXCEPT ![d] = Append(@, r)]

LEMMA WrittenLast ==
  ASSUME NEW f, NEW ord, Filed(f, ord), NEW d \in Dests, NEW r \in Record,
         \A e \in Dests : Latest(f)[e] < r.n,
         NEW g, Gains(f, d, r, g)
  PROVE  /\ Filed(g, Append(Those(ord, Dests \ {d}), d))
         /\ Latest(g)[d] = r.n /\ \A e \in Dests \ {d} : g[e] = f[e] /\ Latest(g)[e] = Latest(f)[e]
<1>0. Logs(f) /\ ord \in Seq(Dests) /\ ToSet(ord) = {e \in Dests : f[e] # <<>>} /\ Rising(ord, Latest(f))
  BY DEF Filed
<1>1. f \in [Dests -> Seq(Record)] /\ f[d] \in Seq(Record)
  BY <1>0 DEF Logs
<1>2. Append(f[d], r) \in Seq(Record) /\ Append(f[d], r) # <<>> /\ Last(Append(f[d], r)) = r
  BY <1>1, AppendProperties, FrontOfAppend
<1>3. g[d] = Append(f[d], r) /\ (\A e \in Dests \ {d} : g[e] = f[e]) /\ Logs(g)
  BY <1>1, <1>2 DEF Logs, Gains
<1>4. Latest(g)[d] = r.n /\ \A e \in Dests \ {d} : Latest(g)[e] = Latest(f)[e]
  BY <1>2, <1>3 DEF Latest
<1>5. PICK q \in Seq(Dests) : q = Those(ord, Dests \ {d}) /\ ToSet(q) = ToSet(ord) \intersect (Dests \ {d})
  BY <1>0, ThoseMembers
<1>6. /\ Append(q, d) \in Seq(Dests)
      /\ ToSet(Append(q, d)) = ToSet(q) \union {d}
  BY MembersAppend, AppendProperties
<1>7. ToSet(Append(q, d)) = {e \in Dests : g[e] # <<>>}
  BY <1>0, <1>2, <1>3, <1>5, <1>6
<1>8. Rising(q, Latest(g))
  <2>1. Rising(q, Latest(f))
    BY <1>0, <1>5, ThoseRise
  <2>2. \A i \in 1..Len(q) : q[i] \in Dests \ {d}
    BY <1>5, LenProperties DEF ToSet
  <2> QED
    BY <1>4, <2>1, <2>2 DEF Rising
<1>9. \A e \in ToSet(q) : Latest(g)[e] < Latest(g)[d]
  BY <1>4, <1>5
<1>10. Rising(Append(q, d), Latest(g))
  BY <1>8, <1>9, RisingAppend
<1> QED
  BY <1>3, <1>4, <1>5, <1>6, <1>7, <1>10 DEF Filed

(* Records are numbered as they are logged: those in the queue rise, and   *)
(* what was written was logged before them.                                *)
Numbered ==
  /\ \A i \in 1..Len(queue) :
       /\ queue[i].rec.n <= Len(Leftover) + logged
       /\ \A j \in 1..Len(queue) : i < j => queue[i].rec.n < queue[j].rec.n
       /\ \A d \in Dests : Latest(file)[d] < queue[i].rec.n
  /\ \A d \in Dests : Latest(file)[d] <= Len(Leftover) + logged

FilesInv == Filed(file, order) /\ Numbered

LEMMA InitFiles == Init => FilesInv
<1> SUFFICES ASSUME Init PROVE FilesInv
  OBVIOUS
<1>1. /\ queue = <<>> /\ order = Leftover /\ logged = 0
      /\ file = [d \in Dests |-> IF d \in ToSet(Leftover) THEN <<OldRecord(d)>> ELSE <<>>]
  BY DEF Init, SinkInit
<1>2. Leftover \in Seq(Sids) /\ Sids \subseteq Dests /\ Len(Leftover) \in Nat
      /\ DOMAIN Leftover = 1..Len(Leftover)
      /\ \A i, j \in DOMAIN Leftover : Leftover[i] = Leftover[j] => i = j
  BY SinkAssumption, LenProperties DEF IsInjective, Dests
<1>3. Leftover \in Seq(Dests) /\ \A i \in 1..Len(Leftover) : Leftover[i] \in Dests
  <2>1. \A i \in 1..Len(Leftover) : Leftover[i] \in Dests
    BY <1>2, ElementOfSeq
  <2>2. Leftover \in Seq(Dests)
    BY <1>2, SeqMonotonic
  <2> QED
    BY <2>1, <2>2
<1>4. ASSUME NEW i \in 1..Len(Leftover)
      PROVE  OldRecord(Leftover[i]) \in Record /\ OldRecord(Leftover[i]).n = i
  <2>1. (CHOOSE j \in DOMAIN Leftover : Leftover[j] = Leftover[i]) = i
    BY <1>2
  <2>2. i \in Nat /\ "old" \in Kinds /\ NoSid \in AnySid
    BY <1>2 DEF Kinds, AnySid
  <2>3. OldRecord(Leftover[i]) = [n |-> i, kind |-> "old", sid |-> NoSid]
    BY <2>1 DEF OldRecord
  <2> QED
    BY <2>2, <2>3 DEF Record
<1>5. \A d \in ToSet(Leftover) : \E i \in 1..Len(Leftover) : Leftover[i] = d
  BY <1>2 DEF ToSet
<1>6. \A d \in ToSet(Leftover) : OldRecord(d) \in Record
  BY <1>4, <1>5
<1>7. \A x \in Record : <<x>> \in Seq(Record) /\ <<x>> # <<>> /\ Last(<<x>>) = x
  BY DEF Last
<1>8. Logs(file)
  <2>1. <<>> \in Seq(Record)
    OBVIOUS
  <2>2. \A d \in Dests : (IF d \in ToSet(Leftover) THEN <<OldRecord(d)>> ELSE <<>>) \in Seq(Record)
    BY <1>6, <1>7, <2>1
  <2> QED
    BY <1>1, <2>2 DEF Logs
<1>9. \A d \in Dests : /\ d \in ToSet(Leftover) => file[d] = <<OldRecord(d)>> /\ file[d] # <<>>
                       /\ d \notin ToSet(Leftover) => file[d] = <<>>
  BY <1>1, <1>6, <1>7
<1>10. \A i \in 1..Len(Leftover) : Latest(file)[Leftover[i]] = i
  <2> SUFFICES ASSUME NEW i \in 1..Len(Leftover) PROVE Latest(file)[Leftover[i]] = i
    OBVIOUS
  <2>1. Leftover[i] \in ToSet(Leftover) /\ Leftover[i] \in Dests
    BY <1>2, <1>3 DEF ToSet
  <2>2. file[Leftover[i]] # <<>> /\ Last(file[Leftover[i]]) = OldRecord(Leftover[i])
    BY <1>6, <1>7, <1>9, <2>1
  <2>3. Latest(file)[Leftover[i]] = Last(file[Leftover[i]]).n
    BY <2>1, <2>2 DEF Latest
  <2> QED
    BY <1>4, <2>2, <2>3
<1>11. Filed(file, order)
  <2>1. ToSet(order) = {d \in Dests : file[d] # <<>>}
    BY <1>1, <1>3, <1>9, MembersAppend
  <2>2. Rising(order, Latest(file))
    BY <1>1, <1>10 DEF Rising
  <2> QED
    BY <1>1, <1>3, <1>8, <2>1, <2>2 DEF Filed
<1>12. \A d \in Dests : Latest(file)[d] <= Len(Leftover) + logged
  <2> SUFFICES ASSUME NEW d \in Dests PROVE Latest(file)[d] <= Len(Leftover)
    BY <1>1, <1>2
  <2>1. CASE d \in ToSet(Leftover)
    <3>1. PICK i \in 1..Len(Leftover) : Leftover[i] = d
      BY <1>5, <2>1
    <3> QED
      BY <1>2, <1>10, <3>1
  <2>2. CASE d \notin ToSet(Leftover)
    BY <1>2, <1>9, <2>2 DEF Latest
  <2> QED
    BY <2>1, <2>2
<1> QED
  BY <1>1, <1>11, <1>12 DEF FilesInv, Numbered

(* A record that is offered gets the highest number.                       *)
LEMMA OfferFiled ==
  ASSUME Typed, FilesInv, NEW d \in Dests, NEW r \in Record, Offer(d, r),
         r.n = Len(Leftover) + logged + 1
  PROVE  FilesInv'
<1>1. /\ UNCHANGED <<file, order>> /\ logged' = logged + 1
      /\ UNCHANGED queue \/ queue' = Append(queue, [dest |-> d, rec |-> r])
  BY DEF Offer, Enqueue, writerVars
<1>2. PICK top \in Nat : top = Len(Leftover) + logged
  BY SinkAssumption, LenProperties DEF Typed
<1>3. /\ Len(Leftover) + logged' = top + 1 /\ r.n = top + 1 /\ Len(Leftover) \in Nat
  BY <1>1, <1>2, SinkAssumption, LenProperties DEF Typed
<1>4. \A e \in Dests : Latest(file)[e] \in Nat /\ Latest(file)[e] <= top
  BY <1>2, LatestTyped DEF FilesInv, Filed, Numbered
<1>5. \A i \in 1..Len(queue) : queue[i].rec.n \in Nat /\ queue[i].rec.n <= top
  <2>1. \A i \in 1..Len(queue) : queue[i] \in Entry
    BY ElementOfSeq DEF Typed
  <2> QED
    BY <1>2, <2>1 DEF Entry, Record, FilesInv, Numbered
<1>6. CASE UNCHANGED queue
  <2>1. \A i \in 1..Len(queue) : queue[i].rec.n <= top + 1
    BY <1>5
  <2>2. \A e \in Dests : Latest(file)[e] <= top + 1
    BY <1>4
  <2> QED
    BY <1>1, <1>3, <1>6, <2>1, <2>2 DEF FilesInv, Numbered
<1>7. CASE queue' = Append(queue, [dest |-> d, rec |-> r])
  <2>1. PICK x \in Entry : x = [dest |-> d, rec |-> r]
    BY DEF Entry
  <2>2. PICK a \in Seq(Entry) :
           /\ a = Append(queue, x) /\ Len(queue) \in Nat /\ Len(a) = Len(queue) + 1 /\ a[Len(queue) + 1] = x
           /\ Len(queue) + 1 \in 1..Len(a)
           /\ \A i \in 1..Len(queue) : i \in 1..Len(a) /\ a[i] = queue[i]
           /\ \A i \in 1..Len(a) : i \in 1..Len(queue) \/ i = Len(queue) + 1
    BY OneBehind DEF Typed
  <2>3. queue' = a /\ x.rec.n = top + 1
    BY <1>3, <1>7, <2>1, <2>2
  <2>4. ASSUME NEW i \in 1..Len(a)
        PROVE  /\ a[i].rec.n <= top + 1
               /\ \A j \in 1..Len(a) : i < j => a[i].rec.n < a[j].rec.n
               /\ \A e \in Dests : Latest(file)[e] < a[i].rec.n
    <3>1. CASE i \in 1..Len(queue)
      <4>1. a[i].rec.n <= top /\ a[i].rec.n \in Nat /\ \A e \in Dests : Latest(file)[e] < a[i].rec.n
        BY <1>5, <2>2, <3>1 DEF FilesInv, Numbered
      <4>2. ASSUME NEW j \in 1..Len(a), i < j PROVE a[i].rec.n < a[j].rec.n
        <5>1. CASE j \in 1..Len(queue)
          BY <2>2, <3>1, <4>2, <5>1 DEF FilesInv, Numbered
        <5>2. CASE j = Len(queue) + 1
          BY <2>2, <2>3, <4>1, <5>2
        <5> QED
          BY <2>2, <5>1, <5>2
      <4> QED
        BY <4>1, <4>2
    <3>2. CASE i = Len(queue) + 1
      <4>1. a[i].rec.n = top + 1 /\ \A j \in 1..Len(a) : ~(i < j)
        BY <2>2, <2>3, <3>2
      <4> QED
        BY <1>4, <4>1
    <3> QED
      BY <2>2, <3>1, <3>2
  <2>5. \A e \in Dests : Latest(file)[e] <= top + 1
    BY <1>4
  <2> QED
    BY <1>1, <1>3, <2>3, <2>4, <2>5 DEF FilesInv, Numbered
<1> QED
  BY <1>1, <1>6, <1>7

(* What NewestLogsKept says of a step.                                     *)
NewestKept ==
  /\ \A d, e \in Dests : Evicted(e) /\ file'[d] # <<>> => Last(file'[d]).n > Last(file[e]).n
  /\ Swept /\ errors' = errors => SizeOf(file', order') <= MaxBytes

LEMMA NumbersTyped ==
  ASSUME Typed
  PROVE  Len(Leftover) + logged \in Nat /\ \A i \in 1..Len(queue) : queue[i].rec.n \in Nat
<1>1. Len(Leftover) + logged \in Nat
  BY SinkAssumption, LenProperties DEF Typed
<1>2. \A i \in 1..Len(queue) : queue[i] \in Entry
  BY ElementOfSeq DEF Typed
<1> QED
  BY <1>1, <1>2 DEF Entry, Record

(* A directory that is deleted takes one file with it.                     *)
LEMMA RemovedFiled ==
  ASSUME Typed, FilesInv, NEW s \in Sids, DirectoryRemoved(s)
  PROVE  FilesInv'
<1>1. /\ file' = [file EXCEPT ![s] = <<>>] /\ order' = Those(order, Dests \ {s})
      /\ UNCHANGED <<queue, logged>>
  BY DEF DirectoryRemoved, queueVars
<1>2. Logs(file) /\ order \in Seq(Dests) /\ ToSet(order) = {d \in Dests : file[d] # <<>>}
      /\ Rising(order, Latest(file)) /\ s \in Dests
  BY DEF FilesInv, Filed, Dests
<1>3. Logs(file') /\ file'[s] = <<>> /\ \A d \in Dests \ {s} : file'[d] = file[d]
  BY <1>1, <1>2 DEF Logs
<1>4. order' \in Seq(Dests) /\ ToSet(order') = ToSet(order) \intersect (Dests \ {s})
  BY <1>1, <1>2, ThoseMembers
<1>5. ToSet(order') = {d \in Dests : file'[d] # <<>>}
  BY <1>2, <1>3, <1>4
<1>6. /\ \A d \in Dests \ {s} : Latest(file')[d] = Latest(file)[d]
      /\ Latest(file')[s] = 0
  BY <1>2, <1>3 DEF Latest
<1>7. Rising(order', Latest(file'))
  <2>1. Rising(order', Latest(file))
    BY <1>1, <1>2, ThoseRise
  <2>2. \A i \in 1..Len(order') : order'[i] \in Dests \ {s}
    BY <1>4, LenProperties DEF ToSet
  <2> QED
    BY <1>6, <2>1, <2>2 DEF Rising
<1>8. \A d \in Dests : Latest(file')[d] \in Nat /\ Latest(file')[d] <= Latest(file)[d] /\ Latest(file)[d] \in Nat
  BY <1>2, <1>3, <1>6, LatestTyped
<1>9. Numbered'
  <2>1. Len(Leftover) + logged \in Nat /\ \A i \in 1..Len(queue) : queue[i].rec.n \in Nat
    BY NumbersTyped
  <2>2. ASSUME NEW n \in Nat, NEW d \in Dests
        PROVE  /\ Latest(file)[d] < n => Latest(file')[d] < n
               /\ Latest(file)[d] <= n => Latest(file')[d] <= n
    BY <1>8
  <2> QED
    BY <1>1, <2>1, <2>2 DEF FilesInv, Numbered
<1> QED
  BY <1>2, <1>3, <1>4, <1>5, <1>7, <1>9 DEF FilesInv, Filed

(* A sweep over files that are filed, what was just written included.      *)
LEMMA SweepFiled ==
  ASSUME NEW g, NEW ord, Filed(g, ord), NEW expired, NEW handles,
         Sweep(g, ord, expired, handles), errors \in Nat, Logs(file),
         \A e \in Dests : /\ file[e] # <<>> => g[e] # <<>>
                          /\ Latest(file)[e] <= Latest(g)[e]
                          /\ Latest(g)[e] <= Len(Leftover) + logged'
                          /\ e \in expired => e \in old,
         Len(Leftover) + logged' \in Nat,
         \A i \in 1..Len(queue') :
           /\ queue'[i].rec.n \in Nat /\ queue'[i].rec.n <= Len(Leftover) + logged'
           /\ \A j \in 1..Len(queue') : i < j => queue'[i].rec.n < queue'[j].rec.n
           /\ \A d \in Dests : Latest(g)[d] < queue'[i].rec.n
  PROVE  FilesInv' /\ NewestKept
<1>1. /\ Filed(file', order')
      /\ \A d \in Dests : file'[d] = <<>> \/ file'[d] = g[d]
      /\ \A d, e \in Dests : g[e] # <<>> /\ file'[e] = <<>> /\ e \notin expired /\ file'[d] # <<>>
           => Latest(g)[e] < Latest(g)[d]
      /\ errors' = errors => SizeOf(file', order') <= MaxBytes
  BY SweepMeans
<1>2. \A d \in Dests : /\ Latest(g)[d] \in Nat /\ Latest(file)[d] \in Nat
                       /\ Latest(file')[d] = 0 \/ Latest(file')[d] = Latest(g)[d]
  <2>1. \A d \in Dests : Latest(g)[d] \in Nat /\ Latest(file)[d] \in Nat
    BY LatestTyped DEF Filed
  <2>2. \A d \in Dests : Latest(file')[d] = 0 \/ Latest(file')[d] = Latest(g)[d]
    BY <1>1 DEF Latest
  <2> QED
    BY <2>1, <2>2
<1>3. ASSUME NEW d \in Dests, NEW n \in Nat
      PROVE  /\ Latest(g)[d] < n => Latest(file')[d] < n
             /\ Latest(g)[d] <= n => Latest(file')[d] <= n
  BY <1>2
<1>4. FilesInv'
  BY <1>1, <1>3 DEF FilesInv, Numbered
<1>5. ASSUME NEW d \in Dests, NEW e \in Dests, Evicted(e), file'[d] # <<>>
      PROVE  Last(file'[d]).n > Last(file[e]).n
  <2>1. e \notin old /\ file[e] # <<>> /\ file'[e] = <<>>
    BY <1>5 DEF Evicted
  <2>2. g[e] # <<>> /\ e \notin expired
    BY <2>1
  <2>3. Latest(g)[e] < Latest(g)[d]
    BY <1>1, <1>5, <2>1, <2>2
  <2>4. file'[d] = g[d] /\ g[d] # <<>>
    BY <1>1, <1>5
  <2>5. Latest(g)[d] = Last(file'[d]).n /\ Latest(file)[e] = Last(file[e]).n
    BY <2>1, <2>4 DEF Latest
  <2>6. Latest(file)[e] <= Latest(g)[e]
    OBVIOUS
  <2>7. Latest(file)[e] < Latest(g)[d]
    BY <1>2, <2>3, <2>6
  <2> QED
    BY <2>5, <2>7
<1> QED
  BY <1>1, <1>4, <1>5 DEF NewestKept

LEMMA TookFirst ==
  ASSUME Typed, FilesInv, TakeRecord
  PROVE  /\ logged' = logged /\ Len(Leftover) + logged' \in Nat
         /\ Head(queue).dest \in Dests /\ Head(queue).rec \in Record
         /\ Head(queue).rec.n <= Len(Leftover) + logged
         /\ \A d \in Dests : Latest(file)[d] < Head(queue).rec.n
         /\ \A i \in 1..Len(queue') :
              /\ queue'[i].rec.n \in Nat /\ queue'[i].rec.n <= Len(Leftover) + logged'
              /\ Head(queue).rec.n < queue'[i].rec.n
              /\ \A j \in 1..Len(queue') : i < j => queue'[i].rec.n < queue'[j].rec.n
              /\ \A d \in Dests : Latest(file)[d] < queue'[i].rec.n
<1>1. queue # <<>> /\ queue' = Tail(queue) /\ logged' = logged /\ queue \in Seq(Entry)
  BY DEF TakeRecord, NextIsRecord, Typed
<1>2. /\ Head(queue) = queue[1] /\ Len(queue') = Len(queue) - 1 /\ Len(queue) \in Nat \ {0}
      /\ \A i \in 1..Len(queue') : queue'[i] = queue[i + 1]
  <2>1. Len(queue) \in Nat \ {0}
    BY <1>1, EmptySeq, LenProperties
  <2>2. Head(queue) = queue[1]
    BY <1>1
  <2>3. Len(queue') = Len(queue) - 1 /\ \A i \in 1..Len(queue') : queue'[i] = queue[i + 1]
    BY <1>1, HeadTailProperties
  <2> QED
    BY <2>1, <2>2, <2>3
<1>3. /\ 1 \in 1..Len(queue)
      /\ \A i \in 1..Len(queue') : i + 1 \in 1..Len(queue) /\ 1 < i + 1
      /\ \A i, j \in 1..Len(queue') : i < j => i + 1 < j + 1
  BY <1>2
<1>4. queue[1] \in Entry
  BY <1>1, <1>3, ElementOfSeq
<1>5. Head(queue).dest \in Dests /\ Head(queue).rec \in Record
  BY <1>2, <1>4 DEF Entry
<1>6. /\ Head(queue).rec.n <= Len(Leftover) + logged
      /\ \A d \in Dests : Latest(file)[d] < Head(queue).rec.n
  BY <1>2, <1>3 DEF FilesInv, Numbered
<1>7. ASSUME NEW i \in 1..Len(queue')
      PROVE  /\ queue'[i].rec.n \in Nat /\ queue'[i].rec.n <= Len(Leftover) + logged'
             /\ Head(queue).rec.n < queue'[i].rec.n
             /\ \A j \in 1..Len(queue') : i < j => queue'[i].rec.n < queue'[j].rec.n
             /\ \A d \in Dests : Latest(file)[d] < queue'[i].rec.n
  <2>1. PICK k \in 1..Len(queue) : k = i + 1 /\ 1 < k /\ queue'[i] = queue[k]
    BY <1>2, <1>3
  <2>2. queue[k].rec.n <= Len(Leftover) + logged /\ \A d \in Dests : Latest(file)[d] < queue[k].rec.n
    BY DEF FilesInv, Numbered
  <2>3. queue[1].rec.n < queue[k].rec.n
    BY <1>3, <2>1 DEF FilesInv, Numbered
  <2>4. ASSUME NEW j \in 1..Len(queue'), i < j PROVE queue[k].rec.n < queue'[j].rec.n
    <3>1. j + 1 \in 1..Len(queue) /\ k < j + 1 /\ queue'[j] = queue[j + 1]
      BY <1>2, <1>3, <2>1, <2>4
    <3> QED
      BY <3>1 DEF FilesInv, Numbered
  <2> QED
    BY <1>1, <1>2, <2>1, <2>2, <2>3, <2>4, NumbersTyped
<1> QED
  BY <1>1, <1>5, <1>6, <1>7, NumbersTyped

LEMMA WriterFiled ==
  ASSUME Typed, FilesInv, StartWriter \/ WriteRecord \/ WriteUnlinked \/ WriteFails
  PROVE  FilesInv' /\ NewestKept
<1>0. /\ Filed(file, order) /\ Logs(file) /\ errors \in Nat /\ written \in Nat
      /\ \A d \in Dests : Latest(file)[d] \in Nat /\ Latest(file)[d] <= Len(Leftover) + logged
  BY LatestTyped DEF FilesInv, Filed, Numbered, Typed
<1>1. CASE StartWriter
  <2>1. Sweep(file, order, old, open) /\ UNCHANGED <<queue, logged>>
    BY <1>1 DEF StartWriter, queueVars
  <2>2. \A e \in Dests : /\ Latest(file)[e] <= Latest(file)[e]
                         /\ Latest(file)[e] <= Len(Leftover) + logged'
    BY <1>0, <2>1
  <2>3. \A i \in 1..Len(queue') :
           /\ queue'[i].rec.n \in Nat /\ queue'[i].rec.n <= Len(Leftover) + logged'
           /\ \A j \in 1..Len(queue') : i < j => queue'[i].rec.n < queue'[j].rec.n
           /\ \A d \in Dests : Latest(file)[d] < queue'[i].rec.n
    BY <2>1, NumbersTyped DEF FilesInv, Numbered
  <2> QED
    BY <1>0, <2>1, <2>2, <2>3, NumbersTyped, SweepFiled
<1>2. CASE WriteUnlinked
  <2>1. Sweep(file, order, old, open) /\ TakeRecord
    BY <1>2 DEF WriteUnlinked
  <2>2. logged' = logged /\ Len(Leftover) + logged' \in Nat
        /\ \A i \in 1..Len(queue') :
           /\ queue'[i].rec.n \in Nat /\ queue'[i].rec.n <= Len(Leftover) + logged'
           /\ \A j \in 1..Len(queue') : i < j => queue'[i].rec.n < queue'[j].rec.n
           /\ \A d \in Dests : Latest(file)[d] < queue'[i].rec.n
    BY <2>1, TookFirst
  <2>3. \A e \in Dests : /\ Latest(file)[e] <= Latest(file)[e]
                         /\ Latest(file)[e] <= Len(Leftover) + logged'
    BY <1>0, <2>2
  <2> QED
    BY <1>0, <2>1, <2>2, <2>3, SweepFiled
<1>3. CASE WriteRecord
  <2>1. PICK d \in Dests, r \in Record : d = Head(queue).dest /\ r = Head(queue).rec
    BY <1>3, TookFirst DEF WriteRecord
  <2>0. PICK g, ord, expired, handles :
          /\ g = [file EXCEPT ![d] = Append(@, r)]
          /\ ord = Append(Those(order, Dests \ {d}), d)
          /\ expired = old \ {d} /\ handles = open \union {d}
    OBVIOUS
  <2>2. TakeRecord /\ Sweep(g, ord, expired, handles)
    BY <1>3, <2>0, <2>1 DEF WriteRecord
  <2>3. /\ logged' = logged /\ Len(Leftover) + logged' \in Nat /\ r.n <= Len(Leftover) + logged
        /\ \A e \in Dests : Latest(file)[e] < r.n
        /\ \A i \in 1..Len(queue') :
              /\ queue'[i].rec.n \in Nat /\ queue'[i].rec.n <= Len(Leftover) + logged'
              /\ r.n < queue'[i].rec.n
              /\ \A j \in 1..Len(queue') : i < j => queue'[i].rec.n < queue'[j].rec.n
              /\ \A e \in Dests : Latest(file)[e] < queue'[i].rec.n
    BY <2>1, <2>2, TookFirst
  <2>4. /\ Filed(g, ord) /\ Latest(g)[d] = r.n
        /\ \A e \in Dests \ {d} : g[e] = file[e] /\ Latest(g)[e] = Latest(file)[e]
    <3>1. \A e \in Dests : Latest(file)[e] < r.n
      BY <2>3
    <3>2. Gains(file, d, r, g)
      BY <2>0 DEF Gains
    <3>3. /\ Filed(g, Append(Those(order, Dests \ {d}), d)) /\ Latest(g)[d] = r.n
          /\ \A e \in Dests \ {d} : g[e] = file[e] /\ Latest(g)[e] = Latest(file)[e]
      BY <1>0, <3>1, <3>2, WrittenLast
    <3> QED
      BY <2>0, <3>3
  <2>5. r.n \in Nat /\ g[d] # <<>>
    <3>1. file[d] \in Seq(Record) /\ g[d] = Append(file[d], r)
      BY <1>0, <2>0 DEF Logs
    <3> QED
      BY <3>1, AppendProperties DEF Record
  <2>6. \A e \in Dests : /\ file[e] # <<>> => g[e] # <<>>
                         /\ Latest(file)[e] <= Latest(g)[e]
                         /\ Latest(g)[e] <= Len(Leftover) + logged'
                         /\ e \in expired => e \in old
    <3> SUFFICES ASSUME NEW e \in Dests
                 PROVE  /\ file[e] # <<>> => g[e] # <<>>
                        /\ Latest(file)[e] <= Latest(g)[e]
                        /\ Latest(g)[e] <= Len(Leftover) + logged'
      BY <2>0
    <3>1. CASE e = d
      BY <1>0, <2>3, <2>4, <2>5, <3>1
    <3>2. CASE e # d
      BY <1>0, <2>3, <2>4, <3>2
    <3> QED
      BY <3>1, <3>2
  <2>7. \A i \in 1..Len(queue') :
           /\ queue'[i].rec.n \in Nat /\ queue'[i].rec.n <= Len(Leftover) + logged'
           /\ \A j \in 1..Len(queue') : i < j => queue'[i].rec.n < queue'[j].rec.n
           /\ \A e \in Dests : Latest(g)[e] < queue'[i].rec.n
    BY <2>3, <2>4
  <2> QED
    BY <1>0, <2>2, <2>3, <2>4, <2>6, <2>7, SweepFiled
<1>4. CASE WriteFails
  <2>1. TakeRecord /\ UNCHANGED <<file, order, written, writer>>
    BY <1>4 DEF WriteFails, TakeRecord
  <2>2. logged' = logged /\ Len(Leftover) + logged' \in Nat
        /\ \A i \in 1..Len(queue') :
           /\ queue'[i].rec.n \in Nat /\ queue'[i].rec.n <= Len(Leftover) + logged'
           /\ \A j \in 1..Len(queue') : i < j => queue'[i].rec.n < queue'[j].rec.n
           /\ \A d \in Dests : Latest(file)[d] < queue'[i].rec.n
    BY <2>1, TookFirst
  <2>3. FilesInv'
    BY <1>0, <2>1, <2>2 DEF FilesInv, Numbered
  <2>4. ~Swept
    BY <1>0, <2>1 DEF Swept
  <2> QED
    BY <2>3, <2>4 DEF NewestKept, Evicted
<1> QED
  BY <1>1, <1>2, <1>3, <1>4

-----------------------------------------------------------------------------
(* What the steps of all parties do to the queue and the files.            *)
LEMMA StepKinds ==
  ASSUME Typed, Next
  PROVE  \/ /\ \E d \in Dests, r \in Record : Offer(d, r) /\ r.n = Len(Leftover) + logged + 1
            /\ UNCHANGED <<written, writer>>
         \/ UNCHANGED <<queue, logged, file, order, written, writer>>
         \/ \E s \in Sids : DirectoryRemoved(s)
         \/ StartWriter \/ WriteRecord \/ WriteUnlinked \/ WriteFails
<1> DEFINE Logging == /\ \E d \in Dests, r \in Record : Offer(d, r) /\ r.n = Len(Leftover) + logged + 1
                      /\ UNCHANGED <<written, writer>>
           Elsewhere == UNCHANGED <<queue, logged, file, order, written, writer>>
<1>1. ASSUME NEW sid \in Sids \union {NoSid}, NEW kind \in Kinds,
             Log(Conn, kind, sid) \/ Offer(Conn, LogRecord(kind, sid))
      PROVE  Logging
  <2>1. PICK d \in Dests, r \in Record : Offer(d, r) /\ r.n = Len(Leftover) + logged + 1
    <3>1. /\ Route(Conn, sid) \in Dests /\ Conn \in Dests
          /\ LogRecord(kind, Stamped(Conn, sid)) \in Record /\ LogRecord(kind, sid) \in Record
      BY <1>1, RouteTyped, ServeAssumption DEF Dests
    <3>2. /\ LogRecord(kind, Stamped(Conn, sid)).n = Len(Leftover) + logged + 1
          /\ LogRecord(kind, sid).n = Len(Leftover) + logged + 1
      BY DEF LogRecord
    <3> QED
      BY <1>1, <3>1, <3>2 DEF Log
  <2> QED
    BY <2>1 DEF Offer, writerVars
<1>2. "frame" \in Kinds /\ "session-bound" \in Kinds /\ "trace-event" \in Kinds /\ NoSid \in Sids \union {NoSid}
  BY DEF Kinds
<1>3. ASSUME UNCHANGED sinkVars PROVE Elsewhere
  BY <1>3 DEF sinkVars, queueVars, writerVars
<1> HIDE DEF Logging, Elsewhere
<1>4. CASE ReadFrame
  BY <1>1, <1>2, <1>4 DEF ReadFrame, Logging
<1>5. CASE Transport
  <2>1. CASE MarkSession
    <3>1. Head(out).established \in Sids \union {NoSid}
      BY <2>1, FirstFrame DEF MarkSession
    <3> QED
      BY <1>1, <1>2, <2>1, <3>1 DEF MarkSession, MarkBinding, Logging
  <2>2. CASE BindSession
    BY <2>2 DEF BindSession, SetBinding, writerVars, Elsewhere
  <2>3. CASE LogFrame
    BY <1>1, <1>2, <2>3 DEF LogFrame, Logging
  <2>4. CASE WriteFrame \/ WriteFrameFails
    BY <1>3, <2>4 DEF WriteFrame, WriteFrameFails, Elsewhere
  <2> QED
    BY <1>5, <2>1, <2>2, <2>3, <2>4 DEF Transport, Logging, Elsewhere
<1>6. CASE Agent
  <2>1. ASSUME NEW s \in Sids, AnswerSessionNew(s) PROVE Elsewhere
    BY <1>3, <2>1 DEF AnswerSessionNew
  <2>2. ASSUME NEW s \in Sids, DeleteSession(s) PROVE DirectoryRemoved(s)
    BY <2>2 DEF DeleteSession
  <2>3. ASSUME SendFrame \/ RunCommand \/ CommandEnds PROVE Elsewhere
    BY <1>3, <2>3 DEF SendFrame, RunCommand, CommandEnds
  <2>4. ASSUME NEW s \in sessions \union {NoSid}, Trace(s) PROVE Logging
    <3>1. s \in Sids \union {NoSid}
      BY DEF Typed
    <3>2. Log(Conn, "trace-event", s) \/ Offer(Conn, LogRecord("trace-event", NoSid))
      BY <2>4 DEF Trace, LogFallback
    <3> QED
      BY <1>1, <1>2, <3>1, <3>2
  <2> QED
    BY <1>6, <2>1, <2>2, <2>3, <2>4 DEF Agent, Logging, Elsewhere
<1>7. CASE Shutdown
  BY <1>3, <1>7 DEF Shutdown, Stop, LeaveSelect, Flush, AskFlush, Exit, writerVars, Elsewhere
<1>8. CASE Sink
  BY <1>8 DEF Sink, WriterStep, AnswerFlush, Pause, queueVars, writerVars, Elsewhere
<1> QED
  BY <1>4, <1>5, <1>6, <1>7, <1>8 DEF Next, Logging, Elsewhere

LEMMA FilesKept ==
  ASSUME Inv, FilesInv, [Next]_vars
  PROVE  FilesInv' /\ NewestKept
<1>0. Typed /\ written \in Nat
  BY DEF Inv, Typed
<1>1. ASSUME UNCHANGED <<written, writer>> PROVE NewestKept
  BY <1>0, <1>1 DEF NewestKept, Evicted, Swept
<1>2. ASSUME UNCHANGED <<queue, logged, file, order, written, writer>> PROVE FilesInv' /\ NewestKept
  BY <1>1, <1>2 DEF FilesInv, Numbered
<1>3. CASE UNCHANGED vars
  BY <1>2, <1>3 DEF vars, sinkVars, queueVars, writerVars
<1>4. CASE Next
  <2>1. ASSUME NEW s \in Sids, DirectoryRemoved(s) PROVE FilesInv' /\ NewestKept
    <3>1. UNCHANGED <<written, writer>>
      BY <2>1 DEF DirectoryRemoved
    <3> QED
      BY <1>0, <1>1, <2>1, <3>1, RemovedFiled
  <2>2. ASSUME NEW d \in Dests, NEW r \in Record, Offer(d, r), r.n = Len(Leftover) + logged + 1,
               UNCHANGED <<written, writer>>
        PROVE  FilesInv' /\ NewestKept
    BY <1>0, <1>1, <2>2, OfferFiled
  <2>3. CASE StartWriter \/ WriteRecord \/ WriteUnlinked \/ WriteFails
    BY <1>0, <2>3, WriterFiled
  <2> QED
    BY <1>0, <1>2, <1>4, <2>1, <2>2, <2>3, StepKinds
<1> QED
  BY <1>3, <1>4

(* A sweep removes for size what was written least recently, and leaves no *)
(* more than fits when nothing fails.                                      *)
THEOREM NewestStay == Spec => NewestLogsKept
<1>1. Inv /\ FilesInv /\ [Next]_vars => FilesInv' /\ NewestKept
  BY FilesKept
<1>2. NewestKept => [/\ \A d, e \in Dests :
                          Evicted(e) /\ file'[d] # <<>> => Last(file'[d]).n > Last(file[e]).n
                     /\ Swept /\ errors' = errors => SizeOf(file', order') <= MaxBytes]_sinkVars
  BY DEF NewestKept
<1> QED
  BY <1>1, <1>2, InitFiles, Invariant, PTL DEF Spec, NewestLogsKept
=============================================================================
