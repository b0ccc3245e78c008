------------------------------ MODULE LogSink ------------------------------
(***************************************************************************)
(* The transcript sink of both binaries: handles that route records, the   *)
(* bounded queue they are offered to, and the writer thread that appends   *)
(* them to one file per connection or session and then sweeps old files.   *)
(* The operators Log, LogFallback and Bind are steps of whoever logs; the  *)
(* modules that extend this one say who does.                              *)
(***************************************************************************)
EXTENDS ConnectionLog

CONSTANTS
  Capacity,   \* places in the queue
  MaxBytes,   \* RetentionPolicy.max_bytes; a record is one byte long here
  Leftover,   \* log files of earlier processes, oldest first
  MaxFaults,  \* bound: I/O errors of the writer
  MaxPauses   \* bound: pauses longer than RetentionPolicy.max_age

ASSUME SinkAssumption ==
  /\ Capacity \in Nat \ {0}   \* a rendezvous queue is not modelled
  /\ MaxBytes \in Nat /\ MaxFaults \in Nat /\ MaxPauses \in Nat
  /\ Leftover \in Seq(Sids) /\ IsInjective(Leftover)

VARIABLES
  queue,      \* records on their way, with their destination
  flush,      \* a Flush command: "idle", "waiting" in the queue, "acked"
  ahead,      \* records in front of it
  dropped, errors,    \* the counters
  writer,     \* "start" before the first sweep, then "run"
  file,       \* what the log files hold
  order,      \* the log files there are, least recently written first
  old,        \* those not written for longer than max_age
  open,       \* destinations with a handle in LogWriter.files
  unlinked,   \* those whose handle outlived its file
  \* bookkeeping
  logged, written, failed, vanished, mark, faults, pauses

queueVars == <<queue, flush, ahead, bound, dropped>>
writerVars == <<errors, writer, file, order, old, open, unlinked, written,
                failed, vanished, faults>>
sinkVars == <<queueVars, writerVars, logged, mark, pauses>>

Kinds == {"frame", "session-bound", "trace-event", "old"}
Record == [n : Nat, kind : Kinds, sid : AnySid]

(* Records are numbered in the order they were logged. *)
OldRecord(d) ==
  [n |-> CHOOSE i \in DOMAIN Leftover : Leftover[i] = d, kind |-> "old", sid |-> NoSid]

SinkInit ==
  /\ queue = <<>> /\ flush = "idle" /\ ahead = 0 /\ mark = 0
  /\ bound = [c \in Conns |-> NoSid]
  /\ dropped = 0 /\ errors = 0
  /\ writer = "start"
  /\ file = [d \in Dests |-> IF d \in ToSet(Leftover) THEN <<OldRecord(d)>> ELSE <<>>]
  /\ order = Leftover /\ old = {}
  /\ open = {} /\ unlinked = {}
  /\ logged = 0 /\ written = 0 /\ failed = 0 /\ vanished = 0
  /\ faults = 0 /\ pauses = 0

-----------------------------------------------------------------------------
(***************************************************************************)
(* Logging.                                                                *)
(***************************************************************************)
HasRoom == Len(queue) + (IF flush = "waiting" THEN 1 ELSE 0) < Capacity

(* A bug: what does not fit is forgotten. *)
EnqueueSilently(d, r) ==
  /\ queue' = IF HasRoom THEN Append(queue, [dest |-> d, rec |-> r]) ELSE queue
  /\ UNCHANGED dropped

(* try_send: a record that finds no room is dropped and counted. *)
Enqueue(d, r) ==
  IF HasRoom THEN queue' = Append(queue, [dest |-> d, rec |-> r]) /\ UNCHANGED dropped
             ELSE dropped' = dropped + 1 /\ UNCHANGED queue

Offer(d, r) ==
  /\ logged' = logged + 1
  /\ Enqueue(d, r)
  /\ UNCHANGED <<flush, ahead, mark, writerVars, pauses>>

LogRecord(kind, sid) == [n |-> Len(Leftover) + logged + 1, kind |-> kind, sid |-> sid]

Log(c, kind, sid) ==
  /\ Offer(Route(c, sid), LogRecord(kind, Stamped(c, sid)))
  /\ UNCHANGED bound

LogFallback(c, kind) ==
  Offer(c, LogRecord(kind, NoSid)) /\ UNCHANGED bound

(* bind_session, in its two steps: the mapping is put into the connection  *)
(* file, then the binding takes effect (if the mapping got in or not).     *)
MarkBinding(c, s) == Offer(c, LogRecord("session-bound", s)) /\ UNCHANGED bound

SetBinding(c, s) ==
  /\ Bind(c, s)
  /\ UNCHANGED <<queue, flush, ahead, dropped, writerVars, logged, mark, pauses>>

(* flush(): the command waits for room, the caller for the acknowledgement. *)
AskFlush ==
  /\ flush # "waiting" /\ HasRoom
  /\ flush' = "waiting" /\ ahead' = Len(queue)
  /\ mark' = written + failed + Len(queue)
  /\ UNCHANGED <<queue, bound, dropped, writerVars, logged, pauses>>

-----------------------------------------------------------------------------
(***************************************************************************)
(* The writer.                                                             *)
(***************************************************************************)
(* A bug: a removed file's handle stays in the map. *)
KeepsHandles(gone) == {}

(* remove_log_file drops the handle before it removes the file. *)
HandlesDropped(gone) == gone

SizeOf(f, dests) == FoldLeft(LAMBDA sum, d : sum + Len(f[d]), 0, dests)

(* Those of some files that are in a set, in the same order. *)
Those(ord, dests) ==
  FoldLeft(LAMBDA those, d : IF d \in dests THEN Append(those, d) ELSE those, <<>>, ord)

(* A bug: newest first. *)
EvictNewest(f, ord, expired) ==
  LET aged == Those(ord, expired)
      rest == Reverse(Those(ord, Dests \ expired))
      enough == {k \in 0..Len(rest) : SizeOf(f, SubSeq(rest, k + 1, Len(rest))) <= MaxBytes}
  IN aged \o SubSeq(rest, 1, Min(enough))

(* The files a sweep removes, in turn: the expired, then the least recently *)
(* written until the rest fits.                                            *)
Victims(f, ord, expired) ==
  LET aged == Those(ord, expired)
      rest == Those(ord, Dests \ expired)
      enough == {k \in 0..Len(rest) : SizeOf(f, SubSeq(rest, k + 1, Len(rest))) <= MaxBytes}
  IN aged \o SubSeq(rest, 1, Min(enough))

(* prune(): an I/O error stops it and is counted. *)
Sweep(f, ord, expired, handles) ==
  \E victims \in {Victims(f, ord, expired)}, fails \in {FALSE, faults < MaxFaults} :
  \E gone \in {ToSet(SubSeq(victims, 1, k)) :
                 k \in IF fails THEN 0..Len(victims) ELSE {Len(victims)}} :
    /\ file' = [d \in Dests |-> IF d \in gone THEN <<>> ELSE f[d]]
    /\ order' = Those(ord, Dests \ gone)
    /\ old' = expired \ gone
    /\ open' = handles \ HandlesDropped(gone)
    /\ unlinked' = (unlinked \union gone) \intersect open'
    /\ errors' = errors + (IF fails THEN 1 ELSE 0)
    /\ faults' = faults + (IF fails THEN 1 ELSE 0)

StartWriter ==
  /\ writer = "start" /\ writer' = "run"
  /\ Sweep(file, order, old, open)
  /\ UNCHANGED <<queueVars, logged, written, failed, vanished, mark, pauses>>

NextIsRecord == queue # <<>> /\ ~(flush = "waiting" /\ ahead = 0)

TakeRecord ==
  /\ writer = "run" /\ NextIsRecord
  /\ queue' = Tail(queue)
  /\ ahead' = IF flush = "waiting" THEN ahead - 1 ELSE ahead
  /\ UNCHANGED <<flush, bound, dropped, writer, logged, mark, pauses>>

(* The record is appended, creating its file, and the files are swept.     *)
WriteRecord ==
  LET d == Head(queue).dest IN
  /\ TakeRecord
  /\ d \notin unlinked
  /\ Sweep([file EXCEPT ![d] = Append(@, Head(queue).rec)],
           Append(Those(order, Dests \ {d}), d), old \ {d}, open \union {d})
  /\ written' = written + 1
  /\ UNCHANGED <<failed, vanished>>

(* The handle's file was removed by others: the write succeeds all the same. *)
WriteUnlinked ==
  /\ TakeRecord
  /\ Head(queue).dest \in unlinked
  /\ Sweep(file, order, old, open)
  /\ written' = written + 1 /\ vanished' = vanished + 1
  /\ UNCHANGED failed

(* The file cannot be opened or written. *)
WriteFails ==
  /\ TakeRecord
  /\ faults < MaxFaults /\ faults' = faults + 1
  /\ errors' = errors + 1 /\ failed' = failed + 1
  /\ UNCHANGED <<file, order, old, open, unlinked, written, vanished>>

(* A bug: a flush is answered as soon as the writer is there. *)
AnswersAtOnce == writer = "run" /\ flush = "waiting"

Answerable == writer = "run" /\ flush = "waiting" /\ ahead = 0

AnswerFlush ==
  /\ Answerable
  /\ flush' = "acked"
  /\ UNCHANGED <<queue, ahead, bound, dropped, writerVars, logged, mark, pauses>>

WriterStep == StartWriter \/ WriteRecord \/ WriteUnlinked \/ WriteFails \/ AnswerFlush

(***************************************************************************)
(* What happens to the files outside: session/delete removes a session's   *)
(* directory, log included; the least recently written files expire.       *)
(***************************************************************************)
DirectoryRemoved(s) ==
  /\ file' = [file EXCEPT ![s] = <<>>]
  /\ order' = Those(order, Dests \ {s}) /\ old' = old \ {s}
  /\ unlinked' = unlinked \union ({s} \intersect open)
  /\ UNCHANGED <<queueVars, errors, writer, open, written, failed, vanished,
                 faults, logged, mark, pauses>>

Pause ==
  /\ pauses < MaxPauses /\ pauses' = pauses + 1
  /\ \E k \in 1..Len(order) : old' = old \union ToSet(SubSeq(order, 1, k))
  /\ UNCHANGED <<queueVars, errors, writer, file, order, open, unlinked, written,
                 failed, vanished, faults, logged, mark>>

-----------------------------------------------------------------------------
(***************************************************************************)
(* Properties of the sink, whoever uses it.                                *)
(***************************************************************************)
(* Every record that was logged is dropped and counted, on its way,        *)
(* written, or failed; and no failed record goes uncounted ("losing log    *)
(* lines" is the price of not blocking, losing them silently is not).      *)
LossesCounted ==
  /\ logged = dropped + Len(queue) + written + failed
  /\ failed <= errors

(* A flush is answered when every record offered before it was handled.    *)
FlushDrains ==
  /\ flush = "waiting" => mark = written + failed + ahead /\ ahead <= Len(queue)
  /\ flush = "acked" => mark <= written + failed

(* A sweep evicts for size the file written least recently: what it leaves *)
(* was written after everything it evicted, and fits when the sweep went   *)
(* through.                                                                *)
Swept == written' > written \/ writer' # writer
Evicted(d) == Swept /\ d \notin old /\ file[d] # <<>> /\ file'[d] = <<>>
NewestLogsKept ==
  [][/\ \A d, e \in Dests :
          Evicted(e) /\ file'[d] # <<>> => Last(file'[d]).n > Last(file[e]).n
     /\ Swept /\ errors' = errors => SizeOf(file', order') <= MaxBytes]_sinkVars
=============================================================================
