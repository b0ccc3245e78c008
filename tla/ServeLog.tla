------------------------------ MODULE ServeLog ------------------------------
(***************************************************************************)
(* `acp-llm-adapter serve` with ACP_LOG set: one connection over stdio     *)
(* whose frames and trace events go to the transcript sink, sessions that  *)
(* are made and deleted meanwhile (their directories hold the logs), and   *)
(* the end of the process: end of input or a signal, flush, exit.          *)
(***************************************************************************)
EXTENDS LogSink

CONSTANTS
  Conn,       \* the connection
  MaxEvents   \* bound: frames read or sent, deletes, commands, trace events

ASSUME ServeAssumption ==
  Conn \in Conns /\ MaxEvents \in Nat

VARIABLES
  phase,      \* "serving", "flushing" once the select was left, "exited"
  stop,       \* input ended or a signal came
  asked,      \* session/new requests not answered yet
  sessions, deleted,
  out,        \* frames on their way to the client
  outPc,      \* where the transport is with the first: "next", "marked",
              \* "bound" or "logged"
  command,    \* a local command runs on the blocking pool
  events

outVars == <<out, outPc>>
agentVars == <<asked, sessions, deleted, command>>
serveVars == <<phase, stop, outVars, agentVars, events>>
vars == <<sinkVars, serveVars>>

\* A frame to the client, and the session it says was made, if any.
Frame(s) == [established |-> s]
PlainFrame == Frame(NoSid)

Init ==
  /\ SinkInit
  /\ phase = "serving" /\ stop = FALSE
  /\ asked = 0 /\ sessions = {} /\ deleted = {} /\ command = FALSE
  /\ out = <<>> /\ outPc = "next"
  /\ events = 0

Alive == sessions \ deleted
\* The client learns an id from the answer to session/new.
Known == {s \in Alive : Frame(s) \notin ToSet(out)}

-----------------------------------------------------------------------------
(***************************************************************************)
(* The transport.  A wire frame is logged without a session id.            *)
(***************************************************************************)
ReadFrame ==
  /\ phase = "serving" /\ ~stop /\ events < MaxEvents
  /\ events' = events + 1
  /\ Log(Conn, "frame", NoSid)
  /\ asked' \in {asked, asked + 1}
  /\ UNCHANGED <<phase, stop, outVars, sessions, deleted, command>>

(* bind_session_from_frame: result.sessionId is there in the answer to     *)
(* session/new and in no other.                                            *)
MarkSession ==
  /\ phase = "serving" /\ outPc = "next" /\ out # <<>> /\ Head(out) # PlainFrame
  /\ MarkBinding(Conn, Head(out).established)
  /\ outPc' = "marked"
  /\ UNCHANGED <<phase, stop, out, agentVars, events>>

BindSession ==
  /\ phase = "serving" /\ outPc = "marked"
  /\ SetBinding(Conn, Head(out).established)
  /\ outPc' = "bound"
  /\ UNCHANGED <<phase, stop, out, agentVars, events>>

LogFrame ==
  /\ phase = "serving" /\ out # <<>>
  /\ outPc = "bound" \/ (outPc = "next" /\ Head(out) = PlainFrame)
  /\ Log(Conn, "frame", NoSid)
  /\ outPc' = "logged"
  /\ UNCHANGED <<phase, stop, out, agentVars, events>>

WriteFrame ==
  /\ phase = "serving" /\ outPc = "logged"
  /\ out' = Tail(out) /\ outPc' = "next"
  /\ UNCHANGED <<phase, stop, agentVars, events, sinkVars>>

(* stdout is gone: the serve loop returns. *)
WriteFrameFails ==
  /\ phase = "serving" /\ outPc = "logged"
  /\ phase' = "flushing"
  /\ UNCHANGED <<stop, outVars, agentVars, events, sinkVars>>

-----------------------------------------------------------------------------
(***************************************************************************)
(* The agent.                                                              *)
(***************************************************************************)
AnswerSessionNew(s) ==
  /\ phase = "serving" /\ asked > 0 /\ s \notin sessions \union ToSet(Leftover)
  /\ asked' = asked - 1 /\ sessions' = sessions \union {s}
  /\ out' = Append(out, Frame(s))
  /\ UNCHANGED <<phase, stop, outPc, deleted, command, events, sinkVars>>

(* Any other answer, a notification or a request to the client. *)
SendFrame ==
  /\ phase = "serving" /\ events < MaxEvents
  /\ events' = events + 1
  /\ out' = Append(out, PlainFrame)
  /\ UNCHANGED <<phase, stop, outPc, agentVars, sinkVars>>

(* The directory goes first, then the answer is sent. *)
DeleteSession(s) ==
  /\ phase = "serving" /\ s \in Known /\ events < MaxEvents
  /\ events' = events + 1
  /\ deleted' = deleted \union {s}
  /\ DirectoryRemoved(s)
  /\ out' = Append(out, PlainFrame)
  /\ UNCHANGED <<phase, stop, outPc, asked, sessions, command>>

RunCommand ==
  /\ phase = "serving" /\ Alive # {} /\ ~command /\ events < MaxEvents
  /\ command' = TRUE /\ events' = events + 1
  /\ UNCHANGED <<phase, stop, outVars, asked, sessions, deleted, sinkVars>>

CommandEnds ==
  /\ command /\ command' = FALSE
  /\ UNCHANGED <<phase, stop, outVars, asked, sessions, deleted, events, sinkVars>>

(* SessionLogLayer::route: by the span's session, or to the connection.    *)
(* Tasks of the runtime (the stream task) trace until the process exits.   *)
Trace(s) ==
  /\ phase # "exited" /\ events < MaxEvents
  /\ events' = events + 1
  /\ IF s = NoSid THEN LogFallback(Conn, "trace-event") ELSE Log(Conn, "trace-event", s)
  /\ UNCHANGED <<phase, stop, outVars, agentVars>>

-----------------------------------------------------------------------------
(***************************************************************************)
(* The end of the process.                                                 *)
(***************************************************************************)
(* End of input (the EofGuard is dropped with the stream) or a signal. *)
Stop ==
  /\ phase = "serving" /\ ~stop /\ stop' = TRUE
  /\ UNCHANGED <<phase, outVars, agentVars, events, sinkVars>>

(* A bug: pending frames go out first, to a client that need not read. *)
DrainsFirst == stop /\ out = <<>>

SelectEnds == stop

(* The select ends, and with it the serve loop, wherever it is. *)
LeaveSelect ==
  /\ phase = "serving" /\ SelectEnds /\ phase' = "flushing"
  /\ UNCHANGED <<stop, outVars, agentVars, events, sinkVars>>

Flush ==
  /\ phase = "flushing" /\ flush = "idle" /\ AskFlush
  /\ UNCHANGED serveVars

(* A bug: main returns without waiting for the sink. *)
Unflushed == TRUE

Flushed == flush = "acked"

(* The runtime is dropped when main returns: it waits for the blocking     *)
(* pool, that is for a local command.                                      *)
Exit ==
  /\ phase = "flushing" /\ Flushed /\ ~command
  /\ phase' = "exited"
  /\ UNCHANGED <<stop, outVars, agentVars, events, sinkVars>>

Transport == MarkSession \/ BindSession \/ LogFrame \/ WriteFrame \/ WriteFrameFails
Agent ==
  \/ \E s \in Sids : AnswerSessionNew(s) \/ DeleteSession(s)
  \/ SendFrame \/ RunCommand \/ CommandEnds
  \/ \E s \in sessions \union {NoSid} : Trace(s)
Shutdown == Stop \/ LeaveSelect \/ Flush \/ Exit
Sink == phase # "exited" /\ (WriterStep \/ Pause) /\ UNCHANGED serveVars

Next ==
  \/ ReadFrame \/ Transport \/ Agent \/ Shutdown \/ Sink

Spec == Init /\ [][Next]_vars

(***************************************************************************)
(* Fairness: the writer thread runs, the main task is polled, and local    *)
(* commands end (nothing in the code bounds them).                         *)
(***************************************************************************)
FairSpec ==
  /\ Spec
  /\ WF_vars(phase # "exited" /\ WriterStep /\ UNCHANGED serveVars)
  /\ WF_vars(LeaveSelect \/ Flush \/ Exit) /\ WF_vars(CommandEnds)

-----------------------------------------------------------------------------
(***************************************************************************)
(* Properties.                                                             *)
(***************************************************************************)
(* Records vanish unnoticed only into the log of a session whose directory *)
(* was deleted under the writer's open file, never because of a sweep.     *)
VanishOnlyDeleted == unlinked \subseteq deleted /\ (vanished > 0 => deleted # {})

(* serve() flushes before it returns: no frame of the conversation is left *)
(* in the queue when the process exits, at most late trace events are.     *)
NoFrameLeftBehind ==
  phase = "exited" => \A i \in DOMAIN queue : queue[i].rec.kind = "trace-event"

(* Once input ends or a signal comes, the process exits.                   *)
StopEnds == stop ~> (phase = "exited")
=============================================================================
