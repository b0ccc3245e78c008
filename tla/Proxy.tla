------------------------------- MODULE Proxy -------------------------------
(***************************************************************************)
(* acp-proxy: an agent runs as a child, three pumps forward the client's   *)
(* input ("up"), the agent's output ("down") and its diagnostics ("err"),  *)
(* each logging a copy line by line; two of them share the sniffer that    *)
(* finds out which session a frame belongs to.  The main task waits for    *)
(* the agent and ends the process with its status.  What the sink does     *)
(* with a record is LogSink's business: log is what it is given.           *)
(***************************************************************************)
EXTENDS Integers, ConnectionLog

CONSTANTS
  Conn,           \* the connection
  Clients,        \* what a client may send, and if it then closes its end
  AgentMsgs,      \* messages the agent may write
  Complaint,      \* a line of diagnostics
  MaxAgent,       \* bound: messages the agent writes
  MaxFailures,    \* bound: pumps that fail
  Statuses,       \* how the agent may end
  MaxPendingLine  \* cap on an unterminated line, in cells

(* A message is a line of one or more cells, the first of which tells it;  *)
(* method, id, params.sessionId and result.sessionId are what is sniffed.  *)
NL == [cell |-> "newline"]
Rest == [cell |-> "rest"]
NoId == "none"
Messages == AgentMsgs \union {Complaint} \union UNION {ToSet(c.sends) : c \in Clients}

ASSUME ProxyAssumption ==
  /\ Conn \in Conns /\ MaxAgent \in Nat /\ MaxFailures \in Nat /\ MaxPendingLine \in Nat
  /\ Messages \intersect {NL, Rest} = {}
  /\ \A m \in Messages : m.session \in AnySid /\ m.result \in AnySid /\ m.cells \in Nat \ {0}
  /\ \A c \in Clients : c.sends \in Seq(ToSet(c.sends)) /\ c.closes \in BOOLEAN
  /\ \A s \in Statuses : s.code \in Int /\ s.signal \in Nat

Pumps == {"up", "down", "err"}
None == [signal |-> 0, code |-> -1]   \* no status yet

VARIABLES
  agent, held,               \* both ends, external
  sent, ended,        \* what was written to each pump's reader; and the end of it
  forwarded,          \* how much of it each pump has passed on and split
  spilled,            \* how much of a further chunk, when it broke off
  pc,                 \* "read", "log", "mark", "set", "enqueue", or how
                      \* the pump ended: "closed", "failed", "aborted"
  pending, lines,     \* LineSplitter.pending; lines not yet logged
  sniffed,            \* what observing the current line revealed
  pendingNew,         \* SessionSniffer.pending_new
  log,                \* records given to the sink, with their destination
  main, abort, status, code,  \* the main task; the agent's status, and ours
  observed            \* bookkeeping: messages in the order they were sniffed, and by whom

endVars == <<agent, held, sent, ended>>
pumpVars == <<forwarded, spilled, pc, pending, lines, sniffed>>
mainVars == <<main, abort, status, code>>
vars == <<endVars, pumpVars, pendingNew, bound, log, mainVars, observed>>

Line(m) == <<m>> \o [i \in 1..(m.cells - 1) |-> Rest] \o <<NL>>
Passed(p) == SubSeq(sent[p], 1, forwarded[p])
Received(p) == SubSeq(sent[p], 1, forwarded[p] + spilled[p])
Input(msgs) == FlattenSeq([i \in DOMAIN msgs |-> Line(msgs[i])])

(* What the client sends, and whether it then closes its end, is there     *)
(* from the start: a pump reads as little of it as it likes.               *)
Init ==
  /\ agent = "running" /\ held = FALSE
  /\ \E c \in Clients :
       /\ sent = [p \in Pumps |-> IF p = "up" THEN Input(c.sends) ELSE <<>>]
       /\ ended = [p \in Pumps |-> p = "up" /\ c.closes]
  /\ forwarded = [p \in Pumps |-> 0] /\ spilled = [p \in Pumps |-> 0]
  /\ pc = [p \in Pumps |-> "read"]
  /\ pending = [p \in Pumps |-> <<>>] /\ lines = [p \in Pumps |-> <<>>]
  /\ sniffed = [p \in Pumps |-> NoSid]
  /\ pendingNew = {} /\ bound = [c \in Conns |-> NoSid] /\ log = <<>>
  /\ main = "wait" /\ abort = FALSE /\ status = None /\ code = -1
  /\ observed = <<>>

-----------------------------------------------------------------------------
(***************************************************************************)
(* The client and the agent.                                               *)
(***************************************************************************)
Written == Cardinality({i \in DOMAIN sent["down"] : sent["down"][i] = NL}) + Len(sent["err"])

(* The answer to a request follows the request; the agent, or a process it *)
(* left behind, writes what it likes.                                      *)
AgentWrites(m) ==
  /\ agent = "running" \/ held
  /\ Written < MaxAgent /\ m \notin ToSet(sent["down"])
  /\ m.method = "answer" => \E r \in ToSet(Received("up")) : r # NL /\ r # Rest /\ r.id = m.id
  /\ sent' = [sent EXCEPT !["down"] = @ \o Line(m)]
  /\ UNCHANGED <<agent, held, ended, pumpVars,
                 pendingNew, bound, log, mainVars, observed>>

(* The last line may stay unterminated. *)
AgentComplains ==
  /\ agent = "running" /\ sent["err"] = <<>> /\ Written < MaxAgent
  /\ sent' = [sent EXCEPT !["err"] = <<Complaint>>]
  /\ UNCHANGED <<agent, held, ended, pumpVars,
                 pendingNew, bound, log, mainVars, observed>>

Outputs(e, b) == [e EXCEPT !["down"] = b, !["err"] = b]

(* By itself, or killed because the proxy got a signal. *)
AgentExits(holds) ==
  /\ agent = "running"
  /\ agent' = "exited" /\ held' = holds
  /\ ended' = Outputs(ended, ~holds)
  /\ UNCHANGED <<sent, pumpVars, pendingNew, bound, log, mainVars, observed>>

(* A process the agent left behind held its pipes open. *)
HolderEnds ==
  /\ held /\ held' = FALSE
  /\ ended' = Outputs(ended, TRUE)
  /\ UNCHANGED <<agent, sent, pumpVars, pendingNew,
                 bound, log, mainVars, observed>>

Environment ==
  \/ \E m \in AgentMsgs : AgentWrites(m)
  \/ AgentComplains \/ HolderEnds
  \/ \E holds \in BOOLEAN : AgentExits(holds)

-----------------------------------------------------------------------------
(***************************************************************************)
(* A pump: read a chunk, forward it, split the copy, log line by line.     *)
(***************************************************************************)
To(p, l) == pc' = [pc EXCEPT ![p] = l]

(* A bug: pending is not cleared when a line is complete. *)
AbsorbKeeping(s, c) ==
  IF c = NL THEN [s EXCEPT !.lines = Append(@, s.pending)]
            ELSE [s EXCEPT !.pending = Append(@, c)]

Absorb(s, c) ==
  IF c = NL THEN [lines |-> Append(s.lines, s.pending), pending |-> <<>>]
            ELSE [s EXCEPT !.pending = Append(@, c)]

(* LineSplitter::push. *)
Capped(s) ==
  IF Len(s.pending) > MaxPendingLine
  THEN [lines |-> Append(s.lines, s.pending), pending |-> <<>>] ELSE s

Split(pend, chunk) ==
  LET s[i \in 0..Len(chunk)] ==
        IF i = 0 THEN [lines |-> <<>>, pending |-> pend] ELSE Absorb(s[i - 1], chunk[i])
  IN Capped(s[Len(chunk)])

(* Where a pump goes with these lines. *)
Logging(p, ls) == To(p, IF ls = <<>> THEN "read" ELSE "log")

Unread(p) == pc[p] = "read" /\ forwarded[p] < Len(sent[p])

(* A chunk of any length is read and passed on; then its copy is split.    *)
Forward(p) ==
  /\ Unread(p) /\ (p = "up" => agent = "running")
  /\ \E n \in (forwarded[p] + 1)..Len(sent[p]) :
       LET s == Split(pending[p], SubSeq(sent[p], forwarded[p] + 1, n)) IN
       /\ forwarded' = [forwarded EXCEPT ![p] = n]
       /\ pending' = [pending EXCEPT ![p] = s.pending]
       /\ lines' = [lines EXCEPT ![p] = s.lines]
       /\ Logging(p, s.lines)
  /\ UNCHANGED <<endVars, spilled, sniffed, pendingNew, bound, log, mainVars, observed>>

(* Broken off where the pump awaits: nothing of the chunk was passed on    *)
(* (none was read), a part of it, or all; it is not split any more.        *)
BreaksOff(p) ==
  /\ pc[p] = "read"
  /\ \E n \in 0..(Len(sent[p]) - forwarded[p]) : spilled' = [spilled EXCEPT ![p] = n]
  /\ UNCHANGED <<endVars, forwarded, pending, lines, sniffed, pendingNew, bound,
                 log, mainVars, observed>>

(* The read, the write or the flush fails, whoever is at the other end.    *)
PumpFails(p) ==
  /\ Cardinality({q \in Pumps : pc[q] = "failed"}) < MaxFailures
  /\ BreaksOff(p) /\ To(p, "failed")

AtEof(p) == pc[p] = "read" /\ ended[p] /\ forwarded[p] = Len(sent[p])

FinishTail(p) ==
  /\ AtEof(p) /\ pending[p] # <<>>
  /\ lines' = [lines EXCEPT ![p] = <<pending[p]>>]
  /\ pending' = [pending EXCEPT ![p] = <<>>]
  /\ To(p, "log")
  /\ UNCHANGED <<endVars, forwarded, spilled, sniffed, pendingNew, bound, log, mainVars, observed>>

(* The far end is shut down. *)
Close(p) ==
  /\ AtEof(p) /\ pending[p] = <<>>
  /\ To(p, "closed")
  /\ UNCHANGED <<endVars, forwarded, spilled, pending, lines, sniffed, pendingNew, bound,
                 log, mainVars, observed>>

(* A line is a frame when it is the whole of one; else it is text. *)
Whole(l) == l # <<>> /\ Head(l) # Rest /\ Len(l) = Head(l).cells

(* A bug: only the latest request is remembered. *)
RemembersLast(m) == {m.id}

Remembers(m) == pendingNew \union {m.id}

(* observe(), under the sniffer's lock: what of the set of pending ids is  *)
(* left, the session the line names, the session it establishes.           *)
ObserveRequest(m) ==
  [left |-> IF m.method = "session/new" /\ m.id # NoId THEN Remembers(m) ELSE pendingNew,
   session |-> m.session,
   established |-> IF m.method = "session/load" THEN m.session ELSE NoSid]

ObserveResponse(m) ==
  IF m.id \in pendingNew
  THEN [left |-> pendingNew \ {m.id}, session |-> m.result, established |-> m.result]
  ELSE [left |-> pendingNew, session |-> m.session, established |-> NoSid]

Nothing == [left |-> pendingNew, session |-> NoSid, established |-> NoSid]

Observation(p, l) ==
  IF p = "err" \/ ~Whole(l) THEN Nothing
  ELSE IF p = "up" THEN ObserveRequest(Head(l)) ELSE ObserveResponse(Head(l))

(* A bug: the mapping is not recorded. *)
BindsUnmarked == "set"

BindingStarts == "mark"

Observe(p) ==
  /\ pc[p] = "log" /\ lines[p] # <<>>
  /\ LET o == Observation(p, Head(lines[p])) IN
     /\ pendingNew' = o.left
     /\ sniffed' = [sniffed EXCEPT ![p] = o.session]
     /\ To(p, IF o.established \in Sids THEN BindingStarts ELSE "enqueue")
  /\ observed' = IF p # "err" /\ Whole(Head(lines[p]))
                 THEN Append(observed, [pump |-> p, msg |-> Head(Head(lines[p]))]) ELSE observed
  /\ UNCHANGED <<endVars, forwarded, spilled, pending, lines, bound, log, mainVars>>

Entry(dest, kind, line, sid) == [dest |-> dest, kind |-> kind, line |-> line, sid |-> sid]

(* bind_session in its two steps; another pump may log in between. *)
Mark(p) ==
  /\ pc[p] = "mark"
  /\ log' = Append(log, Entry(Conn, "session-bound", <<>>, sniffed[p]))
  /\ To(p, "set")
  /\ UNCHANGED <<endVars, forwarded, spilled, pending, lines, sniffed, pendingNew, bound,
                 mainVars, observed>>

Set(p) ==
  /\ pc[p] = "set"
  /\ Bind(Conn, sniffed[p])
  /\ To(p, "enqueue")
  /\ UNCHANGED <<endVars, forwarded, spilled, pending, lines, sniffed, pendingNew, log,
                 mainVars, observed>>

Enqueue(p) ==
  /\ pc[p] = "enqueue"
  /\ log' = Append(log, Entry(Route(Conn, sniffed[p]), p, Head(lines[p]), Stamped(Conn, sniffed[p])))
  /\ lines' = [lines EXCEPT ![p] = Tail(@)]
  /\ Logging(p, Tail(lines[p]))
  /\ UNCHANGED <<endVars, forwarded, spilled, pending, sniffed, pendingNew, bound,
                 mainVars, observed>>

(* abort() takes effect where the task awaits. *)
Aborted == abort /\ BreaksOff("up") /\ To("up", "aborted")

Pump(p) ==
  \/ Forward(p) \/ FinishTail(p) \/ Close(p)
  \/ Observe(p) \/ Mark(p) \/ Set(p) \/ Enqueue(p)

-----------------------------------------------------------------------------
(***************************************************************************)
(* The main task.                                                          *)
(***************************************************************************)
Over(p) == pc[p] \in {"closed", "failed", "aborted"}

(* wait_for_child: a signal kills the agent (see AgentExits). *)
Reap ==
  /\ main = "wait" /\ agent = "exited"
  /\ main' = "drain" /\ status' \in Statuses
  /\ UNCHANGED <<endVars, pumpVars, pendingNew, bound, log, abort, code, observed>>

(* Bugs: nobody waits for the pumps; the client's end is waited for too. *)
Undrained == TRUE
DrainedBothWays == \A p \in Pumps : Over(p)

Drained == Over("down") /\ Over("err")

StopForwarding ==
  /\ main = "drain" /\ Drained
  /\ main' = "report" /\ abort' = TRUE
  /\ UNCHANGED <<endVars, pumpVars, pendingNew, bound, log, status, code, observed>>

(* A bug: what a signal means is left to the reader of the byte. *)
BareStatus(s) == s.code % 256

(* exit_code, then narrow_exit_code in main. *)
ReportedCode(s) ==
  LET c == IF s.signal = 0 THEN s.code ELSE 128 + s.signal IN
  IF c \in 0..255 THEN c ELSE 1

LogExit ==
  /\ main = "report"
  /\ log' = Append(log, Entry(Route(Conn, NoSid), "exit", <<>>, bound[Conn]))
  /\ code' = ReportedCode(status)
  /\ main' = "flush"
  /\ UNCHANGED <<endVars, pumpVars, pendingNew, bound, abort, status, observed>>

(* flush, then process::exit. *)
FlushAndExit ==
  /\ main = "flush" /\ main' = "exited"
  /\ UNCHANGED <<endVars, pumpVars, pendingNew, bound, log, abort, status, code, observed>>

Main == Reap \/ StopForwarding \/ LogExit \/ FlushAndExit

Next ==
  /\ main # "exited"
  /\ \/ Environment \/ Main \/ Aborted
     \/ \E p \in Pumps : Pump(p) \/ PumpFails(p)

Spec == Init /\ [][Next]_vars

(***************************************************************************)
(* Fairness: the tasks run, the client takes what is written to it or      *)
(* closes (Forward is fair), and what the agent left behind ends sometime. *)
(***************************************************************************)
FairSpec ==
  /\ Spec
  /\ WF_vars(main # "exited" /\ Main)
  /\ \A p \in Pumps : WF_vars(main # "exited" /\ Pump(p))
  /\ WF_vars(main # "exited" /\ HolderEnds)

-----------------------------------------------------------------------------
(***************************************************************************)
(* Properties.                                                             *)
(***************************************************************************)
(* "Drain what the agent wrote before exiting": when the proxy reports the *)
(* agent's exit, all the agent wrote, diagnostics included, was passed on  *)
(* and logged, unless reading or passing it on failed.                     *)
NothingCutOff ==
  main \in {"report", "flush", "exited"} =>
    \A p \in {"down", "err"} :
      pc[p] = "failed" \/ (forwarded[p] = Len(sent[p]) /\ pending[p] \o lines[p] = <<>>)

(* However the reads cut the stream, what is passed on gets into the log,  *)
(* in order: while a pump runs all of it is logged or in its hands, when   *)
(* it has closed all of it is logged.  A pump that breaks off takes with   *)
(* it what it had in its hands and what it passed on of one more chunk;    *)
(* but a message that fits was one record as soon as it was passed on      *)
(* whole and its chunk split, and stays one.                               *)
Logged(p) == FlattenSeq([i \in DOMAIN log |-> IF log[i].kind = p THEN <<log[i].line>> ELSE <<>>])
RecordsOf(p) == Logged(p) \o lines[p]
Unbroken(q) == FlattenSeq([i \in DOMAIN q |-> IF q[i] = NL THEN <<>> ELSE <<q[i]>>])
Body(m) == Front(Line(m))
PassedWhole(p, m) == \E i \in DOMAIN Passed(p) : Passed(p)[i] = m /\ i + m.cells <= Len(Passed(p))
BrokenOff(p) == pc[p] \in {"failed", "aborted"}
LinesKept ==
  \A p \in Pumps :
    LET records == RecordsOf(p)  received == Unbroken(Received(p)) IN
    /\ ~BrokenOff(p) => FlattenSeq(records) \o pending[p] = received
    /\ pc[p] = "closed" => FlattenSeq(Logged(p)) = received
    /\ BrokenOff(p) => IsPrefix(FlattenSeq(Logged(p)), received)
    /\ \A m \in Messages :
         m.cells <= MaxPendingLine /\ PassedWhole(p, m)
           => \E i \in DOMAIN records : records[i] = Body(m)

(* "The switch leaves a mapping record behind in the connection file": no  *)
(* record inherits a session before the mapping was given to the sink,     *)
(* whichever pump bound it.                                                *)
MappingFirst ==
  \A i \in DOMAIN log :
    log[i].dest \in Sids =>
      \/ \E j \in 1..(i - 1) : log[j].kind = "session-bound" /\ log[j].sid = log[i].dest
      \/ Whole(log[i].line) /\ Head(log[i].line).session = log[i].dest

(* The answer to a session/new goes to the new session's log, however many *)
(* are under way, if the request was sniffed before it and the agent did   *)
(* not use the same id for a request of its own in between.                *)
Asks(o, id) == o.pump = "up" /\ o.msg.method = "session/new" /\ o.msg.id = id /\ id # NoId
Takes(o, id) == o.pump = "down" /\ o.msg.id = id
Answers(i) ==
  /\ observed[i].pump = "down"
  /\ \E h \in 1..(i - 1) :
       /\ Asks(observed[h], observed[i].msg.id)
       /\ \A j \in (h + 1)..(i - 1) : ~Takes(observed[j], observed[i].msg.id)
NewSessionsFound ==
  \A i \in DOMAIN observed, k \in DOMAIN log :
    LET m == observed[i].msg IN
    Answers(i) /\ m.result \in Sids /\ log[k].kind = "down" /\ log[k].line = Body(m)
      => log[k].dest = m.result

(* The agent's status reaches the client: no crash reads as success.       *)
CrashShows ==
  main \in {"flush", "exited"} =>
    code = 0 <=> status.signal = 0 /\ status.code = 0

(* Once the agent is gone, so is the proxy, even while the client holds    *)
(* its end open.                                                           *)
AgentExitEnds == (agent = "exited") ~> (main = "exited")
=============================================================================
