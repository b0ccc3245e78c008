------------------------------ MODULE ToolCalls ------------------------------
(***************************************************************************)
(* One tool call of a prompt turn: the gate of the turn's mode, the        *)
(* permission the user gives, and what the call does to the workspace and  *)
(* to the client's terminals, while the user edits, cancels, switches the  *)
(* mode, closes and loads the session.  The client may serve files, both   *)
(* ways or one, and terminals; what it does not serve is done locally.  Of *)
(* the tools that only look, read_file stands for all.                     *)
(***************************************************************************)
EXTENDS Integers

CONSTANTS
  Sessions,     \* session ids
  ClientModes,  \* modes the client may select, or find in a loaded session
  User,         \* who else changes the file
  Clients,      \* ClientCapabilities a client may have
  NoText        \* no old text to show

Modes == {"ask", "acceptEdits", "plan", "yolo"}
Names == {"read_file", "edit_file", "write_file", "run_command", "mcp", "exit_plan_mode"}
Writers == {"edit_file", "write_file"}

(* A text is known by who has a change in it.                              *)
Texts == SUBSET (Sessions \union {User})

ASSUME ToolsAssumption ==
  /\ ClientModes \subseteq Modes /\ User \notin Sessions /\ NoText \notin Texts
  /\ Clients \subseteq [read : BOOLEAN, write : BOOLEAN, terminal : BOOLEAN]

VARIABLES
  client,     \* the ClientCapabilities: what the client serves
  slot,       \* slot[s]: "gone" (no record), "free" or "held" (active_turn)
  mode,       \* mode[s]: the live mode of the record
  allowed,    \* allowed[s]: permission_allow_always
  turn,       \* turn[s]: a turn of s runs
  planned,    \* planned[s]: the turn began in Plan mode
  cancelled,  \* sessions whose turn is cancelled
  pending,    \* pending[s]: pending_mode_transition, the turn left Plan mode
  call,       \* call[s]: the call the turn waits for
  term,       \* term[s]: the client's terminal of the call
  file,       \* the one file there is, in the client's editor and on disk
  always,     \* bookkeeping: names the user allowed always since s was loaded
  granted,    \* bookkeeping: who let the call in progress pass
  exited,     \* bookkeeping: exit_plan_mode set the live mode, not the user
  unreleased, \* bookkeeping: terminals created less releases requested
  fresh       \* bookkeeping: nobody changed the file since the call read it

sessionVars == <<slot, mode, allowed, exited>>
turnVars == <<turn, planned, cancelled, pending>>
termVars == <<term, unreleased>>
fileVars == <<file, fresh>>
vars == <<client, sessionVars, turnVars, call, termVars, fileVars, always, granted>>

Kind(name) ==
  CASE name = "read_file"              -> "read"
    [] name \in Writers                -> "edit"
    [] name \in {"run_command", "mcp"} -> "execute"
    [] name = "exit_plan_mode"         -> "think"

AllowsWithoutPrompt(m, kind) ==
  \/ (m = "acceptEdits" /\ kind = "edit")
  \/ (m = "yolo" /\ kind \notin {"read", "think"})

AllowsToolKind(plan, kind) == plan => kind \in {"read", "think"}

(* A bug: the gate follows the live mode. *)
GateOfLiveMode(s, name) == AllowsToolKind(mode[s] = "plan", Kind(name))

(* The gate looks at the mode the turn began in, and at nothing of it but  *)
(* whether it is Plan mode. *)
Gate(s, name) == AllowsToolKind(planned[s], Kind(name))

(* What the user grants by selecting a mode: "In accept-edits, edit actions *)
(* auto-approve while shell actions still prompt.  In yolo, mutating tools  *)
(* auto-approve."  And what exit_plan_mode takes: the same accept-edits,    *)
(* which no user selected.                                                  *)
Consents(m, name) ==
  m = "yolo" \/ (m = "acceptEdits" /\ name \in Writers)

GrantedBy(s, name) ==
  (IF name \in always[s] THEN {"user"} ELSE {}) \union
  (IF Consents(mode[s], name)
   THEN {IF exited[s] THEN "exit_plan_mode" ELSE "user"} ELSE {})

NoCall == [name |-> "exit_plan_mode", pc |-> "idle", original |-> NoText]
Call(name, pc, original) ==
  IF pc = "idle" THEN NoCall ELSE [name |-> name, pc |-> pc, original |-> original]
Moves(s, pc) == call' = [call EXCEPT ![s].pc = pc]
Returns(s) ==
  /\ call' = [call EXCEPT ![s] = NoCall]
  /\ granted' = [granted EXCEPT ![s] = {}]

TerminalPCs == {"wait", "output", "kill", "release"}

Init ==
  /\ client \in Clients
  /\ slot = [s \in Sessions |-> "free"] /\ mode = [s \in Sessions |-> "ask"]
  /\ allowed = [s \in Sessions |-> {}] /\ always = [s \in Sessions |-> {}]
  /\ turn = [s \in Sessions |-> FALSE] /\ planned = [s \in Sessions |-> FALSE]
  /\ cancelled = {} /\ pending = [s \in Sessions |-> FALSE]
  /\ call = [s \in Sessions |-> NoCall]
  /\ term = [s \in Sessions |-> "none"] /\ unreleased = [s \in Sessions |-> 0]
  /\ file = [editor |-> {}, disk |-> {}]
  /\ granted = [s \in Sessions |-> {}] /\ exited = [s \in Sessions |-> FALSE]
  /\ fresh = {}

-----------------------------------------------------------------------------
(* What the user does meanwhile. *)

SetMode(s, m) ==
  /\ slot[s] # "gone"
  /\ mode' = [mode EXCEPT ![s] = m]
  /\ exited' = [exited EXCEPT ![s] = FALSE]
  /\ UNCHANGED <<client, slot, allowed, turnVars, call, termVars, fileVars, always, granted>>

CancelTurn(s) ==
  /\ slot[s] = "held"
  /\ cancelled' = cancelled \union {s}
  /\ UNCHANGED <<client, sessionVars, turn, planned, pending, call, termVars, fileVars,
                 always, granted>>

(* session/close, and session/delete, which cancels the turn first. *)
DropSession(s) ==
  /\ slot[s] # "gone"
  /\ slot' = [slot EXCEPT ![s] = "gone"]
  /\ mode' = [mode EXCEPT ![s] = "ask"] /\ exited' = [exited EXCEPT ![s] = FALSE]
  /\ allowed' = [allowed EXCEPT ![s] = {}]
  /\ always' = [always EXCEPT ![s] = {}]
  /\ \/ UNCHANGED cancelled
     \/ /\ slot[s] = "held"
        /\ cancelled' = cancelled \union {s}
  /\ UNCHANGED <<client, turn, planned, pending, call, termVars, fileVars, granted>>

(* session/load and session/resume: permissions are not kept, and the mode *)
(* may be one exit_plan_mode left in the file.                             *)
LoadSession(s, m) ==
  /\ slot' = [slot EXCEPT ![s] = "free"]
  /\ mode' = [mode EXCEPT ![s] = m]
  /\ \E left \in {FALSE, m = "acceptEdits"} : exited' = [exited EXCEPT ![s] = left]
  /\ allowed' = [allowed EXCEPT ![s] = {}]
  /\ always' = [always EXCEPT ![s] = {}]
  /\ UNCHANGED <<client, turnVars, call, termVars, fileVars, granted>>

(* The user types into the editor and saves, and may work on the file on   *)
(* disk with other programs, which the editor then loads.                  *)
UserEdits ==
  /\ \E text \in {file.editor \union {User}, file.editor \ {User}} :
       file' = [file EXCEPT !.editor = text]
  /\ fresh' = {}
  /\ UNCHANGED <<client, sessionVars, turnVars, call, termVars, always, granted>>

ProgramEdits ==
  /\ \E text \in {file.disk \union {User}, file.disk \ {User}} :
       file' = [file EXCEPT !.disk = text]
  /\ fresh' = {}
  /\ UNCHANGED <<client, sessionVars, turnVars, call, termVars, always, granted>>

Settle ==
  /\ \E text \in {file.editor, file.disk} : file' = [editor |-> text, disk |-> text]
  /\ fresh' = {}
  /\ UNCHANGED <<client, sessionVars, turnVars, call, termVars, always, granted>>

-----------------------------------------------------------------------------
(* The turn. *)

BeginTurn(s) ==
  /\ slot[s] = "free" /\ ~turn[s]
  /\ slot' = [slot EXCEPT ![s] = "held"]
  /\ turn' = [turn EXCEPT ![s] = TRUE]
  /\ planned' = [planned EXCEPT ![s] = mode[s] = "plan"]
  /\ UNCHANGED <<client, mode, allowed, exited, cancelled, pending, call, termVars,
                 fileVars, always, granted>>

TurnMayEnd(s) == turn[s] /\ call[s].pc = "idle"

(* The batch of a turn that left Plan mode is its last.  At its end the    *)
(* mode is set once more, over one the user selected meanwhile, if the     *)
(* session is there and the client still hears what the calls came to.     *)
SetsModeAgain(s) == pending[s] /\ slot[s] # "gone"

EndTurn(s) ==
  /\ TurnMayEnd(s)
  /\ turn' = [turn EXCEPT ![s] = FALSE]
  /\ slot' = [slot EXCEPT ![s] = IF @ = "held" THEN "free" ELSE @]
  /\ planned' = [planned EXCEPT ![s] = FALSE]
  /\ pending' = [pending EXCEPT ![s] = FALSE]
  /\ \E again \in {FALSE, SetsModeAgain(s)} :
       /\ mode' = IF again THEN [mode EXCEPT ![s] = "acceptEdits"] ELSE mode
       /\ exited' = IF again THEN [exited EXCEPT ![s] = TRUE] ELSE exited
  /\ cancelled' = cancelled \ {s}
  /\ fresh' = fresh \ {s}
  /\ granted' = [granted EXCEPT ![s] = {}]
  /\ UNCHANGED <<client, allowed, call, termVars, file, always>>

(* No need to ask the user. *)
AllowedAlready(s, name) ==
  name \in allowed[s] \/ AllowsWithoutPrompt(mode[s], Kind(name))

(* Where a call stands once require_tool_permission has looked. *)
Checked(s, name) ==
  IF slot[s] = "gone" THEN "idle"
  ELSE IF AllowedAlready(s, name) THEN "perform" ELSE "asked"

(* What a read returns: the editor's text if the client serves reads.     *)
TextRead == IF client.read THEN file.editor ELSE file.disk

(* edit_file reads first, and waits for the client only if it serves reads. *)
EditStarts(s) ==
  IF client.read THEN Call("edit_file", "read", NoText)
                 ELSE Call("edit_file", Checked(s, "edit_file"), TextRead)

(* A call passes the gate; one that does not has no effect.  An MCP tool   *)
(* is called if the session is known.                                      *)
FirstStep(s, name) ==
  CASE name = "edit_file" -> EditStarts(s)
    [] name = "read_file" -> Call(name, IF client.read THEN "look" ELSE "idle", NoText)
    [] name = "mcp"       -> Call(name, IF slot[s] = "gone" THEN "idle" ELSE "mcp", NoText)
    [] OTHER              -> Call(name, Checked(s, name), NoText)

StartCall(s, name) ==
  /\ turn[s] /\ call[s].pc = "idle" /\ name # "exit_plan_mode"
  /\ Gate(s, name)
  /\ call' = [call EXCEPT ![s] = FirstStep(s, name)]
  /\ granted' = [granted EXCEPT ![s] = GrantedBy(s, name)]
  /\ fresh' = IF name \in Writers THEN fresh \union {s} ELSE fresh
  /\ UNCHANGED <<client, sessionVars, turnVars, termVars, file, always>>

(* exit_plan_mode does its work at once, and asks nobody. *)
ExitPlanMode(s) ==
  /\ turn[s] /\ call[s].pc = "idle"
  /\ Gate(s, "exit_plan_mode")
  /\ slot[s] # "gone" /\ mode[s] = "plan"
  /\ mode' = [mode EXCEPT ![s] = "acceptEdits"]
  /\ exited' = [exited EXCEPT ![s] = TRUE]
  /\ pending' = [pending EXCEPT ![s] = TRUE]
  /\ UNCHANGED <<client, slot, allowed, turn, planned, cancelled, call, termVars, fileVars,
                 always, granted>>

(* The client answers: read_file, *)
Look(s) ==
  /\ call[s].pc = "look"
  /\ Returns(s)
  /\ UNCHANGED <<client, sessionVars, turnVars, termVars, fileVars, always>>

(* the read of edit_file, which the permission check follows, *)
ReadOriginal(s) ==
  /\ call[s].pc = "read"
  /\ call' = [call EXCEPT ![s] = Call("edit_file", Checked(s, "edit_file"), TextRead)]
  /\ granted' = [granted EXCEPT ![s] = GrantedBy(s, "edit_file")]
  /\ fresh' = fresh \union {s}
  /\ UNCHANGED <<client, sessionVars, turnVars, termVars, file, always>>

(* A bug: "allow once" is remembered as well. *)
RemembersAll(answer) == answer # "refuse"

Remembers(answer) == answer = "always"

(* the permission request (refuse: rejected once or always, cancelled, or  *)
(* no proper answer), *)
Answer(s, answer) ==
  /\ call[s].pc = "asked"
  /\ \/ /\ answer = "refuse" \/ (answer = "always" /\ slot[s] = "gone")
        /\ Returns(s)
        /\ fresh' = fresh \ {s}
        /\ UNCHANGED <<allowed, always>>
     \/ /\ answer = "once" \/ (answer = "always" /\ slot[s] # "gone")
        /\ Moves(s, "perform")
        /\ allowed' = IF Remembers(answer)
                      THEN [allowed EXCEPT ![s] = @ \union {call[s].name}] ELSE allowed
        /\ always' = IF answer = "always"
                     THEN [always EXCEPT ![s] = @ \union {call[s].name}] ELSE always
        /\ granted' = [granted EXCEPT ![s] = @ \union {"user"}]
        /\ UNCHANGED fresh
  /\ UNCHANGED <<client, slot, mode, exited, turnVars, termVars, file>>

(* the read of the text that write_file is going to replace, *)
ReadExisting(s) ==
  /\ call[s].pc = "perform" /\ call[s].name = "write_file"
  /\ client.write /\ client.read
  /\ call' = [call EXCEPT ![s] = Call("write_file", "write", file.editor)]
  /\ fresh' = fresh \union {s}
  /\ UNCHANGED <<client, sessionVars, turnVars, termVars, file, always, granted>>

(* and the write.  edit_file writes what it read with its own change in    *)
(* it, write_file replaces everything.  The client serves a write by       *)
(* putting it into the editor and on disk.                                 *)
NewText(s) == IF call[s].name = "edit_file" THEN call[s].original \union {s} ELSE {s}

ReadyToWrite(s) ==
  \/ call[s].pc = "write"
  \/ call[s].pc = "perform" /\ call[s].name = "edit_file"
  \/ call[s].pc = "perform" /\ call[s].name = "write_file" /\ ~(client.write /\ client.read)

(* A bug: write_file takes the old text from where reads are served. *)
OldOfReader(s) ==
  IF call[s].name = "edit_file" \/ call[s].pc = "write" THEN call[s].original ELSE TextRead

(* The old text in the report: what edit_file read, and for write_file the *)
(* text on the side it writes to, if that can be read.                     *)
OldText(s) ==
  IF call[s].name = "edit_file" \/ call[s].pc = "write" THEN call[s].original
  ELSE IF client.write THEN NoText ELSE file.disk

WriteFile(s) ==
  /\ ReadyToWrite(s)
  /\ file' = [editor |-> IF client.write THEN NewText(s) ELSE file.editor,
              disk |-> NewText(s)]
  /\ Returns(s)
  /\ fresh' = {}
  /\ UNCHANGED <<client, sessionVars, turnVars, termVars, always>>

(* Or an error; a local write that fails may leave the file empty.         *)
CallFails(s) ==
  /\ call[s].pc \in {"look", "read", "perform", "write"}
  /\ Returns(s)
  /\ \E text \in {file.disk} \union (IF ReadyToWrite(s) /\ ~client.write THEN {{}} ELSE {}) :
       file' = [file EXCEPT !.disk = text]
  /\ fresh' = {}
  /\ UNCHANGED <<client, sessionVars, turnVars, termVars, always>>

(* MCP calls and local commands run to their end, whatever happens. *)
McpReturns(s) ==
  /\ call[s].pc = "mcp"
  /\ Returns(s)
  /\ UNCHANGED <<client, sessionVars, turnVars, termVars, fileVars, always>>

RunLocally(s) ==
  /\ call[s].pc = "perform" /\ call[s].name = "run_command" /\ ~client.terminal
  /\ Moves(s, "local")
  /\ UNCHANGED <<client, sessionVars, turnVars, termVars, fileVars, always, granted>>

LocalEnds(s) ==
  /\ call[s].pc = "local"
  /\ Returns(s)
  /\ UNCHANGED <<client, sessionVars, turnVars, termVars, fileVars, always>>

-----------------------------------------------------------------------------
(* A command in a terminal of the client. *)

CreateTerminal(s) ==
  /\ call[s].pc = "perform" /\ call[s].name = "run_command" /\ client.terminal
  /\ term' = [term EXCEPT ![s] = "running"]
  /\ unreleased' = [unreleased EXCEPT ![s] = @ + 1]
  /\ Moves(s, "wait")
  /\ UNCHANGED <<client, sessionVars, turnVars, fileVars, always, granted>>

CommandExits(s) ==
  /\ term[s] = "running"
  /\ term' = [term EXCEPT ![s] = "exited"]
  /\ UNCHANGED <<unreleased, client, sessionVars, turnVars, call, fileVars, always, granted>>

WaitReturns(s) ==
  /\ call[s].pc = "wait" /\ term[s] = "exited"
  /\ Moves(s, "output")
  /\ UNCHANGED <<client, sessionVars, turnVars, termVars, fileVars, always, granted>>

(* A bug: the token is looked at before the wait only. *)
NeverSeen(s) == FALSE

(* The wait ends when the token is cancelled. *)
TokenSeen(s) == s \in cancelled

CancelSeen(s) ==
  /\ call[s].pc = "wait" /\ TokenSeen(s)
  /\ Moves(s, "kill")
  /\ UNCHANGED <<client, sessionVars, turnVars, termVars, fileVars, always, granted>>

(* A bug: an error returns at once. *)
JustReturns(s) == call' = [call EXCEPT ![s] = NoCall]

(* Whatever went wrong, the terminal is released before the call returns. *)
ReleaseNext(s) == Moves(s, "release")

WaitFails(s) ==
  /\ call[s].pc = "wait"
  /\ ReleaseNext(s)
  /\ UNCHANGED <<client, sessionVars, turnVars, termVars, fileVars, always, granted>>

(* The output comes, or an error. *)
TakeOutput(s) ==
  /\ call[s].pc = "output"
  /\ ReleaseNext(s)
  /\ UNCHANGED <<client, sessionVars, turnVars, termVars, fileVars, always, granted>>

(* The answer to the kill is not looked at. *)
KillTerminal(s) ==
  /\ call[s].pc = "kill"
  /\ \E state \in {"exited", term[s]} : term' = [term EXCEPT ![s] = state]
  /\ ReleaseNext(s)
  /\ UNCHANGED <<unreleased, client, sessionVars, turnVars, fileVars, always, granted>>

(* The client may answer with an error and keep the terminal; the call     *)
(* returns, with a failure, and does not ask again.                        *)
ReleaseTerminal(s) ==
  /\ call[s].pc = "release"
  /\ \E state \in {"none", "kept"} : term' = [term EXCEPT ![s] = state]
  /\ unreleased' = [unreleased EXCEPT ![s] = @ - 1]
  /\ Returns(s)
  /\ UNCHANGED <<client, sessionVars, turnVars, fileVars, always>>

TerminalStep(s) ==
  \/ CreateTerminal(s) \/ WaitReturns(s) \/ CancelSeen(s) \/ WaitFails(s)
  \/ TakeOutput(s) \/ KillTerminal(s) \/ ReleaseTerminal(s)

UserStep(s) ==
  \/ \E m \in ClientModes : SetMode(s, m) \/ LoadSession(s, m)
  \/ CancelTurn(s) \/ DropSession(s)
  \/ \E answer \in {"once", "always", "refuse"} : Answer(s, answer)

TurnStep(s) ==
  \/ BeginTurn(s) \/ EndTurn(s) \/ ExitPlanMode(s)
  \/ \E name \in Names : StartCall(s, name)
  \/ Look(s) \/ ReadOriginal(s) \/ ReadExisting(s) \/ WriteFile(s) \/ CallFails(s)
  \/ McpReturns(s) \/ RunLocally(s) \/ LocalEnds(s)

Next ==
  \/ UserEdits \/ ProgramEdits \/ Settle
  \/ \E s \in Sessions : UserStep(s) \/ TurnStep(s) \/ TerminalStep(s) \/ CommandExits(s)

Spec == Init /\ [][Next]_vars

(***************************************************************************)
(* Fairness: the client answers file and terminal requests (all but the    *)
(* wait, which ends with the command), and a permission request once the   *)
(* turn is cancelled, as the protocol wants.  Commands and MCP servers owe *)
(* nothing.                                                                *)
(***************************************************************************)
Progress(s) ==
  \/ Look(s) \/ ReadOriginal(s) \/ ReadExisting(s) \/ WriteFile(s) \/ RunLocally(s)
  \/ CreateTerminal(s) \/ CancelSeen(s) \/ TakeOutput(s) \/ KillTerminal(s)
  \/ ReleaseTerminal(s)
  \/ (s \in cancelled /\ Answer(s, "refuse"))

FairSpec == Spec /\ \A s \in Sessions : WF_vars(Progress(s))

-----------------------------------------------------------------------------
PCs == {"idle", "look", "read", "asked", "perform", "write", "mcp", "local"} \union TerminalPCs
CallRecord == [name : Names, pc : PCs, original : Texts \union {NoText}]

(* Every variable keeps its type, and a call belongs to a running turn: the *)
(* turn waits for every call it starts.                                    *)
TypeOK ==
  /\ client \in Clients
  /\ slot \in [Sessions -> {"gone", "free", "held"}]
  /\ mode \in [Sessions -> Modes] /\ planned \in [Sessions -> BOOLEAN]
  /\ allowed \in [Sessions -> SUBSET Names] /\ always \in [Sessions -> SUBSET Names]
  /\ turn \in [Sessions -> BOOLEAN] /\ pending \in [Sessions -> BOOLEAN]
  /\ exited \in [Sessions -> BOOLEAN]
  /\ granted \in [Sessions -> SUBSET {"user", "exit_plan_mode"}]
  /\ cancelled \in SUBSET Sessions
  /\ call \in [Sessions -> CallRecord]
  /\ \A s \in Sessions : call[s].pc # "idle" => turn[s]
  /\ term \in [Sessions -> {"none", "running", "exited", "kept"}]
  /\ unreleased \in [Sessions -> Int]
  /\ \A s \in Sessions : call[s].name = "edit_file" /\ call[s].pc \in {"asked", "perform", "write"}
       => call[s].original \in Texts
  /\ file \in [editor : Texts, disk : Texts]
  /\ fresh \in SUBSET Sessions

(* A built-in tool writes or runs a command only with the user's consent:  *)
(* an answer to this very call, "allow always" for this tool since the     *)
(* session was loaded, or a mode the user selected that consents when the  *)
(* check is made (request_tool_permission).  The one exception are edits   *)
(* in the accept-edits mode that the model brought about by exit_plan_mode *)
(* and the user has not left since; a command never runs by that.          *)
Acting(s) == call[s].pc \in {"perform", "write", "local"} \union TerminalPCs
BuiltinsGranted ==
  \A s \in Sessions : Acting(s) =>
    \/ "user" \in granted[s]
    \/ "exit_plan_mode" \in granted[s] /\ call[s].name \in Writers

(* A turn that began in Plan mode only looks, to its end, even behind      *)
(* exit_plan_mode or under a mode selected meanwhile.                      *)
PlanTurnTouchesNothing ==
  \A s \in Sessions : turn[s] /\ planned[s] => call[s].pc \in {"idle", "look"}

(* The release of a terminal is requested exactly once: on every path, by  *)
(* the call that created it, before that call returns                      *)
(* (run_command_via_terminal).                                             *)
TerminalsReleased ==
  \A s \in Sessions :
    unreleased[s] = IF call[s].pc \in TerminalPCs THEN 1 ELSE 0

(* A cancelled turn gets past the call it waits for, even if the command   *)
(* in the terminal never ends; only local commands and MCP calls are       *)
(* waited for.                                                             *)
CancelledCallEnds ==
  \A s \in Sessions :
    s \in cancelled ~> call[s].pc \in {"idle", "local", "mcp"}

(* The edit shown to the client is the edit that was made: if nobody       *)
(* changed the file since the call read it, its old text is what the write *)
(* replaced - for write_file whichever side it writes on.  edit_file reads *)
(* on one side and writes on the other if the client serves only one of    *)
(* the two; then its old text is that of the side it read, and what the    *)
(* write replaces on the other is not promised.                            *)
Replaced == IF client.write THEN file.editor ELSE file.disk
DiffsAreExact ==
  [][\A s \in Sessions :
       WriteFile(s) /\ s \in fresh /\ OldText(s) # NoText
         => OldText(s) = IF call[s].name = "edit_file" THEN TextRead ELSE Replaced]_vars

(* What the docs say and the code does not keep.                           *)

(* edit_file replaces "one exact UTF-8 text span in an existing file" (for *)
(* a client that serves both reads and writes, or neither).                *)
EditsOneSpan ==
  [][\A s \in Sessions :
       WriteFile(s) /\ call[s].name = "edit_file" /\ client.read = client.write
         => file'.disk = TextRead \union {s}]_vars
=============================================================================
