--------------------------- MODULE ToolCalls_proofs --------------------------
(***************************************************************************)
(* Proofs about ToolCalls, for any number of sessions and any modes the    *)
(* client may select.                                                      *)
(***************************************************************************)
EXTENDS ToolCalls, TLAPS

(* Only what the user allowed for good is in the allow-always set.         *)
OnlyAnswersKept == \A s \in Sessions : allowed[s] \subseteq always[s]

(* Only edit_file reads before its permission check.                       *)
OnlyEditReads == \A s \in Sessions : call[s].pc = "read" => call[s].name = "edit_file"

(* exit_plan_mode leads into the accept-edits mode only.                   *)
ExitedIntoEdits == \A s \in Sessions : exited[s] => mode[s] = "acceptEdits"

Inv == /\ TypeOK /\ OnlyAnswersKept /\ OnlyEditReads /\ ExitedIntoEdits
       /\ BuiltinsGranted /\ PlanTurnTouchesNothing /\ TerminalsReleased

-----------------------------------------------------------------------------
(* A mode never lets more pass without a prompt than the user consented to. *)
LEMMA ModeConsents ==
  ASSUME NEW m \in Modes, NEW name \in Names,
         AllowsWithoutPrompt(m, Kind(name))
  PROVE  Consents(m, name)
  BY DEF Modes, Names, AllowsWithoutPrompt, Kind, Consents, Writers

(* Those who let a call pass may.                                          *)
MayPass(by, name) == "user" \in by \/ ("exit_plan_mode" \in by /\ name \in Writers)

LEMMA AllowedIsGranted ==
  ASSUME Inv, NEW s \in Sessions, NEW name \in Names, AllowedAlready(s, name)
  PROVE  MayPass(GrantedBy(s, name), name)
<1>1. CASE name \in allowed[s]
  BY <1>1 DEF Inv, OnlyAnswersKept, GrantedBy, MayPass
<1>2. CASE Consents(mode[s], name) /\ exited[s]
  <2>1. name \in Writers
    BY <1>2 DEF Inv, ExitedIntoEdits, Consents
  <2> QED
    BY <1>2, <2>1 DEF GrantedBy, MayPass
<1>3. CASE Consents(mode[s], name) /\ ~exited[s]
  BY <1>3 DEF GrantedBy, MayPass
<1>4. mode[s] \in Modes
  BY DEF Inv, TypeOK
<1> QED
  BY <1>1, <1>2, <1>3, <1>4, ModeConsents DEF AllowedAlready

LEMMA GrantedTyped ==
  ASSUME NEW s, NEW name
  PROVE  GrantedBy(s, name) \in SUBSET {"user", "exit_plan_mode"}
  BY DEF GrantedBy

(* The check returns a program counter, and lets a call pass only if it    *)
(* found a permission.                                                     *)
LEMMA CheckedPasses ==
  ASSUME NEW s \in Sessions, NEW name \in Names
  PROVE  /\ Checked(s, name) \in {"idle", "asked", "perform"}
         /\ Checked(s, name) = "perform" => AllowedAlready(s, name)
  BY DEF Checked

(* A text read is a text.                                                   *)
LEMMA ReadsText == TypeOK => TextRead \in Texts
  BY DEF TypeOK, TextRead

(* A call that returns keeps the invariant, if its terminal is released.   *)
TermStates == {"none", "running", "exited", "kept"}

LEMMA ReturnKeeps ==
  ASSUME Inv, NEW s \in Sessions, Returns(s),
         UNCHANGED <<client, sessionVars, turnVars, always>>,
         file' \in [editor : Texts, disk : Texts], fresh' \in SUBSET Sessions,
         \/ call[s].pc \notin TerminalPCs /\ UNCHANGED termVars
         \/ /\ call[s].pc \in TerminalPCs
            /\ term' \in [Sessions -> TermStates]
            /\ unreleased' = [unreleased EXCEPT ![s] = @ - 1]
  PROVE  Inv'
<1> USE DEF Inv, TypeOK, sessionVars, turnVars
<1>1. /\ call' = [call EXCEPT ![s] = NoCall] /\ granted' = [granted EXCEPT ![s] = {}]
      /\ NoCall \in CallRecord /\ NoCall.pc = "idle"
      /\ "idle" \notin TerminalPCs
  BY DEF Returns, NoCall, CallRecord, Names, PCs, TerminalPCs
<1> HIDE DEF NoCall
<1>2. /\ term' \in [Sessions -> TermStates]
      /\ unreleased' \in [Sessions -> Int] /\ unreleased'[s] = 0
      /\ \A r \in Sessions \ {s} : unreleased'[r] = unreleased[r]
  BY <1>1 DEF TerminalsReleased, termVars, TermStates
<1>3. TypeOK'
  BY <1>1, <1>2 DEF TermStates
<1>4. OnlyAnswersKept' /\ OnlyEditReads' /\ ExitedIntoEdits'
  BY <1>1 DEF OnlyAnswersKept, OnlyEditReads, ExitedIntoEdits
<1>5. BuiltinsGranted' /\ PlanTurnTouchesNothing'
  BY <1>1 DEF BuiltinsGranted, Acting, PlanTurnTouchesNothing, TerminalPCs
<1>6. TerminalsReleased'
  BY <1>1, <1>2 DEF TerminalsReleased
<1> QED
  BY <1>3, <1>4, <1>5, <1>6

(* So does a command that gets on.                                         *)
LEMMA MoveKeeps ==
  ASSUME Inv, NEW s \in Sessions, NEW pc \in {"local"} \union TerminalPCs, Moves(s, pc),
         call[s].pc \in {"perform"} \union TerminalPCs,
         UNCHANGED <<client, sessionVars, turnVars, fileVars, always, granted>>,
         term' \in [Sessions -> TermStates],
         \/ UNCHANGED unreleased /\ (pc \in TerminalPCs <=> call[s].pc \in TerminalPCs)
         \/ /\ unreleased' = [unreleased EXCEPT ![s] = @ + 1]
            /\ pc \in TerminalPCs /\ call[s].pc = "perform"
  PROVE  Inv'
<1> USE DEF Inv, TypeOK, sessionVars, turnVars, fileVars
<1> DEFINE new == [call[s] EXCEPT !.pc = pc]
<1>1. /\ call' = [call EXCEPT ![s] = new]
      /\ new \in CallRecord /\ new.pc = pc /\ new.name = call[s].name
  BY SMTT(30) DEF Moves, CallRecord, PCs
<1>2. pc \notin {"idle", "look", "read", "asked", "perform", "write"}
  BY DEF TerminalPCs
<1> HIDE DEF new
<1>3. turn[s] /\ Acting(s) /\ ~planned[s]
  BY DEF Acting, PlanTurnTouchesNothing, TerminalPCs
<1>4. /\ unreleased' \in [Sessions -> Int]
      /\ unreleased'[s] = IF pc \in TerminalPCs THEN 1 ELSE 0
      /\ \A r \in Sessions \ {s} : unreleased'[r] = unreleased[r]
  BY DEF TerminalsReleased, TerminalPCs
<1>5. TypeOK'
  BY <1>1, <1>2, <1>3, <1>4, ZenonT(30) DEF TermStates
<1>6. OnlyAnswersKept' /\ OnlyEditReads' /\ ExitedIntoEdits'
  BY <1>1, <1>2 DEF OnlyAnswersKept, OnlyEditReads, ExitedIntoEdits
<1>7. BuiltinsGranted' /\ PlanTurnTouchesNothing'
  BY <1>1, <1>2, <1>3 DEF BuiltinsGranted, Acting, PlanTurnTouchesNothing
<1>8. TerminalsReleased'
  BY <1>1, <1>4 DEF TerminalsReleased
<1> QED
  BY <1>5, <1>6, <1>7, <1>8

LEMMA InitHolds == Init => Inv
  BY ToolsAssumption DEF Init, Inv, TypeOK, OnlyAnswersKept, OnlyEditReads, ExitedIntoEdits,
         BuiltinsGranted, Acting,
         PlanTurnTouchesNothing, TerminalsReleased, NoCall, Names, Modes,
         CallRecord, PCs, TerminalPCs, ToolsAssumption, Texts

(* The requests of the client, the user's edits, and the command's exit.   *)
LEMMA UserKeeps ==
  ASSUME Inv,
         \/ UserEdits \/ ProgramEdits \/ Settle
         \/ \E s \in Sessions : UserStep(s) \/ CommandExits(s)
  PROVE  Inv'
<1> USE ToolsAssumption
    DEF ToolsAssumption, Inv, TypeOK, OnlyAnswersKept, OnlyEditReads, ExitedIntoEdits,
        BuiltinsGranted, Acting, PlanTurnTouchesNothing, TerminalsReleased
<1>1. CASE UserEdits \/ ProgramEdits \/ Settle
  <2>1. file' \in [editor : Texts, disk : Texts]
    BY <1>1 DEF UserEdits, ProgramEdits, Settle, Texts
  <2>2. UNCHANGED <<client, sessionVars, turnVars, call, termVars, always, granted>>
        /\ fresh' = {}
    BY <1>1 DEF UserEdits, ProgramEdits, Settle
  <2> QED
    BY <2>1, <2>2 DEF sessionVars, turnVars, termVars
<1>2. ASSUME NEW s \in Sessions, NEW m \in ClientModes, SetMode(s, m) PROVE Inv'
  BY <1>2 DEF SetMode, turnVars, termVars, fileVars
<1>3. ASSUME NEW s \in Sessions, NEW m \in ClientModes, LoadSession(s, m) PROVE Inv'
  <2>1. PICK left \in {FALSE, m = "acceptEdits"} : exited' = [exited EXCEPT ![s] = left]
    BY <1>3 DEF LoadSession
  <2>2. left \in BOOLEAN /\ (left => m = "acceptEdits")
    OBVIOUS
  <2> QED
    BY <1>3, <2>1, <2>2 DEF LoadSession, turnVars, termVars, fileVars
<1>4. ASSUME NEW s \in Sessions, CancelTurn(s) PROVE Inv'
  BY <1>4 DEF CancelTurn, sessionVars, termVars, fileVars
<1>5. ASSUME NEW s \in Sessions, DropSession(s) PROVE Inv'
  BY <1>5 DEF DropSession, termVars, fileVars, Modes
<1>6. ASSUME NEW s \in Sessions, NEW answer \in {"once", "always", "refuse"},
             Answer(s, answer)
      PROVE  Inv'
  <2>0. /\ UNCHANGED <<client, slot, mode, exited, turnVars, termVars, file>>
        /\ call[s].pc = "asked"
    BY <1>6 DEF Answer
  <2>1. CASE Returns(s) /\ fresh' = fresh \ {s} /\ UNCHANGED <<allowed, always>>
    <3>1. "asked" \notin TerminalPCs
      BY DEF TerminalPCs
    <3> HIDE DEF Inv
    <3>2. file' \in [editor : Texts, disk : Texts] /\ fresh' \in SUBSET Sessions
      BY <2>0, <2>1 DEF Inv, TypeOK
    <3> QED
      BY <2>0, <2>1, <3>1, <3>2, ReturnKeeps DEF sessionVars
  <2>2. CASE /\ Moves(s, "perform") /\ UNCHANGED fresh
             /\ granted' = [granted EXCEPT ![s] = @ \union {"user"}]
             /\ allowed' = IF Remembers(answer)
                           THEN [allowed EXCEPT ![s] = @ \union {call[s].name}]
                           ELSE allowed
             /\ always' = IF answer = "always"
                          THEN [always EXCEPT ![s] = @ \union {call[s].name}]
                          ELSE always
    <3> DEFINE new == [call[s] EXCEPT !.pc = "perform"]
    <3>1. /\ call' = [call EXCEPT ![s] = new] /\ call[s] \in CallRecord
          /\ new \in CallRecord /\ new.pc = "perform" /\ new.name = call[s].name
          /\ new.original = call[s].original
      <4>1. call \in [Sessions -> CallRecord]
        OBVIOUS
      <4> HIDE DEF Inv
      <4> QED
        BY <2>2, <4>1 DEF Moves, CallRecord, PCs
    <3> HIDE DEF new
    <3>2. granted' = [granted EXCEPT ![s] = @ \union {"user"}] /\ UNCHANGED fresh
      BY <2>2
    <3>3. /\ allowed' \in [Sessions -> SUBSET Names]
          /\ always' \in [Sessions -> SUBSET Names]
          /\ \A r \in Sessions : allowed'[r] \subseteq always'[r]
          /\ \A r \in Sessions \ {s} : always'[r] = always[r]
      <4>1. call[s].name \in Names
        BY DEF CallRecord
      <4>2. CASE answer = "always"
        <5>1. /\ allowed' = [allowed EXCEPT ![s] = @ \union {call[s].name}]
              /\ always' = [always EXCEPT ![s] = @ \union {call[s].name}]
          BY <2>2, <4>2 DEF Remembers
        <5> QED
          BY <4>1, <5>1
      <4>3. CASE answer # "always"
        BY <2>2, <4>3 DEF Remembers
      <4> QED
        BY <4>2, <4>3
    <3>4. TypeOK'
      <4>1. /\ call' \in [Sessions -> CallRecord]
            /\ \A r \in Sessions : call'[r].pc # "idle" => turn'[r]
        BY <2>0, <3>1 DEF turnVars
      <4>2. \A r \in Sessions :
              call'[r].name = "edit_file" /\ call'[r].pc \in {"asked", "perform", "write"}
                => call'[r].original \in Texts
        BY <2>0, <3>1
      <4>3. granted' \in [Sessions -> SUBSET {"user", "exit_plan_mode"}]
        BY <3>2
      <4> QED
        BY <2>0, <3>2, <3>3, <4>1, <4>2, <4>3 DEF turnVars, termVars
    <3>5. OnlyAnswersKept' /\ OnlyEditReads' /\ ExitedIntoEdits'
      BY <2>0, <3>1, <3>2, <3>3
    <3>6. BuiltinsGranted' /\ PlanTurnTouchesNothing'
      BY <2>0, <3>1, <3>2 DEF turnVars, TerminalPCs
    <3>7. TerminalsReleased'
      BY <2>0, <3>1 DEF TerminalPCs, termVars
    <3> QED
      BY <3>4, <3>5, <3>6, <3>7
  <2> HIDE DEF Inv, TypeOK, OnlyAnswersKept, OnlyEditReads, ExitedIntoEdits
  <2> HIDE DEF BuiltinsGranted, PlanTurnTouchesNothing, TerminalsReleased
  <2> QED
    BY <1>6, <2>1, <2>2 DEF Answer
<1>7. ASSUME NEW s \in Sessions, CommandExits(s) PROVE Inv'
  BY <1>7 DEF CommandExits, sessionVars, turnVars, fileVars
<1> HIDE DEF Inv
<1> QED
  BY <1>1, <1>2, <1>3, <1>4, <1>5, <1>6, <1>7 DEF UserStep

(* The steps of the turn.                                                  *)
LEMMA TurnKeeps ==
  ASSUME Inv, NEW s \in Sessions, TurnStep(s)
  PROVE  Inv'
<1> USE ToolsAssumption
    DEF ToolsAssumption, Inv, TypeOK, OnlyAnswersKept, OnlyEditReads, ExitedIntoEdits,
        BuiltinsGranted, Acting, PlanTurnTouchesNothing, TerminalsReleased
<1>1. CASE BeginTurn(s)
  BY <1>1 DEF BeginTurn, termVars, fileVars
<1>2. CASE EndTurn(s)
  BY <1>2 DEF EndTurn, TurnMayEnd, SetsModeAgain, Modes, TerminalPCs, termVars
<1>3. CASE ExitPlanMode(s)
  BY <1>3 DEF ExitPlanMode, termVars, fileVars, Modes
<1>4. ASSUME NEW name \in Names, StartCall(s, name) PROVE Inv'
  <2> DEFINE step == FirstStep(s, name)
  <2>1. /\ step \in CallRecord /\ (step.pc # "idle" => step.name = name)
        /\ step.pc \in {"idle", "asked", "perform", "read", "look", "mcp"}
        /\ step.pc = "perform" => AllowedAlready(s, name)
        /\ step.pc = "read" => name = "edit_file"
        /\ step.pc = "look" => name = "read_file"
        /\ step.pc \in {"asked", "perform"} /\ name = "edit_file" => step.original \in Texts
    <3> USE DEF NoCall, Call, CallRecord, PCs
    <3>1. TextRead \in Texts /\ "edit_file" \in Names /\ "exit_plan_mode" \in Names
      BY ReadsText DEF Names
    <3>2. /\ Checked(s, name) \in {"idle", "asked", "perform"}
          /\ Checked(s, name) = "perform" => AllowedAlready(s, name)
      BY CheckedPasses
    <3>3. CASE name = "edit_file"
      BY <3>1, <3>2, <3>3 DEF FirstStep, EditStarts
    <3>4. CASE name \in {"read_file", "mcp"}
      BY <3>1, <3>4 DEF FirstStep
    <3>5. CASE name \notin {"edit_file", "read_file", "mcp"}
      BY <3>1, <3>2, <3>5 DEF FirstStep
    <3> QED
      BY <3>3, <3>4, <3>5
  <2>2. step.pc = "perform" => MayPass(GrantedBy(s, name), name)
    BY <2>1, AllowedIsGranted
  <2>3. ~planned[s] \/ name = "read_file"
    BY <1>4 DEF StartCall, Gate, AllowsToolKind, Kind, Names, Writers
  <2>4. /\ call' = [call EXCEPT ![s] = step]
        /\ call[s].pc = "idle" /\ turn[s]
        /\ fresh' \in SUBSET Sessions
        /\ UNCHANGED <<client, sessionVars, turnVars, termVars, file, always>>
    BY <1>4 DEF StartCall
  <2>5. /\ granted' = [granted EXCEPT ![s] = GrantedBy(s, name)]
        /\ GrantedBy(s, name) \in SUBSET {"user", "exit_plan_mode"}
    BY <1>4, GrantedTyped DEF StartCall
  <2>6. name = "read_file" => step.pc \in {"idle", "look"}
    BY DEF FirstStep, Call, NoCall
  <2> HIDE DEF step
  <2>7. TypeOK'
    BY <2>1, <2>4, <2>5 DEF sessionVars, turnVars, termVars
  <2>8. OnlyAnswersKept' /\ OnlyEditReads' /\ ExitedIntoEdits'
    BY <2>1, <2>4 DEF sessionVars
  <2>9. BuiltinsGranted'
    BY <2>1, <2>2, <2>4, <2>5 DEF MayPass, TerminalPCs
  <2>10. PlanTurnTouchesNothing' /\ TerminalsReleased'
    BY <2>1, <2>3, <2>4, <2>6 DEF turnVars, termVars, TerminalPCs
  <2> QED
    BY <2>7, <2>8, <2>9, <2>10
<1>5. CASE ReadOriginal(s)
  <2> DEFINE step == Call("edit_file", Checked(s, "edit_file"), TextRead)
  <2>1. /\ step.pc \in {"idle", "asked", "perform"} /\ step \in CallRecord
        /\ step.pc # "idle" => step.name = "edit_file" /\ step.original \in Texts
    BY CheckedPasses, ReadsText DEF Names, Call, NoCall, CallRecord, PCs
  <2>2. step.pc = "perform" => MayPass(GrantedBy(s, "edit_file"), "edit_file")
    <3>1. step.pc = "perform" => Checked(s, "edit_file") = "perform"
      BY DEF Call, NoCall
    <3> QED
      BY <3>1, CheckedPasses, AllowedIsGranted DEF Names
  <2>3. /\ call' = [call EXCEPT ![s] = step]
        /\ call[s].pc = "read" /\ turn[s]
        /\ fresh' \in SUBSET Sessions
        /\ UNCHANGED <<client, sessionVars, turnVars, termVars, file, always>>
    BY <1>5 DEF ReadOriginal
  <2>4. /\ granted' = [granted EXCEPT ![s] = GrantedBy(s, "edit_file")]
        /\ GrantedBy(s, "edit_file") \in SUBSET {"user", "exit_plan_mode"}
    BY <1>5, GrantedTyped DEF ReadOriginal
  <2> HIDE DEF step
  <2>5. TypeOK'
    <3>1. "read" \in PCs
      BY DEF PCs
    <3> QED
      BY <2>1, <2>3, <2>4, <3>1 DEF sessionVars, turnVars, termVars
  <2>6. OnlyAnswersKept' /\ OnlyEditReads' /\ ExitedIntoEdits'
    BY <2>1, <2>3 DEF sessionVars
  <2>7. BuiltinsGranted'
    BY <2>1, <2>2, <2>3, <2>4 DEF MayPass, TerminalPCs
  <2>8. PlanTurnTouchesNothing' /\ TerminalsReleased'
    BY <2>1, <2>3 DEF turnVars, termVars, TerminalPCs
  <2> QED
    BY <2>5, <2>6, <2>7, <2>8
<1>6. CASE ReadExisting(s)
  <2> DEFINE step == Call("write_file", "write", file.editor)
  <2>1. step.pc = "write" /\ step \in CallRecord /\ step.name = "write_file"
    BY DEF Names, Call, CallRecord, PCs
  <2>2. call' = [call EXCEPT ![s] = step]
    BY <1>6 DEF ReadExisting
  <2> HIDE DEF step
  <2> QED
    BY <1>6, <2>1, <2>2 DEF ReadExisting, sessionVars, turnVars, termVars, TerminalPCs
<1>7. CASE WriteFile(s)
  <2>1. NewText(s) \in Texts
    BY <1>7 DEF WriteFile, ReadyToWrite, NewText, CallRecord, Texts
  <2>2. file' \in [editor : Texts, disk : Texts] /\ fresh' \in SUBSET Sessions
    BY <1>7, <2>1 DEF WriteFile
  <2>3. call[s].pc \notin TerminalPCs
    BY <1>7 DEF WriteFile, ReadyToWrite, TerminalPCs
  <2> QED
    BY <1>7, <2>2, <2>3, ReturnKeeps DEF WriteFile
<1>8. CASE CallFails(s)
  <2>1. file' \in [editor : Texts, disk : Texts] /\ fresh' \in SUBSET Sessions
    BY <1>8 DEF CallFails, Texts
  <2>2. call[s].pc \notin TerminalPCs
    BY <1>8 DEF CallFails, TerminalPCs
  <2> QED
    BY <1>8, <2>1, <2>2, ReturnKeeps DEF CallFails
<1>9. CASE Look(s) \/ McpReturns(s) \/ LocalEnds(s)
  <2>1. /\ Returns(s) /\ call[s].pc \notin TerminalPCs
        /\ UNCHANGED <<client, sessionVars, turnVars, termVars, fileVars, always>>
    BY <1>9 DEF Look, McpReturns, LocalEnds, TerminalPCs
  <2> QED
    BY <2>1, ReturnKeeps DEF fileVars
<1>10. CASE RunLocally(s)
  <2>1. "local" \notin TerminalPCs /\ "perform" \notin TerminalPCs
    BY DEF TerminalPCs
  <2> QED
    BY <1>10, <2>1, MoveKeeps DEF RunLocally, termVars, TermStates
<1> HIDE DEF Inv
<1> QED
  BY <1>1, <1>2, <1>3, <1>4, <1>5, <1>6, <1>7, <1>8, <1>9, <1>10 DEF TurnStep

(* The life of a terminal.                                                 *)
LEMMA TerminalKeeps ==
  ASSUME Inv, NEW s \in Sessions, TerminalStep(s)
  PROVE  Inv'
<1> USE DEF TermStates
<1>1. /\ term \in [Sessions -> TermStates]
      /\ call[s].pc \in TerminalPCs => term[s] \in TermStates
  BY DEF Inv, TypeOK
<1>2. CASE CreateTerminal(s)
  BY <1>1, <1>2, MoveKeeps DEF CreateTerminal, TerminalPCs
<1>3. CASE WaitReturns(s) \/ CancelSeen(s) \/ WaitFails(s) \/ TakeOutput(s)
  BY <1>1, <1>3, MoveKeeps
     DEF WaitReturns, CancelSeen, WaitFails, TakeOutput, ReleaseNext, TerminalPCs, termVars
<1>4. CASE KillTerminal(s)
  BY <1>1, <1>4, MoveKeeps DEF KillTerminal, ReleaseNext, TerminalPCs
<1>5. CASE ReleaseTerminal(s)
  <2>1. PICK state \in {"none", "kept"} : term' = [term EXCEPT ![s] = state]
    BY <1>5 DEF ReleaseTerminal
  <2>2. term' \in [Sessions -> TermStates]
    BY <1>1, <2>1
  <2>3. file' \in [editor : Texts, disk : Texts] /\ fresh' \in SUBSET Sessions
    BY <1>5 DEF ReleaseTerminal, Inv, TypeOK, fileVars
  <2>4. call[s].pc \in TerminalPCs
    BY <1>5 DEF ReleaseTerminal, TerminalPCs
  <2> QED
    BY <1>5, <2>2, <2>3, <2>4, ReturnKeeps DEF ReleaseTerminal
<1> QED
  BY <1>2, <1>3, <1>4, <1>5 DEF TerminalStep

LEMMA StutterKeeps == Inv /\ UNCHANGED vars => Inv'
  BY DEF Inv, TypeOK, OnlyAnswersKept, OnlyEditReads, ExitedIntoEdits,
         BuiltinsGranted, Acting, PlanTurnTouchesNothing, TerminalsReleased, vars, sessionVars, turnVars, termVars,
         fileVars

LEMMA InvHolds == Spec => []Inv
<1>1. Inv /\ [Next]_vars => Inv'
  BY UserKeeps, TurnKeeps, TerminalKeeps, StutterKeeps DEF Next
<1> QED
  BY <1>1, InitHolds, PTL DEF Spec

(***************************************************************************)
(* No built-in tool writes or runs a command but by the user's answer,     *)
(* allow-always or a mode the user selected (request_tool_permission);     *)
(* only edits may also pass in the accept-edits mode that exit_plan_mode   *)
(* left.  Whatever is answered, selected, closed or loaded meanwhile, and  *)
(* although the turn sets that mode again at its end.                      *)
(***************************************************************************)
THEOREM ConsentNeeded == Spec => []BuiltinsGranted
<1>1. Inv => BuiltinsGranted
  BY DEF Inv
<1> QED
  BY <1>1, InvHolds, PTL

(***************************************************************************)
(* A turn begun in Plan mode touches nothing, even behind exit_plan_mode   *)
(* (the gate of run_prompt_turn).                                          *)
(***************************************************************************)
THEOREM PlanTurnSafe == Spec => []PlanTurnTouchesNothing
<1>1. Inv => PlanTurnTouchesNothing
  BY DEF Inv
<1> QED
  BY <1>1, InvHolds, PTL

(***************************************************************************)
(* Every path of run_command_via_terminal asks exactly once for the        *)
(* release of the terminal it created, before the call returns.            *)
(***************************************************************************)
THEOREM TerminalsSafe == Spec => [](TypeOK /\ TerminalsReleased)
<1>1. Inv => TypeOK /\ TerminalsReleased
  BY DEF Inv
<1> QED
  BY <1>1, InvHolds, PTL

-----------------------------------------------------------------------------
(* As long as nobody changed the file, a call knows the text of the side   *)
(* it read.                                                                *)
FreshText ==
  \A s \in fresh :
    /\ call[s].name = "edit_file" /\ call[s].pc \in {"asked", "perform", "write"}
         => call[s].original = TextRead
    /\ call[s].pc = "write"
         => client.write /\ call[s].name = "write_file" /\ call[s].original = file.editor

(* No call finds out anything about the file.                              *)
Unread(s) ==
  \/ call'[s] = call[s]
  \/ call'[s].pc \notin {"asked", "perform", "write"}
  \/ call[s].pc = "asked" /\ call'[s] = [call[s] EXCEPT !.pc = "perform"]

LEMMA UnreadKeeps ==
  ASSUME TypeOK, FreshText, UNCHANGED client,
         (file' = file /\ fresh' \subseteq fresh /\ \A s \in Sessions : Unread(s)) \/ fresh' = {}
  PROVE  FreshText'
<1>1. CASE fresh' = {}
  BY <1>1 DEF FreshText
<1>2. ASSUME file' = file, fresh' \subseteq fresh, \A s \in Sessions : Unread(s),
             NEW s \in fresh'
      PROVE  /\ call'[s].name = "edit_file" /\ call'[s].pc \in {"asked", "perform", "write"}
                   => call'[s].original = TextRead'
             /\ call'[s].pc = "write"
                   => client'.write /\ call'[s].name = "write_file" /\ call'[s].original = file'.editor
  <2>1. s \in Sessions /\ s \in fresh /\ call[s] \in CallRecord /\ TextRead' = TextRead
    BY <1>2 DEF TypeOK, TextRead
  <2>2. CASE call[s].pc = "asked" /\ call'[s] = [call[s] EXCEPT !.pc = "perform"]
    <3>1. /\ call'[s].name = call[s].name /\ call'[s].original = call[s].original
          /\ call'[s].pc = "perform"
      BY <2>1, <2>2 DEF CallRecord
    <3> QED
      BY <2>1, <2>2, <3>1 DEF FreshText
  <2> QED
    BY <1>2, <2>1, <2>2 DEF FreshText, Unread
<1> QED
  BY <1>1, <1>2 DEF FreshText

(* A call that returns, or gets on without reading.                        *)
LEMMA ReturnUnread ==
  ASSUME TypeOK, NEW s \in Sessions, Returns(s)
  PROVE  \A r \in Sessions : Unread(r)
  BY DEF TypeOK, Returns, NoCall, Unread

LEMMA MoveUnread ==
  ASSUME TypeOK, NEW s \in Sessions, NEW pc, Moves(s, pc),
         pc \notin {"asked", "perform", "write"} \/ (pc = "perform" /\ call[s].pc = "asked")
  PROVE  \A r \in Sessions : Unread(r)
<1>1. call \in [Sessions -> CallRecord]
  BY DEF TypeOK
<1>2. call' = [call EXCEPT ![s] = [call[s] EXCEPT !.pc = pc]]
  BY DEF Moves
<1>3. call[s] \in [name : Names, pc : PCs, original : Texts \union {NoText}]
  BY <1>1 DEF CallRecord
<1>4. call'[s] = [call[s] EXCEPT !.pc = pc] /\ \A r \in Sessions \ {s} : call'[r] = call[r]
  BY <1>1, <1>2
<1>5. call'[s].pc = pc
  BY <1>3, <1>4
<1> QED
  BY <1>4, <1>5 DEF Unread

LEMMA FreshTextStep == TypeOK /\ FreshText /\ [Next]_vars => FreshText'
<1> SUFFICES ASSUME TypeOK, FreshText, [Next]_vars PROVE FreshText'
  OBVIOUS
<1> DEFINE Same == UNCHANGED client /\ file' = file /\ fresh' \subseteq fresh
<1>1. ASSUME Same, call' = call PROVE FreshText'
  BY <1>1, UnreadKeeps DEF Unread
<1>2. CASE UserEdits \/ ProgramEdits \/ Settle \/ UNCHANGED vars
  BY <1>1, <1>2, UnreadKeeps DEF UserEdits, ProgramEdits, Settle, vars, fileVars
<1>3. ASSUME NEW s \in Sessions, UserStep(s) \/ CommandExits(s) PROVE FreshText'
  <2>1. CASE (\E m \in ClientModes : SetMode(s, m) \/ LoadSession(s, m)) \/ CancelTurn(s)
             \/ DropSession(s) \/ CommandExits(s)
    BY <1>1, <2>1 DEF SetMode, LoadSession, CancelTurn, DropSession, CommandExits, fileVars
  <2>2. ASSUME NEW answer \in {"once", "always", "refuse"}, Answer(s, answer) PROVE FreshText'
    <3>1. Same /\ (Returns(s) \/ (Moves(s, "perform") /\ call[s].pc = "asked"))
      BY <2>2 DEF Answer, fileVars
    <3>2. \A r \in Sessions : Unread(r)
      BY <3>1, ReturnUnread, MoveUnread
    <3> QED
      BY <3>1, <3>2, UnreadKeeps
  <2> QED
    BY <1>3, <2>1, <2>2 DEF UserStep
<1>4. ASSUME NEW s \in Sessions, TurnStep(s) PROVE FreshText'
  <2>1. CASE BeginTurn(s) \/ EndTurn(s) \/ ExitPlanMode(s)
    BY <1>1, <2>1 DEF BeginTurn, EndTurn, ExitPlanMode, fileVars
  <2>2. ASSUME NEW name \in Names, StartCall(s, name) PROVE FreshText'
    <3>1. /\ UNCHANGED client /\ file' = file /\ fresh' \subseteq fresh \union {s}
          /\ call' = [call EXCEPT ![s] = FirstStep(s, name)] /\ TextRead' = TextRead
      BY <2>2 DEF StartCall, TextRead
    <3>2. /\ FirstStep(s, name).pc # "write"
          /\ FirstStep(s, name).name = "edit_file"
               /\ FirstStep(s, name).pc \in {"asked", "perform", "write"}
                 => FirstStep(s, name).original = TextRead
      BY CheckedPasses DEF FirstStep, EditStarts, Call, NoCall
    <3>3. call \in [Sessions -> CallRecord] /\ fresh \subseteq Sessions
      BY DEF TypeOK
    <3> QED
      BY <3>1, <3>2, <3>3 DEF FreshText
  <2>3. CASE ReadOriginal(s)
    <3>1. /\ UNCHANGED client /\ file' = file /\ fresh' = fresh \union {s}
          /\ call' = [call EXCEPT ![s] = Call("edit_file", Checked(s, "edit_file"), TextRead)]
          /\ TextRead' = TextRead
      BY <2>3 DEF ReadOriginal, TextRead
    <3>2. Checked(s, "edit_file") # "write"
      BY CheckedPasses DEF Names
    <3>3. call \in [Sessions -> CallRecord] /\ fresh \subseteq Sessions
      BY DEF TypeOK
    <3> QED
      BY <3>1, <3>2, <3>3 DEF FreshText, Call, NoCall
  <2>4. CASE ReadExisting(s)
    <3>1. /\ UNCHANGED client /\ file' = file /\ fresh' = fresh \union {s} /\ client.write
          /\ call' = [call EXCEPT ![s] = Call("write_file", "write", file.editor)]
          /\ TextRead' = TextRead
      BY <2>4 DEF ReadExisting, TextRead
    <3>2. call \in [Sessions -> CallRecord] /\ fresh \subseteq Sessions
      BY DEF TypeOK
    <3> QED
      BY <3>1, <3>2 DEF FreshText, Call
  <2>5. CASE WriteFile(s) \/ CallFails(s)
    BY <2>5, UnreadKeeps DEF WriteFile, CallFails
  <2>6. CASE Look(s) \/ McpReturns(s) \/ LocalEnds(s)
    <3>1. Same /\ Returns(s)
      BY <2>6 DEF Look, McpReturns, LocalEnds, fileVars
    <3> QED
      BY <3>1, ReturnUnread, UnreadKeeps
  <2>7. CASE RunLocally(s)
    <3>1. Same /\ Moves(s, "local")
      BY <2>7 DEF RunLocally, fileVars
    <3>2. \A r \in Sessions : Unread(r)
      BY <3>1, MoveUnread
    <3> QED
      BY <3>1, <3>2, UnreadKeeps
  <2> QED
    BY <1>4, <2>1, <2>2, <2>3, <2>4, <2>5, <2>6, <2>7 DEF TurnStep
<1>5. ASSUME NEW s \in Sessions, TerminalStep(s) PROVE FreshText'
  <2>1. Same /\ (Returns(s) \/ \E pc \in TerminalPCs : Moves(s, pc))
    BY <1>5 DEF TerminalStep, CreateTerminal, WaitReturns, CancelSeen, WaitFails, TakeOutput,
                KillTerminal, ReleaseTerminal, ReleaseNext, fileVars, TerminalPCs
  <2>2. \A pc \in TerminalPCs : pc \notin {"asked", "perform", "write"}
    BY DEF TerminalPCs
  <2>3. \A r \in Sessions : Unread(r)
    BY <2>1, <2>2, ReturnUnread, MoveUnread
  <2> QED
    BY <2>1, <2>3, UnreadKeeps
<1> QED
  BY <1>2, <1>3, <1>4, <1>5 DEF Next

(***************************************************************************)
(* The diff the client is shown is of the text that was replaced, if       *)
(* nobody changed the file since the call read it (edit_file_tool,         *)
(* write_file_tool).                                                       *)
(***************************************************************************)
THEOREM DiffsExact == Spec => DiffsAreExact
<1>1. Init => FreshText
  BY DEF Init, FreshText
<1>2. Inv => TypeOK
  BY DEF Inv
<1>3. FreshText =>
        [\A s \in Sessions :
           WriteFile(s) /\ s \in fresh /\ OldText(s) # NoText
             => OldText(s) = IF call[s].name = "edit_file" THEN TextRead ELSE Replaced]_vars
  BY DEF FreshText, WriteFile, ReadyToWrite, OldText, Replaced
<1> QED
  BY <1>1, <1>2, <1>3, InvHolds, FreshTextStep, PTL DEF Spec, DiffsAreExact
=============================================================================
