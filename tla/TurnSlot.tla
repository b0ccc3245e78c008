------------------------------ MODULE TurnSlot ------------------------------
(***************************************************************************)
(* What the adapter promises about prompt turns: a session has one slot    *)
(* for an active turn.  A turn takes the slot only while it is free, and   *)
(* the slot is given back by the turn that holds it, so that two turns     *)
(* never work on one session.  The promise is suspended for a session      *)
(* whose record was dropped or replaced under a running turn (displaced),  *)
(* until the record is replaced again while no turn is left on it.         *)
(***************************************************************************)

CONSTANTS
  Sessions,   \* session ids
  Turns,      \* prompt turns
  NoTurn,     \* the slot is free
  NoSession   \* the turn is not running

(* What the values have to satisfy. *)
Distinct == NoTurn \notin Turns /\ NoSession \notin Sessions

VARIABLES
  holder,     \* holder[s]: the turn in the slot of s, or NoTurn
  running,    \* running[t]: the session t works on, or NoSession
  displaced   \* the sessions the promise is suspended for

slotVars == <<holder, running, displaced>>

Init ==
  /\ holder = [s \in Sessions |-> NoTurn]
  /\ running = [t \in Turns |-> NoSession]
  /\ displaced = {}

(* A turn begins: only in a free slot. *)
Take(s, t) ==
  /\ holder[s] = NoTurn /\ running[t] = NoSession
  /\ holder' = [holder EXCEPT ![s] = t]
  /\ running' = [running EXCEPT ![t] = s]
  /\ UNCHANGED displaced

(* A turn ends and frees the slot, which is its own unless displaced. *)
Release(s, t) ==
  /\ running[t] = s
  /\ s \in displaced \/ holder[s] = t
  /\ holder' = [holder EXCEPT ![s] = NoTurn]
  /\ running' = [running EXCEPT ![t] = NoSession]
  /\ UNCHANGED displaced

(* The record goes or is replaced while a turn still runs on it. *)
Displace(s) ==
  /\ \E t \in Turns : running[t] = s
  /\ holder' = [holder EXCEPT ![s] = NoTurn]
  /\ displaced' = displaced \union {s}
  /\ UNCHANGED running

(* The record is replaced with no turn left on it. *)
Heal(s) ==
  /\ \A t \in Turns : running[t] # s
  /\ holder' = [holder EXCEPT ![s] = NoTurn]
  /\ displaced' = displaced \ {s}
  /\ UNCHANGED running

(* The process dies and with it every turn and every slot. *)
Restart ==
  /\ holder' = [s \in Sessions |-> NoTurn]
  /\ running' = [t \in Turns |-> NoSession]
  /\ displaced' = {}

Next ==
  \/ \E s \in Sessions, t \in Turns : Take(s, t) \/ Release(s, t)
  \/ \E s \in Sessions : Displace(s) \/ Heal(s)
  \/ Restart

Spec == Init /\ [][Next]_slotVars

(* Every variable keeps its type. *)
TypeOK ==
  /\ holder \in [Sessions -> Turns \union {NoTurn}]
  /\ running \in [Turns -> Sessions \union {NoSession}]
  /\ displaced \in SUBSET Sessions

(* A running turn holds the slot of its session, unless displaced. *)
HoldsSlot ==
  \A t \in Turns : LET s == running[t] IN
    s # NoSession /\ s \notin displaced => holder[s] = t

(* Two turns never work on one session, unless its record was dropped or   *)
(* replaced under a turn (begin_turn refuses a second turn).               *)
Exclusive ==
  \A t1, t2 \in Turns :
    /\ running[t1] = running[t2]
    /\ running[t1] \notin displaced \union {NoSession}
    => t1 = t2
=============================================================================
