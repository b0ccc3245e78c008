--------------------------- MODULE ConnectionLog ---------------------------
(***************************************************************************)
(* Handles of the transcript sink: each connection has a file of its own   *)
(* and may be bound to a session, whose file its records then go to.       *)
(***************************************************************************)
EXTENDS Naturals, SequencesExt, FiniteSetsExt

CONSTANTS
  Conns,      \* connection ids, each with a file of its own
  Sids,       \* session ids that are safe path components
  BadSids,    \* ids that validate_id rejects
  NoSid       \* no session id

Dests == Conns \union Sids
AnySid == Sids \union BadSids \union {NoSid}

ASSUME HandleAssumption ==
  /\ Conns \intersect AnySid = {}
  /\ Sids \intersect (BadSids \union {NoSid}) = {} /\ NoSid \notin BadSids

VARIABLE bound   \* ConnectionLog.session_id, shared by the clones of a handle

(* A record goes to its own session when it names a usable one, else, when *)
(* it names none, to the session the connection is bound to.               *)
Route(c, sid) ==
  IF sid \in Sids THEN sid
  ELSE IF sid = NoSid /\ bound[c] # NoSid THEN bound[c] ELSE c

(* A record that inherits the binding is given its id. *)
Stamped(c, sid) == IF sid = NoSid THEN bound[c] ELSE sid

Bind(c, s) == bound' = [bound EXCEPT ![c] = s]
=============================================================================
