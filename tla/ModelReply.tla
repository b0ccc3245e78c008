----------------------------- MODULE ModelReply -----------------------------
(***************************************************************************)
(* What a turn may count on when it asks the model: exactly one outcome.   *)
(* Either one whole answer of the provider, or an error, or, once the turn *)
(* was cancelled, nothing but an error or the end of it.  The answer need  *)
(* not be whole when the transport lost or repeated a part of it without   *)
(* an error (spoiled): nothing above the SSE client can tell.              *)
(***************************************************************************)

CONSTANTS
  Whole,    \* the replies that are whole answers of the provider
  NoReply   \* no reply yet

VARIABLES outcome, reply, stopped, spoiled

replyVars == <<outcome, reply, stopped, spoiled>>

Init ==
  /\ outcome = "pending" /\ reply = NoReply
  /\ stopped = FALSE /\ spoiled = FALSE

Stop == stopped' = TRUE /\ UNCHANGED <<outcome, reply, spoiled>>

Spoil == spoiled' = TRUE /\ UNCHANGED <<outcome, reply, stopped>>

Deliver ==
  /\ outcome = "pending" /\ ~stopped
  /\ reply' \in Whole \/ spoiled
  /\ outcome' = "reply"
  /\ UNCHANGED <<stopped, spoiled>>

GiveUp ==
  /\ outcome = "pending" /\ stopped
  /\ outcome' = "cancelled"
  /\ UNCHANGED <<reply, stopped, spoiled>>

Fail ==
  /\ outcome = "pending"
  /\ outcome' = "failed"
  /\ UNCHANGED <<reply, stopped, spoiled>>

Next == Stop \/ Spoil \/ Deliver \/ GiveUp \/ Fail

Spec == Init /\ [][Next]_replyVars
=============================================================================
