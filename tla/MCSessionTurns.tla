--------------------------- MODULE MCSessionTurns ---------------------------
(* Constant values for model checking SessionTurns. *)
EXTENDS SessionTurns

Reply(calls, finish) == [calls |-> calls, finish |-> finish]

(* An answer, and two calls, the first of which leaves Plan mode (and is a *)
(* plain one outside it): the client may choose a mode before the second.  *)
MCReplies == {Reply(<<>>, "stop"),
              Reply(<<"exit_plan_mode", "other">>, "tool_calls")}

Symmetry == Permutations(Turns)
=============================================================================
