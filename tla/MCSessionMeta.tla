---------------------------- MODULE MCSessionMeta ----------------------------
(* An instance of SessionMeta: two models, one of them gone after a        *)
(* restart, and a prompt whose last text block is not its whole text.      *)
EXTENDS SessionMeta

CONSTANTS s1, t1, t2, r1, m1, m2, d1

MCOffers == {{m1}, {m1, m2}}
MCReplies == (t1 :> 2) @@ (t2 :> 1)
MCPrice == (m1 :> 0) @@ (m2 :> 1)
MCPrompt == (t1 :> [shown |-> "fix it", whole |-> "[file] fix it"]) @@
            (t2 :> [shown |-> NoTitle, whole |-> "[file]"])
==============================================================================
