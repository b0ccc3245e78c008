------------------------------ MODULE MCProxy ------------------------------
(* Two session/new under way or a session/load; the agent answers, uses an *)
(* id of the client's for a request of its own, or writes a long line.     *)
EXTENDS Proxy
CONSTANTS c1, s1, s2

Message(name, method, id, session, result, cells) ==
  [name |-> name, method |-> method, id |-> id, session |-> session,
   result |-> result, cells |-> cells]

New1 == Message("new1", "session/new", "1", NoSid, NoSid, 1)
New2 == Message("new2", "session/new", "2", NoSid, NoSid, 1)
Load == Message("load", "session/load", "1", s2, NoSid, 1)
MCClients == {[sends |-> <<New1, New2>>, closes |-> FALSE],
              [sends |-> <<Load>>, closes |-> TRUE]}

Answer1 == Message("answer1", "answer", "1", NoSid, s1, 1)
Answer2 == Message("answer2", "answer", "2", NoSid, s2, 1)
Ask == Message("ask", "request", "1", s2, NoSid, 1)
Note == Message("note", "update", NoId, s1, NoSid, 2)
MCAgentMsgs == {Answer1, Ask, Note}

MCComplaint == Message("complaint", "none", NoId, NoSid, NoSid, 1)
Exited(n) == [code |-> n, signal |-> 0]
MCStatuses == {Exited(0), [code |-> 0, signal |-> 9]}
=============================================================================
