----------------------------- MODULE MCToolCalls -----------------------------
(* Clients that serve files both ways, or one way.                         *)
EXTENDS ToolCalls

Client(read, write, terminal) == [read |-> read, write |-> write, terminal |-> terminal]

MCClients == {Client(TRUE, TRUE, TRUE), Client(TRUE, FALSE, FALSE), Client(FALSE, TRUE, FALSE)}
=============================================================================
