---------------------------- MODULE MCServeLog ----------------------------
(* One connection; s0 is a session of an earlier process, its log is left. *)
EXTENDS ServeLog
CONSTANTS c1, s0, s1
MCLeftover == <<s0>>
=============================================================================
