--------------------------- MODULE MCReplyStream ---------------------------
(* Constant values for model checking ReplyStream. *)
EXTENDS ReplyStream, TLC

Piece(thought, text, deltas, finish, usage) ==
  [thought |-> thought, text |-> text, deltas |-> deltas, finish |-> finish, usage |-> usage]

MCPrice == ("u0" :> 0) @@ ("u1" :> 2) @@ ("u2" :> 5)
MCWindowless == {"u0"}

(* A plain answer, the usage reported twice. *)
Plain == << Piece(<<"t">>, <<"a">>, <<>>, <<>>, <<"u1">>),
            Piece(<<>>, <<"b">>, <<>>, <<"stop">>, <<"u2">>) >>
(* Two calls, their arguments interleaved; the second gets another id.     *)
TwoCalls == << Piece(<<>>, <<>>, <<Delta(0, "c1", "f", "x"), Delta(1, "c2", "g", NoField)>>, <<>>, <<>>),
               Piece(<<>>, <<>>, <<Delta(0, NoField, NoField, "y")>>, <<>>, <<>>),
               Piece(<<>>, <<>>, <<Delta(1, "c3", NoField, "z")>>, <<"tool_calls">>, <<"u1">>) >>
(* Cut off: no finish reason. *)
CutOff == << Piece(<<>>, <<"a">>, <<>>, <<>>, <<>>) >>
(* A call whose name never comes. *)
NoName == << Piece(<<>>, <<>>, <<Delta(0, "c1", NoField, "x")>>, <<"tool_calls">>, <<>>) >>
(* By a model whose context window is not known. *)
Unknown == << Piece(<<>>, <<"a">>, <<>>, <<"stop">>, <<"u0">>) >>

MCAnswers == {Plain, TwoCalls, CutOff, NoName, Unknown}
=============================================================================
