----------------------------- MODULE MCSession -----------------------------
(***************************************************************************)
(* What is typed in the sessions that are checked.                         *)
(***************************************************************************)
EXTENDS Session

Keypads == {{"a", "CR", "ESC", "[", "A"}, {"CR", "ESC", "[", "3", "~"},
            {"a", " ", "CR", "DEL", "^W"}, {"a", "CR", "^A", "^D", "^U"},
            {"a", "ESC", "O", "D", "^C"}}

Word(w) == [op |-> "", word |-> w]
Op(o)   == [op |-> o, word |-> ""]
\* A pipeline that ends early, stages that are not installed, redirections in the way
\* of a pipe, and a line that does not parse.
Typed == {<<<<Word("yes")>>, <<Word("cat")>>, <<Word("head")>>>>,
          <<<<Word("none")>>, <<Word("cat"), Op(">"), Op("<"), Word("f")>>>>,
          <<<<Word("yes")>>, <<Word("none")>>>>,
          <<<<Word("yes")>>, <<Word("cat"), Op("<"), Word("f")>>>>,
          <<<<Word("cat"), [op |-> "<", word |-> "f"]>>, <<Word("head")>>>>,
          <<<<Word("cat"), [op |-> ">", word |-> "f"]>>, <<Word("cat")>>, <<Word("none")>>>>,
          <<<<Word("cat")>>, <<>>>>}
Path     == <<"usr", "bin">>
Commands == {<<"bin", "cat">>, <<"usr", "yes">>, <<"bin", "yes">>, <<"bin", "head">>}
Folders  == {[abs |-> FALSE, segs |-> <<"..", ".">>], [abs |-> TRUE, segs |-> <<"tmp">>]}
=============================================================================
