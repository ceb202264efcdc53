----------------------------- MODULE MCDesktop -----------------------------
(***************************************************************************)
(* The desktop and the programs on it, checked one at a time, with the     *)
(* Lisp console for one more.                                              *)
(***************************************************************************)
EXTENDS Programs

LastSession == {{}, {[app |-> "paint", geom |-> "saved"]}}   \* Saved

Tier == {5, 6, 7}
Objects == INSTANCE Wasmobj WITH Tiers <- Tier
\* What nano and the editor are started on: f.wasm.
Stored == {Objects!Missing, Objects!Plain(<<"y", "LF">>), Objects!Executable,
           Objects!WriteInPlace(Objects!Mint(6), <<"y">>)}
Folders == {<<>>, <<"d">>}
Leaves  == {<<"a">>, <<"d", "b">>}
Listed  == <<"a", "b", "d">>
\* The lengths on both sides of every buffer a reply goes through.
Messages == {1, 16378, 16379, 65530, 65531}
Pages    == {100, 61434, 61435, 70000}
ProcTables == {[count |-> n, entry |-> 31] : n \in {1, 528, 529, 2115}}
Ordinary == <<"aa", "b", "c">>
Decimal  == <<"1", "2", "3">>
Spelled  == {"self", "mounts", "version", "status", "stat", "cmdline", "null", "zero", "full",
             "random", "urandom", "tty", "aa", "b", "c", "1", "2", "3"}
Lengths  == [n \in Spelled |-> Len(n)]

VARIABLES input, cursor, past, histPos, machine, outer     \* Lisp
lispVars  == <<input, cursor, past, histPos, machine, outer>>
vars == <<programVars, lispVars>>

\* A recursion without end, a procedure that displays and has a name of its own, a line
\* that fails after it has displayed, and pieces that make them read or not.
Typed == {
  <<"(", "define", "(", "f", ")", "(", "f", ")", ")">>, <<"(", "f", ")">>,
  <<"(", "define", "(", "g", "x", ")", "(", "display", "x", ")", "(", "define", "y", "2", ")", "x", ")">>,
  <<"(", "g", "1", ")">>, <<"(", "apply", "g", "(", "list", "2", ")", ")">>,
  <<"(", "cond", "(", "(", "list", ")", "(", "display", "1", ")", "(", "car", "1", ")", ")", ")">>,
  <<"(", "let*", "(", "(", "x", "1", ")", "(", "y", "(", "list", "x", ")", ")", ")",
         "(", "or", "(", "set!", "y", "x", ")", "y", ")", ")">>,
  <<"(", "(", "if", "#f", "1", "(", "lambda", "z", "z", ")", ")", "2", ")">>,
  <<"(", "apply", "(", "list", ")", ")">>, <<"'">>, <<"(">>, <<")">>}
Scheme == INSTANCE Lisp WITH
  Phrases <- Typed, Numbers <- [t \in {"1", "2"} |-> IF t = "1" THEN 1 ELSE 2],
  MaxDepth <- 4, MaxInput <- 2, MaxLines <- 2

LispOff  == /\ input = Off /\ cursor = Off /\ past = Off /\ histPos = Off
            /\ machine = Off /\ outer = Off

Init == \/ ProgramsInit /\ LispOff
        \/ DeskInit /\ file = {} /\ AllOff /\ which = "lisp" /\ Scheme!LispInit
Next == \/ ProgramsNext /\ UNCHANGED lispVars
        \/ which = "lisp" /\ Scheme!LispNext /\ UNCHANGED programVars
Spec == Init /\ [][Next]_vars
----------------------------------------------------------------------------
\* Whatever a line does or fails to do, the next one starts at depth zero and finds no
\* name bound that was not defined outside of every call; a line reads as it is written,
\* and is edited as a text and a place in it (TextBuffer).
LinesApart == /\ [](which = "lisp" => Scheme!LinesApart)
              /\ [][which = "lisp" => Scheme!EditsText]_vars
=============================================================================
