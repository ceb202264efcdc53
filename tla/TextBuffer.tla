---------------------------- MODULE TextBuffer ----------------------------
(***************************************************************************)
(* What an editor's buffer promises: a text and a place in it.  A key puts *)
(* a character there, takes one away on either side, cuts the line there,  *)
(* or moves the place by a character or by lines; nothing else ever        *)
(* happens to the text.                                                    *)
(***************************************************************************)
EXTENDS Naturals, Sequences, FiniteSets

CONSTANTS
  Chars,      \* the characters that can be typed
  LineBreak,
  Page        \* how many lines a key can move by

VARIABLES text, at

Init == text \in Seq(Chars \cup {LineBreak}) /\ at = 0

Without(i, j) == text' = SubSeq(text, 1, i) \o SubSeq(text, j + 1, Len(text))
Breaks(i, j)  == Cardinality({k \in (i + 1)..j : text[k] = LineBreak})

Type(c) == /\ text' = SubSeq(text, 1, at) \o <<c>> \o SubSeq(text, at + 1, Len(text))
           /\ at' = at + 1
Rub  == at > 0 /\ Without(at - 1, at) /\ at' = at - 1
Zap  == at < Len(text) /\ Without(at, at + 1) /\ at' = at
Step == at' \in {at - 1, at + 1} /\ UNCHANGED text
Jump == /\ at' \in 0..Len(text) /\ UNCHANGED text
        /\ Breaks(at, at') <= Page /\ Breaks(at', at) <= Page
\* The line of the place goes, with the break after it, or the last line with the
\* break before it; the place is then at the start of a line.
Starts(t, i) == i = 0 \/ t[i] = LineBreak
Cut  == \E i \in 0..at, j \in at..Len(text) :
          /\ Without(i, j)
          /\ \/ /\ Starts(text, i) /\ Breaks(i, at) = 0
                /\ \/ Breaks(i, j) = 1 /\ text[j] = LineBreak
                   \/ Breaks(i, j) = 0 /\ j = Len(text)
             \/ i < at /\ text[i + 1] = LineBreak /\ Breaks(i, j) = 1 /\ j = Len(text)
          /\ at' \in 0..Len(text') /\ Starts(text', at')

Next == \/ \E c \in Chars \cup {LineBreak} : Type(c)
        \/ Rub \/ Zap \/ Step \/ Jump \/ Cut

EditStep == UNCHANGED <<text, at>> \/ Next
Spec == Init /\ [][EditStep]_<<text, at>>
=============================================================================
