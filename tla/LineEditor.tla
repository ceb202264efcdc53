----------------------------- MODULE LineEditor -----------------------------
(***************************************************************************)
(* The line discipline of the terminal window (host/src/term/terminal.ts): *)
(* what becomes of the characters xterm hands over, in chunks it cuts as   *)
(* it likes.  Raw, they are passed on; cooked, they edit a line that is    *)
(* sent when Enter comes.  Drawing is left out: redrawLine shows the line  *)
(* and cursor it is given.                                                 *)
(***************************************************************************)
EXTENDS Naturals, Sequences, FiniteSetsExt

CONSTANTS
  Keyboards,  \* sets of the characters that are typed in one session
  Printable,  \* those of them an edited line can hold
  MaxChunk,   \* the longest chunk xterm hands over
  MaxKeys,    \* how many characters are typed between two resets
  MaxHistory  \* how many lines the history holds when the last reset comes

VARIABLES
  keys,  \* the characters of this session
  ed,    \* the editor
  raw,   \* rawMode
  sent,  \* what control.terminalInput was last given
  base,  \* the editor when the discipline was last reset
  since  \* the characters typed since

editorVars == <<keys, ed, raw, sent, base, since>>

Blank == " "

\* hidx counts from 1, and 0 is the code's -1: no history line is shown.
Empty(history) == [line |-> <<>>, cursor |-> 0, history |-> history, hidx |-> 0,
                   draft |-> <<>>, pending |-> <<>>]

Last(s) == s[Len(s)]
Redraw(e, line, cursor) == [e EXCEPT !.line = line, !.cursor = cursor]
LeaveHistory(e) == IF e.hidx = 0 THEN e ELSE [e EXCEPT !.hidx = 0, !.draft = <<>>]
Without(s, from, to) == SubSeq(s, 1, from) \o SubSeq(s, to + 1, Len(s))

ClearLine(e) == Redraw([e EXCEPT !.hidx = 0, !.draft = <<>>], <<>>, 0)

InsertText(e, text) ==
  Redraw(LeaveHistory(e),
         SubSeq(e.line, 1, e.cursor) \o text \o SubSeq(e.line, e.cursor + 1, Len(e.line)),
         e.cursor + Len(text))

DeletePrevious(e) ==
  IF e.cursor = 0 THEN e
  ELSE Redraw(LeaveHistory(e), Without(e.line, e.cursor - 1, e.cursor), e.cursor - 1)

DeleteAtCursor(e) ==
  IF e.cursor >= Len(e.line) THEN e
  ELSE Redraw(LeaveHistory(e), Without(e.line, e.cursor, e.cursor + 1), e.cursor)

\* The blanks before the cursor, then the word before them.
WordStart(e) ==
  LET blank(i) == e.line[i] = Blank
      word == Max({0} \cup {i \in 1..e.cursor : ~blank(i)})
  IN  Max({0} \cup {i \in 1..word : blank(i)})
DeleteWord(e) ==
  IF e.cursor = 0 THEN e
  ELSE Redraw(LeaveHistory(e), Without(e.line, WordStart(e), e.cursor), WordStart(e))

Recall(e, i) == [Redraw(e, e.history[i], Len(e.history[i])) EXCEPT !.hidx = i]
\* A bug: the draft is taken again at every step up.
HistoryUp_Redrafts(e) ==
  IF e.history = <<>> THEN e
  ELSE Recall([e EXCEPT !.draft = e.line],
              IF e.hidx = 0 THEN Len(e.history) ELSE Max({1, e.hidx - 1}))
HistoryUp(e) ==
  IF e.history = <<>> THEN e
  ELSE IF e.hidx = 0 THEN Recall([e EXCEPT !.draft = e.line], Len(e.history))
  ELSE Recall(e, Max({1, e.hidx - 1}))

HistoryDown(e) ==
  IF e.hidx = 0 THEN e
  ELSE IF e.hidx < Len(e.history) THEN Recall(e, e.hidx + 1)
  ELSE [Redraw(e, e.draft, Len(e.draft)) EXCEPT !.hidx = 0, !.draft = <<>>]

SubmitLine(e) ==
  Empty(IF e.line = <<>> \/ (e.history # <<>> /\ Last(e.history) = e.line)
        THEN e.history ELSE Append(e.history, e.line))

Home(e)  == Redraw(e, e.line, 0)
End(e)   == Redraw(e, e.line, Len(e.line))
Right(e) == Redraw(e, e.line, Min({e.cursor + 1, Len(e.line)}))
Left(e)  == Redraw(e, e.line, Max({e.cursor, 1}) - 1)

\* A complete sequence: ESC [ body final, or ESC O final.
EscapeSequence(e, s) ==
  LET final == Last(s)
      body  == SubSeq(s, 3, Len(s) - 1)
      csi   == s[2] = "["
      tilde(digits) == csi /\ final = "~" /\ body \in {<<k>> : k \in digits}
  IN  CASE final = "A" \/ tilde({"5"}) -> HistoryUp(e)
        [] final = "B" \/ tilde({"6"}) -> HistoryDown(e)
        [] final = "C" -> Right(e)
        [] final = "D" -> Left(e)
        [] final = "H" \/ tilde({"1", "7"}) -> Home(e)
        [] final = "F" \/ tilde({"4", "8"}) -> End(e)
        [] tilde({"3"}) -> DeleteAtCursor(e)
        [] OTHER -> e

Control(e, ch) ==
  CASE ch = "CR" -> SubmitLine(e)
    [] ch = "DEL" -> DeletePrevious(e)
    [] ch = "^A" -> Home(e)
    [] ch = "^E" -> End(e)
    [] ch \in {"^U", "^C"} -> ClearLine(e)
    [] ch = "^W" -> DeleteWord(e)
    [] ch = "^D" -> DeleteAtCursor(e)
    [] ch = "TAB" -> InsertText(e, <<Blank, Blank, Blank, Blank>>)
    [] ch \in Printable -> InsertText(e, <<ch>>)
    [] OTHER -> e

\* What a character gives the kernel: Enter a line, ^C an empty one.
Sends(e, ch) ==
  CASE ch = "CR" -> <<Append(e.line, "LF")>>
    [] ch = "^C" -> <<<<"LF">>>>
    [] OTHER -> <<>>

\* The characters 0x40 to 0x7e end a control sequence.
Final == {"a", "[", "O", "~"} \cup {"A", "B", "C", "D", "F", "H"}

\* One turn of the loop: the editor, what it sends, and the characters left.
OneKey(e, cs) ==
  LET ends == {i \in 3..Len(cs) : cs[i] \in Final}
      done(f, n, lines) == [ed |-> f, lines |-> lines, rest |-> SubSeq(cs, n + 1, Len(cs))]
      wait == [ed |-> [e EXCEPT !.pending = cs], lines |-> <<>>, rest |-> <<>>]
  IN  IF Head(cs) # "ESC" THEN done(Control(e, Head(cs)), 1, Sends(e, Head(cs)))
      ELSE IF Len(cs) = 1 THEN wait
      ELSE IF cs[2] \notin {"[", "O"} THEN done(e, 2, <<>>)
      ELSE IF ends = {} THEN wait
      ELSE done(EscapeSequence(e, SubSeq(cs, 1, Min(ends))), Min(ends), <<>>)

Turn(k) == IF k.rest = <<>> THEN k
           ELSE LET o == OneKey(k.ed, k.rest)
                IN  [ed |-> o.ed, lines |-> k.lines \o o.lines, rest |-> o.rest]
\* The loop runs until no character is left: every turn takes one or more.
Turns(k) == LET after[n \in Nat] == IF n = 0 THEN k ELSE Turn(after[n - 1]) IN after
Loop(e, cs) == Turns([ed |-> e, lines |-> <<>>, rest |-> cs])[Len(cs)]
Begun(e) == [e EXCEPT !.pending = <<>>]
\* A bug: a sequence cut in two is forgotten.
CookedInput_Forgets(e, data) == Loop(Begun(e), data)
CookedInput(e, data) == Loop(Begun(e), e.pending \o data)

EditorInit == /\ keys \in Keyboards
              /\ ed = Empty(<<>>) /\ base = ed /\ since = <<>>
              /\ raw = FALSE /\ sent = <<>>

OnData(data) ==
  /\ Len(since) + Len(data) <= MaxKeys
  /\ since' = since \o data
  /\ IF raw THEN sent' = <<data>> /\ UNCHANGED ed
     ELSE LET done == CookedInput(ed, data) IN ed' = done.ed /\ sent' = done.lines
  /\ UNCHANGED <<keys, raw, base>>

\* Mode changes and a new shell reset the line and keep the history.
Reset(mode) == /\ ed' = Empty(ed.history) /\ base' = ed' /\ since' = <<>>
               /\ raw' = mode /\ sent' = <<>> /\ UNCHANGED keys
MayReset == Len(since) > 0 /\ Len(ed.history) <= MaxHistory
OnTermMode == MayReset /\ \E mode \in BOOLEAN : Reset(mode)
SetShell == MayReset /\ Reset(raw)

Chunks == UNION {[1..n -> keys] : n \in 1..MaxChunk}
EditorNext == (\E data \in Chunks : OnData(data)) \/ OnTermMode \/ SetShell
----------------------------------------------------------------------------
\* However xterm cuts what is typed, the line, the cursor, the history and the
\* sequence left open are those of the same characters in one chunk.
ChunkingInvisible ==
  raw \/ ed = CookedInput(base, since).ed

\* A walk up through the history and back down, of any length, returns to the
\* line that was being typed.
DraftReturns ==
  ed.hidx = 0 =>
    \A n \in 1..(Len(ed.history) + 1) :
      LET up[i \in 0..n]   == IF i = 0 THEN ed ELSE HistoryUp(up[i - 1])
          down[i \in 0..n] == IF i = 0 THEN up[n] ELSE HistoryDown(down[i - 1])
      IN  \E i \in 0..n : down[i].line = ed.line /\ down[i].hidx = 0

\* While a history line is shown it is the line that Enter would send, and the
\* cursor is never outside of it.
ShowsHistory == /\ ed.hidx > 0 => ed.line = ed.history[ed.hidx]
                /\ ed.cursor \in 0..Len(ed.line)
HistoryKeepsDraft == DraftReturns /\ ShowsHistory
=============================================================================
