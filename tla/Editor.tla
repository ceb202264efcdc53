------------------------------- MODULE Editor -------------------------------
(***************************************************************************)
(* The graphical editor (crates/apps/editor): it takes whatever input has  *)
(* queued, applies every key of it, and only then scrolls and presents a   *)
(* frame.                                                                  *)
(***************************************************************************)
EXTENDS Wasmobj

CONSTANTS
  Letters,   \* the printable characters that are typed
  IsWasm,    \* the file's name ends in .wasm
  Files,     \* what it may hold when it is opened
  Visible,   \* rows of text in the window
  MaxText    \* the longest buffer, breaks included

VARIABLES
  ed,      \* lines, row, col, scroll, modified
  object,  \* Editor.obj
  file,    \* what the store holds
  told,    \* whether the last save failed, "" before any
  drawn    \* nothing happened since the last frame

editorVars == <<ed, object, file, told, drawn>>

Unprintable == {"?"}
Displayed(line) ==
  LET upTo[n \in 0..Len(line)] ==
        IF n = 0 THEN <<>>
        ELSE IF line[n] \in Unprintable THEN upTo[n - 1] ELSE Append(upTo[n - 1], line[n])
  IN  upTo[Len(line)]
\* Editor::load keeps the printable characters of each line.
ToLines(text) == LET parts == Split(text) IN [i \in DOMAIN parts |-> Displayed(parts[i])]

EdInit ==
  /\ file \in Files
  /\ LET d == LoadEditable(file, IsWasm)
     IN  /\ ed = [lines |-> ToLines(d.content), row |-> 1, col |-> 0, scroll |-> 0,
                  modified |-> FALSE]
         /\ object = d.object
  /\ told = "" /\ drawn = TRUE

\* Rows are counted from 1 here, the scroll and the column from 0.
Line     == ed.lines[ed.row]
LastRow  == Len(ed.lines)
Changed(lines, row, col) ==
  [ed EXCEPT !.lines = lines, !.row = row, !.col = col, !.modified = TRUE]
At(row, col) == [ed EXCEPT !.row = row, !.col = col]
Replaced(i, n, new) == SubSeq(ed.lines, 1, i - 1) \o new \o SubSeq(ed.lines, i + n, LastRow)
InLine(line) == [ed.lines EXCEPT ![ed.row] = line]

Insert(c) ==
  LET place == Min({ed.col, Len(Line)})
  IN  Changed(InLine(InsertAt(Line, place + 1, c)), ed.row, place + 1)
Newline ==
  LET place == Min({ed.col, Len(Line)})
  IN  Changed(Replaced(ed.row, 1, <<SubSeq(Line, 1, place), SubSeq(Line, place + 1, Len(Line))>>),
              ed.row + 1, 0)
\* modified is set even at the start of the buffer.
Backspace ==
  IF ed.col > 0 THEN Changed(InLine(RemoveAt(Line, ed.col)), ed.row, ed.col - 1)
  ELSE IF ed.row > 1
  THEN LET above == ed.lines[ed.row - 1]
       IN  Changed(Replaced(ed.row - 1, 2, <<above \o Line>>), ed.row - 1, Len(above))
  ELSE Changed(ed.lines, ed.row, ed.col)
DeleteForward ==
  IF ed.col < Len(Line) THEN Changed(InLine(RemoveAt(Line, ed.col + 1)), ed.row, ed.col)
  ELSE IF ed.row < LastRow
  THEN Changed(Replaced(ed.row, 2, <<Line \o ed.lines[ed.row + 1]>>), ed.row, ed.col)
  ELSE ed

ToRow(row) == At(row, Min({ed.col, Len(ed.lines[row])}))
MoveCursor(key) ==
  CASE key = "Left"  /\ ed.col > 0         -> At(ed.row, ed.col - 1)
    [] key = "Left"  /\ ed.col = 0 /\ ed.row > 1 -> At(ed.row - 1, Len(ed.lines[ed.row - 1]))
    [] key = "Right" /\ ed.col < Len(Line) -> At(ed.row, ed.col + 1)
    [] key = "Right" /\ ed.col = Len(Line) /\ ed.row < LastRow -> At(ed.row + 1, 0)
    [] key = "Up"    /\ ed.row > 1         -> ToRow(ed.row - 1)
    [] key = "Down"  /\ ed.row < LastRow   -> ToRow(ed.row + 1)
    [] OTHER -> ed

KeyDown(key) ==
  CASE key = "Enter"     -> Newline
    [] key = "Backspace" -> Backspace
    [] key = "Delete"    -> DeleteForward
    [] key = "Home"      -> At(ed.row, 0)
    [] key = "End"       -> At(ed.row, Len(Line))
    [] key \in Letters   -> Insert(key)
    [] OTHER             -> MoveCursor(key)
Keys == Letters \cup {"Enter", "Backspace", "Delete", "Home", "End", "Left", "Right", "Up", "Down"}

\* One event of the batch.  Tab is four of Insert.
Event(key) == /\ ed' = KeyDown(key)
              /\ Len(Join(ed'.lines)) <= MaxText
              /\ drawn' = FALSE /\ UNCHANGED <<object, file, told>>

\* Ctrl+S: the failure is not shown, only the mark stays.
Save_ ==
  /\ \E o \in SaveEditable(file, object, Join(ed.lines)) :
       /\ file' = o.file /\ object' = o.object
       /\ ed' = [ed EXCEPT !.modified = @ /\ ~o.ok]
       /\ told' = IF o.ok THEN "written" ELSE "failed"
  /\ drawn' = FALSE

\* The batch is done: keep_cursor_visible, and a frame.
Draw == LET row == ed.row - 1
        IN  /\ ed' = [ed EXCEPT !.scroll = IF row < @ THEN row
                                           ELSE IF row >= @ + Visible THEN row + 1 - Visible ELSE @]
            /\ drawn' = TRUE /\ UNCHANGED <<object, file, told>>

EdNext == (\E key \in Keys : Event(key)) \/ Save_ \/ Draw
----------------------------------------------------------------------------
\* A buffer whose title shows no star is what the file opens as, while no save
\* has failed.
CleanIsOnDisk ==
  ed.modified \/ told = "failed" \/ ToLines(LoadEditable(file, IsWasm).content) = ed.lines

\* In every frame the caret is in a line of the buffer and in the window.
CaretShown ==
  drawn => /\ ed.row \in DOMAIN ed.lines /\ ed.col \in 0..Len(Line)
           /\ ed.row - 1 \in ed.scroll..(ed.scroll + Visible - 1)

\* The lines, the row and the column are one text and a place in it, and every step
\* is one of TextBuffer's, or leaves both alone.
Offset == Len(Join(SubSeq(ed.lines, 1, ed.row))) - Len(Line) + ed.col
B == INSTANCE TextBuffer WITH Chars <- Letters, LineBreak <- LF, Page <- 1,
                              text <- Join(ed.lines), at <- Offset
EditsText == B!EditStep
=============================================================================
