-------------------------------- MODULE Nano --------------------------------
(***************************************************************************)
(* The terminal editor (crates/apps/nano): keys decoded from the bytes the *)
(* terminal sends, a buffer of lines, a window on it, and a file that may  *)
(* fail to be written.  Wording and drawing are left out.                  *)
(***************************************************************************)
EXTENDS Wasmobj

CONSTANTS
  Letters,   \* the characters that are typed
  IsWasm,    \* the file's name ends in .wasm
  Files,     \* what it may hold when it is opened
  TextRows,  \* rows of text on the screen
  Cols,      \* columns of it
  MaxText    \* the longest buffer, breaks included

VARIABLES
  buf,     \* lines, cx, cy, rowOff, colOff, modified
  object,  \* Editor.obj
  file,    \* what the store holds
  mode,    \* "edit", "prompt" (exit_confirmed) or "quit"
  told     \* whether the last write failed, "" before any

nanoVars == <<buf, object, file, mode, told>>

\* Editor::new: a text that ends in a line break has no empty line after it.
FromText(text) ==
  LET parts == Split(text)
  IN  IF Len(parts) > 1 /\ parts[Len(parts)] = <<>> THEN SubSeq(parts, 1, Len(parts) - 1)
      ELSE parts
ToText(lines) == Append(Join(lines), LF)

NanoInit ==
  /\ file \in Files
  /\ LET d == LoadEditable(file, IsWasm)
     IN  /\ buf = [lines |-> FromText(d.content), cx |-> 0, cy |-> 1,
                   rowOff |-> 0, colOff |-> 0, modified |-> FALSE]
         /\ object = d.object
  /\ mode = "edit" /\ told = ""
----------------------------------------------------------------------------
\* Lines are counted from 1 here, and cx, the place in a line, from 0.
Line(b)   == b.lines[b.cy]
CurLen(b) == Len(Line(b))
LastLine(b) == Len(b.lines)

Edited(b, lines, cx, cy) ==
  [b EXCEPT !.lines = lines, !.cx = cx, !.cy = cy, !.modified = TRUE]
Moved(b, cx, cy) == [b EXCEPT !.cx = cx, !.cy = cy]

Scroll(b) ==
  LET row == b.cy - 1
  IN  [b EXCEPT
        !.rowOff = IF row < @ THEN row ELSE IF row >= @ + TextRows THEN row + 1 - TextRows ELSE @,
        !.colOff = IF b.cx < @ THEN b.cx ELSE IF b.cx >= @ + Cols THEN b.cx + 1 - Cols ELSE @]

MoveLeft(b) == IF b.cx > 0 THEN Moved(b, b.cx - 1, b.cy)
               ELSE IF b.cy > 1 THEN Moved(b, Len(b.lines[b.cy - 1]), b.cy - 1) ELSE b
MoveRight(b) == IF b.cx < CurLen(b) THEN Moved(b, b.cx + 1, b.cy)
                ELSE IF b.cy < LastLine(b) THEN Moved(b, 0, b.cy + 1) ELSE b
ToLine(b, cy) == Moved(b, Min({b.cx, Len(b.lines[cy])}), cy)
MoveUp(b)   == IF b.cy > 1 THEN ToLine(b, b.cy - 1) ELSE b
MoveDown(b) == IF b.cy < LastLine(b) THEN ToLine(b, b.cy + 1) ELSE b
Paged(b, up) ==
  LET Move(x) == IF up THEN MoveUp(x) ELSE MoveDown(x)
      after[n \in 0..TextRows] == IF n = 0 THEN b ELSE Move(after[n - 1])
  IN  after[TextRows]

InsertChar(b, c) ==
  Edited(b, [b.lines EXCEPT ![b.cy] = InsertAt(@, b.cx + 1, c)], b.cx + 1, b.cy)
\* Lines i to i + 1 replaced by new ones.
Spliced(lines, i, n, new) == SubSeq(lines, 1, i - 1) \o new \o SubSeq(lines, i + n, Len(lines))
InsertNewline(b) ==
  Edited(b, Spliced(b.lines, b.cy, 1, <<SubSeq(Line(b), 1, b.cx), SubSeq(Line(b), b.cx + 1, CurLen(b))>>),
         0, b.cy + 1)
Joined(b, i) == Spliced(b.lines, i, 2, <<b.lines[i] \o b.lines[i + 1]>>)
\* A bug: after two lines are joined the cursor is at the start of the new one.
Backspace_Start(b) ==
  IF b.cx > 0 THEN Edited(b, [b.lines EXCEPT ![b.cy] = RemoveAt(@, b.cx)], b.cx - 1, b.cy)
  ELSE IF b.cy > 1 THEN Edited(b, Joined(b, b.cy - 1), 0, b.cy - 1)
  ELSE b
Backspace(b) ==
  IF b.cx > 0 THEN Edited(b, [b.lines EXCEPT ![b.cy] = RemoveAt(@, b.cx)], b.cx - 1, b.cy)
  ELSE IF b.cy > 1 THEN Edited(b, Joined(b, b.cy - 1), Len(b.lines[b.cy - 1]), b.cy - 1)
  ELSE b
\* A bug: pulling up the next line is not counted as a change.
Delete_Unmarked(b) ==
  IF b.cx < CurLen(b) THEN Edited(b, [b.lines EXCEPT ![b.cy] = RemoveAt(@, b.cx + 1)], b.cx, b.cy)
  ELSE IF b.cy < LastLine(b) THEN [b EXCEPT !.lines = Joined(b, b.cy)]
  ELSE b
Delete(b) ==
  IF b.cx < CurLen(b) THEN Edited(b, [b.lines EXCEPT ![b.cy] = RemoveAt(@, b.cx + 1)], b.cx, b.cy)
  ELSE IF b.cy < LastLine(b) THEN Edited(b, Joined(b, b.cy), b.cx, b.cy)
  ELSE b
CutLine(b) ==
  IF LastLine(b) = 1 THEN Edited(b, <<<<>>>>, 0, 1)
  ELSE Edited(b, RemoveAt(b.lines, b.cy), 0, Min({b.cy, LastLine(b) - 1}))
----------------------------------------------------------------------------
\* read_key: the key at the head of the bytes.  After ESC it takes the next
\* byte whatever it is.
Arrows == [A |-> "Up", B |-> "Down", C |-> "Right", D |-> "Left", H |-> "Home", F |-> "End"]
Tildes == [c1 |-> "Home", c7 |-> "Home", c4 |-> "End", c8 |-> "End", c3 |-> "Delete",
           c5 |-> "PageUp", c6 |-> "PageDown"]
ReadKey(bytes) ==
  CASE Head(bytes) = "ESC" ->
         IF Len(bytes) < 3 \/ bytes[2] \notin {"[", "O"} THEN "Esc"
         ELSE IF bytes[3] \in DOMAIN Arrows THEN Arrows[bytes[3]]
         ELSE IF bytes[3] \in DOMAIN Tildes THEN Tildes[bytes[3]]
         ELSE "Esc"
    [] Head(bytes) \in {"CR", "LF"} -> "Enter"
    [] Head(bytes) \in {"DEL", "BS"} -> "Backspace"
    [] OTHER -> Head(bytes)

\* The dispatch of main, the keys of save and exit apart.
Apply(b, key) ==
  CASE key = "Left" -> MoveLeft(b)  [] key = "Right" -> MoveRight(b)
    [] key = "Up"   -> MoveUp(b)    [] key = "Down"  -> MoveDown(b)
    [] key = "Home" -> Moved(b, 0, b.cy)
    [] key = "End"  -> Moved(b, CurLen(b), b.cy)
    [] key = "PageUp"   -> Paged(b, TRUE)
    [] key = "PageDown" -> Paged(b, FALSE)
    [] key = "Enter"     -> InsertNewline(b)
    [] key = "Backspace" -> Backspace(b)
    [] key = "Delete"    -> Delete(b)
    [] key = "^K"        -> CutLine(b)
    [] key \in Letters   -> InsertChar(b, key)
    [] OTHER -> b

Escapes == {<<"ESC", lead, k>> : lead \in {"[", "O"}, k \in DOMAIN Arrows \cup DOMAIN Tildes}
Typed == {<<k>> : k \in Letters \cup {"CR", "DEL", "^K", "^O", "^X", "^C"}}
           \cup Escapes \cup {<<"ESC", k>> : k \in Letters}

\* save: a buffer that was written is no longer modified.
SaveTo(next) ==
  \E o \in SaveEditable(file, object, ToText(buf.lines)) :
    /\ file' = o.file /\ object' = o.object
    /\ told' = IF o.ok THEN "written" ELSE "failed"
    /\ buf' = [buf EXCEPT !.modified = @ /\ ~o.ok]
    /\ mode' = next
Stay(next) == mode' = next /\ UNCHANGED <<buf, object, file, told>>

\* One turn of the loop; render scrolls before the next key is read.
Key(bytes) ==
  LET key == ReadKey(bytes)
  IN  /\ mode = "edit"
      /\ CASE key = "^O" -> SaveTo("edit")
           [] key = "^X" -> Stay(IF buf.modified THEN "prompt" ELSE "quit")
           [] OTHER -> /\ buf' = Scroll(Apply(buf, key))
                       /\ Len(Join(buf'.lines)) <= MaxText
                       /\ UNCHANGED <<object, file, mode, told>>

\* exit_confirmed: other keys are not heard.
Answer(bytes) ==
  LET key == ReadKey(bytes)
  IN  /\ mode = "prompt"
      /\ \/ key = "y" /\ SaveTo("quit")
         \/ key = "n" /\ Stay("quit")
         \/ key \in {"Esc", "^C"} /\ Stay("edit")

\* The terminal goes away: read_key returns None.
InputClosed == mode # "quit" /\ Stay("quit")

NanoNext == \/ \E bytes \in Typed : Key(bytes)
            \/ \E bytes \in {<<"y">>, <<"n">>, <<"ESC", "y">>, <<"^C">>} : Answer(bytes)
            \/ InputClosed
----------------------------------------------------------------------------
\* Ctrl-X leaves without asking only when nothing would be lost: while no save
\* has failed, the file opens as the lines of a buffer not marked modified,
\* whatever tier a document has grown to.
CleanIsOnDisk ==
  buf.modified \/ told = "failed" \/ FromText(LoadEditable(file, IsWasm).content) = buf.lines

\* A document prints, when it is run, the text that the editors show.
PrintsWhatItShows == file.kind = "object" => Printed(file) = Read(file)

\* The cursor is in a line of the buffer and on the screen.
CursorShown ==
  /\ buf.cy \in DOMAIN buf.lines /\ buf.cx \in 0..CurLen(buf)
  /\ buf.cy - 1 \in buf.rowOff..(buf.rowOff + TextRows - 1)
  /\ buf.cx \in buf.colOff..(buf.colOff + Cols - 1)

\* The vector of lines, the row and the column are one text and a place in it, and
\* every step is one of TextBuffer's, or leaves both alone.
Offset == Len(Join(SubSeq(buf.lines, 1, buf.cy))) - CurLen(buf) + buf.cx
B == INSTANCE TextBuffer WITH Chars <- Letters \cup Range(Garbage), LineBreak <- LF, Page <- TextRows,
                              text <- Join(buf.lines), at <- Offset
EditsText == B!EditStep

=============================================================================
