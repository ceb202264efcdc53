---------------------------- MODULE FileManager ----------------------------
(***************************************************************************)
(* The file manager (crates/apps/filemanager): a listing of one directory, *)
(* a selection and a scroll, and a batch of clicks and keys applied to it  *)
(* before the next frame.  Others change the store meanwhile.              *)
(***************************************************************************)
EXTENDS Naturals, Sequences

CONSTANTS
  Dirs,      \* the directories there may be, as sequences of names, <<>> the root
  Paths,     \* the files there may be
  Kinds,     \* what a file may be, of "text", "document", "app", "command"
  Names,     \* every name, in the order of the listing
  Visible,   \* rows in the window
  MaxBatch   \* events one win_read_input returns

VARIABLES
  store,     \* path -> "dir" or a kind
  cwd, entries, sel, scroll,  \* State; entries as [name, dir], rows from 0
  recent,    \* last_launch: the path, and whether 350 ms have not passed
  batch,     \* events of this batch so far, 0 between batches
  frame,     \* the last frame: cwd, the rows, the highlighted row
  spawned,   \* the last spawn: how, and the path
  acted      \* the last row that was activated: what it was, and what the frame showed

fmVars == <<store, cwd, entries, sel, scroll, recent, batch, frame, spawned, acted>>

ParentOf(path) == IF path = <<>> THEN <<>> ELSE SubSeq(path, 1, Len(path) - 1)
PathTo(dir, name) == Append(dir, name)
Crumbs(dir) == {SubSeq(dir, 1, n) : n \in 0..Len(dir)}

\* relist: directories first, then by name.  A directory that is gone lists nothing.
EntriesOf(dir) ==
  LET names == SelectSeq(Names, LAMBDA n : PathTo(dir, n) \in DOMAIN store)
      IsDir(n) == store[PathTo(dir, n)] = "dir"
      IsFile(n) == ~IsDir(n)
      sorted == SelectSeq(names, IsDir) \o SelectSeq(names, IsFile)
  IN  IF dir \notin DOMAIN store \/ store[dir] # "dir" THEN <<>>
      ELSE [i \in DOMAIN sorted |-> [name |-> sorted[i], dir |-> IsDir(sorted[i])]]

HasUp(dir) == dir # <<>>
Extra(dir) == IF HasUp(dir) THEN 1 ELSE 0
Rows == Len(entries) + Extra(cwd)
UpRow == [name |-> "..", dir |-> TRUE]
NoRow == [name |-> "", dir |-> FALSE]
\* What row i, from 0, stands for.
RowAt(dir, list, i) ==
  LET ei == i + 1 - Extra(dir)
  IN  IF HasUp(dir) /\ i = 0 THEN UpRow ELSE IF ei \in DOMAIN list THEN list[ei] ELSE NoRow

Go(dir) == /\ cwd' = dir /\ entries' = EntriesOf(dir) /\ sel' = 0 /\ scroll' = 0
           /\ UNCHANGED <<recent, spawned>>
Stay == UNCHANGED <<cwd, entries, sel, scroll, recent, spawned>>

\* load_object and open_action: what cannot be read opens in the editor, too.
OpenAction(path) ==
  LET kind == IF path \in DOMAIN store THEN store[path] ELSE "text"
  IN  CASE kind = "app" -> "run" [] kind = "command" -> "run in terminal" [] OTHER -> "edit"

\* launch_file: the last path is not launched again within 350 ms.
LaunchFile(path) ==
  /\ IF recent.fresh /\ recent.path = path THEN UNCHANGED <<recent, spawned>>
     ELSE /\ recent' = [path |-> path, fresh |-> TRUE]
          /\ spawned' = [how |-> OpenAction(path), path |-> path]
  /\ UNCHANGED <<cwd, entries, scroll>>

\* activate(row), when `shown' is what the frame had where the user acted.
Activate(row, shown) ==
  LET it == RowAt(cwd, entries, row)
  IN  /\ acted' = [row |-> it, shown |-> shown, first |-> batch = 1]
      /\ \/ it = UpRow /\ Go(ParentOf(cwd))
         \/ it = NoRow /\ sel' = row /\ UNCHANGED <<cwd, entries, scroll, recent, spawned>>
         \/ it \notin {UpRow, NoRow} /\ it.dir /\ Go(PathTo(cwd, it.name))
         \/ it \notin {UpRow, NoRow} /\ ~it.dir /\ LaunchFile(PathTo(cwd, it.name)) /\ sel' = row

FmInit ==
  /\ store = [p \in Dirs \cup Paths |-> IF p \in Dirs THEN "dir" ELSE CHOOSE k \in Kinds : TRUE]
  /\ cwd = <<>> /\ entries = EntriesOf(<<>>) /\ sel = 0 /\ scroll = 0
  /\ recent = [path |-> <<>>, fresh |-> FALSE] /\ batch = 0
  /\ frame = [cwd |-> <<>>, rows |-> [i \in 0..(Visible - 1) |-> RowAt(<<>>, entries, i)], lit |-> 0]
  /\ spawned = [how |-> "none", path |-> <<>>]
  /\ acted = [row |-> NoRow, shown |-> NoRow, first |-> FALSE]
----------------------------------------------------------------------------
BeginBatch == batch = 0 /\ batch' = 1 /\ Stay /\ UNCHANGED <<store, frame, acted>>
Event == batch \in 1..MaxBatch /\ batch' = batch + 1 /\ UNCHANGED <<store, frame>>

\* A click in the header: the up button, or the crumb of an ancestor.
ClickUp    == Event /\ cwd # <<>> /\ Go(ParentOf(cwd)) /\ UNCHANGED acted
ClickCrumb == Event /\ (\E dir \in Crumbs(cwd) \ {cwd} : Go(dir)) /\ UNCHANGED acted
Backspace  == Event /\ HasUp(cwd) /\ Go(ParentOf(cwd)) /\ UNCHANGED acted

\* The pointer over, or pressing, the y of a row of the window.
Hover(y) == /\ Event /\ sel' = IF scroll + y < Rows THEN scroll + y ELSE sel
            /\ UNCHANGED <<cwd, entries, scroll, recent, spawned, acted>>
Press(y) == Event /\ IF scroll + y < Rows THEN Activate(scroll + y, frame.rows[y])
                     ELSE Stay /\ UNCHANGED acted

KeyDown == /\ Event /\ sel + 1 < Rows /\ sel' = sel + 1
           /\ UNCHANGED <<cwd, entries, scroll, recent, spawned, acted>>
KeyUp   == /\ Event /\ sel > 0 /\ sel' = sel - 1
           /\ UNCHANGED <<cwd, entries, scroll, recent, spawned, acted>>
Enter   == /\ Event
           /\ Activate(sel, IF frame.lit \in 0..(Visible - 1) THEN frame.rows[frame.lit] ELSE NoRow)

Scrolled == IF sel < scroll THEN sel
            ELSE IF sel >= scroll + Visible THEN sel + 1 - Visible ELSE scroll
\* The selection is kept in the window, and a frame is presented.
EndBatch ==
  /\ batch > 1 /\ batch' = 0
  /\ scroll' = Scrolled
  /\ frame' = [cwd |-> cwd, lit |-> sel - scroll',
               rows |-> [y \in 0..(Visible - 1) |-> RowAt(cwd, entries, scroll' + y)]]
  /\ UNCHANGED <<store, cwd, entries, sel, recent, spawned, acted>>

\* 350 ms pass.
Later == /\ recent.fresh /\ recent' = [recent EXCEPT !.fresh = FALSE]
         /\ UNCHANGED <<store, cwd, entries, sel, scroll, batch, frame, spawned, acted>>
\* Another program writes or removes a file, or removes or makes a directory.
Others ==
  /\ \/ \E p \in Paths, k \in Kinds :
          /\ ParentOf(p) \in DOMAIN store
          /\ store' = [q \in DOMAIN store \cup {p} |-> IF q = p THEN k ELSE store[q]]
     \/ \E p \in DOMAIN store \ {<<>>} :
          store' = [q \in {r \in DOMAIN store : p \notin Crumbs(r)} |-> store[q]]
  /\ Stay /\ UNCHANGED <<batch, frame, acted>>

FmNext ==
  \/ BeginBatch \/ ClickUp \/ ClickCrumb \/ Backspace \/ KeyDown \/ KeyUp \/ Enter
  \/ (\E y \in 0..(Visible - 1) : Hover(y) \/ Press(y))
  \/ EndBatch \/ Later \/ Others
----------------------------------------------------------------------------
\* The first click or Enter of a batch opens what the frame on the screen shows
\* there, however the user got to that row and whatever others did to the store.
OpensWhatIsShown == acted.first => acted.row = acted.shown
=============================================================================
