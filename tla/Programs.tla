------------------------------ MODULE Programs ------------------------------
(***************************************************************************)
(* The desktop and the programs on it, one at a time.  `which' says which  *)
(* part runs.  The desktop of the others stays as it starts; the variables *)
(* of the programs that do not run are Off.  Programs that name a variable *)
(* alike share it.                                                         *)
(***************************************************************************)
EXTENDS Desktop

CONSTANTS
  Off,
  Letters, Tiers, IsWasm, OnDisk, MaxText,                      \* Nano and Editor
  TextRows, Cols, EdRows,                                       \* their windows
  LastPid, LastPri, MonRows, MonBatch,                          \* SysMon
  Dirs, Paths, Kinds, FileNames, FmRows, FmBatch,               \* FileManager
  Msg, Bodies, Tables, MaxSignals, MaxOps,                      \* GuestCalls
  PidName, Bytes, TreeNames, Buffers, Priorities, TreePids, MaxChanges   \* SystemTrees

\* A window has room, a batch an end, and what is typed is not what marks a line,
\* stands for what is no text or names a key.
Characters == Letters \cup {"LF", "?", " "}
KeyNames == {"Left", "Right", "Up", "Down", "Home", "End", "PageUp", "PageDown", "Enter",
             "Backspace", "Delete", "^K", "^O", "^X", "^C", "Esc", "ESC", "CR", "DEL", "BS"}
ASSUME ProgramsAssumption ==
  /\ {TextRows, Cols, EdRows, FmRows} \subseteq Nat \ {0}
  /\ {MonBatch, FmBatch} \subseteq Nat
  /\ Letters \cap (KeyNames \cup {"LF", "?"}) = {}
  /\ Tables \subseteq [count : Nat, entry : Nat \ {0}]
  /\ Msg \cup Bodies \cup {MaxSignals} \subseteq Nat

\* There is a largest capacity.  A document has a capacity, its window is as long as that allows, and both of its
\* lengths are the same.
ASSUME DocumentsAssumption ==
  /\ Tiers \subseteq {n \in Nat : n >= 4} /\ \E n \in Tiers : \A m \in Tiers : m <= n
  /\ IsWasm \in BOOLEAN
  /\ \A f \in OnDisk :
       /\ f.kind \in {"missing", "plain", "executable", "object"}
       /\ f.kind = "plain" => f.text \in Seq(Characters)
       /\ f.kind = "object" =>
            /\ f \in [kind : {"object"}, capacity : Tiers, header : Nat, prefix : Nat,
                      window : Seq(Characters)]
            /\ f.prefix = f.header /\ Len(f.window) = f.capacity - 4

VARIABLES
  which,
  buf, mode,                                                    \* Nano
  ed, drawn,                                                    \* Editor
  text, object, told,                                           \* both
  table, born, painted, aim, steady, last,                      \* SysMon
  store, cwd, entries, scroll, recent, frame, spawned, acted,   \* FileManager
  sel, batch,                                                   \* both
  chan, region, written, queued, signals, got, ops,             \* GuestCalls
  nextPid, ready, files, listing, changes,                      \* SystemTrees
  running                                                       \* ... and SysMon

nanoVars  == <<buf, mode>>
edVars    == <<ed, drawn>>
textVars  == <<text, object, told>>
monVars   == <<table, born, painted, aim, steady, last>>
filesVars == <<store, cwd, entries, scroll, recent, frame, spawned, acted>>
rowVars   == <<sel, batch>>
guestVars == <<chan, region, written, queued, signals, got, ops>>
treeVars  == <<nextPid, ready, files, listing, changes>>
programVars == <<which, desktopVars, nanoVars, edVars, textVars, monVars, filesVars, rowVars,
                 guestVars, treeVars, running>>

Text    == INSTANCE Nano WITH file <- text, Files <- OnDisk
\* The graphical editor is given a file that is there.
Edit    == INSTANCE Editor WITH file <- text, Files <- {f \in OnDisk : f.kind # "missing"},
                                Visible <- EdRows
Monitor == INSTANCE SysMon WITH procs <- running, Visible <- MonRows, MaxBatch <- MonBatch
Manager == INSTANCE FileManager WITH Names <- FileNames, Visible <- FmRows, MaxBatch <- FmBatch
Guest   == INSTANCE GuestCalls
Trees   == INSTANCE SystemTrees WITH procs <- running, Names <- TreeNames, MaxPid <- TreePids

\* A pid's name is nobody else's, an ordinary directory has a name once, and one of the
\* names is the longest.
ASSUME TreesAssumption ==
  /\ TreePids \in Nat \ {0} /\ Buffers \subseteq Nat
  /\ \A p, q \in 1..TreePids : PidName[p] = PidName[q] => p = q
  /\ \A p \in 1..TreePids :
       PidName[p] \notin {"self", "mounts", "version", "status", "stat", "cmdline",
                         "null", "zero", "full", "random", "urandom", "tty"}
  /\ TreeNames \in Seq(Trees!Range(TreeNames)) /\ Trees!IsInjective(TreeNames)
  /\ \A n \in Trees!AllNames : Bytes[n] \in Nat
  /\ \E l \in Trees!AllNames : \A n \in Trees!AllNames : Bytes[n] <= Bytes[l]

NanoOff  == buf = Off /\ mode = Off
EdOff    == ed = Off /\ drawn = Off
TextOff  == text = Off /\ object = Off /\ told = Off
MonOff   == /\ table = Off /\ born = Off /\ painted = Off /\ aim = Off
            /\ steady = Off /\ last = Off
FilesOff == /\ store = Off /\ cwd = Off /\ entries = Off /\ scroll = Off /\ recent = Off
            /\ frame = Off /\ spawned = Off /\ acted = Off
RowOff   == sel = Off /\ batch = Off
GuestOff == /\ chan = Off /\ region = Off /\ written = Off /\ queued = Off
            /\ signals = Off /\ got = Off /\ ops = Off
TreesOff == nextPid = Off /\ ready = Off /\ files = Off /\ listing = Off /\ changes = Off
\* No program runs.
AllOff   == /\ NanoOff /\ EdOff /\ TextOff /\ MonOff /\ FilesOff /\ RowOff /\ GuestOff
            /\ TreesOff /\ running = Off

ProgramsInit ==
  /\ DeskInit
  /\ which = "desktop" \/ file = {}
  /\ \/ which = "desktop" /\ AllOff
     \/ /\ which = "nano" /\ Text!NanoInit
        /\ EdOff /\ MonOff /\ FilesOff /\ RowOff /\ GuestOff /\ TreesOff /\ running = Off
     \/ /\ which = "editor" /\ Edit!EdInit
        /\ NanoOff /\ MonOff /\ FilesOff /\ RowOff /\ GuestOff /\ TreesOff /\ running = Off
     \/ /\ which = "sysmon" /\ Monitor!SysMonInit
        /\ NanoOff /\ EdOff /\ TextOff /\ FilesOff /\ GuestOff /\ TreesOff
     \/ /\ which = "files" /\ Manager!FmInit
        /\ NanoOff /\ EdOff /\ TextOff /\ MonOff /\ GuestOff /\ TreesOff /\ running = Off
     \/ /\ which = "guest" /\ Guest!GuestInit
        /\ NanoOff /\ EdOff /\ TextOff /\ MonOff /\ FilesOff /\ RowOff /\ TreesOff
        /\ running = Off
     \/ /\ which = "trees" /\ Trees!TreesInit
        /\ NanoOff /\ EdOff /\ TextOff /\ MonOff /\ FilesOff /\ RowOff /\ GuestOff

ProgramsNext ==
  \/ /\ which = "desktop" /\ DeskNext
     /\ UNCHANGED <<which, nanoVars, edVars, textVars, monVars, filesVars, rowVars, guestVars,
                    treeVars, running>>
  \/ /\ which = "nano" /\ Text!NanoNext
     /\ UNCHANGED <<which, desktopVars, edVars, monVars, filesVars, rowVars, guestVars,
                    treeVars, running>>
  \/ /\ which = "editor" /\ Edit!EdNext
     /\ UNCHANGED <<which, desktopVars, nanoVars, monVars, filesVars, rowVars, guestVars,
                    treeVars, running>>
  \/ /\ which = "sysmon" /\ Monitor!SysMonNext
     /\ UNCHANGED <<which, desktopVars, nanoVars, edVars, textVars, filesVars, guestVars,
                    treeVars>>
  \/ /\ which = "files" /\ Manager!FmNext
     /\ UNCHANGED <<which, desktopVars, nanoVars, edVars, textVars, monVars, guestVars,
                    treeVars, running>>
  \/ /\ which = "guest" /\ Guest!GuestNext
     /\ UNCHANGED <<which, desktopVars, nanoVars, edVars, textVars, monVars, filesVars,
                    rowVars, treeVars, running>>
  \/ /\ which = "trees" /\ Trees!TreesNext
     /\ UNCHANGED <<which, desktopVars, nanoVars, edVars, textVars, monVars, filesVars,
                    rowVars, guestVars>>

ProgramsSpec == ProgramsInit /\ [][ProgramsNext]_programVars
----------------------------------------------------------------------------
\* A buffer not marked modified is what the file opens as, unless a save has failed, and
\* a document prints the text that was saved in it.
CleanIsOnDisk == /\ which = "nano" => Text!CleanIsOnDisk /\ Text!PrintsWhatItShows
                 /\ which = "editor" => Edit!CleanIsOnDisk

\* Both editors' lines, row and column are one text and a place in it (TextBuffer).
EditsText == [][/\ which = "nano" => Text!EditsText
                /\ which = "editor" => Edit!EditsText]_programVars

\* The monitor's signals and the file manager's launches hit what the user was shown, and
\* what an editor shows is where its cursor is.
ActsOnWhatIsShown == /\ which = "sysmon" => Monitor!HitsItsAim
                     /\ which = "files" => Manager!OpensWhatIsShown
                     /\ which = "nano" => Text!CursorShown
                     /\ which = "editor" => Edit!CaretShown

\* A guest is given a reply that fits its buffer whole, and of another nothing or, of the
\* process table, the first entries; and it gets every entry of a directory it lists, once.
RepliesWhole == /\ which = "guest" => Guest!RepliesWhole
                /\ which = "trees" => Trees!ListedWhole

\* The four readings of a /proc or /dev path tell of one tree, and the queues agree with
\* the priorities that the table shows.
ViewsAgree == which = "trees" => Trees!TreesAgree /\ Trees!QueuedAtPriority
=============================================================================
