------------------------------- MODULE SysMon -------------------------------
(***************************************************************************)
(* The system monitor (crates/apps/sysmon): a frame shows a listing of the *)
(* process table, and the keys and clicks that answer it are applied, one  *)
(* batch at a time, to a fresh listing.  Meanwhile processes start, end,   *)
(* and are reniced by others.                                              *)
(***************************************************************************)
EXTENDS Integers, Sequences, FiniteSets, FiniteSetsExt

CONSTANTS
  LastPid,   \* the last process that starts; 1 is init, 2 a shell, 3 the monitor
  LastPri,   \* where saturating_add stops (255)
  Visible,   \* rows in the window
  MaxBatch   \* events one win_read_input returns

VARIABLES
  table,     \* pid -> [pri, zombie]: the kernel's process table
  born,      \* the last pid that was given
  procs,     \* State.procs, [pid, pri] by pid
  sel,       \* State.selected, from 1; 0 in an empty listing
  batch,     \* events of this batch so far, 0 between batches
  painted,   \* the listing of the frame on the screen
  aim,       \* the process the user's last gesture, or the frame, selected there
  steady,    \* the rows that gesture went by are still those of the frame
  last       \* this step's signal or renice: what it hit, aimed at, and whether that is sure

sysmonVars == <<table, born, procs, sel, batch, painted, aim, steady, last>>

Me == 3
Alive == Me \in DOMAIN table /\ ~table[Me].zombie
Pids == 1..LastPid
None == [kind |-> "none", pid |-> 0, aim |-> 0, sure |-> FALSE]

\* proc_list, sorted by pid: at row i is the pid that is the i-th.
Listing ==
  LET Upto(p) == {q \in DOMAIN table : q <= p}
      At(i)   == CHOOSE p \in DOMAIN table : Cardinality(Upto(p)) = i
  IN  [i \in 1..Cardinality(DOMAIN table) |-> [pid |-> At(i), pri |-> table[At(i)].pri]]
PidsOf(list) == {list[i].pid : i \in DOMAIN list}
RowOf(list, pid) == CHOOSE i \in DOMAIN list : list[i].pid = pid
SelectedPid == IF sel \in DOMAIN procs THEN procs[sel].pid ELSE 0
FirstKillable(list) ==
  LET other == {i \in DOMAIN list : list[i].pid # 1} IN IF other = {} THEN 1 ELSE Min(other)

SysMonInit ==
  /\ table = [p \in 1..Me |-> [pri |-> 1, zombie |-> FALSE]]
  /\ born = Me
  /\ procs = Listing /\ sel = FirstKillable(procs)
  /\ batch = 0 /\ painted = procs /\ aim = procs[sel].pid /\ steady = TRUE /\ last = None
----------------------------------------------------------------------------
\* A bug: the row is kept, whoever is in it now.
Pinned_ByRow(list) == Min({sel, Len(list)})
\* refresh: the selection follows its pid; if that is gone it stays at its row.
Pinned(list) ==
  IF SelectedPid \in PidsOf(list) THEN RowOf(list, SelectedPid) ELSE Min({sel, Len(list)})

\* win_read_input returned events.
BeginBatch ==
  /\ batch = 0 /\ Alive
  /\ procs' = Listing /\ sel' = Pinned(procs') /\ batch' = 1
  /\ last' = None /\ UNCHANGED <<table, born, painted, aim, steady>>

InBatch == batch \in 1..MaxBatch /\ Alive
Event == batch' = batch + 1 /\ UNCHANGED <<born, procs, painted>>

\* The pointer moves over, or presses, a row: the user means the process that the frame
\* shows there, the program selects the one that the listing has there by now.
Point(row) ==
  /\ InBatch /\ row \in 1..Visible
  /\ sel' = IF row \in DOMAIN procs THEN row ELSE sel
  /\ aim' = IF row \in DOMAIN painted THEN painted[row].pid ELSE 0
  /\ steady' = \A p \in PidsOf(painted) \ PidsOf(procs) : p > aim'
  /\ last' = None /\ Event /\ UNCHANGED table

\* The user moves by a row of the frame, the program by a row of the listing.
Beside(d) ==
  LET i == RowOf(painted, aim) + d IN
  IF aim \notin PidsOf(painted) THEN 0 ELSE IF i \in DOMAIN painted THEN painted[i].pid ELSE aim
Arrow(d) ==
  /\ InBatch /\ sel' = IF sel + d \in DOMAIN procs THEN sel + d ELSE sel
  /\ aim' = Beside(d) /\ steady' = (PidsOf(painted) = PidsOf(procs))
  /\ last' = None /\ Event /\ UNCHANGED table
KeyDown == Arrow(1)
KeyUp   == Arrow(-1)

\* What the kernel makes of it: SIGKILL ends the process, SIGTERM asks, and a
\* pid that is no longer there is an error.  A process without a parent leaves
\* the table at once.
Struck(kind, pid) ==
  IF pid \notin DOMAIN table THEN {table}
  ELSE CASE kind = "kill"   -> {[table EXCEPT ![pid].zombie = TRUE],
                                [p \in DOMAIN table \ {pid} |-> table[p]]}
         [] kind = "renice" -> {[table EXCEPT ![pid].pri = Min({LastPri, procs[sel].pri + 1})]}
         [] OTHER           -> {table}

\* A key, or a press of the button.
Act(kind) ==
  /\ InBatch
  /\ IF SelectedPid \in {0, 1} THEN last' = None /\ UNCHANGED table
     ELSE /\ table' \in Struck(kind, SelectedPid)
          /\ last' = [kind |-> kind, pid |-> SelectedPid, aim |-> aim,
                      sure |-> steady /\ aim \in PidsOf(procs)]
  /\ Event /\ UNCHANGED <<sel, aim, steady>>

\* Refresh once more, draw, present.
EndBatch ==
  /\ batch > 1 /\ Alive
  /\ procs' = Listing /\ sel' = Pinned(procs')
  /\ painted' = procs' /\ aim' = procs'[sel'].pid /\ steady' = TRUE
  /\ batch' = 0 /\ last' = None /\ UNCHANGED <<table, born>>
----------------------------------------------------------------------------
\* The rest of the system.
Elsewhere == last' = None /\ UNCHANGED <<procs, sel, batch, painted, aim, steady>>
Starts == /\ born < LastPid
          /\ born' = born + 1
          /\ table' = [p \in DOMAIN table \cup {born'} |->
                        IF p = born' THEN [pri |-> 1, zombie |-> FALSE] ELSE table[p]]
          /\ Elsewhere
Exits(p) == /\ p \in DOMAIN table \ {1} /\ ~table[p].zombie
            /\ table' = [table EXCEPT ![p].zombie = TRUE] /\ UNCHANGED born /\ Elsewhere
Reaped(p) == /\ p \in DOMAIN table /\ table[p].zombie
             /\ table' = [q \in DOMAIN table \ {p} |-> table[q]] /\ UNCHANGED born /\ Elsewhere

SysMonNext ==
  \/ BeginBatch \/ (\E row \in 1..Visible : Point(row)) \/ KeyDown \/ KeyUp
  \/ (\E kind \in {"kill", "term", "renice"} : Act(kind)) \/ EndBatch
  \/ Starts \/ (\E p \in Pids : Exits(p) \/ Reaped(p))
----------------------------------------------------------------------------
\* Whatever starts and ends between a frame and the keys and clicks that answer it, a
\* signal or a renice reaches the process that the frame showed as selected, or in the row
\* the user went to, and never init.  What the user can lose by: that process is gone, or,
\* before the next frame, another that was listed above it (for an arrow: any has come or
\* gone), for the rows are counted in a listing the user has not seen.
HitsItsAim == last.kind # "none" => last.pid # 1 /\ (last.sure => last.pid = last.aim)
=============================================================================
