------------------------------ MODULE Terminal ------------------------------
(***************************************************************************)
(* Who gets what is typed in the terminal window.  The kernel worker keeps *)
(* a stack of foreground processes and the line discipline; the window's   *)
(* thread keeps its own copy of the discipline and the pid of the shell it *)
(* is bound to, and starts another when that one ends.  The two threads    *)
(* exchange messages in order (boot.ts: call and onmessage); guests reach  *)
(* the kernel worker through their rings, and a worker's exit message      *)
(* comes some time after its last call.  The text itself is LineEditor's:  *)
(* here it matters only whom it would reach (Foreground).                  *)
(***************************************************************************)
EXTENDS Naturals, Sequences, FiniteSets, SequencesExt

CONSTANTS
  MaxPid,    \* pids that can be handed out
  Polls,     \* the watcher's polls: setInterval starts one while another waits
  MaxPosted, \* messages to the window's thread before a program toggles again
  Spare      \* pids kept for the shells that replace one that ends

ASSUME TerminalAssumption == MaxPid \in Nat \ {0} /\ MaxPosted \in Nat /\ Spare \in Nat

VARIABLES
  st,            \* pid -> "none", "ready" (in the kernel's table, no worker),
                 \* "running", "returned" (worker done, kernel not told),
                 \* "exited" (kernel told, exit message on its way), "gone"
  sh,            \* the shells the window started: nothing else on the terminal
                 \* may spawn (k_spawn never passes that right on)
  waits,         \* pid -> the child its k_wait is parked on, 0 if none
  fg,            \* terminalFg
  terminalRaw,   \* the worker's terminalRaw
  toKernel,      \* commands on their way to the worker
  toMain,        \* replies and events on their way back
  rawMode,       \* the terminal's rawMode
  currentShell,  \* the terminal's currentShell
  isOpen,        \* the terminal window is open
  poll,          \* poll -> where its async function is
  respawning     \* index.ts's flag of that name

procVars == <<st, sh, waits>>
kworkerVars == <<fg, terminalRaw>>
mainVars == <<rawMode, currentShell, isOpen, poll, respawning>>
termVars == <<procVars, kworkerVars, toKernel, toMain, mainVars>>

Pid == 1..MaxPid
Nobody == 0
Idle == [at |-> "idle", pid |-> Nobody]
NextPid == Cardinality({p \in Pid : st[p] # "none"}) + 1
PidsLeft == MaxPid + 1 - NextPid
Live(p) == st[p] \in {"running", "returned"}     \* as far as the kernel knows
Runtime(p) == st[p] \in {"running", "returned", "exited"}
Foreground == IF fg = <<>> THEN Nobody ELSE fg[Len(fg)]

\* spawnShell and attachTerminal have run: index.ts shows the terminal.
TermInit ==
  /\ st = [p \in Pid |-> IF p = 1 THEN "running" ELSE "none"]
  /\ sh = {1} /\ waits = [p \in Pid |-> Nobody]
  /\ fg = <<1>> /\ terminalRaw = FALSE
  /\ toKernel = <<>> /\ toMain = <<>>
  /\ rawMode = FALSE /\ currentShell = 1 /\ isOpen = TRUE
  /\ poll = [t \in Polls |-> Idle] /\ respawning = FALSE
----------------------------------------------------------------------------
(* The kernel worker.  Each action is one task of its event loop.          *)

Reply(t, r) == [type |-> "reply", poll |-> t, result |-> r]
Say(m) == toMain' = Append(toMain, m)

\* setTerminalRaw, and what is posted after it.
SetTerminalRaw(mode, msgs) ==
  LET changed == IF mode = terminalRaw THEN <<>> ELSE <<[type |-> "termMode", raw |-> mode]>>
  IN  terminalRaw' = mode /\ toMain' = toMain \o changed \o msgs

\* proc_exit in the kernel: waits on p are answered.
Woken(p) == [q \in Pid |-> IF waits[q] = p THEN Nobody ELSE waits[q]]

\* A guest: ring calls, in the worker's driveSyscall.
RingExit(p) ==
  /\ st[p] = "running" /\ waits[p] = Nobody
  /\ p \in sh => PidsLeft >= Spare
  /\ st' = [st EXCEPT ![p] = "exited"] /\ waits' = Woken(p)
  /\ UNCHANGED <<sh, kworkerVars, toKernel, toMain, mainVars>>

\* Its _start returns or traps: nothing is said until the exit message.
Return(p) ==
  /\ st[p] = "running" /\ waits[p] = Nobody
  /\ p \in sh => PidsLeft >= Spare
  /\ st' = [st EXCEPT ![p] = "returned"]
  /\ UNCHANGED <<sh, waits, kworkerVars, toKernel, toMain, mainVars>>

\* tty_set_raw: for the foreground process only.  The shell never calls it.
TtySetRaw(p, mode) ==
  /\ st[p] = "running" /\ p \notin sh
  /\ p = Foreground /\ mode # terminalRaw /\ Len(toMain) < MaxPosted
  /\ SetTerminalRaw(mode, <<>>)
  /\ UNCHANGED <<procVars, fg, toKernel, mainVars>>

\* k_spawn of a program whose fd 0 is the terminal, by a shell that then waits
\* for it, and handleSpawnRequest: the child is pushed once it has started.
Child(started) ==
  /\ st' = [st EXCEPT ![NextPid] = IF started THEN "running" ELSE "gone"]
  /\ fg' = IF started THEN Append(fg, NextPid) ELSE fg
  /\ UNCHANGED <<sh, terminalRaw, toKernel, toMain, mainVars>>
ShellSpawn(p) ==
  /\ p \in sh /\ st[p] = "running" /\ waits[p] = Nobody
  /\ PidsLeft > Spare
  /\ \E started \in BOOLEAN :
       /\ Child(started)
       /\ waits' = IF started THEN [waits EXCEPT ![p] = NextPid] ELSE waits

\* The file manager gives what it starts the terminal as fd 0, too
\* (apps/filemanager: launch).
FilesLaunch ==
  /\ PidsLeft > Spare
  /\ Child(TRUE)
  /\ UNCHANGED waits

\* onProcExit once the kernel knows: the pop, and raw reset if it was in front.
\* Its event for the window's thread closes the process's windows (Desktop).
At(p) == IF \E i \in DOMAIN fg : fg[i] = p
         THEN CHOOSE i \in DOMAIN fg : fg[i] = p /\ \A j \in i + 1..Len(fg) : fg[j] # p
         ELSE 0
\* A bug: raw is left on, as if every program restored it.
PopForeground_KeepsRaw(p) ==
  /\ fg' = IF At(p) = 0 THEN fg ELSE RemoveAt(fg, At(p))
  /\ UNCHANGED <<terminalRaw, toMain>>
PopForeground(p) ==
  /\ fg' = IF At(p) = 0 THEN fg ELSE RemoveAt(fg, At(p))
  /\ SetTerminalRaw(terminalRaw /\ p # Foreground, <<>>)
OnProcExit(p) ==
  /\ st' = [st EXCEPT ![p] = "gone"] /\ waits' = Woken(p)
  /\ PopForeground(p)
  /\ UNCHANGED <<sh, mainVars>>

ExitMessage(p) == st[p] \in {"returned", "exited"} /\ OnProcExit(p) /\ UNCHANGED toKernel
\* SIGKILL from another program, or its own: killProcess at once.
Killed(p) == /\ Runtime(p) /\ OnProcExit(p) /\ UNCHANGED toKernel
             /\ p \in sh => PidsLeft >= Spare

\* spawnByPath allocates the pid before it reads the image.
SpawnByPath(t) ==
  /\ PidsLeft > 0
  /\ \E ok \in BOOLEAN :
       /\ ok \/ PidsLeft > Spare
       /\ st' = [st EXCEPT ![NextPid] = IF ok THEN "running" ELSE "ready"]
       /\ sh' = sh \cup {NextPid}
       /\ Say(Reply(t, IF ok THEN NextPid ELSE Nobody))
  /\ UNCHANGED <<waits, kworkerVars>>

BindTerminal(t, p) ==
  /\ fg' = <<p>>
  /\ SetTerminalRaw(FALSE, <<Reply(t, Nobody)>>)
  /\ UNCHANGED procVars

Listed == {p \in Pid : st[p] \in {"ready", "running", "returned"}}
\* The worker's onmessage.
Command(c) ==
  CASE c.cmd = "listProcs" -> /\ Say(Reply(c.poll, Listed))
                              /\ UNCHANGED <<procVars, kworkerVars>>
    [] c.cmd = "spawnByPath" -> SpawnByPath(c.poll)
    [] c.cmd = "bindTerminal" -> BindTerminal(c.poll, c.pid)
    [] c.cmd = "kill" /\ Runtime(c.pid) -> OnProcExit(c.pid)
    [] OTHER -> UNCHANGED <<procVars, kworkerVars, toMain>>
KernelReceive == /\ toKernel # <<>> /\ Command(Head(toKernel))
                 /\ toKernel' = Tail(toKernel) /\ UNCHANGED mainVars
----------------------------------------------------------------------------
(* The window's thread.                                                    *)

\* call: a command is posted, and its reply resumes poll t.
Call(c) == toKernel' = Append(toKernel, c)

Goto(t, at, pid) == poll' = [poll EXCEPT ![t] = [at |-> at, pid |-> pid]]
\* shellWatch, every 1.5 s.  No poll is started during a respawn.
WatchTick(t) ==
  /\ isOpen /\ ~respawning /\ poll[t] = Idle
  /\ Goto(t, "listing", Nobody)
  /\ Call([cmd |-> "listProcs", poll |-> t])
  /\ UNCHANGED <<procVars, kworkerVars, toMain, rawMode, currentShell, isOpen, respawning>>

\* Its continuations.  The window may have been closed meanwhile: nothing asks.
Listing(t, live) ==
  IF currentShell \in live
  THEN Goto(t, "idle", Nobody) /\ UNCHANGED <<respawning, toKernel>>
  ELSE /\ Goto(t, "spawning", Nobody) /\ respawning' = TRUE
       /\ Call([cmd |-> "spawnByPath", poll |-> t])
Spawning(t, pid) ==
  IF pid = Nobody
  THEN Goto(t, "idle", Nobody) /\ respawning' = FALSE /\ UNCHANGED toKernel
  ELSE /\ Goto(t, "binding", pid) /\ UNCHANGED respawning
       /\ Call([cmd |-> "bindTerminal", poll |-> t, pid |-> pid])
\* A bug: the terminal is not told of the shell it is now bound to.
SetShell_Forgets(t) == UNCHANGED currentShell
SetShell(t) == currentShell' = poll[t].pid
Resume(t, result) ==
  CASE poll[t].at = "listing"  -> Listing(t, result) /\ UNCHANGED currentShell
    [] poll[t].at = "spawning" -> Spawning(t, result) /\ UNCHANGED currentShell
    [] OTHER -> /\ SetShell(t) /\ Goto(t, "idle", Nobody) /\ respawning' = FALSE
                /\ UNCHANGED toKernel

MainReceive ==
  /\ toMain # <<>>
  /\ toMain' = Tail(toMain)
  /\ LET m == Head(toMain)
     IN  CASE m.type = "termMode" -> /\ rawMode' = m.raw
                                     /\ UNCHANGED <<currentShell, poll, respawning, toKernel>>
           [] OTHER -> Resume(m.poll, m.result) /\ UNCHANGED rawMode
  /\ UNCHANGED <<procVars, kworkerVars, isOpen>>

\* onWindowClosed: no more polls are started, and the current shell is killed.
CloseWindow ==
  /\ isOpen /\ isOpen' = FALSE
  /\ Call([cmd |-> "kill", pid |-> currentShell])
  /\ UNCHANGED <<procVars, kworkerVars, toMain, rawMode, currentShell, poll, respawning>>
----------------------------------------------------------------------------
GuestStep(p) == \/ RingExit(p) \/ Return(p) \/ ShellSpawn(p) \/ Killed(p)
                \/ \E mode \in BOOLEAN : TtySetRaw(p, mode)
TermNext == \/ \E p \in Pid : GuestStep(p) \/ ExitMessage(p)
            \/ FilesLaunch \/ CloseWindow
            \/ KernelReceive \/ MainReceive
            \/ \E t \in Polls : WatchTick(t)
\* Both event loops run, the interval fires, and exit messages arrive.  What
\* guests and the user do is up to them.
TermFairness == /\ WF_termVars(KernelReceive) /\ WF_termVars(MainReceive)
                /\ \A t \in Polls : WF_termVars(WatchTick(t))
                /\ \A p \in Pid : WF_termVars(ExitMessage(p))
TermSpec == TermInit /\ [][TermNext]_termVars /\ TermFairness
----------------------------------------------------------------------------
\* The discipline the window's thread uses is the kernel worker's, once the
\* messages on their way have arrived.
ModeFollows ==
  LET modes == {i \in DOMAIN toMain : toMain[i].type = "termMode"}
  IN  terminalRaw = IF modes = {} THEN rawMode ELSE toMain[Max(modes)].raw

\* kernel-worker.ts:137-139: a crash never leaves the terminal unusable.  When
\* the shell, or nobody, is in front, the terminal is cooked, in whatever order
\* exits, their messages, new jobs and new shells come.
CookedAtShell == Foreground \in sh \cup {Nobody} => ~terminalRaw

\* The stack holds no process whose worker was torn down, except a shell that
\* ended before it was bound.
StackLive == \A i \in DOMAIN fg : Runtime(fg[i]) \/ (i = 1 /\ fg[i] \in sh)

\* At rest, the shell the terminal watches is the one the worker gives keys to.
AtRest == toKernel = <<>> /\ toMain = <<>> /\ \A t \in Polls : poll[t] = Idle
WatchesBound == AtRest /\ st[currentShell] = "running" => fg # <<>> /\ fg[1] = currentShell

TerminalFollows == ModeFollows /\ CookedAtShell /\ StackLive /\ WatchesBound

\* index.ts:360-364: behind an open window there is, again and again, a live
\* shell that is bound, whatever ends the one before it.
ShellComesBack ==
  []<>(isOpen => st[currentShell] = "running" /\ currentShell \in Range(fg))

=============================================================================
