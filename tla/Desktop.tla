------------------------------ MODULE Desktop ------------------------------
(***************************************************************************)
(* The main thread's desktop: windows, the surfaces behind them, and the   *)
(* session that is saved and reopened (compositor/ and index.ts), with the *)
(* kernel worker at the other end of two message queues.  Window 1 is the  *)
(* terminal's; a window or a process that is not there is 0.               *)
(***************************************************************************)
EXTENDS Integers, Sequences, FiniteSets, SequencesExt

CONSTANTS
  Apps,     \* launchable apps
  Saved,    \* what the last session may have left: sets of [app, geom]
  MaxPid,   \* processes spawned
  MaxWin,   \* windows opened, the terminal's included
  MaxMoves  \* times the user touches a window

VARIABLES
  wins,     \* id -> [owner, geom, prev, state]
  zorder,   \* from the bottom up
  active,   \* activeId
  surfaces, \* process -> its window, and whether a frame waits to be copied
  raf,      \* rafScheduled
  appOf,    \* pidToApp
  winApp,   \* winApp: window -> app
  geomOf,   \* pendingGeom: app -> geometry
  todo,     \* the entries restore() still has to launch
  phase,    \* of restore(): "none", "reading", "restoring" or "done"
  timer,    \* a save is due
  missed,   \* a change while restoring was not followed by a save
  outbox,   \* to the kernel worker
  inbox,    \* from it
  procs,    \* pid -> "live" or "dead", in the kernel worker
  file,     \* /home/.session.json
  shut,     \* processes whose window the user closed
  moves

desktopVars == <<wins, zorder, active, surfaces, raf, appOf, winApp, geomOf, todo, phase, timer,
                 missed, outbox, inbox, procs, file, shut, moves>>
winVars     == <<wins, zorder, active>>
sessionVars == <<appOf, winApp, geomOf, todo, phase>>
kernelVars  == <<procs, file>>

Terminal == 1
At(f, x, default) == IF x \in DOMAIN f THEN f[x] ELSE default
With(f, x, v) == [y \in DOMAIN f \cup {x} |-> IF y = x THEN v ELSE f[y]]
Without(f, xs) == [y \in DOMAIN f \ xs |-> f[y]]
\* zorder.filter(z => z !== id): every window is in it once.
Without1(order, id) == IF \A i \in DOMAIN order : order[i] # id THEN order
                       ELSE RemoveAt(order, CHOOSE i \in DOMAIN order : order[i] = id)
Window(owner) == [owner |-> owner, geom |-> "placed", prev |-> "placed", state |-> "normal"]

DeskInit ==
  /\ wins = [id \in {Terminal} |-> Window(0)] /\ zorder = <<Terminal>> /\ active = Terminal
  /\ surfaces = <<>> /\ raf = FALSE
  /\ appOf = <<>> /\ winApp = <<>> /\ geomOf = <<>> /\ todo = <<>> /\ phase = "none"
  /\ timer = TRUE /\ missed = FALSE /\ outbox = <<>> /\ inbox = <<>>
  /\ procs = <<>> /\ file \in Saved /\ shut = {} /\ moves = 0
----------------------------------------------------------------------------
\* onWindowsChanged, scheduleSave: nothing is saved while restore() launches.
Changed == IF phase = "restoring" THEN missed' = TRUE /\ UNCHANGED timer
           ELSE timer' = TRUE /\ UNCHANGED missed

\* focus(): un-minimize, raise, activate.
Raised(ws, id)   == [ws EXCEPT ![id].state = IF @ = "minimized" THEN "normal" ELSE @]
ToTop(order, id) == Append(Without1(order, id), id)

\* close(): the topmost visible window that is left is focused when the active one goes.
Displayed(ws, order) == {i \in DOMAIN order : ws[order[i]].state # "minimized"}
\* A bug: the window stays active when it closes.
Close_StaysActive(id) ==
  /\ wins' = Without(wins, {id}) /\ zorder' = Without1(zorder, id)
  /\ surfaces' = Without(surfaces, {wins[id].owner})
  /\ UNCHANGED active
Close(id) ==
  LET left  == Without1(zorder, id)
      shown == Displayed(wins, left)
      top   == left[Max(shown)]
  IN  /\ wins' = Without(wins, {id})
      /\ surfaces' = Without(surfaces, {wins[id].owner})
      /\ IF active # id THEN zorder' = left /\ UNCHANGED active
         ELSE IF shown = {} THEN zorder' = left /\ active' = 0
         ELSE zorder' = ToTop(left, top) /\ active' = top

UserActs == moves < MaxMoves /\ moves' = moves + 1

FocusWindow(id) ==
  /\ UserActs /\ id \in DOMAIN wins
  /\ wins' = Raised(wins, id) /\ zorder' = ToTop(zorder, id) /\ active' = id /\ Changed
  /\ UNCHANGED <<surfaces, raf, sessionVars, outbox, inbox, kernelVars, shut>>

Minimize(id) ==
  /\ UserActs /\ id \in DOMAIN wins
  /\ wins' = [wins EXCEPT ![id].state = "minimized"] /\ Changed
  /\ UNCHANGED <<zorder, active, surfaces, raf, sessionVars, outbox, inbox, kernelVars, shut>>

ToggleMaximize(id) ==
  /\ UserActs /\ id \in DOMAIN wins
  /\ LET w == wins[id] IN wins' = [wins EXCEPT ![id] =
       IF w.state = "maximized" THEN [w EXCEPT !.geom = w.prev, !.state = "normal"]
       ELSE [w EXCEPT !.prev = w.geom, !.state = "maximized", !.geom = "full"]]
  /\ Changed
  /\ UNCHANGED <<zorder, active, surfaces, raf, sessionVars, outbox, inbox, kernelVars, shut>>

\* A bug: the window's new place is not saved.
Drag_Unsaved(id) ==
  /\ UserActs /\ id \in DOMAIN wins /\ wins[id].state # "maximized"
  /\ wins' = [Raised(wins, id) EXCEPT ![id].geom = "moved"]
  /\ zorder' = ToTop(zorder, id) /\ active' = id
  /\ UNCHANGED <<surfaces, raf, timer, missed, sessionVars, outbox, inbox, kernelVars, shut>>
\* A drag of the title bar or an edge focuses the window and moves it.
Drag(id) ==
  /\ UserActs /\ id \in DOMAIN wins /\ wins[id].state # "maximized"
  /\ wins' = [Raised(wins, id) EXCEPT ![id].geom = "moved"]
  /\ zorder' = ToTop(zorder, id) /\ active' = id /\ Changed
  /\ UNCHANGED <<surfaces, raf, sessionVars, outbox, inbox, kernelVars, shut>>

\* The close button: the window goes at once, and its process is killed.
UserClose(id) ==
  /\ UserActs /\ id \in DOMAIN wins \ {Terminal}
  /\ Close(id) /\ Changed /\ shut' = shut \cup {wins[id].owner}
  /\ outbox' = Append(outbox, [type |-> "kill", pid |-> wins[id].owner])
  /\ UNCHANGED <<raf, sessionVars, inbox, kernelVars>>

Spawn(app, restore) == [type |-> "spawn", app |-> app, restore |-> restore]
LauncherClick(app) ==
  /\ UserActs /\ outbox' = Append(outbox, Spawn(app, FALSE))
  /\ UNCHANGED <<winVars, surfaces, raf, sessionVars, timer, missed, inbox, kernelVars, shut>>
----------------------------------------------------------------------------
Unopened == UNCHANGED <<winVars, surfaces, raf>>
Unhurried == UNCHANGED <<timer, missed, shut, moves>>

\* restore(): read the file, then launch its entries one by one.
StartRestore ==
  /\ phase = "none" /\ phase' = "reading" /\ outbox' = Append(outbox, [type |-> "read"])
  /\ Unopened /\ Unhurried /\ UNCHANGED <<appOf, winApp, geomOf, todo, inbox, kernelVars>>

LaunchNext(entries) ==
  IF entries = <<>>
  THEN phase' = "done" /\ todo' = <<>> /\ UNCHANGED <<geomOf, outbox>>
  ELSE /\ phase' = "restoring" /\ todo' = Tail(entries)
       /\ geomOf' = With(geomOf, Head(entries).app, Head(entries).geom)
       /\ outbox' = Append(outbox, Spawn(Head(entries).app, TRUE))

Received(type) == inbox # <<>> /\ Head(inbox).type = type /\ inbox' = Tail(inbox)

SessionRead ==
  /\ Received("session") /\ LaunchNext(Head(inbox).apps)
  /\ Unopened /\ Unhurried /\ UNCHANGED <<appOf, winApp, kernelVars>>

\* launch(): the pid is the app's; restore() goes on.
Spawned ==
  /\ Received("spawned")
  /\ appOf' = With(appOf, Head(inbox).pid, Head(inbox).app)
  /\ IF Head(inbox).restore THEN LaunchNext(todo) ELSE UNCHANGED <<phase, todo, geomOf, outbox>>
  /\ Unopened /\ Unhurried /\ UNCHANGED <<winApp, kernelVars>>

\* A launch that throws ends restore() where it is: `restoring' is never cleared.
SpawnFailed ==
  /\ Received("failed")
  /\ Unopened /\ Unhurried /\ UNCHANGED <<sessionVars, outbox, kernelVars>>

\* onSurface: a window opens, is tagged with its app, and takes the saved geometry.
SurfaceCreated ==
  LET pid == Head(inbox).pid
      id  == Head(inbox).win
      app == At(appOf, pid, "none")
  IN  /\ Received("surface")
      /\ wins' = With(wins, id, [Window(pid) EXCEPT !.geom = At(geomOf, app, @)])
      /\ zorder' = Append(zorder, id) /\ active' = id
      /\ surfaces' = With(surfaces, pid, [win |-> id, dirty |-> FALSE])
      /\ winApp' = IF app = "none" THEN winApp ELSE With(winApp, id, app)
      /\ geomOf' = Without(geomOf, {app}) /\ Changed
      /\ UNCHANGED <<raf, appOf, todo, phase, outbox, kernelVars, shut, moves>>

\* onPresent: the frame is copied in the next animation frame.
Presented ==
  LET pid == Head(inbox).pid IN
  /\ Received("present")
  /\ IF pid \in DOMAIN surfaces
     THEN surfaces' = [surfaces EXCEPT ![pid].dirty = TRUE] /\ raf' = TRUE
     ELSE UNCHANGED <<surfaces, raf>>
  /\ UNCHANGED <<winVars, sessionVars, outbox, kernelVars>> /\ Unhurried

\* onExit: closeByOwner, whose close asks for a kill that finds nothing.  A process has
\* one surface here, so one window at most.
Exited ==
  LET pid == Head(inbox).pid
      ids == {id \in DOMAIN wins : wins[id].owner = pid}
  IN  /\ Received("exit")
      /\ IF ids = {} THEN UNCHANGED <<winVars, surfaces, timer, missed, outbox>>
         ELSE /\ \E id \in ids : Close(id)
              /\ Changed
              /\ outbox' = Append(outbox, [type |-> "kill", pid |-> pid])
      /\ UNCHANGED <<raf, sessionVars, kernelVars, shut, moves>>

\* The animation frame: every dirty surface is copied, in whatever window.
Blit ==
  /\ raf /\ raf' = FALSE
  /\ surfaces' = [p \in DOMAIN surfaces |-> [surfaces[p] EXCEPT !.dirty = FALSE]]
  /\ UNCHANGED <<winVars, sessionVars, outbox, inbox, kernelVars>> /\ Unhurried

Tagged(ids) == {[app |-> winApp[id], geom |-> wins[id].geom] : id \in ids \cap DOMAIN winApp}
\* save(): 250 ms after the last change; the windows that are open now.
Save ==
  /\ timer /\ timer' = FALSE /\ missed' = FALSE
  /\ winApp' = Without(winApp, DOMAIN winApp \ DOMAIN wins)
  /\ outbox' = Append(outbox, [type |-> "write", apps |-> Tagged(DOMAIN wins)])
  /\ UNCHANGED <<winVars, surfaces, raf, appOf, geomOf, todo, phase, inbox, kernelVars, shut, moves>>

----------------------------------------------------------------------------
\* The kernel worker: calls in order, each answered through the same queue as the
\* messages of the processes.
MainSide == UNCHANGED <<winVars, surfaces, raf, sessionVars>> /\ Unhurried
Post(msg) == inbox' = Append(inbox, msg)
Opened == Cardinality(DOMAIN procs)

KernelTurn ==
  LET call == Head(outbox) IN
  /\ outbox # <<>> /\ outbox' = Tail(outbox)
  /\ \/ /\ call.type = "read"
        /\ Post([type |-> "session", apps |-> SetToSeq(file)]) /\ UNCHANGED kernelVars
     \/ call.type = "write" /\ file' = call.apps /\ UNCHANGED <<procs, inbox>>
     \/ /\ call.type = "spawn" /\ Opened < MaxPid
        /\ procs' = With(procs, Opened + 1, "live")
        /\ Post([type |-> "spawned", pid |-> Opened + 1, app |-> call.app,
                 restore |-> call.restore])
        /\ UNCHANGED file
     \/ /\ call.type = "spawn"
        /\ Post([type |-> "failed", app |-> call.app, restore |-> call.restore])
        /\ UNCHANGED kernelVars
     \/ /\ call.type = "kill"
        /\ IF At(procs, call.pid, "dead") = "dead" THEN UNCHANGED <<procs, inbox>>
           ELSE /\ procs' = [procs EXCEPT ![call.pid] = "dead"]
                /\ Post([type |-> "exit", pid |-> call.pid])
        /\ UNCHANGED file
  /\ MainSide

\* A process asks for its surface, publishes a frame, or ends.
WinOf(pid) == pid + 1
Process(pid) ==
  /\ At(procs, pid, "dead") = "live"
  /\ \/ /\ WinOf(pid) <= MaxWin
        /\ WinOf(pid) \notin DOMAIN wins /\ \A i \in DOMAIN inbox :
             inbox[i].type \in {"surface", "present"} => inbox[i].pid # pid
        /\ Post([type |-> "surface", pid |-> pid, win |-> WinOf(pid)]) /\ UNCHANGED procs
     \/ /\ pid \in DOMAIN surfaces /\ ~surfaces[pid].dirty
        /\ \A i \in DOMAIN inbox : inbox[i].type # "present"
        /\ Post([type |-> "present", pid |-> pid]) /\ UNCHANGED procs
     \/ /\ procs' = [procs EXCEPT ![pid] = "dead"] /\ Post([type |-> "exit", pid |-> pid])
  /\ UNCHANGED <<outbox, file>> /\ MainSide

DeskNext ==
  \/ \E id \in 1..MaxWin : \/ FocusWindow(id) \/ Minimize(id) \/ ToggleMaximize(id) \/ Drag(id)
                           \/ UserClose(id)
  \/ \E app \in Apps : LauncherClick(app)
  \/ StartRestore \/ SessionRead \/ Spawned \/ SpawnFailed \/ SurfaceCreated \/ Presented \/ Exited
  \/ Blit \/ Save \/ KernelTurn
  \/ \E pid \in 1..MaxPid : Process(pid)

DeskSpec == DeskInit /\ [][DeskNext]_desktopVars
----------------------------------------------------------------------------
\* Whatever opens, closes and is minimized, the active window is there and on top,
\* and the stack holds every window once.
ActiveOnTop == /\ active # 0 => active \in DOMAIN wins /\ active = Last(zorder)
               /\ ToSet(zorder) = DOMAIN wins /\ Len(zorder) = Cardinality(DOMAIN wins)

\* Crash containment: once the exit of a process has been handled, none of its
\* windows is left and none opens.
ExitPending(pid) == \E i \in DOMAIN inbox : inbox[i].type = "exit" /\ inbox[i].pid = pid
NoOrphanWindow ==
  \A id \in DOMAIN wins : wins[id].owner # 0 =>
    At(procs, wins[id].owner, "dead") = "live" \/ ExitPending(wins[id].owner)

\* Closing an app's window ends its process (index.ts:388): it is dead, or the kill
\* is on its way behind whatever was asked before.
ClosedIsKilled ==
  \A pid \in shut : \/ At(procs, pid, "dead") = "dead"
                    \/ \E i \in DOMAIN outbox : outbox[i] = [type |-> "kill", pid |-> pid]

\* A frame that waits to be copied has an animation frame coming, and it is of a
\* surface whose window is open.
FramesComing ==
  \A pid \in DOMAIN surfaces : /\ surfaces[pid].win \in DOMAIN wins
                               /\ surfaces[pid].dirty => raf
WindowsFollow == ActiveOnTop /\ NoOrphanWindow /\ ClosedIsKilled /\ FramesComing

\* At rest the saved session is the tagged windows that are open, where they are,
\* unless they changed while restore() was launching.
Writing == \E i \in DOMAIN outbox : outbox[i].type = "write"
SessionSaved == timer \/ missed \/ Writing \/ file = Tagged(DOMAIN wins)
=============================================================================
