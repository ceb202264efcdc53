------------------------------- MODULE Kernel -------------------------------
(***************************************************************************)
(* The wasm_os microkernel: the calls of crates/kernel/src/{kcore,syscall} *)
(* .rs that touch shared kernel state, and the host loop of                *)
(* packages/host/src/worker/kernel-worker.ts that drives them.             *)
(*                                                                         *)
(* One step is one call serviced, one host event taken, or one woken call  *)
(* driven again.  The kernel worker is a single thread: between two steps  *)
(* of one turn nothing else runs, and a new call or event waits for AtRest.*)
(***************************************************************************)
EXTENDS ProcTable

CONSTANTS
  MaxShm, MaxSurface,             \* ids ever allocated
  RegionsPerPid, SurfacesPerPid,  \* MAX_REGIONS_PER_PID, MAX_SURFACES_PER_PID
  MaxSignals, MaxStdin, MaxInput, MaxInbox, \* bounds on unbounded queues
  Payloads, ReadLens, InputLens,  \* what guests write, and how much they ask for
  Names,                          \* channel rendezvous names
  Grants, Wants,                  \* capabilities the host grants, guests delegate
  Stdio,                          \* stdio specs guests spawn children with
  RenumberTo,                     \* fd_renumber destinations
  LastRoot,                       \* the host launches processes up to this pid
  Use,                            \* the calls and host events of this instance
  LateKill                        \* guests may SIGKILL a process that has exited

SpecKind   == {"terminal", "file"} \cup PipeKind

\* What the want_ bytes of a spawn request can name.
Delegable  == {"gpu", "input", "signal", "net"}

ASSUME KernelAssumption ==
  /\ MaxShm \in Nat /\ MaxSurface \in Nat
  /\ RegionsPerPid \in Nat /\ SurfacesPerPid \in Nat
  /\ MaxSignals \in Nat /\ MaxStdin \in Nat /\ MaxInput \in Nat /\ MaxInbox \in Nat
  /\ Payloads \subseteq Seq(Byte)
  /\ ReadLens \subseteq Nat \ {0} /\ InputLens \subseteq Nat \ {0}
  /\ Grants \subseteq SUBSET (Capability \ {"root"}) /\ Wants \subseteq SUBSET Delegable
  /\ Stdio \subseteq [0..2 -> SpecKind]
  /\ RenumberTo \subseteq Fd
  /\ LastRoot \in Nat
  /\ LateKill \in BOOLEAN

ShmId     == 1..MaxShm
SurfaceId == 1..MaxSurface

VARIABLES
  pipes, nextPipe,
  miscounted,                     \* history: pipes an end of which was lost or released twice
  chans, byName, nextChan,        \* byName[n] = 0: no channel waits under n
  selfMet,                        \* history: channels one process opened both ends of
  shmOwner, shmGranted, nextShm,
  surfaceOwner, nextSurface,
  netResponse,                    \* net_responses: pids with a response to collect
  fetching,                       \* host: pids a brokered fetch is out for
  torn                            \* history: pids that exited asleep in a net_request

pipeVars == <<pipes, nextPipe, miscounted>>
chanVars == <<chans, byName, nextChan, selfMet>>
memVars  == <<shmOwner, shmGranted, nextShm, surfaceOwner, nextSurface>>
netVars  == <<netResponse, fetching, torn>>
vars     == <<procVars, waitVars, hostVars, pipeVars, chanVars, memVars, netVars>>

-----------------------------------------------------------------------------
(***************************************************************************)
(* boot(): init is registered, enqueued and picked, so it is Running.      *)
(***************************************************************************)
Init ==
  /\ nextPid = 2
  /\ state = [p \in Pid |-> IF p = InitPid THEN "running" ELSE "none"]
  /\ blockedOn = [p \in Pid |-> NotBlocked]
  /\ exitCode = [p \in Pid |-> NoCode]
  /\ caps = [p \in Pid |-> IF p = InitPid THEN {"root", "spawn"} ELSE {}]
  /\ signals = [p \in Pid |-> 0]
  /\ stdin = [p \in Pid |-> 0] /\ input = [p \in Pid |-> 0]
  /\ fds = [p \in Pid |-> IF p = InitPid THEN StdFds ELSE NoFds]
  /\ nextFd = [p \in Pid |-> FirstFd]
  /\ holds = [p \in Pid |-> [c \in ChanId |-> NoEnd]]
  /\ spawner = [p \in Pid |-> NoPid]
  /\ workers = {} /\ queue = {} /\ turn = Idle
  /\ parked = [p \in Pid |-> NoReq]
  /\ pipes = [i \in PipeId |-> NoPipe] /\ nextPipe = 1 /\ miscounted = {}
  /\ chans = [c \in ChanId |-> NoChan] /\ nextChan = 1 /\ selfMet = {}
  /\ byName = [n \in Names |-> 0]
  /\ shmOwner = [s \in ShmId |-> NoPid] /\ nextShm = 1
  /\ shmGranted = [s \in ShmId |-> {}]
  /\ surfaceOwner = [s \in SurfaceId |-> NoPid] /\ nextSurface = 1
  /\ netResponse = {} /\ fetching = {} /\ torn = {}

-----------------------------------------------------------------------------
(***************************************************************************)
(* Exit.  proc_exit() releases every counted resource of the process but   *)
(* leaves the entry, its descriptors, its channel endpoints and its wait   *)
(* reason behind in the zombie.                                            *)
(***************************************************************************)
EndsOf(p, kind, id) == {fd \in Fd : fds[p][fd] = PipeEnd(kind, id)}

\* Faulty: an end held twice is released once.
PipesWithout_Once(p) ==
  [i \in PipeId |-> CloseEnds(pipes[i], IF EndsOf(p, "pipeRead", i) = {} THEN 0 ELSE 1,
                                        IF EndsOf(p, "pipeWrite", i) = {} THEN 0 ELSE 1)]

PipesWithout(p) ==
  [i \in PipeId |-> CloseEnds(pipes[i], Cardinality(EndsOf(p, "pipeRead", i)),
                                        Cardinality(EndsOf(p, "pipeWrite", i)))]

\* close_proc_channels()
ChansWithout(p) ==
  [c \in ChanId |-> IF holds[p][c] \in End THEN Closed(chans[c], holds[p][c]) ELSE chans[c]]

\* Faulty: only waiters wake; the wrong end of a channel wakes.
ExitReasons_WaitOnly(p) == {On("wait", p)}

ExitReasons_OwnEnd(p) ==
  {On("wait", p)} \cup {OnChanRecv(c, holds[p][c]) : c \in {c \in ChanId : holds[p][c] \in End}}

\* Everyone a closed pipe end, a closed endpoint or the exit itself may unblock.
ExitReasons(p) ==
  {On("wait", p)}
  \cup {On("pipeRead", i) : i \in {i \in PipeId : EndsOf(p, "pipeWrite", i) # {}}}
  \cup {On("pipeWrite", i) : i \in {i \in PipeId : EndsOf(p, "pipeRead", i) # {}}}
  \cup {OnChanRecv(c, 1 - holds[p][c]) : c \in {c \in ChanId : holds[p][c] \in End}}

\* Faulty: other processes keep their access to a freed region.
GrantsWithout_KeepFreed(p) == [s \in ShmId |-> shmGranted[s] \ {p}]

\* free_owned()
GrantsWithout(p) ==
  [s \in ShmId |-> IF shmOwner[s] = p THEN {} ELSE shmGranted[s] \ {p}]

\* Faulty: the surfaces stay allocated.
SurfacesWithout_Leak(p) == surfaceOwner

\* free_surfaces_of()
SurfacesWithout(p) ==
  [s \in SurfaceId |-> IF surfaceOwner[s] = p THEN NoPid ELSE surfaceOwner[s]]

\* The pipe ids a guest knows: those it has a descriptor for.
Held(p) == {i \in PipeId : \E k \in PipeKind : EndsOf(p, k, i) # {}}

\* p waits for the response to its net_request.
Awaited(p) == blockedOn[p] = On("netReq", 0)

Release(p) ==
  /\ pipes' = PipesWithout(p)
  /\ chans' = ChansWithout(p)
  /\ byName' = [n \in Names |-> IF byName[n] # 0 /\ ChansWithout(p)[byName[n]] = NoChan
                                THEN 0 ELSE byName[n]]
  /\ shmOwner' = [s \in ShmId |-> IF shmOwner[s] = p THEN NoPid ELSE shmOwner[s]]
  /\ shmGranted' = GrantsWithout(p)
  /\ surfaceOwner' = SurfacesWithout(p)
  /\ netResponse' = netResponse \ {p}
  /\ UNCHANGED <<nextPipe, nextChan, selfMet, nextShm, nextSurface, fetching>>

Exit(p, code) ==
  /\ Release(p)
  /\ exitCode'  = [exitCode EXCEPT ![p] = code]
  /\ state'     = [Runnable(ExitReasons(p)) EXCEPT ![p] = "zombie"]
  /\ blockedOn' = Unblocked(ExitReasons(p))
  /\ queue'     = queue \cup Stashed(Waiting(ExitReasons(p)))
  /\ torn'      = IF Awaited(p) THEN torn \cup {p} ELSE torn
  /\ UNCHANGED <<nextPid, caps, signals, stdin, input, fds, nextFd, holds, spawner, parked,
                 miscounted>>

\* The guest's own proc_exit, over the ring.
ProcExit(p, code) ==
  /\ MayCall(p)
  /\ Exit(p, code)
  /\ UNCHANGED <<workers, turn>>

\* Faulty: a zombie's exit is recorded a second time.
Unrecorded_Twice(p) == Known(p)

\* exit_code() of the process is still undefined.
Unrecorded(p) == Live(p)

\* onProcExit(): the worker is gone.  The exit is recorded unless the kernel has
\* a code already, the wakeups it caused are driven, and then FinishExit runs.
HostExit(p, code) ==
  /\ AtRest /\ p \in workers
  /\ IF Unrecorded(p)
     THEN Exit(p, code)
     ELSE UNCHANGED <<procVars, waitVars, parked, queue, pipeVars, chanVars, memVars, netVars>>
  /\ turn' = Ending(p)
  /\ UNCHANGED workers

\* The worker posted its exit message (a return from _start, or a trap): it was
\* not asleep in a call.
WorkerExit(p, code) == parked[p] = NoReq /\ HostExit(p, code)

\* killProcess(): the user closed the window, whatever the guest was doing.
HostKill(p) == HostExit(p, 137)

FinishExit ==
  /\ turn.doing = "ending" /\ queue = {}
  /\ parked'  = [parked EXCEPT ![turn.pid] = NoReq]
  /\ workers' = workers \ {turn.pid}
  /\ turn'    = Idle
  /\ UNCHANGED <<procVars, waitVars, queue, pipeVars, chanVars, memVars, netVars>>

-----------------------------------------------------------------------------
(***************************************************************************)
(* Spawn.                                                                  *)
(***************************************************************************)

\* spawn()/spawnByPath(): the entry is made first, so an unreadable image leaves
\* one that has no worker.
HostSpawn(grant, started) ==
  /\ AtRest /\ nextPid <= MaxPid
  /\ nextPid' = nextPid + 1
  /\ state'   = [state EXCEPT ![nextPid] = "ready"]
  /\ caps'    = [caps EXCEPT ![nextPid] = grant]
  /\ fds'     = [fds EXCEPT ![nextPid] = StdFds]
  /\ workers' = IF started THEN workers \cup {nextPid} ELSE workers
  /\ UNCHANGED <<exitCode, signals, stdin, input, nextFd, holds, spawner, blockedOn,
                 parked, queue, turn, pipeVars, chanVars, memVars, netVars>>

ChildDesc(fd, spec, rid, wid) ==
  CASE spec = "terminal"  -> IF fd = 0 THEN StdinDesc ELSE OtherDesc
    [] spec = "file"      -> OtherDesc
    [] spec = "pipeRead"  -> PipeEnd("pipeRead", rid)
    [] spec = "pipeWrite" -> PipeEnd("pipeWrite", wid)

ChildFds(stdio, rid, wid) ==
  [fd \in Fd |-> IF fd \in 0..2 THEN ChildDesc(fd, stdio[fd], rid, wid) ELSE StdFds[fd]]

\* Faulty: the parent hands on what it does not have.
Delegated_Unchecked(p, want) == want

\* A parent hands on only what it asked for and holds itself, never "spawn".
Delegated(p, want) == want \cap caps[p]

\* k_spawn(): the child's pipe stdio counts as more ends of the pipes named, and it
\* gets what its parent asked for and has, and all of the file tree whatever its
\* parent has.  The host then starts it.
KSpawn(p, stdio, rid, wid, want) ==
  LET child == nextPid
      ends(kind, i, id) == IF i = id THEN Cardinality({fd \in 0..2 : stdio[fd] = kind}) ELSE 0
  IN
  /\ MayCall(p) /\ "spawn" \in caps[p] /\ nextPid <= MaxPid
  /\ nextPid' = nextPid + 1
  /\ state'   = [state EXCEPT ![child] = "ready"]
  /\ caps'    = [caps EXCEPT ![child] = Delegated(p, want) \cup {"root"}]
  /\ fds'     = [fds EXCEPT ![child] = ChildFds(stdio, rid, wid)]
  /\ spawner' = [spawner EXCEPT ![child] = p]
  /\ pipes'   = [i \in PipeId |-> AddEnds(pipes[i], ends("pipeRead", i, rid),
                                                    ends("pipeWrite", i, wid))]
  /\ turn'    = Starting(child)
  /\ UNCHANGED <<exitCode, signals, stdin, input, nextFd, holds, blockedOn, workers,
                 parked, queue, nextPipe, miscounted, chanVars, memVars, netVars>>

SpawnAny(p) ==
  \E stdio \in Stdio, want \in Wants :
    \E rid \in IF \E fd \in 0..2 : stdio[fd] = "pipeRead" THEN Held(p) ELSE {0},
       wid \in IF \E fd \in 0..2 : stdio[fd] = "pipeWrite" THEN Held(p) ELSE {0} :
      KSpawn(p, stdio, rid, wid, want)

\* handleSpawnRequest(): the child's worker starts, or its exit is forged.
StartChild ==
  /\ turn.doing = "starting"
  /\ workers' = workers \cup {turn.pid}
  /\ turn'    = Idle
  /\ UNCHANGED <<procVars, waitVars, parked, queue, pipeVars, chanVars, memVars, netVars>>

SpawnFailed ==
  /\ turn.doing = "starting"
  /\ Exit(turn.pid, 127)
  /\ turn' = Idle
  /\ UNCHANGED workers

-----------------------------------------------------------------------------
(***************************************************************************)
(* Descriptors and pipes.                                                  *)
(***************************************************************************)
\* The pipes whose ends these descriptors of p are.
EndsAt(p, at) == {i \in PipeId : \E fd \in at, k \in PipeKind : fds[p][fd] = PipeEnd(k, i)}

\* k_pipe(): open_fd() writes over whatever the number it has come round to names.
KPipe(p) ==
  LET rfd == nextFd[p]
      wfd == FdAfter(rfd)
  IN
  /\ MayCall(p) /\ nextPipe <= MaxPipe
  /\ pipes'    = [pipes EXCEPT ![nextPipe] = NewPipe]
  /\ nextPipe' = nextPipe + 1
  /\ miscounted' = miscounted \cup EndsAt(p, {rfd, wfd})
  /\ fds'      = [fds EXCEPT ![p] = [@ EXCEPT ![rfd] = PipeEnd("pipeRead", nextPipe),
                                              ![wfd] = PipeEnd("pipeWrite", nextPipe)]]
  /\ nextFd'   = [nextFd EXCEPT ![p] = FdAfter(wfd)]
  /\ UNCHANGED <<nextPid, exitCode, caps, signals, stdin, input, holds, spawner,
                 waitVars, hostVars, chanVars, memVars, netVars>>

\* fd_read() of a pipe with bytes: drained, and the writers may go on.
ReadPipe(p, r) ==
  LET d == fds[p][r.arg] IN
  /\ d.kind = "pipeRead" /\ pipes[d.id].buf # <<>>
  /\ pipes' = [pipes EXCEPT ![d.id] = Drain(@, r.len)]
  /\ Reply(p, {On("pipeWrite", d.id)})
  /\ UNCHANGED <<procVars, nextPipe, miscounted>>

ReadStdin(p, r) ==
  /\ fds[p][r.arg].kind = "stdin" /\ stdin[p] > 0
  /\ stdin' = [stdin EXCEPT ![p] = SaturatingSub(@, r.len)]
  /\ Reply(p, {})
  /\ UNCHANGED <<nextPid, exitCode, caps, signals, input, fds, nextFd, holds, spawner, pipeVars>>

ReadParks(p, r) ==
  LET d == fds[p][r.arg] IN
  /\ \/ d.kind = "pipeRead" /\ pipes[d.id].buf = <<>> /\ WriteOpen(pipes[d.id])
        /\ Park(p, r, On("pipeRead", d.id))
     \/ d.kind = "stdin" /\ stdin[p] = 0 /\ Park(p, r, On("stdin", 0))
  /\ UNCHANGED <<procVars, pipeVars>>

\* End of file, a file's bytes, or BADF.
ReadReturns(p, r) ==
  LET d == fds[p][r.arg] IN
  /\ d.kind # "stdin"
  /\ d.kind = "pipeRead" => pipes[d.id].buf = <<>> /\ ~WriteOpen(pipes[d.id])
  /\ Reply(p, {})
  /\ UNCHANGED <<procVars, pipeVars>>

FdRead(p, r) ==
  /\ r.call = "fdRead"
  /\ ReadPipe(p, r) \/ ReadStdin(p, r) \/ ReadParks(p, r) \/ ReadReturns(p, r)
  /\ UNCHANGED <<chanVars, memVars, netVars>>

WritePipe(p, r) ==
  LET d == fds[p][r.arg] IN
  /\ d.kind = "pipeWrite" /\ ReadOpen(pipes[d.id]) /\ Space(pipes[d.id]) > 0
  /\ pipes' = [pipes EXCEPT ![d.id] = Fill(@, r.data)]
  /\ Reply(p, {On("pipeRead", d.id)})
  /\ UNCHANGED <<nextPipe, miscounted>>

WriteParks(p, r) ==
  LET d == fds[p][r.arg] IN
  /\ d.kind = "pipeWrite" /\ ReadOpen(pipes[d.id]) /\ Space(pipes[d.id]) = 0
  /\ Park(p, r, On("pipeWrite", d.id))
  /\ UNCHANGED pipeVars

\* EPIPE, a stream or file that takes the bytes, or BADF.
WriteReturns(p, r) ==
  LET d == fds[p][r.arg] IN
  /\ d.kind = "pipeWrite" => ~ReadOpen(pipes[d.id])
  /\ Reply(p, {})
  /\ UNCHANGED pipeVars

FdWrite(p, r) ==
  /\ r.call = "fdWrite"
  /\ WritePipe(p, r) \/ WriteParks(p, r) \/ WriteReturns(p, r)
  /\ UNCHANGED <<procVars, chanVars, memVars, netVars>>

\* The effect on pipes of closing one descriptor, and who may go on.
CloseDesc(d) ==
  pipes' = CASE d.kind = "pipeRead"  -> [pipes EXCEPT ![d.id] = CloseEnds(@, 1, 0)]
             [] d.kind = "pipeWrite" -> [pipes EXCEPT ![d.id] = CloseEnds(@, 0, 1)]
             [] OTHER                -> pipes

CloseReasons(d) ==
  CASE d.kind = "pipeRead"  -> {On("pipeWrite", d.id)}
    [] d.kind = "pipeWrite" -> {On("pipeRead", d.id)}
    [] OTHER                -> {}

FdClose(p, fd) ==
  /\ MayCall(p) /\ fds[p][fd] # NoDesc
  /\ CloseDesc(fds[p][fd])
  /\ fds' = [fds EXCEPT ![p][fd] = NoDesc]
  /\ Reply(p, CloseReasons(fds[p][fd]))
  /\ UNCHANGED <<nextPid, exitCode, caps, signals, stdin, input, nextFd, holds, spawner,
                 nextPipe, miscounted, chanVars, memVars, netVars>>

\* Faulty: nobody learns that the destination was closed.
FdRenumber_Silent(p, old, new) ==
  /\ MayCall(p) /\ old # new /\ fds[p][old] # NoDesc
  /\ CloseDesc(fds[p][new])
  /\ fds' = [fds EXCEPT ![p] = [@ EXCEPT ![new] = fds[p][old], ![old] = NoDesc]]
  /\ nextFd' = [nextFd EXCEPT ![p] = FdPast(@, new)]
  /\ UNCHANGED <<nextPid, exitCode, caps, signals, stdin, input, holds, spawner, waitVars,
                 hostVars, nextPipe, miscounted, chanVars, memVars, netVars>>

\* fd_renumber(): the destination is closed, the source moved.
FdRenumber(p, old, new) ==
  /\ MayCall(p) /\ old # new /\ fds[p][old] # NoDesc
  /\ CloseDesc(fds[p][new])
  /\ fds' = [fds EXCEPT ![p] = [@ EXCEPT ![new] = fds[p][old], ![old] = NoDesc]]
  /\ nextFd' = [nextFd EXCEPT ![p] = FdPast(@, new)]
  /\ Reply(p, CloseReasons(fds[p][new]))
  /\ UNCHANGED <<nextPid, exitCode, caps, signals, stdin, input, holds, spawner,
                 nextPipe, miscounted, chanVars, memVars, netVars>>

-----------------------------------------------------------------------------
(***************************************************************************)
(* Waiting for processes, and signals.                                     *)
(***************************************************************************)

\* k_wait() of a process that has exited: its status is collected, and reap()
\* removes the entry if it is (still) a zombie.
WaitCollects(p, c) ==
  /\ exitCode[c] # NoCode
  /\ Reap(c)
  /\ Complete(p, {})

\* No such process.
WaitFindsNone(p, c) == ~Known(c) /\ Reply(p, {}) /\ UNCHANGED procVars

WaitParks(p, r) == Live(r.arg) /\ Park(p, r, On("wait", r.arg)) /\ UNCHANGED procVars

KWait(p, r) ==
  /\ r.call = "kWait"
  /\ WaitCollects(p, r.arg) \/ WaitFindsNone(p, r.arg) \/ WaitParks(p, r)
  /\ UNCHANGED <<pipeVars, chanVars, memVars, netVars>>

\* parent_of(): spawn() makes every entry with no parent, and nothing sets one.
ParentOf(p) == NoPid

MaySignal(p, t) ==
  /\ MayCall(p) /\ t # InitPid /\ Known(t)
  /\ t = p \/ "signal" \in caps[p]

\* SIGKILL forges the target's proc_exit, reaps it if it has no parent, and has
\* the host tear its worker down before the woken are driven.
Kill9(p, t) ==
  /\ MaySignal(p, t) /\ (LateKill \/ Live(t))
  /\ Release(t)
  /\ IF ParentOf(t) = NoPid
     THEN /\ state'     = [Runnable(ExitReasons(t)) EXCEPT ![t] = "none"]
          /\ blockedOn' = [Unblocked(ExitReasons(t)) EXCEPT ![t] = NotBlocked]
          /\ Forget(t)
     ELSE /\ state'     = [Runnable(ExitReasons(t)) EXCEPT ![t] = "zombie"]
          /\ blockedOn' = Unblocked(ExitReasons(t))
          /\ exitCode'  = [exitCode EXCEPT ![t] = 137]
          /\ UNCHANGED <<nextPid, caps, signals, stdin, input, fds, nextFd, holds, spawner>>
  /\ miscounted' = IF Live(t) THEN miscounted ELSE miscounted \cup Held(t)
  /\ workers' = workers \ {t}
  /\ parked'  = [parked EXCEPT ![t] = NoReq]
  /\ queue'   = Stashed(Waiting(ExitReasons(t))) \ {t}
  /\ UNCHANGED <<turn, torn>>

\* SIGTERM queues a signal and wakes a sig_wait().
KillTerm(p, t) ==
  /\ MaySignal(p, t) /\ signals[t] < MaxSignals
  /\ signals' = [signals EXCEPT ![t] = @ + 1]
  /\ Nudge(t, On("sigWait", 0))
  /\ UNCHANGED <<nextPid, exitCode, caps, stdin, input, fds, nextFd, holds, spawner,
                 pipeVars, chanVars, memVars, netVars>>

ProcRaise(p) ==
  /\ MayCall(p) /\ signals[p] < MaxSignals
  /\ signals' = [signals EXCEPT ![p] = @ + 1]
  /\ UNCHANGED <<nextPid, exitCode, caps, stdin, input, fds, nextFd, holds, spawner,
                 waitVars, hostVars, pipeVars, chanVars, memVars, netVars>>

SigWait(p, r) ==
  /\ r.call = "sigWait"
  /\ \/ signals[p] > 0 /\ Reply(p, {})
     \/ signals[p] = 0 /\ Park(p, r, On("sigWait", 0))
  /\ signals' = [signals EXCEPT ![p] = 0]
  /\ UNCHANGED <<nextPid, exitCode, caps, stdin, input, fds, nextFd, holds, spawner,
                 pipeVars, chanVars, memVars, netVars>>

-----------------------------------------------------------------------------
(***************************************************************************)
(* Message channels.                                                       *)
(***************************************************************************)
ChanOpen(p, name) ==
  LET id == byName[name] IN
  /\ MayCall(p)
  /\ \/ /\ id = 0 /\ nextChan <= MaxChan
        /\ chans'    = [chans EXCEPT ![nextChan] = NewChan]
        /\ byName'   = [byName EXCEPT ![name] = nextChan]
        /\ holds'    = [holds EXCEPT ![p][nextChan] = 0]
        /\ nextChan' = nextChan + 1
        /\ UNCHANGED selfMet
     \/ /\ id # 0
        /\ chans'    = [chans EXCEPT ![id] = Connected(@)]
        /\ byName'   = [byName EXCEPT ![name] = 0]
        /\ holds'    = [holds EXCEPT ![p][id] = 1]
        /\ selfMet'  = IF holds[p][id] = NoEnd THEN selfMet ELSE selfMet \cup {id}
        /\ UNCHANGED nextChan
  /\ UNCHANGED <<nextPid, exitCode, caps, signals, stdin, input, fds, nextFd, spawner,
                 waitVars, hostVars, pipeVars, memVars, netVars>>

ChanSend(p, c, msg) ==
  LET end == holds[p][c] IN
  /\ MayCall(p) /\ end \in End
  /\ PeerOpen(chans[c], end) /\ Len(chans[c].inbox[1 - end]) < MaxInbox
  /\ chans' = [chans EXCEPT ![c] = Sent(@, end, msg)]
  /\ Reply(p, {OnChanRecv(c, 1 - end)})
  /\ UNCHANGED <<procVars, pipeVars, byName, nextChan, selfMet, memVars, netVars>>

ChanRecv(p, r) ==
  LET c == r.arg
      end == holds[p][c]
  IN
  /\ r.call = "chanRecv"
  /\ \/ end = NoEnd /\ Reply(p, {}) /\ UNCHANGED chans            \* BADF
     \/ /\ end # NoEnd /\ chans[c].inbox[end] # <<>>
        /\ chans' = [chans EXCEPT ![c] = Received(@, end)]
        /\ Reply(p, {})
     \/ /\ end # NoEnd /\ chans[c].inbox[end] = <<>>
        /\ IF PeerOpen(chans[c], end)
           THEN Park(p, r, OnChanRecv(c, end))
           ELSE Reply(p, {})                                       \* end of file
        /\ UNCHANGED chans
  /\ UNCHANGED <<procVars, pipeVars, byName, nextChan, selfMet, memVars, netVars>>

-----------------------------------------------------------------------------
(***************************************************************************)
(* Shared memory and compositor surfaces: who owns what.                   *)
(***************************************************************************)
ShmCreate(p) ==
  /\ MayCall(p) /\ nextShm <= MaxShm
  /\ Cardinality({s \in ShmId : shmOwner[s] = p}) < RegionsPerPid
  /\ shmOwner'   = [shmOwner EXCEPT ![nextShm] = p]
  /\ shmGranted' = [shmGranted EXCEPT ![nextShm] = {p}]
  /\ nextShm'    = nextShm + 1
  /\ UNCHANGED <<procVars, waitVars, hostVars, pipeVars, chanVars, surfaceOwner, nextSurface, netVars>>

ShmGrant(p, s, t) ==
  /\ MayCall(p) /\ shmOwner[s] = p
  /\ shmGranted' = [shmGranted EXCEPT ![s] = @ \cup {t}]
  /\ UNCHANGED <<procVars, waitVars, hostVars, pipeVars, chanVars, shmOwner, nextShm,
                 surfaceOwner, nextSurface, netVars>>

WinSurface(p) ==
  /\ MayCall(p) /\ "gpu" \in caps[p] /\ nextSurface <= MaxSurface
  /\ Cardinality({s \in SurfaceId : surfaceOwner[s] = p}) < SurfacesPerPid
  /\ surfaceOwner' = [surfaceOwner EXCEPT ![nextSurface] = p]
  /\ nextSurface'  = nextSurface + 1
  /\ UNCHANGED <<procVars, waitVars, hostVars, pipeVars, chanVars, shmOwner, shmGranted, nextShm, netVars>>

-----------------------------------------------------------------------------
(***************************************************************************)
(* Keyboard, mouse and network.                                            *)
(***************************************************************************)
DeliverStdin(p, n) ==
  /\ AtRest /\ Known(p) /\ stdin[p] + n <= MaxStdin
  /\ stdin' = [stdin EXCEPT ![p] = @ + n]
  /\ Nudge(p, On("stdin", 0))
  /\ UNCHANGED <<nextPid, exitCode, caps, signals, input, fds, nextFd, holds, spawner,
                 pipeVars, chanVars, memVars, netVars>>

DeliverInput(p, n) ==
  /\ AtRest /\ "input" \in caps[p] /\ input[p] + n <= MaxInput
  /\ input' = [input EXCEPT ![p] = @ + n]
  /\ Nudge(p, On("input", 0))
  /\ UNCHANGED <<nextPid, exitCode, caps, signals, stdin, fds, nextFd, holds, spawner,
                 pipeVars, chanVars, memVars, netVars>>

\* win_read_input(): whole records, and at least one.
WinReadInput(p, r) ==
  /\ r.call = "winReadInput"
  /\ IF "input" \in caps[p] /\ input[p] = 0
     THEN Park(p, r, On("input", 0))
     ELSE Reply(p, {})
  /\ input' = [input EXCEPT ![p] = IF "input" \in caps[p] THEN SaturatingSub(@, r.len) ELSE @]
  /\ UNCHANGED <<nextPid, exitCode, caps, signals, stdin, fds, nextFd, holds, spawner,
                 pipeVars, chanVars, memVars, netVars>>

\* net_request(): the first call asks the host to fetch, the next collects.
NetRequest(p, r) ==
  /\ r.call = "netRequest"
  /\ IF "net" \in caps[p] /\ p \notin netResponse
     THEN Park(p, r, On("netReq", 0)) /\ fetching' = fetching \cup {p}
     ELSE Reply(p, {}) /\ UNCHANGED fetching
  /\ netResponse' = IF "net" \in caps[p] THEN netResponse \ {p} ELSE netResponse
  /\ UNCHANGED <<torn, procVars, pipeVars, chanVars, memVars>>

\* Faulty: a response is kept whoever waits.
Kept_Anyway(p) == TRUE

\* A response is kept only for a caller that still waits for it.
Kept(p) == Awaited(p)

\* deliver_net(): the fetch ended, well or not, whether its caller lives or not.
DeliverNet(p) ==
  /\ AtRest /\ p \in fetching
  /\ fetching' = fetching \ {p}
  /\ netResponse' = IF Kept(p) THEN netResponse \cup {p} ELSE netResponse
  /\ Nudge(p, On("netReq", 0))
  /\ UNCHANGED <<torn, procVars, pipeVars, chanVars, memVars>>

-----------------------------------------------------------------------------
(***************************************************************************)
(* The system.  Use names the calls and events an instance exercises.      *)
(***************************************************************************)
Offered(p) ==
  LET Fds(kinds) == {fd \in Fd : fds[p][fd].kind \in kinds} IN
  {r \in {ReadReq(fd, n) : fd \in Fds({"pipeRead"} \cup (IF MaxStdin > 0 THEN {"stdin"} ELSE {})),
                           n \in ReadLens}
         \cup {WriteReq(fd, data) : fd \in Fds({"pipeWrite"}), data \in Payloads}
         \cup {Req("kWait", c) : c \in Pid}
         \cup {[Req("winReadInput", 0) EXCEPT !.len = n] : n \in InputLens}
         \cup {Req("chanRecv", c) : c \in ChanId}
         \cup {Req("sigWait", 0), Req("netRequest", 0)} : r.call \in Use}

\* The calls that may park, so may be driven again.
Serve(p, r) ==
  \/ FdRead(p, r)
  \/ FdWrite(p, r)
  \/ KWait(p, r)
  \/ SigWait(p, r)
  \/ ChanRecv(p, r)
  \/ WinReadInput(p, r)
  \/ NetRequest(p, r)

\* driveSyscall()
Issue(p) == MayCall(p) /\ \E r \in Offered(p) : Serve(p, r)

\* processWakeups()
Redrive(p) == p \in queue /\ Serve(p, parked[p])

GuestCall(p) ==
  \/ Issue(p)
  \/ "kPipe" \in Use /\ KPipe(p)
  \/ "fdClose" \in Use /\ \E fd \in Fd : fds[p][fd].kind \in PipeKind /\ FdClose(p, fd)
  \/ \E old \in Fd, new \in RenumberTo : fds[p][old].kind \in PipeKind /\ FdRenumber(p, old, new)
  \/ SpawnAny(p)
  \/ "procExit" \in Use /\ \E code \in ExitCodes : ProcExit(p, code)
  \/ "kill9" \in Use /\ \E t \in Pid : Kill9(p, t)
  \/ \E t \in Pid : KillTerm(p, t)
  \/ ProcRaise(p)
  \/ \E name \in Names : ChanOpen(p, name)
  \/ \E c \in ChanId, msg \in Msg : ChanSend(p, c, msg)
  \/ ShmCreate(p)
  \/ \E s \in ShmId, t \in Pid : ShmGrant(p, s, t)
  \/ WinSurface(p)

HostEvent(p) ==
  \/ "workerExit" \in Use /\ \E code \in ExitCodes : WorkerExit(p, code)
  \/ "hostKill" \in Use /\ HostKill(p)
  \/ \E n \in 1..MaxStdin : DeliverStdin(p, n)
  \/ \E n \in 1..MaxInput : DeliverInput(p, n)
  \/ DeliverNet(p)

Launch ==
  /\ nextPid <= LastRoot
  /\ \E grant \in Grants, started \in {TRUE} \cup (IF "spawnFails" \in Use THEN {FALSE} ELSE {}) :
       HostSpawn(grant, started)

\* What the host does before the event loop runs on.
HostTurn ==
  \/ \E p \in Pid : Redrive(p)
  \/ FinishExit
  \/ StartChild
  \/ "spawnFails" \in Use /\ SpawnFailed

Next ==
  \/ Launch
  \/ HostTurn
  \/ \E p \in Pid : GuestCall(p) \/ HostEvent(p)

\* The loop of processWakeups() is synchronous code: once begun, it runs on.
Spec == Init /\ [][Next]_vars /\ WF_vars(HostTurn)

-----------------------------------------------------------------------------
(***************************************************************************)
(* Types.                                                                  *)
(***************************************************************************)
PipesType ==
  /\ pipes \in [PipeId -> Pipe]
  /\ nextPipe \in 1..(MaxPipe + 1)
  /\ miscounted \subseteq PipeId

ChansType ==
  /\ chans \in [ChanId -> Chan]
  /\ byName \in [Names -> 0..MaxChan]
  /\ nextChan \in 1..(MaxChan + 1)
  /\ selfMet \subseteq ChanId

MemType ==
  /\ shmOwner \in [ShmId -> Pid \cup {NoPid}]
  /\ shmGranted \in [ShmId -> SUBSET Pid]
  /\ nextShm \in 1..(MaxShm + 1)
  /\ surfaceOwner \in [SurfaceId -> Pid \cup {NoPid}]
  /\ nextSurface \in 1..(MaxSurface + 1)

NetType == netResponse \subseteq Pid /\ fetching \subseteq Pid /\ torn \subseteq Pid

\* Counts and queue lengths never go below zero (saturating_sub), every id in a
\* descriptor, a stashed request or a name is one that was allocated, and so on.
TypeOK == ProcType /\ WaitType /\ HostType /\ PipesType /\ ChansType /\ MemType /\ NetType

-----------------------------------------------------------------------------
(***************************************************************************)
(* Safety.                                                                 *)
(***************************************************************************)

\* Would this request of p park if it were serviced now?
WouldPark(p, r) ==
  LET d == fds[p][r.arg] IN
  CASE r.call = "fdRead"  ->
         \/ d.kind = "pipeRead" /\ pipes[d.id].buf = <<>> /\ WriteOpen(pipes[d.id])
         \/ d.kind = "stdin" /\ stdin[p] = 0
    [] r.call = "fdWrite" -> d.kind = "pipeWrite" /\ ReadOpen(pipes[d.id]) /\ Space(pipes[d.id]) = 0
    [] r.call = "kWait"   -> Live(r.arg)
    [] r.call = "sigWait" -> signals[p] = 0
    [] r.call = "chanRecv" ->
         LET end == holds[p][r.arg] IN
         chans[r.arg].inbox[end] = <<>> /\ PeerOpen(chans[r.arg], end)
    [] r.call = "winReadInput" -> input[p] = 0
    [] r.call = "netRequest"   -> p \notin netResponse /\ p \in fetching

\* fd_ready(), which poll_oneoff asks of a descriptor every 5 ms: would a read, or
\* a write, not park?  A stream of the other direction is never ready.
FdReady(p, fd, writable) ==
  LET d == fds[p][fd] IN
  CASE d.kind = "pipeRead"  -> ~writable /\ (pipes[d.id].buf # <<>> \/ ~WriteOpen(pipes[d.id]))
    [] d.kind = "pipeWrite" -> writable /\ (Space(pipes[d.id]) > 0 \/ ~ReadOpen(pipes[d.id]))
    [] d.kind = "stdin"     -> ~writable /\ stdin[p] > 0
Pollable(writable) == IF writable THEN {"pipeWrite"} ELSE {"pipeRead", "stdin"}

\* No wakeup is lost: the call a live process sleeps in could still not finish,
\* unless the host has the process queued to be driven again.  (Every event that
\* lets a parked call finish returns its pid in SyscallOutcome.wakeups, and for
\* a net_request a fetch is still out.)  A process that polls instead of sleeping
\* is told the same.
NoLostWakeup ==
  /\ \A p \in Pid : Live(p) /\ parked[p] # NoReq /\ p \notin queue => WouldPark(p, parked[p])
  /\ \A p \in Pid, fd \in Fd, writable \in BOOLEAN :
       Live(p) /\ fds[p][fd].kind \in Pollable(writable) =>
         LET call == [call |-> IF writable THEN "fdWrite" ELSE "fdRead", arg |-> fd]
         IN  FdReady(p, fd, writable) <=> ~WouldPark(p, call)

\* The two halves agree: the kernel's blocked_on and the host's parked map, kept
\* by different code, name the same sleepers, and every sleeper has a worker.
ParkedAgrees ==
  \A p \in Pid : Live(p) =>
    /\ (parked[p] # NoReq) <=> (state[p] = "blocked" \/ p \in queue)
    /\ state[p] = "blocked" <=> blockedOn[p] # NotBlocked
    /\ state[p] = "blocked" => p \notin queue /\ p \in workers

LiveEnds(kind, i) ==
  Cardinality({pf \in Pid \X Fd : Live(pf[1]) /\ fds[pf[1]][pf[2]] = PipeEnd(kind, i)})

\* The counts of every pipe are the descriptors live processes have for it, so
\* a reader sees end of file, and a writer EPIPE, exactly when the last peer has
\* closed its end, renumbered over it, exited or been killed.
CountsMatch(i) == /\ pipes[i].readers = LiveEnds("pipeRead", i)
                  /\ pipes[i].writers = LiveEnds("pipeWrite", i)
RefCounts == \A i \in PipeId : CountsMatch(i)

\* An endpoint counts as open only while a live process holds it: no process
\* waits for a message that nobody can send (close_proc_channels).  The exception is
\* a channel that met itself: its process lost the first of its two ends.
ChannelEndsHeld ==
  \A c \in ChanId \ selfMet, e \in End :
    chans[c].open[e] => \E p \in Pid : Live(p) /\ holds[p][c] = e

\* A name leads to a creator that still waits there, or to messages one left for
\* whoever comes: never to "the dead endpoint instead of starting fresh" (close).
NamesFresh ==
  \A n \in Names : byName[n] # 0 =>
    LET chan == chans[byName[n]] IN
    chan.pending /\ (chan.open[0] \/ chan.inbox[1] # <<>>)

\* Nobody waits for a peer, or meets one, that cannot come: both ways in to a channel,
\* by its end and by its name, lead to a process or to what one left there.
ChannelsLive == ChannelEndsHeld /\ NamesFresh

\* Shared memory and surfaces do not outlive their owner, whatever way it goes.
OwnersLive ==
  /\ \A s \in ShmId : shmOwner[s] # NoPid => Live(shmOwner[s])
  /\ \A s \in SurfaceId : surfaceOwner[s] # NoPid => Live(surfaceOwner[s])

\* A region is open to its owner while it lives, and to nobody once it is freed.
AccessFollowsOwner ==
  \A s \in ShmId : IF shmOwner[s] = NoPid THEN shmGranted[s] = {}
                                          ELSE shmOwner[s] \in shmGranted[s]

\* Collected or not, a response is held for a live process only: "so the map
\* doesn't retain dead pids" (service_syscall).
NetResponsesLive == \A p \in netResponse : Live(p)

\* The code keeps less than that: a response outlives its caller if, and only if, the
\* caller's exit found it asleep in the net_request, because the zombie keeps its wait
\* reason and deliver_net() asks for nothing else.  Whoever exits between the fetch
\* and its end in any other way, or is sent SIGKILL, leaves none.
NetResponsesKept == \A p \in netResponse : Live(p) \/ p \in torn

\* Delegation never adds authority: what a guest's child can do its parent can,
\* except spawn, which no child can, and reach files: k_spawn() gives every child all
\* of the tree, a child of a parent that has "files" or nothing included.
NoAmplification ==
  \A c \in Pid : spawner[c] # NoPid /\ Known(c) =>
    /\ "spawn" \notin caps[c]
    /\ Known(spawner[c]) => caps[c] \ {"root"} \subseteq caps[spawner[c]]

\* An exit status, once recorded, is the one its parent collects.
StatusStable ==
  [][\A p \in Pid : exitCode[p] # NoCode => exitCode'[p] = exitCode[p] \/ ~Known(p)']_vars

\* A guest child that is killed stays a zombie until its parent waits for it.
KilledChildStaysWaitable ==
  [][\A c \in Pid : Live(c) /\ spawner[c] # NoPid => Known(c)']_vars

-----------------------------------------------------------------------------
(***************************************************************************)
(* Liveness.                                                               *)
(***************************************************************************)

\* Every cascade of wakeups drains, and the event loop runs on.
TurnEnds == []<>AtRest

\* A parked read or write that can finish does, or another process was faster.
CallsFinish ==
  \A p \in Pid : (Live(p) /\ parked[p] # NoReq /\ ~WouldPark(p, parked[p]))
                 ~> (parked[p] = NoReq \/ WouldPark(p, parked[p]))
=============================================================================
