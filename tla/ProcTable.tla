------------------------------ MODULE ProcTable ------------------------------
(***************************************************************************)
(* The kernel's process table (crates/kernel/src/types.rs) and the host    *)
(* loop that drives it (packages/host/src/worker/kernel-worker.ts).        *)
(*                                                                         *)
(* The kernel never blocks.  A call that cannot finish records why in      *)
(* blocked_on and returns no reply; the host stashes the request bytes in  *)
(* its `parked` map and leaves the guest asleep in Atomics.wait.  An event *)
(* returns the pids it made runnable, and the host drives their stashed    *)
(* requests again before it takes anything else from its event loop.       *)
(*                                                                         *)
(* This module holds the state of both halves and the operators by which   *)
(* a call completes, parks or wakes others.  Kernel.tla has the calls.     *)
(***************************************************************************)
EXTENDS FiniteSets, PipeTable, ChannelTable

CONSTANTS MaxPid,   \* pids 1 .. MaxPid are ever allocated; a pid is never reused
          MaxFd,    \* descriptor numbers 0 .. MaxFd; the largest is u32::MAX
          MaxPipe, MaxChan,
          ExitCodes

ASSUME ProcAssumption ==
  /\ MaxPid \in Nat \ {0}
  /\ MaxFd \in Nat /\ MaxFd >= 4
  /\ MaxPipe \in Nat
  /\ MaxChan \in Nat
  /\ ExitCodes \subseteq 0..255

Pid    == 1..MaxPid
Fd     == 0..MaxFd
PipeId == 1..MaxPipe
ChanId == 1..MaxChan

InitPid == 1        \* the pid boot() gives to init: it runs no guest
NoPid == 0

VARIABLES
  nextPid,
  state,            \* ProcState; "none" for a pid outside the table
  blockedOn,        \* blocked_on: the WaitReason of a parked call
  exitCode,
  caps,
  signals,          \* how many signals are pending
  stdin, input,     \* how many bytes, and input records, are buffered
  fds, nextFd,      \* the descriptor table, and the number the next open gets
  holds,            \* channels: the endpoint a process owns of each channel
  spawner,          \* history: the process whose k_spawn made this one
  workers,          \* host `procs`: pids whose worker and ring exist
  parked,           \* host `parked`: the request each pid is stashed on
  queue,            \* host processWakeups: pids still to be driven again
  turn              \* host work owed before the event loop runs on

procVars == <<nextPid, exitCode, caps, signals, stdin, input, fds, nextFd, holds, spawner>>
waitVars == <<state, blockedOn>>
hostVars == <<workers, parked, queue, turn>>

(***************************************************************************)
(* Descriptors.  Stdout, stderr, the terminal, files and directories never *)
(* block and hold no counted resource: they are one kind, "other".         *)
(***************************************************************************)
PipeKind == {"pipeRead", "pipeWrite"}
Desc     == [kind : {"none", "stdin", "other"}, id : {0}] \cup [kind : PipeKind, id : PipeId]

NoDesc    == [kind |-> "none", id |-> 0]
StdinDesc == [kind |-> "stdin", id |-> 0]
OtherDesc == [kind |-> "other", id |-> 0]
PipeEnd(kind, id) == [kind |-> kind, id |-> id]

\* std_fds(): stdin, stdout, stderr and the preopened root; opens start at 4.
FirstFd == 4
StdFds  == [fd \in Fd |-> IF fd = 0 THEN StdinDesc ELSE IF fd < FirstFd THEN OtherDesc ELSE NoDesc]
NoFds   == [fd \in Fd |-> NoDesc]

\* open_fd(): next_fd is a u32 and wraps.
FdAfter(fd) == (fd + 1) % (MaxFd + 1)

\* install_fd() and its saturating_add.
FdPast(next, fd) ==
  LET above == IF fd = MaxFd THEN MaxFd ELSE fd + 1
  IN  IF next >= above THEN next ELSE above

(***************************************************************************)
(* Wait reasons, and the requests the host stashes for them.               *)
(***************************************************************************)
Blocking == {"stdin", "pipeRead", "pipeWrite", "wait", "input", "chanRecv", "sigWait", "netReq"}
Reason   == [on : Blocking \cup {"nothing"}, id : Nat, end : {0, 1}]

On(why, id)       == [on |-> why, id |-> id, end |-> 0]
OnChanRecv(c, e)  == [on |-> "chanRecv", id |-> c, end |-> e]
NotBlocked        == On("nothing", 0)

Of(calls, args) == [call : calls, arg : args, len : Nat, data : Seq(Byte)]
Request == Of({"fdRead", "fdWrite"}, Fd) \cup Of({"kWait"}, Pid) \cup Of({"chanRecv"}, ChanId)
           \cup Of({"winReadInput", "sigWait", "netRequest", "none"}, {0})

Req(call, arg) == [call |-> call, arg |-> arg, len |-> 0, data |-> <<>>]
ReadReq(fd, n)      == [Req("fdRead", fd) EXCEPT !.len = n]
WriteReq(fd, bytes) == [Req("fdWrite", fd) EXCEPT !.data = bytes]
NoReq == Req("none", 0)

NoCode == 256
Codes  == ExitCodes \cup {127, 137}

Turn == [doing : {"idle"}, pid : {NoPid}] \cup [doing : {"starting", "ending"}, pid : Pid]
Idle == [doing |-> "idle", pid |-> NoPid]
Starting(p) == [doing |-> "starting", pid |-> p]
Ending(p)   == [doing |-> "ending", pid |-> p]

Known(p) == state[p] # "none"
Live(p)  == Known(p) /\ exitCode[p] = NoCode

\* Nothing woken is waiting to be driven and the host owes no work: the event
\* loop takes the next message or ring request.
AtRest == queue = {} /\ turn = Idle

\* A guest runs between its calls, one call at a time.
MayCall(p) == AtRest /\ p \in workers /\ Live(p) /\ parked[p] = NoReq

(***************************************************************************)
(* take_blocked_on(): every process parked for one of these reasons runs.  *)
(* A process that is no longer Blocked loses the reason but not its state. *)
(***************************************************************************)
Waiting(reasons)   == {p \in Pid : blockedOn[p] \in reasons}

\* Faulty: the reason survives the wakeup.
Unblocked_Stale(reasons) == blockedOn

Unblocked(reasons) == [p \in Pid |-> IF blockedOn[p] \in reasons THEN NotBlocked ELSE blockedOn[p]]
Runnable(reasons)  == [p \in Pid |-> IF blockedOn[p] \in reasons /\ state[p] = "blocked"
                                     THEN "running" ELSE state[p]]

\* processWakeups() drives only what is stashed.
Stashed(woken) == {p \in woken : parked[p] # NoReq}

Wake(reasons) ==
  /\ state'     = Runnable(reasons)
  /\ blockedOn' = Unblocked(reasons)

\* Faulty: the call just completed is driven again.
Complete_Requeues(p, woken) ==
  /\ parked' = [parked EXCEPT ![p] = NoReq]
  /\ queue'  = queue \cup Stashed(woken)
  /\ UNCHANGED <<workers, turn>>

\* The host passes on the reply to p, and queues the woken.
Complete(p, woken) ==
  /\ parked' = [parked EXCEPT ![p] = NoReq]
  /\ queue'  = (queue \cup Stashed(woken)) \ {p}
  /\ UNCHANGED <<workers, turn>>

\* The call of p returns a reply and wakes those waiting for reasons.
Reply(p, reasons) == Wake(reasons) /\ Complete(p, Waiting(reasons))

\* set_blocked() of an entry that exists.
Block(p, reason) ==
  IF Known(p)
  THEN /\ state'     = [state EXCEPT ![p] = "blocked"]
       /\ blockedOn' = [blockedOn EXCEPT ![p] = reason]
  ELSE UNCHANGED waitVars

\* The call of p returns no reply, and the host stashes it.
Park(p, request, reason) ==
  /\ Block(p, reason)
  /\ parked'    = [parked EXCEPT ![p] = request]
  /\ queue'     = queue \ {p}
  /\ UNCHANGED <<workers, turn>>

\* clear_blocked() of one process, if it is parked for this reason.
Nudge(p, reason) ==
  IF blockedOn[p] = reason
  THEN /\ state'     = [state EXCEPT ![p] = IF @ = "blocked" THEN "running" ELSE @]
       /\ blockedOn' = [blockedOn EXCEPT ![p] = NotBlocked]
       /\ queue'     = queue \cup Stashed({p})
       /\ UNCHANGED <<workers, parked, turn>>
  ELSE UNCHANGED <<waitVars, hostVars>>

\* What the table forgets with an entry, its state and wait reason apart.
Forget(p) ==
  /\ exitCode' = [exitCode EXCEPT ![p] = NoCode]
  /\ caps'     = [caps EXCEPT ![p] = {}]
  /\ signals'  = [signals EXCEPT ![p] = 0]
  /\ stdin'    = [stdin EXCEPT ![p] = 0]
  /\ input'    = [input EXCEPT ![p] = 0]
  /\ fds'      = [fds EXCEPT ![p] = NoFds]
  /\ nextFd'   = [nextFd EXCEPT ![p] = FirstFd]
  /\ holds'    = [holds EXCEPT ![p] = [c \in ChanId |-> NoEnd]]
  /\ UNCHANGED <<nextPid, spawner>>

\* Faulty: the zombie stays.
Reap_Keeps(p) == UNCHANGED <<procVars, waitVars>>

\* reap(): only a zombie leaves the table.
Reap(p) ==
  IF state[p] = "zombie"
  THEN /\ state'     = [state EXCEPT ![p] = "none"]
       /\ blockedOn' = [blockedOn EXCEPT ![p] = NotBlocked]
       /\ Forget(p)
  ELSE UNCHANGED <<procVars, waitVars>>

-----------------------------------------------------------------------------
ProcState == {"none", "ready", "running", "blocked", "zombie"}
\* "files" is an FsPath grant of the host's choice, "root" one of "/" with all rights.
Capability == {"spawn", "signal", "net", "gpu", "input", "files", "root"}

ProcType ==
  /\ nextPid \in 2..(MaxPid + 1)
  /\ exitCode \in [Pid -> Codes \cup {NoCode}]
  /\ caps \in [Pid -> SUBSET Capability]
  /\ signals \in [Pid -> Nat]
  /\ stdin \in [Pid -> Nat] /\ input \in [Pid -> Nat]
  /\ fds \in [Pid -> [Fd -> Desc]]
  /\ nextFd \in [Pid -> Fd]
  /\ holds \in [Pid -> [ChanId -> End \cup {NoEnd}]]
  /\ spawner \in [Pid -> Pid \cup {NoPid}]

WaitType ==
  /\ state \in [Pid -> ProcState]
  /\ blockedOn \in [Pid -> Reason]

HostType ==
  /\ workers \subseteq Pid
  /\ parked \in [Pid -> Request]
  /\ queue \subseteq Pid
  /\ turn \in Turn
=============================================================================
