------------------------------ MODULE MCKernel ------------------------------
(***************************************************************************)
(* Values for the constants of Kernel, shared by its configurations.       *)
(***************************************************************************)
EXTENDS KernelWaits

Triple(a, b, c) == [fd \in 0..2 |-> <<a, b, c>>[fd + 1]]

OneByte   == {<<"b">>}
AskOne    == {1}
AskAll    == {2}

\* What sh spawns `a 2>&1 | b` with: one stage has the write end twice.
PipelineStdio == {Triple("file", "pipeWrite", "pipeWrite"),
                  Triple("pipeRead", "terminal", "terminal")}
PlainStdio    == {Triple("terminal", "terminal", "terminal")}

DeviceGrant   == {{"input", "net", "signal", "gpu"}}
NetGrant      == {{"net"}}
ShellGrant    == {{"spawn", "files"}}
KillerGrant   == {{"spawn", "signal", "files"}}
NoWant        == {{}}
SignalWant    == {{}, {"signal", "net"}}   \* one more than the parent holds

\* The calls and events of each instance.
LateKillUse == {"kPipe", "procExit", "kill9"}
WaitUse     == {"kWait", "sigWait", "procExit", "workerExit", "kill9", "hostKill"}
ChanUse     == {"chanRecv", "procExit", "hostKill", "kill9"}
DeviceUse   == {"fdRead", "winReadInput", "netRequest", "hostKill", "kill9"}
FetchUse    == {"netRequest", "hostKill"}
IpcUse      == ChanUse \cup DeviceUse
PipeUse     == {"fdRead", "fdWrite", "kPipe", "fdClose", "procExit", "spawnFails"}

\* Channels, memory and devices share the process table and nothing else: a run of the
\* three follows a state as long as at most one of them is in use, with three guests for
\* a channel, and two for two channels, memory or the devices.
TwoGuests == nextPid <= 4
NoChannel == nextChan = 1
NoMemory  == nextShm = 1 /\ nextSurface = 1
NoDevice  == /\ fetching = {} /\ netResponse = {}
             /\ \A p \in Pid : /\ stdin[p] = 0 /\ input[p] = 0
                               /\ parked[p] = NoReq \/ parked[p].call = "chanRecv"
OneKind   == \/ NoMemory /\ NoDevice /\ (nextChan <= 2 \/ TwoGuests)
             \/ NoChannel /\ TwoGuests /\ (NoMemory \/ NoDevice)
=============================================================================
