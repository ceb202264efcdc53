---------------------------- MODULE KernelProofs ----------------------------
(***************************************************************************)
(* Theorems about Kernel, for every value of its constants: any number of  *)
(* processes, descriptors, pipes, channels and regions, any set of calls.  *)
(* First what the operators of PipeTable, ChannelTable and ProcTable       *)
(* return; then types; then what becomes of a process table entry, its     *)
(* exit code, its capabilities and its memory; last, that no wakeup is     *)
(* lost.                                                                   *)
(***************************************************************************)
EXTENDS KernelWaits, FiniteSetTheorems, SequenceTheorems, TLAPS

(***************************************************************************)
(* What the operators of PipeTable, ChannelTable and ProcTable return, and *)
(* which types the steps they are built into preserve.                     *)
(***************************************************************************)
\* Pipes: a read, a write, one more end or one fewer leave a pipe behind.
LEMMA NewPipeType == NewPipe \in Pipe /\ NoPipe \in Pipe
BY DEF NewPipe, NoPipe, Pipe

LEMMA DrainType ==
  ASSUME NEW pipe \in Pipe, NEW n \in Nat
  PROVE  Drain(pipe, n) \in Pipe
<1> DEFINE m == Least(n, Len(pipe.buf)) + 1
<1>1. pipe.buf \in Seq(Byte) /\ Len(pipe.buf) \in Nat
  BY DEF Pipe
<1>2. m \in 1..(Len(pipe.buf) + 1) /\ Len(pipe.buf) \in (m - 1)..Len(pipe.buf)
  BY <1>1 DEF Least
<1>3. SubSeq(pipe.buf, m, Len(pipe.buf)) \in Seq(Byte)
  BY <1>1, <1>2, SubSeqProperties
<1> QED
  BY <1>3 DEF Drain, Pipe

LEMMA FillType ==
  ASSUME NEW pipe \in Pipe, NEW data \in Seq(Byte), Space(pipe) > 0
  PROVE  Fill(pipe, data) \in Pipe
<1> DEFINE m == Least(Space(pipe), Len(data))
<1>1. pipe.buf \in Seq(Byte) /\ Len(pipe.buf) \in Nat /\ Len(data) \in Nat
  BY DEF Pipe
<1>2. Space(pipe) \in Nat
  BY <1>1, PipeAssumption DEF Space
<1>3. m \in 0..Len(data)
  BY <1>1, <1>2 DEF Least
<1>4. SubSeq(data, 1, m) \in Seq(Byte)
  BY <1>1, <1>3, SubSeqProperties
<1>5. pipe.buf \o SubSeq(data, 1, m) \in Seq(Byte)
  BY <1>1, <1>4, ConcatProperties
<1> QED
  BY <1>5 DEF Fill, Pipe

LEMMA EndsType ==
  ASSUME NEW pipe \in Pipe, NEW r \in Nat, NEW w \in Nat
  PROVE  AddEnds(pipe, r, w) \in Pipe /\ CloseEnds(pipe, r, w) \in Pipe
<1>1. pipe = [buf |-> pipe.buf, readers |-> pipe.readers, writers |-> pipe.writers]
      /\ pipe.buf \in Seq(Byte) /\ pipe.readers \in Nat /\ pipe.writers \in Nat
  BY DEF Pipe
<1>2. AddEnds(pipe, r, w) \in Pipe
  <2>1. pipe.readers + r \in Nat /\ pipe.writers + w \in Nat
    BY <1>1
  <2>2. [pipe EXCEPT !.readers = pipe.readers + r, !.writers = pipe.writers + w] \in Pipe
    BY <1>1, <2>1 DEF Pipe
  <2> QED
    BY <2>2 DEF AddEnds
<1>3. SaturatingSub(pipe.readers, r) \in Nat /\ SaturatingSub(pipe.writers, w) \in Nat
  BY <1>1 DEF SaturatingSub
<1>4. CloseEnds(pipe, r, w) \in Pipe
  BY <1>1, <1>3, NewPipeType DEF CloseEnds, Pipe
<1> QED
  BY <1>2, <1>4

\* Channels.
LEMMA ChanTypes ==
  /\ NewChan \in Chan /\ NoChan \in Chan
  /\ \A chan \in Chan, end \in End :
       Connected(chan) \in Chan /\ Closed(chan, end) \in Chan
<1>1. NewChan \in Chan /\ NoChan \in Chan
  BY DEF NewChan, NoChan, Chan, End
<1>2. ASSUME NEW chan \in Chan, NEW end \in End
      PROVE  Connected(chan) \in Chan /\ Closed(chan, end) \in Chan
  BY <1>1 DEF Connected, Closed, Chan, End
<1> QED
  BY <1>1, <1>2

LEMMA SentType ==
  ASSUME NEW chan \in Chan, NEW end \in End, NEW msg \in Msg
  PROVE  Sent(chan, end, msg) \in Chan
<1>1. 1 - end \in End /\ chan.inbox[1 - end] \in Seq(Msg)
  BY DEF Chan, End
<1>2. Append(chan.inbox[1 - end], msg) \in Seq(Msg)
  BY <1>1, AppendProperties
<1> QED
  BY <1>1, <1>2 DEF Sent, Chan

LEMMA ReceivedType ==
  ASSUME NEW chan \in Chan, NEW end \in End, chan.inbox[end] # <<>>
  PROVE  Received(chan, end) \in Chan
<1>1. chan.inbox[end] \in Seq(Msg)
  BY DEF Chan
<1>2. Tail(chan.inbox[end]) \in Seq(Msg)
  BY <1>1, HeadTailProperties
<1> QED
  BY <1>2 DEF Received, Chan

\* Descriptor numbers stay in range, and no kind of count exceeds them.
LEMMA FdTypes ==
  ASSUME NEW fd \in Fd, NEW next \in Fd
  PROVE  FdAfter(fd) \in Fd /\ FdPast(next, fd) \in Fd
BY ProcAssumption DEF FdAfter, FdPast, Fd

LEMMA CountType ==
  ASSUME NEW S \in SUBSET Fd
  PROVE  IsFiniteSet(S) /\ Cardinality(S) \in Nat
<1>1. IsFiniteSet(Fd)
  BY ProcAssumption, FS_Interval DEF Fd
<1>2. IsFiniteSet(S)
  BY <1>1, FS_Subset
<1> QED
  BY <1>2, FS_CardinalityType

\* Wakeups: whoever runs again was blocked, and waits for nothing any more.
LEMMA WakeTypes ==
  ASSUME WaitType, NEW reasons
  PROVE  /\ Runnable(reasons) \in [Pid -> ProcState]
         /\ Unblocked(reasons) \in [Pid -> Reason]
         /\ Waiting(reasons) \subseteq Pid
BY ProcAssumption DEF WaitType, Runnable, Unblocked, Waiting, NotBlocked, On, Reason, ProcState

\* A step that replies, parks or nudges keeps the types of what both halves know
\* of the sleepers.
LEMMA CompleteType ==
  ASSUME HostType, NEW p \in Pid, NEW STATE woken, woken \subseteq Pid, Complete(p, woken)
  PROVE  HostType'
<1>1. NoReq \in Request
  BY EmptySeq DEF NoReq, Req, Request, Of
<1>2. Stashed(woken) \subseteq Pid
  BY DEF Stashed
<1> QED
  BY <1>1, <1>2 DEF Complete, HostType

LEMMA ReplyType ==
  ASSUME WaitType, HostType, NEW p \in Pid, NEW STATE reasons, Reply(p, reasons)
  PROVE  WaitType' /\ HostType'
<1>1. WaitType'
  BY WakeTypes DEF Reply, Wake, WaitType
<1>2. HostType'
  BY WakeTypes, CompleteType DEF Reply
<1> QED
  BY <1>1, <1>2

LEMMA ParkType ==
  ASSUME WaitType, HostType, NEW p \in Pid, NEW STATE request, NEW STATE reason,
         request \in Request, reason \in Reason, Park(p, request, reason)
  PROVE  WaitType' /\ HostType'
<1>1. WaitType'
  BY DEF Park, Block, WaitType, ProcState, waitVars
<1>2. HostType'
  BY DEF Park, HostType
<1> QED
  BY <1>1, <1>2

LEMMA NudgeType ==
  ASSUME WaitType, HostType, NEW p \in Pid, NEW reason, Nudge(p, reason)
  PROVE  WaitType' /\ HostType'
<1>1. NotBlocked \in Reason
  BY DEF NotBlocked, On, Reason
<1>2. Stashed({p}) \subseteq Pid
  BY DEF Stashed
<1>3. CASE blockedOn[p] = reason
  BY <1>1, <1>2, <1>3 DEF Nudge, WaitType, HostType, ProcState
<1>4. CASE blockedOn[p] # reason
  BY <1>4 DEF Nudge, WaitType, HostType, waitVars, hostVars
<1> QED
  BY <1>3, <1>4

LEMMA ForgetType ==
  ASSUME ProcType, NEW p \in Pid, Forget(p)
  PROVE  ProcType'
<1>1. NoFds \in [Fd -> Desc] /\ FirstFd \in Fd
  BY ProcAssumption DEF NoFds, NoDesc, Desc, FirstFd, Fd
<1> QED
  BY <1>1 DEF Forget, ProcType

LEMMA ReapType ==
  ASSUME ProcType, WaitType, NEW p \in Pid, Reap(p)
  PROVE  ProcType' /\ WaitType'
<1>1. NotBlocked \in Reason
  BY DEF NotBlocked, On, Reason
<1>2. CASE state[p] = "zombie"
  BY <1>1, <1>2, ForgetType DEF Reap, WaitType, ProcState
<1>3. CASE state[p] # "zombie"
  BY <1>3 DEF Reap, ProcType, WaitType, procVars, waitVars
<1> QED
  BY <1>2, <1>3

-----------------------------------------------------------------------------
(***************************************************************************)
(* Types.                                                                  *)
(***************************************************************************)
LEMMA StdTypes ==
  /\ NoReq \in Request /\ NotBlocked \in Reason
  /\ NoFds \in [Fd -> Desc] /\ StdFds \in [Fd -> Desc]
  /\ FirstFd \in Fd /\ NoDesc \in Desc
<1>1. NoReq \in Request
  BY EmptySeq DEF NoReq, Req, Request, Of
<1>2. NotBlocked \in Reason
  BY DEF NotBlocked, On, Reason
<1>3. NoFds \in [Fd -> Desc] /\ StdFds \in [Fd -> Desc] /\ FirstFd \in Fd /\ NoDesc \in Desc
  BY ProcAssumption DEF NoFds, StdFds, NoDesc, StdinDesc, OtherDesc, Desc, FirstFd, Fd
<1> QED
  BY <1>1, <1>2, <1>3

LEMMA InitType == Init => TypeOK
<1> SUFFICES ASSUME Init PROVE TypeOK
  OBVIOUS
<1>1. InitPid \in Pid /\ MaxPid \in Nat
  BY ProcAssumption DEF InitPid, Pid
<1>2. ProcType
  <2>1. nextPid \in 2..(MaxPid + 1)
    BY <1>1, ProcAssumption DEF Init
  <2>2. exitCode \in [Pid -> Codes \cup {NoCode}]
    BY DEF Init
  <2>3. caps \in [Pid -> SUBSET Capability]
    BY DEF Init, Capability
  <2>4. /\ signals \in [Pid -> Nat] /\ stdin \in [Pid -> Nat] /\ input \in [Pid -> Nat]
        /\ spawner \in [Pid -> Pid \cup {NoPid}]
    BY DEF Init
  <2>5. fds \in [Pid -> [Fd -> Desc]] /\ nextFd \in [Pid -> Fd]
    BY StdTypes DEF Init
  <2>6. holds \in [Pid -> [ChanId -> End \cup {NoEnd}]]
    BY DEF Init
  <2> QED
    BY <2>1, <2>2, <2>3, <2>4, <2>5, <2>6 DEF ProcType
<1>3. WaitType
  BY StdTypes DEF Init, WaitType, ProcState
<1>4. HostType
  BY StdTypes DEF Init, HostType, Turn, Idle
<1>5. PipesType
  BY NewPipeType, ProcAssumption DEF Init, PipesType
<1>6. ChansType
  BY ChanTypes, ProcAssumption DEF Init, ChansType
<1>7. MemType
  BY KernelAssumption DEF Init, MemType
<1>8. NetType
  BY DEF Init, NetType
<1> QED
  BY <1>2, <1>3, <1>4, <1>5, <1>6, <1>7, <1>8 DEF TypeOK

\* Exit: the counted resources of p go, the rest of its entry stays.
LEMMA ReleaseType ==
  ASSUME TypeOK, NEW p \in Pid, Release(p)
  PROVE  /\ pipes' \in [PipeId -> Pipe] /\ nextPipe' \in 1..(MaxPipe + 1)
         /\ ChansType' /\ MemType'
         /\ netResponse' \subseteq Pid /\ fetching' \subseteq Pid
<1> USE DEF TypeOK
<1>1. pipes' \in [PipeId -> Pipe] /\ nextPipe' \in 1..(MaxPipe + 1)
  <2>1. ASSUME NEW i \in PipeId
        PROVE  PipesWithout(p)[i] \in Pipe
    <3>1. \A k : EndsOf(p, k, i) \in SUBSET Fd
      BY DEF EndsOf
    <3>2. /\ Cardinality(EndsOf(p, "pipeRead", i)) \in Nat
          /\ Cardinality(EndsOf(p, "pipeWrite", i)) \in Nat
      BY <3>1, CountType
    <3> QED
      BY <3>2, EndsType DEF PipesWithout, PipesType
  <2>2. PipesWithout(p) \in [PipeId -> Pipe]
    BY <2>1 DEF PipesWithout
  <2> QED
    BY <2>2 DEF Release, PipesType
<1>2. ChansType'
  <2>1. ChansWithout(p) \in [ChanId -> Chan]
    BY ChanTypes DEF ChansWithout, ChansType
  <2>2. byName' \in [Names -> 0..MaxChan]
    BY ProcAssumption DEF Release, ChansType
  <2> QED
    BY <2>1, <2>2 DEF Release, ChansType
<1>3. MemType'
  BY DEF Release, MemType, GrantsWithout, SurfacesWithout
<1>4. netResponse' \subseteq Pid /\ fetching' \subseteq Pid
  BY DEF Release, NetType
<1> QED
  BY <1>1, <1>2, <1>3, <1>4

LEMMA ExitType ==
  ASSUME TypeOK, NEW p \in Pid, NEW code \in Codes, Exit(p, code)
  PROVE  /\ ProcType' /\ WaitType' /\ PipesType' /\ ChansType' /\ MemType' /\ NetType'
         /\ queue' \subseteq Pid /\ parked' = parked
<1> USE DEF TypeOK
<1>1. PipesType' /\ ChansType' /\ MemType' /\ NetType'
  BY ReleaseType DEF Exit, PipesType, NetType
<1>2. ProcType'
  BY DEF Exit, ProcType
<1>3. WaitType'
  BY WakeTypes DEF Exit, WaitType, ProcState
<1>4. queue' \subseteq Pid /\ parked' = parked
  BY WakeTypes DEF Exit, HostType, Stashed
<1> QED
  BY <1>1, <1>2, <1>3, <1>4

\* Calls a guest may park in.
LEMMA OfferedType ==
  ASSUME TypeOK, NEW p \in Pid, NEW r \in Offered(p)
  PROVE  r \in Request
<1>1. ASSUME NEW fd \in Fd, NEW n \in ReadLens PROVE ReadReq(fd, n) \in Request
  BY EmptySeq, KernelAssumption DEF ReadReq, Req, Request, Of
<1>2. ASSUME NEW fd \in Fd, NEW data \in Payloads PROVE WriteReq(fd, data) \in Request
  BY KernelAssumption DEF WriteReq, Req, Request, Of
<1>3. ASSUME NEW c \in Pid PROVE Req("kWait", c) \in Request
  BY EmptySeq DEF Req, Request, Of
<1>4. ASSUME NEW n \in InputLens PROVE [Req("winReadInput", 0) EXCEPT !.len = n] \in Request
  BY EmptySeq, KernelAssumption DEF Req, Request, Of
<1>5. ASSUME NEW c \in ChanId PROVE Req("chanRecv", c) \in Request
  BY EmptySeq DEF Req, Request, Of
<1>6. Req("sigWait", 0) \in Request /\ Req("netRequest", 0) \in Request
  BY EmptySeq DEF Req, Request, Of
<1> QED
  BY <1>1, <1>2, <1>3, <1>4, <1>5, <1>6 DEF Offered

LEMMA FdReadType ==
  ASSUME TypeOK, NEW p \in Pid, NEW STATE r, r \in Request, FdRead(p, r)
  PROVE  TypeOK'
<1> USE DEF TypeOK
<1> DEFINE d == fds[p][r.arg]
<1>1. r.arg \in Fd /\ r.len \in Nat
  BY DEF FdRead, Request, Of
<1>2. d \in Desc
  BY <1>1 DEF ProcType
<1>3. ChansType' /\ MemType' /\ NetType'
  BY DEF FdRead, ChansType, MemType, NetType, chanVars, memVars, netVars
<1>4. CASE ReadPipe(p, r)
  <2>1. d.id \in PipeId
    BY <1>2, <1>4 DEF ReadPipe, Desc, PipeKind
  <2>2. PipesType'
    BY <1>1, <2>1, <1>4, DrainType DEF ReadPipe, PipesType
  <2>3. WaitType' /\ HostType'
    BY <1>4, ReplyType DEF ReadPipe
  <2> QED
    BY <1>3, <1>4, <2>2, <2>3 DEF ReadPipe, ProcType, procVars
<1>5. CASE ReadStdin(p, r)
  <2>1. stdin' \in [Pid -> Nat]
    BY <1>1, <1>5 DEF ReadStdin, ProcType, SaturatingSub
  <2>2. WaitType' /\ HostType'
    BY <1>5, ReplyType DEF ReadStdin
  <2> QED
    BY <1>3, <1>5, <2>1, <2>2 DEF ReadStdin, ProcType, PipesType, pipeVars
<1>6. CASE ReadParks(p, r)
  <2>1. ProcType' /\ PipesType'
    BY <1>6 DEF ReadParks, ProcType, PipesType, procVars, pipeVars
  <2>2. CASE d.kind = "pipeRead" /\ Park(p, r, On("pipeRead", d.id))
    <3>1. On("pipeRead", d.id) \in Reason
      BY <1>2, <2>2, ProcAssumption DEF Desc, PipeKind, PipeId, On, Reason, Blocking
    <3> QED
      BY <1>3, <2>1, <2>2, <3>1, ParkType
  <2>3. CASE Park(p, r, On("stdin", 0))
    <3>1. On("stdin", 0) \in Reason
      BY DEF On, Reason, Blocking
    <3> QED
      BY <1>3, <2>1, <2>3, <3>1, ParkType
  <2> QED
    BY <1>6, <2>2, <2>3 DEF ReadParks
<1>7. CASE ReadReturns(p, r)
  <2>1. WaitType' /\ HostType'
    BY <1>7, ReplyType DEF ReadReturns
  <2> QED
    BY <1>3, <1>7, <2>1 DEF ReadReturns, ProcType, PipesType, procVars, pipeVars
<1> QED
  BY <1>4, <1>5, <1>6, <1>7 DEF FdRead

LEMMA FdWriteType ==
  ASSUME TypeOK, NEW p \in Pid, NEW STATE r, r \in Request, FdWrite(p, r)
  PROVE  TypeOK'
<1> USE DEF TypeOK
<1> DEFINE d == fds[p][r.arg]
<1>1. r.arg \in Fd /\ r.data \in Seq(Byte)
  BY DEF FdWrite, Request, Of
<1>2. d \in Desc
  BY <1>1 DEF ProcType
<1>3. ProcType' /\ ChansType' /\ MemType' /\ NetType'
  BY DEF FdWrite, ProcType, ChansType, MemType, NetType, procVars, chanVars, memVars, netVars
<1>4. d.kind = "pipeWrite" => d.id \in PipeId
  BY <1>2 DEF Desc, PipeKind
<1>5. CASE WritePipe(p, r)
  <2>1. PipesType'
    BY <1>1, <1>4, <1>5, FillType DEF WritePipe, PipesType
  <2>2. WaitType' /\ HostType'
    BY <1>5, ReplyType DEF WritePipe
  <2> QED
    BY <1>3, <2>1, <2>2
<1>6. CASE WriteParks(p, r)
  <2>1. On("pipeWrite", d.id) \in Reason
    BY <1>4, <1>6, ProcAssumption DEF WriteParks, PipeId, On, Reason, Blocking
  <2>2. WaitType' /\ HostType'
    BY <1>6, <2>1, ParkType DEF WriteParks
  <2> QED
    BY <1>3, <1>6, <2>2 DEF WriteParks, PipesType, pipeVars
<1>7. CASE WriteReturns(p, r)
  <2>1. WaitType' /\ HostType'
    BY <1>7, ReplyType DEF WriteReturns
  <2> QED
    BY <1>3, <1>7, <2>1 DEF WriteReturns, PipesType, pipeVars
<1> QED
  BY <1>5, <1>6, <1>7 DEF FdWrite

LEMMA KWaitType ==
  ASSUME TypeOK, NEW p \in Pid, NEW STATE r, r \in Request, KWait(p, r)
  PROVE  TypeOK'
<1> USE DEF TypeOK
<1>1. r.arg \in Pid
  BY DEF KWait, Request, Of
<1>2. PipesType' /\ ChansType' /\ MemType' /\ NetType'
  BY DEF KWait, PipesType, ChansType, MemType, NetType, pipeVars, chanVars, memVars, netVars
<1>3. CASE WaitCollects(p, r.arg)
  <2>1. ProcType' /\ WaitType'
    BY <1>1, <1>3, ReapType DEF WaitCollects
  <2>2. HostType'
    BY <1>3, CompleteType DEF WaitCollects
  <2> QED
    BY <1>2, <2>1, <2>2
<1>4. CASE WaitFindsNone(p, r.arg)
  <2>1. WaitType' /\ HostType'
    BY <1>4, ReplyType DEF WaitFindsNone
  <2> QED
    BY <1>2, <1>4, <2>1 DEF WaitFindsNone, ProcType, procVars
<1>5. CASE WaitParks(p, r)
  <2>1. On("wait", r.arg) \in Reason
    BY <1>1, ProcAssumption DEF Pid, On, Reason, Blocking
  <2>2. WaitType' /\ HostType'
    BY <1>5, <2>1, ParkType DEF WaitParks
  <2> QED
    BY <1>2, <1>5, <2>2 DEF WaitParks, ProcType, procVars
<1> QED
  BY <1>3, <1>4, <1>5 DEF KWait

LEMMA SigWaitType ==
  ASSUME TypeOK, NEW p \in Pid, NEW STATE r, r \in Request, SigWait(p, r)
  PROVE  TypeOK'
<1> USE DEF TypeOK
<1>1. On("sigWait", 0) \in Reason
  BY DEF On, Reason, Blocking
<1>2. WaitType' /\ HostType'
  BY <1>1, ReplyType, ParkType DEF SigWait
<1>3. ProcType'
  BY DEF SigWait, ProcType
<1>4. PipesType' /\ ChansType' /\ MemType' /\ NetType'
  BY DEF SigWait, PipesType, ChansType, MemType, NetType, pipeVars, chanVars, memVars, netVars
<1> QED
  BY <1>2, <1>3, <1>4

LEMMA ChanRecvType ==
  ASSUME TypeOK, NEW p \in Pid, NEW STATE r, r \in Request, ChanRecv(p, r)
  PROVE  TypeOK'
<1> USE DEF TypeOK
<1> DEFINE c == r.arg
           end == holds[p][c]
<1>1. c \in ChanId
  BY DEF ChanRecv, Request, Of
<1>2. end \in End \cup {NoEnd}
  BY <1>1 DEF ProcType
<1>3. ProcType' /\ PipesType' /\ MemType' /\ NetType'
  BY DEF ChanRecv, ProcType, PipesType, MemType, NetType, procVars, pipeVars, memVars, netVars
<1>4. CASE Reply(p, {}) /\ UNCHANGED chans
  <2>1. ChansType'
    BY <1>4 DEF ChanRecv, ChansType
  <2> QED
    BY <1>3, <1>4, <2>1, ReplyType
<1>5. CASE end # NoEnd /\ chans[c].inbox[end] # <<>>
  <2>1. end \in End
    BY <1>2, <1>5
  <2>2. chans' = [chans EXCEPT ![c] = Received(@, end)] /\ Reply(p, {})
    BY <1>5 DEF ChanRecv
  <2>3. Received(chans[c], end) \in Chan
    BY <1>1, <1>5, <2>1, ReceivedType DEF ChansType
  <2>4. ChansType'
    BY <2>2, <2>3 DEF ChanRecv, ChansType
  <2> QED
    BY <1>3, <2>2, <2>4, ReplyType
<1>6. CASE end # NoEnd /\ Park(p, r, OnChanRecv(c, end)) /\ UNCHANGED chans
  <2>1. OnChanRecv(c, end) \in Reason
    BY <1>1, <1>2, <1>6, ProcAssumption DEF ChanId, OnChanRecv, Reason, Blocking, End
  <2>2. WaitType' /\ HostType'
    BY <1>6, <2>1, ParkType
  <2> QED
    BY <1>3, <1>6, <2>2 DEF ChanRecv, ChansType
<1> QED
  BY <1>4, <1>5, <1>6 DEF ChanRecv

LEMMA WinReadInputType ==
  ASSUME TypeOK, NEW p \in Pid, NEW STATE r, r \in Request, WinReadInput(p, r)
  PROVE  TypeOK'
<1> USE DEF TypeOK
<1>1. On("input", 0) \in Reason
  BY DEF On, Reason, Blocking
<1>2. WaitType' /\ HostType'
  BY <1>1, ReplyType, ParkType DEF WinReadInput
<1>3. r.len \in Nat
  BY DEF Request, Of
<1>4. ProcType'
  BY <1>3 DEF WinReadInput, ProcType, SaturatingSub
<1>5. PipesType' /\ ChansType' /\ MemType' /\ NetType'
  BY DEF WinReadInput, PipesType, ChansType, MemType, NetType, pipeVars, chanVars, memVars, netVars
<1> QED
  BY <1>2, <1>4, <1>5

LEMMA NetRequestType ==
  ASSUME TypeOK, NEW p \in Pid, NEW STATE r, r \in Request, NetRequest(p, r)
  PROVE  TypeOK'
<1> USE DEF TypeOK
<1>1. On("netReq", 0) \in Reason
  BY DEF On, Reason, Blocking
<1>2. WaitType' /\ HostType'
  BY <1>1, ReplyType, ParkType DEF NetRequest
<1>3. NetType'
  BY DEF NetRequest, NetType
<1>4. ProcType' /\ PipesType' /\ ChansType' /\ MemType'
  BY DEF NetRequest, ProcType, PipesType, ChansType, MemType, procVars, pipeVars, chanVars, memVars
<1> QED
  BY <1>2, <1>3, <1>4

LEMMA ServeType ==
  ASSUME TypeOK, NEW p \in Pid, NEW STATE r, r \in Request, Serve(p, r)
  PROVE  TypeOK'
BY FdReadType, FdWriteType, KWaitType, SigWaitType, ChanRecvType, WinReadInputType, NetRequestType
   DEF Serve

LEMMA IssueType ==
  ASSUME TypeOK, NEW p \in Pid, Issue(p) \/ Redrive(p)
  PROVE  TypeOK'
<1>1. CASE Issue(p)
  <2>1. PICK r \in Offered(p) : Serve(p, r)
    BY <1>1 DEF Issue
  <2> QED
    BY <2>1, OfferedType, ServeType
<1>2. CASE Redrive(p)
  <2>1. parked[p] \in Request
    BY DEF TypeOK, HostType
  <2> QED
    BY <1>2, <2>1, ServeType DEF Redrive
<1> QED
  BY <1>1, <1>2

\* Calls on descriptors and pipes.
LEMMA PipeEndType ==
  ASSUME NEW kind \in PipeKind, NEW i \in PipeId
  PROVE  PipeEnd(kind, i) \in Desc
BY DEF PipeEnd, Desc

LEMMA KPipeType ==
  ASSUME TypeOK, NEW p \in Pid, KPipe(p)
  PROVE  TypeOK'
<1> USE DEF TypeOK
<1> DEFINE rfd == nextFd[p]
           wfd == FdAfter(rfd)
<1>1. rfd \in Fd /\ wfd \in Fd /\ FdAfter(wfd) \in Fd
  BY FdTypes DEF ProcType
<1>2. nextPipe \in PipeId /\ nextPipe + 1 \in 1..(MaxPipe + 1)
  BY ProcAssumption DEF KPipe, PipesType, PipeId
<1>3. PipeEnd("pipeRead", nextPipe) \in Desc /\ PipeEnd("pipeWrite", nextPipe) \in Desc
  BY <1>2, PipeEndType DEF PipeKind
<1>4. [fds[p] EXCEPT ![rfd] = PipeEnd("pipeRead", nextPipe),
                     ![wfd] = PipeEnd("pipeWrite", nextPipe)] \in [Fd -> Desc]
  BY <1>3 DEF ProcType
<1>5. ProcType'
  BY <1>1, <1>4 DEF KPipe, ProcType
<1>6. PipesType'
  <2>1. pipes' \in [PipeId -> Pipe] /\ nextPipe' \in 1..(MaxPipe + 1)
    BY <1>2, NewPipeType DEF KPipe, PipesType
  <2>2. miscounted' \subseteq PipeId
    BY DEF KPipe, PipesType, EndsAt
  <2> QED
    BY <2>1, <2>2 DEF PipesType
<1>7. WaitType' /\ HostType'
  BY DEF KPipe, WaitType, HostType, waitVars, hostVars
<1>8. ChansType' /\ MemType' /\ NetType'
  BY DEF KPipe, ChansType, MemType, NetType, chanVars, memVars, netVars
<1> QED
  BY <1>5, <1>6, <1>7, <1>8

LEMMA CloseDescType ==
  ASSUME PipesType, NEW STATE d, d \in Desc, CloseDesc(d), UNCHANGED <<nextPipe, miscounted>>
  PROVE  PipesType'
<1>1. CASE d.kind \in PipeKind
  <2>1. d.id \in PipeId
    BY <1>1 DEF Desc, PipeKind
  <2> QED
    BY <1>1, <2>1, EndsType DEF CloseDesc, PipesType, PipeKind
<1>2. CASE d.kind \notin PipeKind
  BY <1>2 DEF CloseDesc, PipesType, PipeKind
<1> QED
  BY <1>1, <1>2

LEMMA FdCloseType ==
  ASSUME TypeOK, NEW p \in Pid, NEW fd \in Fd, FdClose(p, fd)
  PROVE  TypeOK'
<1> USE DEF TypeOK
<1>1. fds[p][fd] \in Desc
  BY DEF ProcType
<1>2. PipesType'
  BY <1>1, CloseDescType DEF FdClose
<1>3. WaitType' /\ HostType'
  BY ReplyType DEF FdClose
<1>4. ProcType'
  BY StdTypes DEF FdClose, ProcType
<1>5. ChansType' /\ MemType' /\ NetType'
  BY DEF FdClose, ChansType, MemType, NetType, chanVars, memVars, netVars
<1> QED
  BY <1>2, <1>3, <1>4, <1>5

LEMMA FdRenumberType ==
  ASSUME TypeOK, NEW p \in Pid, NEW old \in Fd, NEW new \in Fd, FdRenumber(p, old, new)
  PROVE  TypeOK'
<1> USE DEF TypeOK
<1>1. fds[p][new] \in Desc /\ fds[p][old] \in Desc /\ NoDesc \in Desc
  BY StdTypes DEF ProcType
<1>2. PipesType'
  BY <1>1, CloseDescType DEF FdRenumber
<1>3. WaitType' /\ HostType'
  BY ReplyType DEF FdRenumber
<1>4. [fds[p] EXCEPT ![new] = fds[p][old], ![old] = NoDesc] \in [Fd -> Desc]
  BY <1>1 DEF ProcType
<1>5. FdPast(nextFd[p], new) \in Fd
  BY FdTypes DEF ProcType
<1>6. ProcType'
  BY <1>4, <1>5 DEF FdRenumber, ProcType
<1>7. ChansType' /\ MemType' /\ NetType'
  BY DEF FdRenumber, ChansType, MemType, NetType, chanVars, memVars, netVars
<1> QED
  BY <1>2, <1>3, <1>6, <1>7

\* Processes come.
LEMMA ChildFdsType ==
  ASSUME NEW p \in Pid, NEW stdio \in Stdio,
         NEW rid \in IF \E fd \in 0..2 : stdio[fd] = "pipeRead" THEN Held(p) ELSE {0},
         NEW wid \in IF \E fd \in 0..2 : stdio[fd] = "pipeWrite" THEN Held(p) ELSE {0}
  PROVE  ChildFds(stdio, rid, wid) \in [Fd -> Desc]
<1>1. ASSUME NEW fd \in 0..2 PROVE ChildDesc(fd, stdio[fd], rid, wid) \in Desc
  <2>1. stdio[fd] \in {"terminal", "file", "pipeRead", "pipeWrite"}
    BY <1>1, KernelAssumption DEF SpecKind, PipeKind
  <2>2. StdinDesc \in Desc /\ OtherDesc \in Desc
    BY DEF StdinDesc, OtherDesc, Desc
  <2>3. CASE stdio[fd] = "pipeRead"
    <3>1. rid \in PipeId
      BY <2>3 DEF Held
    <3> QED
      BY <2>3, <3>1, PipeEndType DEF ChildDesc, PipeKind
  <2>4. CASE stdio[fd] = "pipeWrite"
    <3>1. wid \in PipeId
      BY <2>4 DEF Held
    <3> QED
      BY <2>4, <3>1, PipeEndType DEF ChildDesc, PipeKind
  <2>5. CASE stdio[fd] \in {"terminal", "file"}
    BY <2>2, <2>5 DEF ChildDesc
  <2> QED
    BY <2>1, <2>3, <2>4, <2>5
<1> QED
  BY <1>1, StdTypes DEF ChildFds

LEMMA SpawnAnyType ==
  ASSUME TypeOK, NEW p \in Pid, SpawnAny(p)
  PROVE  TypeOK'
<1> USE DEF TypeOK
<1>1. PICK stdio \in Stdio, want \in Wants :
        \E rid \in IF \E fd \in 0..2 : stdio[fd] = "pipeRead" THEN Held(p) ELSE {0},
           wid \in IF \E fd \in 0..2 : stdio[fd] = "pipeWrite" THEN Held(p) ELSE {0} :
          KSpawn(p, stdio, rid, wid, want)
  BY DEF SpawnAny
<1>2. PICK rid \in IF \E fd \in 0..2 : stdio[fd] = "pipeRead" THEN Held(p) ELSE {0},
           wid \in IF \E fd \in 0..2 : stdio[fd] = "pipeWrite" THEN Held(p) ELSE {0} :
          KSpawn(p, stdio, rid, wid, want)
  BY <1>1
<1>3. nextPid \in Pid /\ nextPid + 1 \in 2..(MaxPid + 1)
  BY <1>2, ProcAssumption DEF KSpawn, ProcType, Pid
<1>4. Delegated(p, want) \cup {"root"} \in SUBSET Capability
  BY DEF ProcType, Delegated, Capability
<1>5. ChildFds(stdio, rid, wid) \in [Fd -> Desc]
  BY <1>2, ChildFdsType
<1>6. ProcType'
  BY <1>2, <1>3, <1>4, <1>5 DEF KSpawn, ProcType
<1>7. WaitType'
  BY <1>2 DEF KSpawn, WaitType, ProcState
<1>8. HostType'
  BY <1>2, <1>3 DEF KSpawn, HostType, Turn, Starting
<1>9. PipesType'
  <2> DEFINE n(kind, i, id) ==
        IF i = id THEN Cardinality({fd \in 0..2 : stdio[fd] = kind}) ELSE 0
  <2>1. \A kind, i, id : n(kind, i, id) \in Nat
    <3>1. \A kind : {fd \in 0..2 : stdio[fd] = kind} \in SUBSET Fd
      BY ProcAssumption DEF Fd
    <3> QED
      BY <3>1, CountType
  <2>2. pipes' = [i \in PipeId |-> AddEnds(pipes[i], n("pipeRead", i, rid),
                                                     n("pipeWrite", i, wid))]
    BY <1>2 DEF KSpawn
  <2> HIDE DEF n
  <2>3. \A i \in PipeId : AddEnds(pipes[i], n("pipeRead", i, rid), n("pipeWrite", i, wid)) \in Pipe
    BY <2>1, EndsType DEF PipesType
  <2> QED
    BY <1>2, <2>2, <2>3 DEF KSpawn, PipesType
<1>10. ChansType' /\ MemType' /\ NetType'
  BY <1>2 DEF KSpawn, ChansType, MemType, NetType, chanVars, memVars, netVars
<1> QED
  BY <1>6, <1>7, <1>8, <1>9, <1>10

LEMMA LaunchType ==
  ASSUME TypeOK, Launch
  PROVE  TypeOK'
<1> USE DEF TypeOK
<1>1. PICK grant \in Grants, started \in BOOLEAN : HostSpawn(grant, started)
  BY DEF Launch
<1>2. nextPid \in Pid /\ nextPid + 1 \in 2..(MaxPid + 1)
  BY <1>1, ProcAssumption DEF HostSpawn, ProcType, Pid
<1>3. grant \in SUBSET Capability
  BY KernelAssumption
<1>4. ProcType'
  BY <1>1, <1>2, <1>3, StdTypes DEF HostSpawn, ProcType
<1>5. WaitType' /\ HostType'
  BY <1>1, <1>2 DEF HostSpawn, WaitType, HostType, ProcState
<1>6. PipesType' /\ ChansType' /\ MemType' /\ NetType'
  BY <1>1 DEF HostSpawn, PipesType, ChansType, MemType, NetType, pipeVars, chanVars, memVars, netVars
<1> QED
  BY <1>4, <1>5, <1>6

LEMMA TurnType ==
  ASSUME TypeOK, FinishExit \/ StartChild \/ SpawnFailed
  PROVE  TypeOK'
<1> USE DEF TypeOK
<1>1. turn.doing # "idle" => turn.pid \in Pid
  BY DEF HostType, Turn
<1>2. Idle \in Turn
  BY DEF Idle, Turn
<1>3. CASE FinishExit \/ StartChild
  <2>1. HostType'
    BY <1>1, <1>2, <1>3, StdTypes DEF FinishExit, StartChild, HostType
  <2>2. ProcType' /\ WaitType'
    BY <1>3 DEF FinishExit, StartChild, ProcType, WaitType, procVars, waitVars
  <2>3. PipesType' /\ ChansType' /\ MemType' /\ NetType'
    BY <1>3 DEF FinishExit, StartChild, PipesType, ChansType, MemType, NetType,
                pipeVars, chanVars, memVars, netVars
  <2> QED
    BY <2>1, <2>2, <2>3
<1>4. CASE SpawnFailed
  <2>1. turn.pid \in Pid /\ 127 \in Codes
    BY <1>1, <1>4 DEF SpawnFailed, Codes
  <2>2. Exit(turn.pid, 127)
    BY <1>4 DEF SpawnFailed
  <2>3. HostType'
    BY <1>2, <1>4, <2>1, <2>2, ExitType DEF SpawnFailed, HostType
  <2> QED
    BY <2>1, <2>2, <2>3, ExitType
<1> QED
  BY <1>3, <1>4

\* Processes go.
LEMMA ProcExitType ==
  ASSUME TypeOK, NEW p \in Pid, NEW code \in Codes, ProcExit(p, code) \/ HostExit(p, code)
  PROVE  TypeOK'
<1> USE DEF TypeOK
<1>1. CASE ProcExit(p, code)
  <2>1. HostType'
    BY <1>1, ExitType DEF ProcExit, HostType
  <2> QED
    BY <1>1, <2>1, ExitType DEF ProcExit
<1>2. CASE HostExit(p, code) /\ Exit(p, code)
  <2>1. HostType'
    BY <1>2, ExitType DEF HostExit, HostType, Turn, Ending
  <2> QED
    BY <1>2, <2>1, ExitType
<1>3. CASE HostExit(p, code) /\ ~Unrecorded(p)
  <2>1. HostType'
    BY <1>3 DEF HostExit, HostType, Turn, Ending
  <2>2. ProcType' /\ WaitType'
    BY <1>3 DEF HostExit, ProcType, WaitType, procVars, waitVars
  <2>3. PipesType' /\ ChansType' /\ MemType' /\ NetType'
    BY <1>3 DEF HostExit, PipesType, ChansType, MemType, NetType,
                pipeVars, chanVars, memVars, netVars
  <2> QED
    BY <2>1, <2>2, <2>3
<1> QED
  BY <1>1, <1>2, <1>3 DEF HostExit

LEMMA Kill9Type ==
  ASSUME TypeOK, NEW p \in Pid, NEW t \in Pid, Kill9(p, t)
  PROVE  TypeOK'
<1> USE DEF TypeOK
<1>1. PipesType' /\ ChansType' /\ MemType' /\ NetType'
  <2>1. miscounted' \subseteq PipeId /\ torn' \subseteq Pid
    BY DEF Kill9, PipesType, NetType, Held
  <2> QED
    BY <2>1, ReleaseType DEF Kill9, PipesType, NetType
<1>2. ProcType'
  BY ForgetType DEF Kill9, ParentOf
<1>3. WaitType'
  BY WakeTypes, StdTypes DEF Kill9, ParentOf, WaitType, ProcState
<1>4. HostType'
  BY WakeTypes, StdTypes DEF Kill9, HostType, Stashed
<1> QED
  BY <1>1, <1>2, <1>3, <1>4

\* Signals.
LEMMA SignalType ==
  ASSUME TypeOK, NEW p \in Pid, NEW t \in Pid, KillTerm(p, t) \/ ProcRaise(p)
  PROVE  TypeOK'
<1> USE DEF TypeOK
<1>1. ProcType'
  <2>1. \A q \in Pid : signals[q] + 1 \in Nat
    BY DEF ProcType
  <2>2. signals' = [signals EXCEPT ![t] = signals[t] + 1]
        \/ signals' = [signals EXCEPT ![p] = signals[p] + 1]
    BY DEF KillTerm, ProcRaise
  <2>3. signals' \in [Pid -> Nat]
    BY <2>1, <2>2 DEF ProcType
  <2> QED
    BY <2>3 DEF KillTerm, ProcRaise, ProcType
<1>2. WaitType' /\ HostType'
  BY NudgeType DEF KillTerm, ProcRaise, WaitType, HostType, waitVars, hostVars
<1>3. PipesType' /\ ChansType' /\ MemType' /\ NetType'
  BY DEF KillTerm, ProcRaise, PipesType, ChansType, MemType, NetType,
         pipeVars, chanVars, memVars, netVars
<1> QED
  BY <1>1, <1>2, <1>3

\* Channels.
LEMMA ChanOpenType ==
  ASSUME TypeOK, NEW p \in Pid, NEW name \in Names, ChanOpen(p, name)
  PROVE  TypeOK'
<1> USE DEF TypeOK
<1>1. WaitType' /\ HostType' /\ PipesType' /\ MemType' /\ NetType'
  BY DEF ChanOpen, WaitType, HostType, PipesType, MemType, NetType,
         waitVars, hostVars, pipeVars, memVars, netVars
<1>2. CASE /\ nextChan <= MaxChan
           /\ chans'    = [chans EXCEPT ![nextChan] = NewChan]
           /\ byName'   = [byName EXCEPT ![name] = nextChan]
           /\ holds'    = [holds EXCEPT ![p][nextChan] = 0]
           /\ nextChan' = nextChan + 1
           /\ UNCHANGED selfMet
  <2>1. nextChan \in ChanId /\ nextChan + 1 \in 1..(MaxChan + 1) /\ nextChan \in 0..MaxChan
    BY <1>2, ProcAssumption DEF ChansType, ChanId
  <2>2. ChansType'
    BY <1>2, <2>1, ChanTypes DEF ChansType
  <2>3. holds' \in [Pid -> [ChanId -> End \cup {NoEnd}]]
    <3>1. [holds[p] EXCEPT ![nextChan] = 0] \in [ChanId -> End \cup {NoEnd}]
      BY DEF ProcType, End
    <3> QED
      BY <1>2, <3>1 DEF ProcType
  <2>4. ProcType'
    BY <2>3 DEF ChanOpen, ProcType
  <2> QED
    BY <1>1, <2>2, <2>4
<1>3. CASE /\ byName[name] # 0
           /\ chans'  = [chans EXCEPT ![byName[name]] = Connected(@)]
           /\ byName' = [byName EXCEPT ![name] = 0]
           /\ holds'  = [holds EXCEPT ![p][byName[name]] = 1]
           /\ selfMet' = IF holds[p][byName[name]] = NoEnd
                         THEN selfMet ELSE selfMet \cup {byName[name]}
           /\ UNCHANGED nextChan
  <2>1. byName[name] \in ChanId /\ 0 \in 0..MaxChan /\ 1 \in End
    BY <1>3, ProcAssumption DEF ChansType, ChanId, End
  <2>2. ChansType'
    BY <1>3, <2>1, ChanTypes DEF ChansType
  <2>3. ProcType'
    BY <1>3, <2>1 DEF ChanOpen, ProcType
  <2> QED
    BY <1>1, <2>2, <2>3
<1> QED
  BY <1>2, <1>3 DEF ChanOpen

LEMMA ChanSendType ==
  ASSUME TypeOK, NEW p \in Pid, NEW c \in ChanId, NEW msg \in Msg, ChanSend(p, c, msg)
  PROVE  TypeOK'
<1> USE DEF TypeOK
<1>1. ProcType' /\ PipesType' /\ MemType' /\ NetType'
  BY DEF ChanSend, ProcType, PipesType, MemType, NetType, procVars, pipeVars, memVars, netVars
<1>2. WaitType' /\ HostType'
  BY ReplyType DEF ChanSend
<1>3. ChansType'
  BY SentType DEF ChanSend, ChansType
<1> QED
  BY <1>1, <1>2, <1>3

\* Shared memory and surfaces.
LEMMA MemoryType ==
  ASSUME TypeOK, NEW p \in Pid,
         ShmCreate(p) \/ (\E s \in ShmId, t \in Pid : ShmGrant(p, s, t)) \/ WinSurface(p)
  PROVE  TypeOK'
<1> USE DEF TypeOK
<1>1. MemType'
  BY KernelAssumption DEF ShmCreate, ShmGrant, WinSurface, MemType
<1>2. ProcType' /\ WaitType' /\ HostType' /\ PipesType' /\ ChansType' /\ NetType'
  BY DEF ShmCreate, ShmGrant, WinSurface, ProcType, WaitType, HostType, PipesType, ChansType,
         NetType, procVars, waitVars, hostVars, pipeVars, chanVars, netVars
<1> QED
  BY <1>1, <1>2

\* Devices.
LEMMA DeliverType ==
  ASSUME TypeOK, NEW p \in Pid, NEW n \in Nat,
         DeliverStdin(p, n) \/ DeliverInput(p, n) \/ DeliverNet(p)
  PROVE  TypeOK'
<1> USE DEF TypeOK
<1>1. ProcType'
  <2>1. CASE DeliverStdin(p, n)
    <3>1. stdin' \in [Pid -> Nat]
      BY <2>1 DEF DeliverStdin, ProcType
    <3> QED
      BY <2>1, <3>1 DEF DeliverStdin, ProcType
  <2>2. CASE DeliverInput(p, n)
    <3>1. input' \in [Pid -> Nat]
      BY <2>2 DEF DeliverInput, ProcType
    <3> QED
      BY <2>2, <3>1 DEF DeliverInput, ProcType
  <2>3. CASE DeliverNet(p)
    BY <2>3 DEF DeliverNet, ProcType, procVars
  <2> QED
    BY <2>1, <2>2, <2>3
<1>2. WaitType' /\ HostType'
  BY NudgeType DEF DeliverStdin, DeliverInput, DeliverNet
<1>3. NetType'
  BY DEF DeliverStdin, DeliverInput, DeliverNet, NetType, netVars
<1>4. PipesType' /\ ChansType' /\ MemType'
  BY DEF DeliverStdin, DeliverInput, DeliverNet, PipesType, ChansType, MemType,
         pipeVars, chanVars, memVars
<1> QED
  BY <1>1, <1>2, <1>3, <1>4

LEMMA GuestCallType ==
  ASSUME TypeOK, NEW p \in Pid, GuestCall(p)
  PROVE  TypeOK'
<1>1. CASE Issue(p)
  BY <1>1, IssueType
<1>2. CASE KPipe(p)
  BY <1>2, KPipeType
<1>3. CASE \E fd \in Fd : FdClose(p, fd)
  BY <1>3, FdCloseType
<1>4. CASE \E old \in Fd, new \in RenumberTo : FdRenumber(p, old, new)
  BY <1>4, FdRenumberType, KernelAssumption
<1>5. CASE SpawnAny(p)
  BY <1>5, SpawnAnyType
<1>6. CASE \E code \in ExitCodes : ProcExit(p, code)
  BY <1>6, ProcExitType DEF Codes
<1>7. CASE \E t \in Pid : Kill9(p, t)
  BY <1>7, Kill9Type
<1>8. CASE \E t \in Pid : KillTerm(p, t) \/ ProcRaise(p)
  BY <1>8, SignalType
<1>9. CASE \E name \in Names : ChanOpen(p, name)
  BY <1>9, ChanOpenType
<1>10. CASE \E c \in ChanId, msg \in Msg : ChanSend(p, c, msg)
  BY <1>10, ChanSendType
<1>11. CASE ShmCreate(p) \/ (\E s \in ShmId, t \in Pid : ShmGrant(p, s, t)) \/ WinSurface(p)
  BY <1>11, MemoryType
<1> QED
  BY <1>1, <1>2, <1>3, <1>4, <1>5, <1>6, <1>7, <1>8, <1>9, <1>10, <1>11 DEF GuestCall

LEMMA HostEventType ==
  ASSUME TypeOK, NEW p \in Pid, HostEvent(p)
  PROVE  TypeOK'
<1>1. CASE \E code \in ExitCodes : WorkerExit(p, code)
  BY <1>1, ProcExitType DEF WorkerExit, Codes
<1>2. CASE HostKill(p)
  BY <1>2, ProcExitType DEF HostKill, Codes
<1>3. CASE \E n \in 1..MaxStdin : DeliverStdin(p, n)
  BY <1>3, DeliverType, KernelAssumption
<1>4. CASE \E n \in 1..MaxInput : DeliverInput(p, n)
  BY <1>4, DeliverType, KernelAssumption
<1>5. CASE DeliverNet(p)
  <2>1. 0 \in Nat
    OBVIOUS
  <2> QED
    BY <1>5, <2>1, DeliverType
<1> QED
  BY <1>1, <1>2, <1>3, <1>4, <1>5 DEF HostEvent

LEMMA StutterType == TypeOK /\ UNCHANGED vars => TypeOK'
BY DEF TypeOK, ProcType, WaitType, HostType, PipesType, ChansType, MemType, NetType,
       vars, procVars, waitVars, hostVars, pipeVars, chanVars, memVars, netVars

LEMMA NextType == TypeOK /\ [Next]_vars => TypeOK'
<1> SUFFICES ASSUME TypeOK, [Next]_vars PROVE TypeOK'
  OBVIOUS
<1>1. CASE Launch
  BY <1>1, LaunchType
<1>2. CASE HostTurn
  BY <1>2, IssueType, TurnType DEF HostTurn
<1>3. CASE \E p \in Pid : GuestCall(p) \/ HostEvent(p)
  BY <1>3, GuestCallType, HostEventType
<1>4. CASE UNCHANGED vars
  BY <1>4, StutterType
<1> QED
  BY <1>1, <1>2, <1>3, <1>4 DEF Next

\* Every call, event and host step keeps every table well formed: no count goes
\* below zero, and every id a descriptor, a name, an inbox, a stashed request, a
\* wait reason or the host's turn holds is one the kernel can have allocated.
THEOREM TypeCorrect == Spec => []TypeOK
<1> QED
  BY InitType, NextType, PTL DEF Spec

-----------------------------------------------------------------------------
(***************************************************************************)
(* What becomes of a process table entry, its exit code, its capabilities  *)
(* and its memory.  Every step of Kernel is one of six kinds; most of them *)
(* touch none of this.  The theorems then follow from the kinds alone.     *)
(***************************************************************************)
SameTable  == \A q \in Pid : Known(q)' <=> Known(q)
SameRights == UNCHANGED <<nextPid, caps, spawner>>
SameOwners == UNCHANGED <<shmOwner, shmGranted, surfaceOwner>>
NoneStarting == turn'.doing # "starting"
TurnKept     == turn' = turn \/ NoneStarting

Quiet == SameTable /\ SameRights /\ SameOwners /\ TurnKept /\ UNCHANGED exitCode

\* A live process claims or shares memory.
Claims(p) ==
  /\ Live(p) /\ SameTable /\ SameRights /\ TurnKept /\ UNCHANGED exitCode
  /\ ShmCreate(p) \/ (\E s \in ShmId, t \in Pid : ShmGrant(p, s, t)) \/ WinSurface(p)

\* The next pid is given out, by the host or to a guest's child.
Born(parent, grant) ==
  /\ nextPid \in Pid
  /\ nextPid' = nextPid + 1
  /\ \A q \in Pid : Known(q)' <=> Known(q) \/ q = nextPid
  /\ caps' = [caps EXCEPT ![nextPid] = grant]
  /\ \/ parent = NoPid /\ UNCHANGED spawner /\ UNCHANGED turn
     \/ /\ parent \in Pid /\ Live(parent)
        /\ "spawn" \notin grant /\ grant \ {"root"} \subseteq caps[parent]
        /\ spawner' = [spawner EXCEPT ![nextPid] = parent]
        /\ turn' = Starting(nextPid)
  /\ SameOwners /\ UNCHANGED exitCode

Freed(p) ==
  /\ shmOwner' = [s \in ShmId |-> IF shmOwner[s] = p THEN NoPid ELSE shmOwner[s]]
  /\ shmGranted' = GrantsWithout(p)
  /\ surfaceOwner' = SurfacesWithout(p)
  /\ netResponse' = netResponse \ {p}

Departs(p, code) ==
  /\ Live(p) /\ SameTable /\ SameRights /\ NoneStarting /\ Freed(p)
  /\ exitCode' = [exitCode EXCEPT ![p] = code]

Removed(p) ==
  /\ \A q \in Pid : Known(q)' <=> Known(q) /\ q # p
  /\ exitCode' = [exitCode EXCEPT ![p] = NoCode]
  /\ caps' = [caps EXCEPT ![p] = {}]
  /\ UNCHANGED <<nextPid, spawner>>

\* A status is collected; a process is killed by another.
Collected(p) == Known(p) /\ exitCode[p] # NoCode /\ Removed(p) /\ SameOwners /\ TurnKept
Destroyed(p) == Known(p) /\ Removed(p) /\ Freed(p) /\ NoneStarting

Kinds ==
  \/ Quiet
  \/ \E p \in Pid : Claims(p) \/ Collected(p) \/ Destroyed(p)
  \/ \E p \in Pid, code \in Codes : Departs(p, code)
  \/ \E parent \in Pid \cup {NoPid}, grant \in SUBSET Capability : Born(parent, grant)

-----------------------------------------------------------------------------
(***************************************************************************)
(* Every step is of one of the kinds.                                      *)
(***************************************************************************)

\* A pid that was not given out yet has no entry; the child whose worker is
\* about to start has one, and no exit code.
Fresh == \A p \in Pid : p >= nextPid => ~Known(p) /\ exitCode[p] = NoCode /\ spawner[p] = NoPid
StartingLive == turn.doing = "starting" => Live(turn.pid)

\* A spawner is older than what it spawns.
SpawnerOlder == \A c \in Pid : spawner[c] # NoPid => spawner[c] < c

Lifecycle == TypeOK /\ Fresh /\ StartingLive /\ SpawnerOlder

\* Who sleeps and who wakes stays in the table, or out of it.
LEMMA RunnableTable ==
  ASSUME TypeOK, NEW reasons, NEW q \in Pid
  PROVE  Runnable(reasons)[q] = "none" <=> state[q] = "none"
BY DEF Runnable

LEMMA ReplyQuiet ==
  ASSUME TypeOK, NEW p \in Pid, NEW STATE reasons, Reply(p, reasons)
  PROVE  SameTable /\ TurnKept
BY RunnableTable DEF Reply, Wake, Complete, SameTable, Known, TurnKept

LEMMA ParkQuiet ==
  ASSUME TypeOK, NEW p \in Pid, NEW STATE request, NEW STATE reason, Park(p, request, reason)
  PROVE  SameTable /\ TurnKept
BY DEF Park, Block, SameTable, Known, TurnKept, waitVars, TypeOK, WaitType

LEMMA NudgeQuiet ==
  ASSUME TypeOK, NEW p \in Pid, NEW reason, Nudge(p, reason)
  PROVE  SameTable /\ TurnKept
<1>1. CASE blockedOn[p] = reason
  BY <1>1 DEF Nudge, SameTable, Known, TurnKept, TypeOK, WaitType
<1>2. CASE blockedOn[p] # reason
  BY <1>2 DEF Nudge, SameTable, Known, TurnKept, waitVars, hostVars
<1> QED
  BY <1>1, <1>2

LEMMA ServeKind ==
  ASSUME TypeOK, NEW p \in Pid, NEW STATE r, r \in Request, Serve(p, r)
  PROVE  Quiet \/ \E c \in Pid : Collected(c)
<1> USE DEF Quiet, SameRights, SameOwners
<1>1. CASE FdRead(p, r)
  <2>1. SameTable /\ TurnKept
    BY <1>1, ReplyQuiet, ParkQuiet DEF FdRead, ReadPipe, ReadStdin, ReadParks, ReadReturns
  <2> QED
    BY <1>1, <2>1 DEF FdRead, ReadPipe, ReadStdin, ReadParks, ReadReturns, procVars, memVars
<1>2. CASE FdWrite(p, r)
  <2>1. SameTable /\ TurnKept
    BY <1>2, ReplyQuiet, ParkQuiet DEF FdWrite, WritePipe, WriteParks, WriteReturns
  <2> QED
    BY <1>2, <2>1 DEF FdWrite, procVars, memVars
<1>3. CASE KWait(p, r)
  <2>1. CASE WaitCollects(p, r.arg) /\ state[r.arg] = "zombie"
    <3>1. r.arg \in Pid
      BY <1>3 DEF KWait, Request, Of
    <3>2. Removed(r.arg)
      BY <2>1, <3>1 DEF WaitCollects, Reap, Forget, Removed, Known, TypeOK, WaitType
    <3>3. Known(r.arg) /\ exitCode[r.arg] # NoCode /\ SameOwners /\ TurnKept
      BY <1>3, <2>1 DEF KWait, WaitCollects, Complete, Known, TurnKept, memVars
    <3> QED
      BY <3>1, <3>2, <3>3 DEF Collected
  <2>2. CASE WaitCollects(p, r.arg) /\ state[r.arg] # "zombie"
    BY <1>3, <2>2 DEF KWait, WaitCollects, Reap, Complete, SameTable, Known, TurnKept,
                      procVars, waitVars, memVars
  <2>3. CASE WaitFindsNone(p, r.arg) \/ WaitParks(p, r)
    <3>1. SameTable /\ TurnKept
      BY <2>3, ReplyQuiet, ParkQuiet DEF WaitFindsNone, WaitParks
    <3> QED
      BY <1>3, <2>3, <3>1 DEF KWait, WaitFindsNone, WaitParks, procVars, memVars
  <2> QED
    BY <1>3, <2>1, <2>2, <2>3 DEF KWait
<1>4. CASE SigWait(p, r) \/ ChanRecv(p, r) \/ WinReadInput(p, r) \/ NetRequest(p, r)
  <2>1. SameTable /\ TurnKept
    BY <1>4, ReplyQuiet, ParkQuiet DEF SigWait, ChanRecv, WinReadInput, NetRequest
  <2> QED
    BY <1>4, <2>1 DEF SigWait, ChanRecv, WinReadInput, NetRequest, procVars, memVars
<1> QED
  BY <1>1, <1>2, <1>3, <1>4 DEF Serve

LEMMA SpawnKind ==
  ASSUME Lifecycle, NEW p \in Pid, SpawnAny(p)
  PROVE  \E grant \in SUBSET Capability : Born(p, grant)
<1>1. PICK stdio \in Stdio, want \in Wants :
        \E rid \in IF \E fd \in 0..2 : stdio[fd] = "pipeRead" THEN Held(p) ELSE {0},
           wid \in IF \E fd \in 0..2 : stdio[fd] = "pipeWrite" THEN Held(p) ELSE {0} :
          KSpawn(p, stdio, rid, wid, want)
  BY DEF SpawnAny
<1>2. PICK rid, wid : KSpawn(p, stdio, rid, wid, want)
  BY <1>1
<1>3. nextPid \in Pid
  BY <1>2, ProcAssumption DEF KSpawn, Lifecycle, TypeOK, ProcType, Pid
<1>4. \A q \in Pid : Known(q)' <=> Known(q) \/ q = nextPid
  BY <1>2, <1>3 DEF KSpawn, Known, Lifecycle, TypeOK, WaitType
<1> DEFINE grant == Delegated(p, want) \cup {"root"}
<1>5. grant \in SUBSET Capability /\ "spawn" \notin grant /\ grant \ {"root"} \subseteq caps[p]
  <2>1. want \in SUBSET {"gpu", "input", "signal", "net"}
    BY KernelAssumption DEF Delegable
  <2>2. grant \in SUBSET Capability
    BY <2>1 DEF Delegated, Capability
  <2>3. "spawn" \notin grant
    BY <2>1 DEF Delegated
  <2>4. grant \ {"root"} \subseteq caps[p]
    BY DEF Delegated
  <2> QED
    BY <2>2, <2>3, <2>4
<1>6. Live(p) /\ p # NoPid
  BY <1>2, ProcAssumption DEF KSpawn, MayCall, Pid, NoPid
<1>7. Born(p, grant)
  BY <1>2, <1>3, <1>4, <1>5, <1>6 DEF KSpawn, Born, SameOwners, memVars
<1> QED
  BY <1>5, <1>7

LEMMA LaunchKind ==
  ASSUME Lifecycle, Launch
  PROVE  \E grant \in SUBSET Capability : Born(NoPid, grant)
<1>1. PICK grant \in Grants, started \in BOOLEAN : HostSpawn(grant, started)
  BY DEF Launch
<1>2. nextPid \in Pid
  BY <1>1, ProcAssumption DEF HostSpawn, Lifecycle, TypeOK, ProcType, Pid
<1>3. \A q \in Pid : Known(q)' <=> Known(q) \/ q = nextPid
  BY <1>1, <1>2 DEF HostSpawn, Known, Lifecycle, TypeOK, WaitType
<1>4. grant \in SUBSET Capability
  BY KernelAssumption
<1>5. Born(NoPid, grant)
  BY <1>1, <1>2, <1>3 DEF HostSpawn, Born, SameOwners, memVars
<1> QED
  BY <1>4, <1>5

LEMMA ExitKind ==
  ASSUME TypeOK, NEW p \in Pid, NEW code \in Codes, Live(p), Exit(p, code), NoneStarting
  PROVE  Departs(p, code)
<1>1. SameTable
  BY RunnableTable DEF Exit, SameTable, Known, Live, TypeOK, WaitType, Runnable
<1> QED
  BY <1>1 DEF Exit, Departs, Release, Freed, SameRights

LEMMA DepartureKind ==
  ASSUME TypeOK, NEW p \in Pid, NEW code \in Codes, ProcExit(p, code) \/ HostExit(p, code)
  PROVE  Quiet \/ Departs(p, code)
<1>1. NoneStarting
  BY DEF ProcExit, MayCall, HostExit, AtRest, NoneStarting, Idle, Ending
<1>2. CASE ProcExit(p, code)
  BY <1>1, <1>2, ExitKind DEF ProcExit, MayCall
<1>3. CASE HostExit(p, code) /\ Unrecorded(p)
  BY <1>1, <1>3, ExitKind DEF HostExit, Unrecorded
<1>4. CASE HostExit(p, code) /\ ~Unrecorded(p)
  BY <1>1, <1>4 DEF HostExit, Quiet, SameTable, Known, SameRights, SameOwners, TurnKept,
                    procVars, waitVars, memVars
<1> QED
  BY <1>2, <1>3, <1>4

LEMMA Kill9Kind ==
  ASSUME TypeOK, NEW p \in Pid, NEW t \in Pid, Kill9(p, t)
  PROVE  Destroyed(t)
<1>1. Known(t) /\ NoneStarting
  BY DEF Kill9, MaySignal, MayCall, AtRest, NoneStarting, Idle
<1>2. \A q \in Pid : Known(q)' <=> Known(q) /\ q # t
  BY RunnableTable DEF Kill9, ParentOf, Known, TypeOK, WaitType, Runnable
<1>3. Removed(t)
  BY <1>2 DEF Kill9, ParentOf, Forget, Removed
<1> QED
  BY <1>1, <1>3 DEF Kill9, Destroyed, Release, Freed

LEMMA GuestCallKind ==
  ASSUME Lifecycle, NEW p \in Pid, GuestCall(p)
  PROVE  Kinds
<1> USE DEF Quiet, SameRights, SameOwners
<1>0. TypeOK
  BY DEF Lifecycle
<1>1. CASE Issue(p)
  <2>1. PICK r \in Offered(p) : Serve(p, r)
    BY <1>1 DEF Issue
  <2> QED
    BY <1>0, <2>1, OfferedType, ServeKind DEF Kinds
<1>2. CASE KPipe(p) \/ ProcRaise(p) \/ \E name \in Names : ChanOpen(p, name)
  <2>1. Quiet
    BY <1>2 DEF KPipe, ProcRaise, ChanOpen, SameTable, Known, TurnKept, waitVars, hostVars, memVars
  <2> QED
    BY <2>1 DEF Kinds
<1>3. CASE \E fd \in Fd : FdClose(p, fd)
  <2>1. SameTable /\ TurnKept
    BY <1>0, <1>3, ReplyQuiet DEF FdClose
  <2> QED
    BY <1>3, <2>1 DEF FdClose, Kinds, memVars
<1>4. CASE \E old \in Fd, new \in RenumberTo : FdRenumber(p, old, new)
  <2>1. SameTable /\ TurnKept
    BY <1>0, <1>4, ReplyQuiet DEF FdRenumber
  <2> QED
    BY <1>4, <2>1 DEF FdRenumber, Kinds, memVars
<1>5. CASE SpawnAny(p)
  BY <1>5, SpawnKind DEF Kinds
<1>6. CASE \E code \in ExitCodes : ProcExit(p, code)
  BY <1>0, <1>6, DepartureKind DEF Kinds, Codes
<1>7. CASE \E t \in Pid : Kill9(p, t)
  BY <1>0, <1>7, Kill9Kind DEF Kinds
<1>8. CASE \E t \in Pid : KillTerm(p, t)
  <2>1. SameTable /\ TurnKept
    BY <1>0, <1>8, NudgeQuiet DEF KillTerm
  <2> QED
    BY <1>8, <2>1 DEF KillTerm, Kinds, memVars
<1>9. CASE \E c \in ChanId, msg \in Msg : ChanSend(p, c, msg)
  <2>1. SameTable /\ TurnKept
    BY <1>0, <1>9, ReplyQuiet DEF ChanSend
  <2> QED
    BY <1>9, <2>1 DEF ChanSend, Kinds, procVars, memVars
<1>10. CASE ShmCreate(p) \/ (\E s \in ShmId, t \in Pid : ShmGrant(p, s, t)) \/ WinSurface(p)
  <2>1. Live(p) /\ UNCHANGED <<procVars, waitVars, hostVars>>
    BY <1>10 DEF ShmCreate, ShmGrant, WinSurface, MayCall
  <2>2. Claims(p)
    BY <1>10, <2>1 DEF Claims, SameTable, Known, TurnKept, procVars, waitVars, hostVars
  <2> QED
    BY <2>2 DEF Kinds
<1> QED
  BY <1>1, <1>2, <1>3, <1>4, <1>5, <1>6, <1>7, <1>8, <1>9, <1>10 DEF GuestCall

LEMMA HostEventKind ==
  ASSUME TypeOK, NEW p \in Pid, HostEvent(p)
  PROVE  Kinds
<1>1. CASE \E code \in ExitCodes : WorkerExit(p, code)
  BY <1>1, DepartureKind DEF WorkerExit, Codes, Kinds
<1>2. CASE HostKill(p)
  BY <1>2, DepartureKind DEF HostKill, Codes, Kinds
<1>3. CASE (\E n \in Nat : DeliverStdin(p, n) \/ DeliverInput(p, n)) \/ DeliverNet(p)
  <2>1. SameTable /\ TurnKept
    BY <1>3, NudgeQuiet DEF DeliverStdin, DeliverInput, DeliverNet
  <2> QED
    BY <1>3, <2>1 DEF DeliverStdin, DeliverInput, DeliverNet, Kinds, Quiet, SameRights, SameOwners,
                      procVars, memVars
<1> QED
  BY <1>1, <1>2, <1>3, KernelAssumption DEF HostEvent

LEMMA NextKind ==
  ASSUME Lifecycle, [Next]_vars
  PROVE  Kinds
<1> USE DEF Quiet, SameTable, Known, SameRights, SameOwners
<1>0. TypeOK
  BY DEF Lifecycle
<1>1. CASE Launch
  BY <1>1, LaunchKind DEF Kinds
<1>2. CASE \E p \in Pid : Redrive(p)
  <2>1. PICK p \in Pid : Serve(p, parked[p])
    BY <1>2 DEF Redrive
  <2>2. parked[p] \in Request
    BY <1>0 DEF TypeOK, HostType
  <2> QED
    BY <1>0, <2>1, <2>2, ServeKind DEF Kinds
<1>3. CASE FinishExit \/ StartChild
  BY <1>3 DEF FinishExit, StartChild, Kinds, TurnKept, NoneStarting, Idle, procVars, waitVars, memVars
<1>4. CASE SpawnFailed
  <2>1. turn.pid \in Pid /\ 127 \in Codes
    BY <1>0, <1>4 DEF SpawnFailed, TypeOK, HostType, Turn, Codes
  <2>2. Live(turn.pid) /\ NoneStarting
    BY <1>4 DEF SpawnFailed, Lifecycle, StartingLive, NoneStarting, Idle
  <2>3. Departs(turn.pid, 127)
    BY <1>0, <1>4, <2>1, <2>2, ExitKind DEF SpawnFailed
  <2> QED
    BY <2>1, <2>3 DEF Kinds
<1>5. CASE \E p \in Pid : GuestCall(p) \/ HostEvent(p)
  BY <1>0, <1>5, GuestCallKind, HostEventKind
<1>6. CASE UNCHANGED vars
  BY <1>6 DEF Kinds, TurnKept, vars, procVars, waitVars, hostVars, memVars
<1> QED
  BY <1>1, <1>2, <1>3, <1>4, <1>5, <1>6 DEF Next, HostTurn

-----------------------------------------------------------------------------
(***************************************************************************)
(* The invariants, from the kinds.                                         *)
(***************************************************************************)
LEMMA NoCodeIsNone == NoCode \notin Codes
BY ProcAssumption DEF NoCode, Codes

LEMMA LifecycleInit == Init => Lifecycle
<1> SUFFICES ASSUME Init PROVE Lifecycle
  OBVIOUS
<1>1. TypeOK
  BY InitType
<1>2. Fresh /\ SpawnerOlder
  BY ProcAssumption DEF Init, Fresh, SpawnerOlder, Known, InitPid, Pid, NoPid
<1>3. StartingLive
  BY DEF Init, StartingLive, Idle
<1> QED
  BY <1>1, <1>2, <1>3 DEF Lifecycle

LEMMA LifecycleNext ==
  ASSUME Lifecycle, [Next]_vars
  PROVE  Lifecycle'
<1>0. TypeOK /\ TypeOK'
  BY NextType DEF Lifecycle
<1>a. nextPid \in Nat /\ turn \in Turn /\ Pid \subseteq Nat
  BY <1>0 DEF TypeOK, ProcType, HostType, Pid
<1>1. CASE Quiet
  BY <1>0, <1>1 DEF Quiet, SameTable, SameRights, TurnKept, NoneStarting, Lifecycle, Fresh,
                    StartingLive, SpawnerOlder, Live, Turn, TypeOK, HostType, Known
<1>2. ASSUME NEW p \in Pid, Claims(p) PROVE Lifecycle'
  BY <1>0, <1>2 DEF Claims, SameTable, SameRights, TurnKept, NoneStarting, Lifecycle, Fresh,
                    StartingLive, SpawnerOlder, Live, Turn, TypeOK, HostType, Known
<1>3. ASSUME NEW p \in Pid, Collected(p) PROVE Lifecycle'
  <2>1. Fresh'
    BY <1>0, <1>3 DEF Collected, Removed, Lifecycle, Fresh, TypeOK, ProcType
  <2>2. StartingLive'
    <3>1. CASE turn' = turn /\ turn.doing = "starting"
      <4>1. turn.pid \in Pid /\ Live(turn.pid) /\ turn.pid # p
        BY <1>a, <1>3, <3>1 DEF Turn, Lifecycle, StartingLive, Live, Collected
      <4> QED
        BY <1>0, <1>3, <3>1, <4>1 DEF StartingLive, Live, Collected, Removed, TypeOK, ProcType, Known
    <3> QED
      BY <1>3, <3>1 DEF Collected, TurnKept, NoneStarting, StartingLive
  <2>3. SpawnerOlder'
    BY <1>3 DEF Collected, Removed, Lifecycle, SpawnerOlder
  <2> QED
    BY <1>0, <2>1, <2>2, <2>3 DEF Lifecycle
<1>4. ASSUME NEW p \in Pid, Destroyed(p) PROVE Lifecycle'
  BY <1>0, <1>4 DEF Destroyed, Removed, NoneStarting, Lifecycle, Fresh, StartingLive, SpawnerOlder,
                    TypeOK, ProcType
<1>5. ASSUME NEW p \in Pid, NEW code \in Codes, Departs(p, code) PROVE Lifecycle'
  BY <1>0, <1>5 DEF Departs, SameTable, SameRights, NoneStarting, Lifecycle, Fresh, StartingLive,
                    SpawnerOlder, TypeOK, ProcType, Live
<1>6. ASSUME NEW parent \in Pid \cup {NoPid}, NEW grant \in SUBSET Capability, Born(parent, grant)
      PROVE  Lifecycle'
  <2>1. \A q \in Pid : q >= nextPid' => q >= nextPid /\ q # nextPid
    BY <1>a, <1>6 DEF Born
  <2>2. ~Known(nextPid) /\ exitCode[nextPid] = NoCode /\ nextPid >= nextPid
    BY <1>a, <1>6 DEF Born, Lifecycle, Fresh
  <2>3. Fresh'
    BY <1>0, <1>6, <2>1 DEF Born, Lifecycle, Fresh, TypeOK, ProcType
  <2>4. StartingLive'
    <3>1. CASE parent # NoPid
      BY <1>0, <1>6, <2>2, <3>1 DEF Born, Starting, StartingLive, Live, Known
    <3>2. CASE parent = NoPid
      <4>1. UNCHANGED turn
        BY <1>6, <3>2, ProcAssumption DEF Born, Pid, NoPid
      <4>2. turn.doing = "starting" => turn.pid \in Pid
        BY <1>a DEF Turn
      <4> QED
        BY <1>6, <4>1, <4>2 DEF Born, Lifecycle, StartingLive, Live, Known
    <3> QED
      BY <3>1, <3>2
  <2>5. SpawnerOlder'
    <3>1. parent # NoPid => parent < nextPid
      BY <1>a, <1>6 DEF Born, Live, Lifecycle, Fresh
    <3> QED
      BY <1>0, <1>6, <3>1 DEF Born, Lifecycle, SpawnerOlder, TypeOK, ProcType
  <2> QED
    BY <1>0, <2>3, <2>4, <2>5 DEF Lifecycle
<1>7. Kinds
  BY NextKind
<1> QED
  BY <1>1, <1>2, <1>3, <1>4, <1>5, <1>6, <1>7 DEF Kinds

LEMMA LifecycleAlways == Spec => []Lifecycle
<1>1. Lifecycle /\ [Next]_vars => Lifecycle'
  BY LifecycleNext
<1> QED
  BY <1>1, LifecycleInit, PTL DEF Spec

\* A status, once recorded, is the one that is collected: proc_exit, the worker's
\* exit message, the user's kill and another process's SIGKILL may race for it,
\* and only the first of them counts.
THEOREM StatusKept == Spec => StatusStable
<1> DEFINE Stays == \A p \in Pid : exitCode[p] # NoCode => exitCode'[p] = exitCode[p] \/ ~Known(p)'
<1>1. Lifecycle /\ [Next]_vars => [Stays]_vars
  <2> SUFFICES ASSUME Lifecycle, [Next]_vars PROVE Stays
    OBVIOUS
  <2>1. Kinds /\ exitCode \in [Pid -> Codes \cup {NoCode}]
    BY NextKind DEF Lifecycle, TypeOK, ProcType
  <2> QED
    BY <2>1 DEF Kinds, Quiet, Claims, Collected, Destroyed, Removed, Departs, Born, Live
<1> QED
  BY <1>1, LifecycleAlways, PTL DEF Spec, StatusStable

LEMMA AuthorityNext ==
  ASSUME Lifecycle, NoAmplification, [Next]_vars
  PROVE  NoAmplification'
<1> SUFFICES ASSUME NEW c \in Pid, (spawner[c] # NoPid /\ Known(c))'
             PROVE  ("spawn" \notin caps[c] /\ (Known(spawner[c]) => caps[c] \ {"root"} \subseteq caps[spawner[c]]))'
  BY DEF NoAmplification
<1>0. /\ caps \in [Pid -> SUBSET Capability] /\ spawner \in [Pid -> Pid \cup {NoPid}]
      /\ nextPid \in Nat /\ Pid \subseteq Nat /\ NoPid \notin Pid
  BY ProcAssumption DEF Lifecycle, TypeOK, ProcType, Pid, NoPid
<1>1. CASE SameTable /\ SameRights
  <2>1. caps' = caps /\ spawner' = spawner
    BY <1>1 DEF SameRights
  <2>2. \A q \in Pid : Known(q)' <=> Known(q)
    BY <1>1 DEF SameTable
  <2>3. spawner[c] # NoPid /\ Known(c)
    BY <2>1, <2>2
  <2>4. "spawn" \notin caps[c] /\ (Known(spawner[c]) => caps[c] \ {"root"} \subseteq caps[spawner[c]])
    BY <2>3 DEF NoAmplification
  <2>5. Known(spawner[c])' => Known(spawner[c])
    <3>1. PICK s \in Pid : s = spawner[c]
      BY <1>0, <2>3
    <3>2. Known(s)' => Known(s)
      BY <2>2
    <3> QED BY <2>1, <3>1, <3>2 DEF Known
  <2> QED BY <2>1, <2>4, <2>5
<1>2. ASSUME NEW p \in Pid, Removed(p)
      PROVE  ("spawn" \notin caps[c] /\ (Known(spawner[c]) => caps[c] \ {"root"} \subseteq caps[spawner[c]]))'
  <2>1. c # p /\ Known(c) /\ spawner[c] # NoPid
    BY <1>2 DEF Removed
  <2>2. caps'[c] = caps[c] /\ (spawner[c] # p => caps'[spawner[c]] = caps[spawner[c]])
    BY <1>0, <1>2, <2>1 DEF Removed
  <2>3. Known(spawner[c])' => Known(spawner[c]) /\ spawner[c] # p
    BY <1>0, <1>2, <2>1 DEF Removed, Known
  <2> QED
    BY <1>2, <2>1, <2>2, <2>3 DEF Removed, NoAmplification, Known
<1>3. ASSUME NEW parent \in Pid \cup {NoPid}, NEW grant \in SUBSET Capability, Born(parent, grant)
      PROVE  ("spawn" \notin caps[c] /\ (Known(spawner[c]) => caps[c] \ {"root"} \subseteq caps[spawner[c]]))'
  <2>1. nextPid \in Pid /\ ~Known(nextPid) /\ spawner[nextPid] = NoPid
    BY <1>0, <1>3 DEF Born, Lifecycle, Fresh
  <2>2. CASE c = nextPid
    <3>1. parent \in Pid /\ Live(parent) /\ spawner'[c] = parent /\ parent # c
      BY <1>0, <1>3, <2>1, <2>2 DEF Born, Live
    <3>2. caps'[c] = grant /\ caps'[parent] = caps[parent]
      BY <1>0, <1>3, <2>1, <2>2, <3>1 DEF Born
    <3> QED
      BY <1>0, <1>3, <3>1, <3>2 DEF Born, Known
  <2>3. CASE c # nextPid
    <3>1. spawner'[c] = spawner[c] /\ caps'[c] = caps[c] /\ Known(c)
      BY <1>0, <1>3, <2>1, <2>3 DEF Born, Known
    <3>2. spawner[c] \in Pid /\ spawner[c] # nextPid
      <4>1. spawner[c] < c /\ c < nextPid
        BY <1>0, <3>1 DEF Lifecycle, SpawnerOlder, Fresh
      <4> QED
        BY <1>0, <3>1, <4>1
    <3>3. caps'[spawner[c]] = caps[spawner[c]] /\ (Known(spawner[c])' <=> Known(spawner[c]))
      BY <1>0, <1>3, <3>1, <3>2 DEF Born, Known
    <3> QED
      BY <3>1, <3>3 DEF NoAmplification, Known
  <2> QED
    BY <2>2, <2>3
<1>4. Kinds
  BY NextKind
<1> QED
  BY <1>1, <1>2, <1>3, <1>4 DEF Kinds, Quiet, Claims, Collected, Destroyed, Departs

\* Of spawning, signals, the network, the screen and input a guest's child gets only
\* what its parent has, however many generations of k_spawn there are, and no guest's
\* child can spawn.  Files are the exception: k_spawn() gives every child all rights to
\* the whole tree, whatever its parent may reach.
THEOREM AuthorityShrinks == Spec => []NoAmplification
<1>1. Init => NoAmplification
  BY DEF Init, NoAmplification
<1>2. Lifecycle /\ NoAmplification /\ [Next]_vars => NoAmplification'
  BY AuthorityNext
<1> QED
  BY <1>1, <1>2, LifecycleAlways, PTL DEF Spec

LEMMA OwnersNext ==
  ASSUME Lifecycle, OwnersLive, AccessFollowsOwner, [Next]_vars
  PROVE  OwnersLive' /\ AccessFollowsOwner'
<1>0. /\ shmOwner \in [ShmId -> Pid \cup {NoPid}] /\ shmGranted \in [ShmId -> SUBSET Pid]
      /\ surfaceOwner \in [SurfaceId -> Pid \cup {NoPid}] /\ NoPid \notin Pid
      /\ exitCode \in [Pid -> Codes \cup {NoCode}]
  BY ProcAssumption DEF Lifecycle, TypeOK, MemType, ProcType, Pid, NoPid
<1> DEFINE Owner == {shmOwner[s] : s \in ShmId} \cup {surfaceOwner[s] : s \in SurfaceId}
<1>a. \A q \in Owner : q # NoPid => q \in Pid /\ Live(q)
  BY <1>0 DEF OwnersLive
<1> USE DEF OwnersLive, AccessFollowsOwner
<1>1. CASE SameOwners /\ \A q \in Pid : Live(q) => Live(q)'
  BY <1>0, <1>1 DEF SameOwners, Live, Known
<1>2. ASSUME NEW p \in Pid, Freed(p), \A q \in Pid \ {p} : Live(q) => Live(q)'
      PROVE  OwnersLive' /\ AccessFollowsOwner'
  BY <1>0, <1>2 DEF Freed, GrantsWithout, SurfacesWithout, Live, Known
<1>3. ASSUME NEW p \in Pid, Claims(p) PROVE OwnersLive' /\ AccessFollowsOwner'
  <2>1. \A q \in Pid : Live(q) => Live(q)'
    BY <1>3 DEF Claims, SameTable, Live, Known
  <2>2. Live(p)
    BY <1>3 DEF Claims
  <2>3. CASE ShmCreate(p)
    BY <1>0, <2>1, <2>2, <2>3 DEF ShmCreate, Live, Known
  <2>4. CASE \E s \in ShmId, t \in Pid : ShmGrant(p, s, t)
    BY <1>0, <2>1, <2>2, <2>4 DEF ShmGrant, Live, Known
  <2>5. CASE WinSurface(p)
    BY <1>0, <2>1, <2>2, <2>5 DEF WinSurface, Live, Known
  <2> QED
    BY <1>3, <2>3, <2>4, <2>5 DEF Claims
<1>4. ASSUME Quiet \/ \E parent \in Pid \cup {NoPid}, grant \in SUBSET Capability : Born(parent, grant)
      PROVE  SameOwners /\ \A q \in Pid : Live(q) => Live(q)'
  BY <1>4 DEF Quiet, SameTable, Born, Live, Known
<1>5. ASSUME NEW p \in Pid, Collected(p) PROVE SameOwners /\ \A q \in Pid : Live(q) => Live(q)'
  BY <1>0, <1>5 DEF Collected, Removed, Live, Known
<1>6. ASSUME NEW p \in Pid, Destroyed(p)
      PROVE  Freed(p) /\ \A q \in Pid \ {p} : Live(q) => Live(q)'
  BY <1>0, <1>6 DEF Destroyed, Removed, Live, Known
<1>7. ASSUME NEW p \in Pid, NEW code \in Codes, Departs(p, code)
      PROVE  Freed(p) /\ \A q \in Pid \ {p} : Live(q) => Live(q)'
  BY <1>0, <1>7 DEF Departs, SameTable, Live, Known
<1>8. Kinds
  BY NextKind
<1> QED
  BY <1>1, <1>2, <1>3, <1>4, <1>5, <1>6, <1>7, <1>8 DEF Kinds

\* No region and no surface outlives its owner, whichever way it goes, and a
\* region that was freed can be reached by nobody it was granted to.
THEOREM MemoryFollowsOwner == Spec => [](OwnersLive /\ AccessFollowsOwner)
<1>1. Init => OwnersLive /\ AccessFollowsOwner
  BY DEF Init, OwnersLive, AccessFollowsOwner
<1>2. Lifecycle /\ OwnersLive /\ AccessFollowsOwner /\ [Next]_vars
        => OwnersLive' /\ AccessFollowsOwner'
  BY OwnersNext
<1> QED
  BY <1>1, <1>2, LifecycleAlways, PTL DEF Spec

\* The half of it that is about grants: a region is open to its owner while it has one,
\* and granted to nobody once it is freed.
COROLLARY GrantsFollowOwner == Spec => []AccessFollowsOwner
BY MemoryFollowsOwner, PTL

(***************************************************************************)
(* No wakeup is lost.  The invariant says for each live process which of   *)
(* three things it is: awake, woken and queued to be driven, or asleep on  *)
(* what both halves agree it waits for.  A step is then judged by the      *)
(* reasons it wakes (Steady, OwnKept): what does not wake a sleeper must   *)
(* leave it nothing to wake for.                                           *)
(***************************************************************************)
Starved(i)   == pipes[i].buf = <<>> /\ WriteOpen(pipes[i])
Stuffed(i)   == ReadOpen(pipes[i]) /\ Space(pipes[i]) = 0
Silent(c, e) == chans[c].inbox[e] = <<>> /\ PeerOpen(chans[c], e)
Fetching(p)  == p \notin netResponse /\ p \in fetching

\* p waits, as the kernel has it, for what the stashed request r cannot do without.
AsleepOn(p, r) ==
  LET d == fds[p][r.arg] IN
  \/ r.call = "fdRead" /\ d.kind = "pipeRead" /\ Starved(d.id) /\ blockedOn[p] = On("pipeRead", d.id)
  \/ r.call = "fdRead" /\ d.kind = "stdin" /\ stdin[p] = 0 /\ blockedOn[p] = On("stdin", 0)
  \/ r.call = "fdWrite" /\ d.kind = "pipeWrite" /\ Stuffed(d.id) /\ blockedOn[p] = On("pipeWrite", d.id)
  \/ r.call = "kWait" /\ Live(r.arg) /\ blockedOn[p] = On("wait", r.arg)
  \/ r.call = "sigWait" /\ signals[p] = 0 /\ blockedOn[p] = On("sigWait", 0)
  \/ /\ r.call = "chanRecv" /\ holds[p][r.arg] \in End /\ Silent(r.arg, holds[p][r.arg])
     /\ blockedOn[p] = OnChanRecv(r.arg, holds[p][r.arg])
  \/ r.call = "winReadInput" /\ input[p] = 0 /\ blockedOn[p] = On("input", 0)
  \/ r.call = "netRequest" /\ Fetching(p) /\ blockedOn[p] = On("netReq", 0)

Awake(p)  == p \notin queue /\ state[p] # "blocked" /\ blockedOn[p] = NotBlocked
Woken(p)  == p \in queue /\ p \in workers /\ state[p] # "blocked" /\ blockedOn[p] = NotBlocked
Asleep(p) == p \notin queue /\ p \in workers /\ state[p] = "blocked" /\ AsleepOn(p, parked[p])

Accounted(p) == Live(p) => IF parked[p] = NoReq THEN Awake(p) ELSE Woken(p) \/ Asleep(p)
AllAccounted == \A p \in Pid : Accounted(p)

\* Only what is stashed is queued, and only what was born waits for anything.
QueueStashed == \A p \in queue : parked[p] # NoReq
Unborn       == \A p \in Pid : p >= nextPid => parked[p] = NoReq /\ blockedOn[p] = NotBlocked
EndingDead   == turn.doing = "ending" => ~Live(turn.pid)

\* A pipe that was not made yet is none, and none holds more than it has room for.
PipesUnused == \A i \in PipeId : i >= nextPipe => pipes[i] = NoPipe
PipesFit    == \A i \in PipeId : Len(pipes[i].buf) <= Capacity
PipesSound  == PipesUnused /\ PipesFit

\* An end of a channel has one holder; the second end has none before it is met, and
\* a name leads to one channel that is still to be met.
ChansUnused == \A c \in ChanId : c >= nextChan => chans[c] = NoChan /\ \A p \in Pid : holds[p][c] = NoEnd
NamesLead   == \A n \in Names : byName[n] # 0 => byName[n] < nextChan /\ chans[byName[n]].pending
NamesApart  == \A m, n \in Names : byName[m] = byName[n] /\ byName[n] # 0 => m = n
UnmetAlone  == \A c \in ChanId, p \in Pid : chans[c].pending => holds[p][c] # 1
OneHolder   == \A p, q \in Pid, c \in ChanId : holds[p][c] = holds[q][c] /\ p # q => holds[p][c] = NoEnd
EndsApart   == ChansUnused /\ NamesLead /\ NamesApart /\ UnmetAlone /\ OneHolder

Sleepers == /\ Lifecycle /\ AllAccounted /\ QueueStashed /\ Unborn /\ EndingDead
            /\ PipesSound /\ EndsApart
-----------------------------------------------------------------------------
(***************************************************************************)
(* A sleeper that a step does not wake.                                    *)
(***************************************************************************)

\* What sleepers of other reasons wait for still does not come.
Steady(reasons) ==
  /\ \A i \in PipeId : On("pipeRead", i) \notin reasons /\ Starved(i) => Starved(i)'
  /\ \A i \in PipeId : On("pipeWrite", i) \notin reasons /\ Stuffed(i) => Stuffed(i)'
  /\ \A c \in Pid : On("wait", c) \notin reasons /\ Live(c) => Live(c)'

ChanKept(q, reasons) ==
  \A c \in ChanId : holds[q][c] \in End /\ OnChanRecv(c, holds[q][c]) \notin reasons
                      /\ Silent(c, holds[q][c])
                    => Silent(c, holds[q][c])'

\* Nor does what would be q's alone.
OwnKept(q, reasons) ==
  /\ fds'[q] = fds[q] /\ holds'[q] = holds[q]
  /\ ChanKept(q, reasons)
  /\ blockedOn[q] = On("stdin", 0) /\ On("stdin", 0) \notin reasons /\ stdin[q] = 0 => stdin'[q] = 0
  /\ blockedOn[q] = On("sigWait", 0) /\ On("sigWait", 0) \notin reasons /\ signals[q] = 0
       => signals'[q] = 0
  /\ blockedOn[q] = On("input", 0) /\ On("input", 0) \notin reasons /\ input[q] = 0 => input'[q] = 0
  /\ blockedOn[q] = On("netReq", 0) /\ On("netReq", 0) \notin reasons /\ Fetching(q) => Fetching(q)'

\* Those waiting for reasons are woken, and nobody else is touched.
Wakes(q, reasons) ==
  /\ state'[q] = Runnable(reasons)[q] /\ blockedOn'[q] = Unblocked(reasons)[q]
  /\ parked'[q] = parked[q] /\ (q \in workers => q \in workers')
  /\ q \in queue' <=> q \in queue \/ (blockedOn[q] \in reasons /\ parked[q] # NoReq)

LEMMA StillAsleep ==
  ASSUME TypeOK, NEW q \in Pid, NEW reasons, NEW r \in Request, AsleepOn(q, r),
         blockedOn[q] \notin reasons, blockedOn'[q] = blockedOn[q],
         Steady(reasons), OwnKept(q, reasons)
  PROVE  AsleepOn(q, r)'
<1> DEFINE d == fds[q][r.arg]
<1>1. r.call \in {"fdRead", "fdWrite"} => r.arg \in Fd /\ d \in Desc /\ d' = d
  BY DEF Request, Of, TypeOK, ProcType, OwnKept
<1>2. r.call \in {"fdRead", "fdWrite"} /\ d.kind \in PipeKind => d.id \in PipeId
  BY <1>1 DEF Desc, PipeKind
<1>3. CASE r.call = "fdRead"
  BY <1>1, <1>2, <1>3 DEF AsleepOn, Steady, OwnKept, PipeKind
<1>4. CASE r.call = "fdWrite"
  BY <1>1, <1>2, <1>4 DEF AsleepOn, Steady, PipeKind
<1>5. CASE r.call = "kWait"
  <2>1. r.arg \in Pid
    BY <1>5 DEF Request, Of
  <2> QED
    BY <1>5, <2>1 DEF AsleepOn, Steady
<1>6. CASE r.call = "chanRecv"
  <2>1. r.arg \in ChanId
    BY <1>6 DEF Request, Of
  <2> QED
    BY <1>6, <2>1 DEF AsleepOn, OwnKept, ChanKept
<1>7. CASE r.call \in {"sigWait", "winReadInput", "netRequest"}
  BY <1>7 DEF AsleepOn, OwnKept
<1> QED
  BY <1>3, <1>4, <1>5, <1>6, <1>7 DEF AsleepOn

LEMMA NothingIsNoReason ==
  /\ \A why \in Blocking : \A id : On(why, id) # NotBlocked
  /\ \A c, e : OnChanRecv(c, e) # NotBlocked
BY DEF Blocking, On, OnChanRecv, NotBlocked

LEMMA AsleepWaits ==
  ASSUME NEW q, NEW r, AsleepOn(q, r)
  PROVE  blockedOn[q] # NotBlocked /\ r # NoReq
<1>1. blockedOn[q] # NotBlocked
  BY NothingIsNoReason DEF AsleepOn, Blocking
<1>2. r.call # "none"
  BY DEF AsleepOn
<1> QED
  BY <1>1, <1>2 DEF NoReq, Req

\* Whatever wakes those it should, and leaves the rest nothing to wake for, loses none.
LEMMA OthersAccounted ==
  ASSUME TypeOK, NEW q \in Pid, NEW reasons, Accounted(q), Wakes(q, reasons),
         Live(q)' => Live(q),
         parked[q] # NoReq /\ q \notin queue => Steady(reasons) /\ OwnKept(q, reasons)
  PROVE  Accounted(q)'
<1> SUFFICES ASSUME Live(q)'
             PROVE  IF parked'[q] = NoReq THEN Awake(q)' ELSE Woken(q)' \/ Asleep(q)'
  BY DEF Accounted
<1>1. state \in [Pid -> ProcState] /\ blockedOn \in [Pid -> Reason] /\ parked[q] \in Request
  BY DEF TypeOK, WaitType, HostType
<1>2. CASE parked[q] = NoReq
  BY <1>1, <1>2 DEF Accounted, Awake, Wakes, Runnable, Unblocked
<1>3. CASE parked[q] # NoReq /\ Woken(q)
  BY <1>1, <1>3 DEF Woken, Wakes, Runnable, Unblocked
<1>4. CASE parked[q] # NoReq /\ Asleep(q) /\ blockedOn[q] \in reasons
  BY <1>1, <1>4 DEF Asleep, Woken, Wakes, Runnable, Unblocked
<1>5. CASE parked[q] # NoReq /\ Asleep(q) /\ blockedOn[q] \notin reasons
  <2>1. blockedOn'[q] = blockedOn[q] /\ state'[q] = "blocked" /\ q \notin queue' /\ q \in workers'
    BY <1>1, <1>5 DEF Asleep, Wakes, Runnable, Unblocked
  <2>2. AsleepOn(q, parked[q])'
    <3>1. AsleepOn(q, parked[q]) /\ Steady(reasons) /\ OwnKept(q, reasons)
      BY <1>5 DEF Asleep
    <3>2. \A r \in Request : r = parked[q] => AsleepOn(q, r)'
      BY <1>5, <2>1, <3>1, StillAsleep
    <3>3. PICK r \in Request : r = parked[q]
      BY <1>1
    <3>4. AsleepOn(q, r)' /\ parked'[q] = r
      BY <3>2, <3>3 DEF Wakes
    <3> QED
      BY <3>4 DEF AsleepOn
  <2> QED
    BY <1>5, <2>1, <2>2 DEF Asleep, Wakes
<1> QED
  BY <1>2, <1>3, <1>4, <1>5 DEF Accounted
-----------------------------------------------------------------------------
(***************************************************************************)
(* The ways a step replies, parks, nudges and exits.                       *)
(***************************************************************************)

\* p may be serviced: it runs, or was woken.
MyTurn(p) == Live(p) => p \in workers /\ state[p] # "blocked" /\ blockedOn[p] = NotBlocked

\* p will sleep on r, whatever becomes of r's variables.
WillSleep(p, r) == \E s \in Request : s = r /\ AsleepOn(p, s)'

NoneRevived == \A q \in Pid : Live(q)' => Live(q)
Undisturbed(p, reasons) == Steady(reasons) /\ \A q \in Pid \ {p} : OwnKept(q, reasons)

LEMMA ReplyAccounted ==
  ASSUME TypeOK, NEW p \in Pid, NEW STATE reasons, AllAccounted, MyTurn(p),
         Reply(p, reasons), NoneRevived, Undisturbed(p, reasons)
  PROVE  AllAccounted'
<1>1. ASSUME NEW q \in Pid, q # p PROVE Accounted(q)'
  <2>1. Wakes(q, reasons)
    BY <1>1 DEF Reply, Wake, Complete, Wakes, Stashed, Waiting
  <2> QED
    BY <1>1, <2>1, OthersAccounted DEF AllAccounted, NoneRevived, Undisturbed
<1>2. Accounted(p)'
  <2>1. state \in [Pid -> ProcState] /\ blockedOn \in [Pid -> Reason] /\ parked \in [Pid -> Request]
    BY DEF TypeOK, WaitType, HostType
  <2>2. parked'[p] = NoReq /\ p \notin queue'
    BY <2>1 DEF Reply, Complete
  <2>3. Live(p) => state'[p] # "blocked" /\ blockedOn'[p] = NotBlocked
    BY <2>1 DEF Reply, Wake, MyTurn, Runnable, Unblocked
  <2> QED
    BY <2>2, <2>3 DEF Accounted, Awake, NoneRevived
<1> QED
  BY <1>1, <1>2 DEF AllAccounted

LEMMA ParkAccounted ==
  ASSUME TypeOK, NEW p \in Pid, NEW STATE r, NEW STATE reason, AllAccounted, MyTurn(p),
         Park(p, r, reason), NoneRevived, Undisturbed(p, {}), Live(p) => WillSleep(p, r)
  PROVE  AllAccounted'
<1>0. state \in [Pid -> ProcState] /\ blockedOn \in [Pid -> Reason] /\ parked \in [Pid -> Request]
  BY DEF TypeOK, WaitType, HostType
<1>1. ASSUME NEW q \in Pid, q # p PROVE Accounted(q)'
  <2>1. Wakes(q, {})
    BY <1>0, <1>1 DEF Park, Block, Wakes, Runnable, Unblocked, waitVars
  <2> QED
    BY <1>1, <2>1, OthersAccounted DEF AllAccounted, NoneRevived, Undisturbed
<1>2. ASSUME Live(p)' PROVE Asleep(p)' /\ parked'[p] # NoReq
  <2>1. Live(p) /\ Known(p)
    BY <1>2 DEF NoneRevived, Live
  <2>2. PICK s \in Request : s = r /\ AsleepOn(p, s)'
    BY <2>1 DEF WillSleep
  <2>3. parked'[p] = s /\ p \notin queue' /\ p \in workers' /\ state'[p] = "blocked"
    BY <1>0, <2>1, <2>2 DEF Park, Block, MyTurn
  <2>4. AsleepOn(p, parked[p])'
    BY <2>2, <2>3 DEF AsleepOn
  <2>5. s.call # "none"
    BY <2>2 DEF AsleepOn
  <2> QED
    BY <2>3, <2>4, <2>5 DEF Asleep, NoReq, Req
<1> QED
  BY <1>1, <1>2 DEF AllAccounted, Accounted

LEMMA NudgeAccounted ==
  ASSUME TypeOK, NEW p \in Pid, NEW STATE reason, AllAccounted, Nudge(p, reason), NoneRevived,
         Undisturbed(p, {}), blockedOn[p] # reason => OwnKept(p, {reason})
  PROVE  AllAccounted'
<1>0. state \in [Pid -> ProcState] /\ blockedOn \in [Pid -> Reason] /\ parked \in [Pid -> Request]
  BY DEF TypeOK, WaitType, HostType
<1>1. ASSUME NEW q \in Pid, q # p PROVE Accounted(q)'
  <2>1. Wakes(q, {})
    BY <1>0, <1>1 DEF Nudge, Wakes, Runnable, Unblocked, Stashed, waitVars, hostVars
  <2> QED
    BY <1>1, <2>1, OthersAccounted DEF AllAccounted, NoneRevived, Undisturbed
<1>2. Accounted(p)'
  <2>1. CASE blockedOn[p] = reason
    <3>1. CASE parked[p] = NoReq
      BY <1>0, <2>1, <3>1 DEF Nudge, AllAccounted, Accounted, Awake, NoneRevived, Stashed
    <3>2. CASE parked[p] # NoReq /\ Live(p)'
      <4>1. Woken(p) \/ Asleep(p)
        BY <3>2 DEF AllAccounted, Accounted, NoneRevived
      <4> QED
        BY <1>0, <2>1, <3>2, <4>1 DEF Nudge, Accounted, Woken, Asleep, Stashed
    <3> QED
      BY <3>1, <3>2 DEF Accounted
  <2>2. CASE blockedOn[p] # reason
    <3>1. Wakes(p, {reason})
      BY <1>0, <2>2 DEF Nudge, Wakes, Runnable, Unblocked, waitVars, hostVars
    <3>2. Steady({reason}) /\ OwnKept(p, {reason})
      BY <2>2 DEF Undisturbed, Steady
    <3> QED
      BY <3>1, <3>2, OthersAccounted DEF AllAccounted, NoneRevived
  <2> QED
    BY <2>1, <2>2
<1> QED
  BY <1>1, <1>2 DEF AllAccounted

\* p is no longer live; those waiting for reasons are queued.
LEMMA DepartureAccounted ==
  ASSUME TypeOK, NEW p \in Pid, NEW STATE reasons, AllAccounted, NoneRevived, ~Live(p)',
         \A q \in Pid \ {p} : Wakes(q, reasons), Undisturbed(p, reasons)
  PROVE  AllAccounted'
<1>1. ASSUME NEW q \in Pid, q # p PROVE Accounted(q)'
  BY <1>1, OthersAccounted DEF AllAccounted, NoneRevived, Undisturbed
<1> QED
  BY <1>1 DEF AllAccounted, Accounted

\* A step that touches no queue, no stash and no wait reason, and wakes nobody.
LEMMA StillAccounted ==
  ASSUME TypeOK, AllAccounted, NoneRevived, UNCHANGED <<waitVars, parked, queue>>,
         workers \subseteq workers', Steady({}),
         \A q \in Pid : parked[q] # NoReq => OwnKept(q, {})
  PROVE  AllAccounted'
<1>0. state \in [Pid -> ProcState] /\ blockedOn \in [Pid -> Reason]
  BY DEF TypeOK, WaitType
<1>1. ASSUME NEW q \in Pid PROVE Accounted(q)'
  <2>1. Wakes(q, {})
    BY <1>0 DEF Wakes, Runnable, Unblocked, waitVars
  <2> QED
    BY <1>1, <2>1, OthersAccounted DEF AllAccounted, NoneRevived
<1> QED
  BY <1>1 DEF AllAccounted

-----------------------------------------------------------------------------
(***************************************************************************)
(* What the steps do to the things that are waited for.                    *)
(***************************************************************************)
LiveKept == \A c \in Pid : Live(c) => Live(c)'

LEMMA SteadyWithoutPipes ==
  ASSUME NEW reasons, UNCHANGED pipes, LiveKept
  PROVE  Steady(reasons)
BY DEF Steady, LiveKept, Starved, Stuffed

LEMMA OwnWithoutChans ==
  ASSUME NEW q \in Pid, NEW reasons, UNCHANGED chans,
         fds'[q] = fds[q] /\ holds'[q] = holds[q] /\ stdin'[q] = stdin[q]
           /\ signals'[q] = signals[q] /\ input'[q] = input[q],
         Fetching(q) => Fetching(q)'
  PROVE  OwnKept(q, reasons)
BY DEF OwnKept, ChanKept, Silent

LEMMA DrainSteady ==
  ASSUME TypeOK, NEW i \in PipeId, NEW n, pipes[i].buf # <<>>, LiveKept,
         pipes' = [pipes EXCEPT ![i] = Drain(@, n)]
  PROVE  Steady({On("pipeWrite", i)})
<1>1. \A j \in PipeId \ {i} : pipes'[j] = pipes[j]
  BY DEF TypeOK, PipesType
<1>2. ~Starved(i)
  BY DEF Starved
<1>3. \A j \in PipeId : Starved(j) => Starved(j)'
  BY <1>1, <1>2 DEF Starved
<1>4. \A j \in PipeId \ {i} : Stuffed(j) => Stuffed(j)'
  BY <1>1 DEF Stuffed
<1> QED
  BY <1>3, <1>4 DEF Steady, LiveKept

LEMMA FillSteady ==
  ASSUME TypeOK, NEW i \in PipeId, NEW data, Space(pipes[i]) > 0, LiveKept,
         pipes' = [pipes EXCEPT ![i] = Fill(@, data)]
  PROVE  Steady({On("pipeRead", i)})
<1>1. \A j \in PipeId \ {i} : pipes'[j] = pipes[j]
  BY DEF TypeOK, PipesType
<1>2. ~Stuffed(i)
  BY DEF Stuffed
<1>3. \A j \in PipeId : Stuffed(j) => Stuffed(j)'
  BY <1>1, <1>2 DEF Stuffed
<1>4. \A j \in PipeId \ {i} : Starved(j) => Starved(j)'
  BY <1>1 DEF Starved
<1> QED
  BY <1>3, <1>4 DEF Steady, LiveKept

\* Closing one side of a pipe leaves a sleeper on that side as it was.
LEMMA CloseKeeps ==
  ASSUME NEW pipe \in Pipe, NEW r \in Nat, NEW w \in Nat
  PROVE  /\ WriteOpen(pipe) /\ w = 0 =>
              CloseEnds(pipe, r, w).buf = pipe.buf /\ WriteOpen(CloseEnds(pipe, r, w))
         /\ ReadOpen(pipe) /\ r = 0 =>
              /\ ReadOpen(CloseEnds(pipe, r, w))
              /\ Space(CloseEnds(pipe, r, w)) = Space(pipe)
<1>1. pipe = [buf |-> pipe.buf, readers |-> pipe.readers, writers |-> pipe.writers]
      /\ pipe.readers \in Nat /\ pipe.writers \in Nat
  BY DEF Pipe
<1> DEFINE left == [pipe EXCEPT !.readers = SaturatingSub(@, r), !.writers = SaturatingSub(@, w)]
<1>2. /\ left.buf = pipe.buf
      /\ left.readers = SaturatingSub(pipe.readers, r) /\ left.writers = SaturatingSub(pipe.writers, w)
  BY <1>1
<1>3. \A n \in Nat : SaturatingSub(n, 0) = n
  BY DEF SaturatingSub
<1>4. /\ WriteOpen(pipe) /\ w = 0 => left.writers > 0
      /\ ReadOpen(pipe) /\ r = 0 => left.readers > 0
  BY <1>1, <1>2, <1>3 DEF WriteOpen, ReadOpen
<1>5. left.writers > 0 \/ left.readers > 0 => CloseEnds(pipe, r, w) = left /\ left # NoPipe
  <2>1. CloseEnds(pipe, r, w) = IF left.readers = 0 /\ left.writers = 0 THEN NoPipe ELSE left
    BY DEF CloseEnds
  <2>2. left.readers \in Nat /\ left.writers \in Nat
    BY <1>1, <1>2 DEF SaturatingSub
  <2>3. NoPipe.readers = 0 /\ NoPipe.writers = 0
    BY DEF NoPipe
  <2> HIDE DEF left
  <2> QED
    BY <2>1, <2>2, <2>3
<1>6. ReadOpen(pipe) => pipe # NoPipe
  BY DEF ReadOpen, NoPipe
<1> HIDE DEF left
<1> QED
  BY <1>2, <1>4, <1>5, <1>6 DEF WriteOpen, ReadOpen, Space, Exists

LEMMA CloseSteady ==
  ASSUME TypeOK, NEW STATE d, d \in Desc, CloseDesc(d), LiveKept
  PROVE  Steady(CloseReasons(d))
<1>1. pipes \in [PipeId -> Pipe]
  BY DEF TypeOK, PipesType
<1>2. CASE d.kind = "pipeRead"
  <2>1. PICK i \in PipeId : i = d.id
    BY <1>2 DEF Desc, PipeKind
  <2>2. pipes' = [pipes EXCEPT ![i] = CloseEnds(@, 1, 0)] /\ CloseReasons(d) = {On("pipeWrite", i)}
    BY <1>2, <2>1 DEF CloseDesc, CloseReasons
  <2>3. pipes'[i] = CloseEnds(pipes[i], 1, 0) /\ \A j \in PipeId \ {i} : pipes'[j] = pipes[j]
    BY <1>1, <2>2
  <2>4. Starved(i) => Starved(i)'
    BY <1>1, <2>3, CloseKeeps DEF Starved
  <2>5. \A j \in PipeId \ {i} : (Starved(j) => Starved(j)') /\ (Stuffed(j) => Stuffed(j)')
    BY <2>3 DEF Starved, Stuffed
  <2> QED
    BY <2>2, <2>4, <2>5 DEF Steady, LiveKept
<1>3. CASE d.kind = "pipeWrite"
  <2>1. PICK i \in PipeId : i = d.id
    BY <1>3 DEF Desc, PipeKind
  <2>2. pipes' = [pipes EXCEPT ![i] = CloseEnds(@, 0, 1)] /\ CloseReasons(d) = {On("pipeRead", i)}
    BY <1>3, <2>1 DEF CloseDesc, CloseReasons
  <2>3. pipes'[i] = CloseEnds(pipes[i], 0, 1) /\ \A j \in PipeId \ {i} : pipes'[j] = pipes[j]
    BY <1>1, <2>2
  <2>4. Stuffed(i) => Stuffed(i)'
    BY <1>1, <2>3, CloseKeeps DEF Stuffed
  <2>5. \A j \in PipeId \ {i} : (Starved(j) => Starved(j)') /\ (Stuffed(j) => Stuffed(j)')
    BY <2>3 DEF Starved, Stuffed
  <2> QED
    BY <2>2, <2>4, <2>5 DEF Steady, LiveKept
<1>4. CASE d.kind \notin PipeKind
  <2>1. UNCHANGED pipes
    BY <1>4 DEF CloseDesc, PipeKind
  <2> QED
    BY <2>1, SteadyWithoutPipes
<1> QED
  BY <1>2, <1>3, <1>4 DEF PipeKind

-----------------------------------------------------------------------------
(***************************************************************************)
(* No wakeup is lost: each step of Kernel keeps the invariant Sleepers.    *)
(* One lemma per call or event says which reasons it wakes, and that what  *)
(* it changes gives the sleepers of other reasons nothing.                 *)
(***************************************************************************)
(***************************************************************************)
(* The calls that may sleep.                                               *)
(***************************************************************************)
Books == QueueStashed /\ Unborn /\ EndingDead /\ PipesSound /\ EndsApart

\* p is serviced: a process that was born, and whose turn it is.
Serving(p) == MyTurn(p) /\ p < nextPid

LEMMA TableKept ==
  ASSUME SameTable, UNCHANGED exitCode
  PROVE  NoneRevived /\ LiveKept
BY DEF SameTable, NoneRevived, LiveKept, Live, Known

LEMMA ReplyTable ==
  ASSUME TypeOK, NEW p \in Pid, NEW STATE reasons, Reply(p, reasons), UNCHANGED exitCode
  PROVE  NoneRevived /\ LiveKept
BY ReplyQuiet, TableKept

LEMMA ParkTable ==
  ASSUME TypeOK, NEW p \in Pid, NEW STATE r, NEW STATE reason, Park(p, r, reason), UNCHANGED exitCode
  PROVE  NoneRevived /\ LiveKept
BY ParkQuiet, TableKept

LEMMA TurnSame ==
  ASSUME TypeOK, EndingDead, NoneRevived, UNCHANGED turn
  PROVE  EndingDead'
<1>1. turn.doing = "ending" => turn.pid \in Pid
  BY DEF TypeOK, HostType, Turn
<1> QED
  BY <1>1 DEF EndingDead, NoneRevived, Live, Known

LEMMA ReplyBooks ==
  ASSUME TypeOK, NEW p \in Pid, NEW STATE reasons, Reply(p, reasons),
         QueueStashed, Unborn, EndingDead, UNCHANGED <<nextPid, exitCode>>
  PROVE  QueueStashed' /\ Unborn' /\ EndingDead'
<1>1. QueueStashed'
  BY DEF QueueStashed, Reply, Complete, Stashed, Waiting, TypeOK, HostType
<1>2. Unborn'
  BY DEF Unborn, Reply, Complete, Wake, Unblocked, TypeOK, HostType
<1>3. EndingDead'
  BY ReplyTable, TurnSame DEF Reply, Complete
<1> QED
  BY <1>1, <1>2, <1>3

LEMMA ParkBooks ==
  ASSUME TypeOK, NEW p \in Pid, NEW STATE r, NEW STATE reason, Park(p, r, reason), p < nextPid,
         QueueStashed, Unborn, EndingDead, UNCHANGED <<nextPid, exitCode>>
  PROVE  QueueStashed' /\ Unborn' /\ EndingDead'
<1>1. QueueStashed'
  BY DEF QueueStashed, Park, TypeOK, HostType
<1>2. Unborn'
  <2>1. nextPid \in Nat /\ Pid \subseteq Nat
    BY DEF TypeOK, ProcType, Pid
  <2>2. \A q \in Pid : q >= nextPid => q # p
    BY <2>1
  <2>3. \A q \in Pid \ {p} : blockedOn'[q] = blockedOn[q] /\ parked'[q] = parked[q]
    BY DEF Park, Block, waitVars, TypeOK, HostType, WaitType
  <2> QED
    BY <2>2, <2>3 DEF Unborn
<1>3. EndingDead'
  BY ParkTable, TurnSame DEF Park
<1> QED
  BY <1>1, <1>2, <1>3

LEMMA NudgeBooks ==
  ASSUME TypeOK, NEW p \in Pid, NEW STATE reason, Nudge(p, reason), NoneRevived,
         QueueStashed, Unborn, EndingDead, UNCHANGED nextPid
  PROVE  QueueStashed' /\ Unborn' /\ EndingDead'
<1>1. CASE blockedOn[p] = reason
  <2>1. QueueStashed'
    BY <1>1 DEF QueueStashed, Nudge, Stashed
  <2>2. Unborn'
    BY <1>1 DEF Unborn, Nudge, TypeOK, WaitType
  <2>3. EndingDead'
    BY <1>1, TurnSame DEF Nudge
  <2> QED
    BY <2>1, <2>2, <2>3
<1>2. CASE blockedOn[p] # reason
  <2>1. UNCHANGED <<blockedOn, parked, queue, turn>>
    BY <1>2 DEF Nudge, waitVars, hostVars
  <2> QED
    BY <2>1, TurnSame DEF QueueStashed, Unborn
<1> QED
  BY <1>1, <1>2

LEMMA PipesKept ==
  ASSUME PipesSound, UNCHANGED pipeVars
  PROVE  PipesSound'
BY DEF PipesSound, PipesUnused, PipesFit, pipeVars

\* Endpoints may be dropped, as long as the channels stay as they are.
LEMMA ChansKept ==
  ASSUME EndsApart, UNCHANGED chanVars,
         \A q \in Pid, c \in ChanId : holds'[q][c] \in {holds[q][c], NoEnd}
  PROVE  EndsApart'
<1>1. NoEnd # 1
  BY DEF NoEnd
<1> QED
  BY <1>1 DEF EndsApart, ChansUnused, NamesLead, NamesApart, UnmetAlone, OneHolder, chanVars

LEMMA SoundKept ==
  ASSUME TypeOK, PipesSound, UNCHANGED nextPipe,
         \A i \in PipeId : \/ pipes'[i] = pipes[i] \/ pipes'[i] = NoPipe
                           \/ (pipes[i] # NoPipe /\ Len(pipes'[i].buf) <= Capacity)
  PROVE  PipesSound'
<1>1. Len(NoPipe.buf) <= Capacity
  BY EmptySeq, PipeAssumption DEF NoPipe
<1> QED
  BY <1>1 DEF PipesSound, PipesUnused, PipesFit

LEMMA BufLens ==
  ASSUME NEW pipe \in Pipe, Len(pipe.buf) <= Capacity
  PROVE  /\ \A n \in Nat : Len(Drain(pipe, n).buf) <= Capacity
         /\ \A data \in Seq(Byte) : Space(pipe) > 0 => Len(Fill(pipe, data).buf) <= Capacity
         /\ \A r, w \in Nat : CloseEnds(pipe, r, w) = NoPipe \/ CloseEnds(pipe, r, w).buf = pipe.buf
<1>0. pipe.buf \in Seq(Byte) /\ Len(pipe.buf) \in Nat /\ Capacity \in Nat
  BY PipeAssumption DEF Pipe
<1>1. ASSUME NEW n \in Nat PROVE Len(Drain(pipe, n).buf) <= Capacity
  <2> DEFINE m == Least(n, Len(pipe.buf)) + 1
  <2>1. m \in 1..(Len(pipe.buf) + 1) /\ Len(pipe.buf) \in (m - 1)..Len(pipe.buf)
    BY <1>0 DEF Least
  <2>2. Len(SubSeq(pipe.buf, m, Len(pipe.buf))) = Len(pipe.buf) - m + 1
    BY <1>0, <2>1, SubSeqProperties
  <2>3. Drain(pipe, n).buf = SubSeq(pipe.buf, m, Len(pipe.buf))
    BY DEF Drain, Pipe
  <2> QED
    BY <1>0, <2>1, <2>2, <2>3
<1>2. ASSUME NEW data \in Seq(Byte), Space(pipe) > 0 PROVE Len(Fill(pipe, data).buf) <= Capacity
  <2> DEFINE m == Least(Space(pipe), Len(data))
  <2>1. Space(pipe) = Capacity - Len(pipe.buf) /\ Len(data) \in Nat
    BY <1>2 DEF Space
  <2>2. m \in 0..Len(data) /\ m <= Capacity - Len(pipe.buf)
    <3>1. \A a, b \in Nat : Least(a, b) \in 0..b /\ Least(a, b) <= a
      BY DEF Least
    <3>2. Space(pipe) \in Nat
      BY <1>0, <1>2, <2>1
    <3> QED
      BY <2>1, <3>1, <3>2
  <2>3. SubSeq(data, 1, m) \in Seq(Byte) /\ Len(SubSeq(data, 1, m)) = m
    BY <2>1, <2>2, SubSeqProperties
  <2>4. Len(pipe.buf \o SubSeq(data, 1, m)) = Len(pipe.buf) + m
    BY <1>0, <2>3, ConcatProperties
  <2>5. Fill(pipe, data).buf = pipe.buf \o SubSeq(data, 1, m)
    BY DEF Fill, Pipe
  <2> QED
    BY <1>0, <2>2, <2>4, <2>5
<1>3. ASSUME NEW r \in Nat, NEW w \in Nat
      PROVE  CloseEnds(pipe, r, w) = NoPipe \/ CloseEnds(pipe, r, w).buf = pipe.buf
  BY DEF CloseEnds, Pipe
<1> QED
  BY <1>1, <1>2, <1>3

LEMMA FdReadSleepers ==
  ASSUME TypeOK, NEW p \in Pid, NEW STATE r, r \in Request, FdRead(p, r),
         AllAccounted, Books, Serving(p)
  PROVE  AllAccounted' /\ Books'
<1> DEFINE d == fds[p][r.arg]
<1> USE DEF Serving
<1>1. r.arg \in Fd /\ r.len \in Nat /\ d \in Desc
  BY DEF FdRead, Request, Of, TypeOK, ProcType
<1>2. UNCHANGED <<nextPid, exitCode, signals, input, fds, holds, nextPipe>> /\ UNCHANGED <<chanVars, netVars>>
  BY DEF FdRead, ReadPipe, ReadStdin, ReadParks, ReadReturns, procVars, pipeVars
<1>3. EndsApart'
  BY <1>2, ChansKept DEF Books
<1>4. \A reasons : \A q \in Pid : stdin'[q] = stdin[q] => OwnKept(q, reasons)
  BY <1>2, OwnWithoutChans DEF chanVars, netVars, Fetching
<1>5. CASE ReadPipe(p, r)
  <2>1. d.id \in PipeId /\ pipes[d.id].buf # <<>> /\ pipes' = [pipes EXCEPT ![d.id] = Drain(@, r.len)]
        /\ Reply(p, {On("pipeWrite", d.id)}) /\ UNCHANGED stdin
    BY <1>1, <1>5 DEF ReadPipe, Desc, PipeKind, procVars
  <2>2. NoneRevived /\ LiveKept
    BY <1>2, <2>1, ReplyTable
  <2>3. Undisturbed(p, {On("pipeWrite", d.id)})
    BY <1>1, <1>4, <2>1, <2>2, DrainSteady DEF Undisturbed
  <2>4. AllAccounted'
    BY <2>1, <2>2, <2>3, ReplyAccounted
  <2>5. PipesSound'
    <3>1. pipes[d.id] \in Pipe /\ pipes[d.id] # NoPipe /\ Len(pipes[d.id].buf) <= Capacity
      BY <2>1 DEF NoPipe, TypeOK, PipesType, Books, PipesSound, PipesFit
    <3>2. Len(Drain(pipes[d.id], r.len).buf) <= Capacity
      BY <1>1, <3>1, BufLens
    <3>3. \A i \in PipeId : pipes'[i] = IF i = d.id THEN Drain(pipes[i], r.len) ELSE pipes[i]
      BY <2>1 DEF TypeOK, PipesType
    <3> QED
      BY <1>2, <3>1, <3>2, <3>3, SoundKept DEF Books
  <2> QED
    BY <1>2, <1>3, <2>1, <2>4, <2>5, ReplyBooks DEF Books
<1>6. CASE ReadStdin(p, r) \/ ReadReturns(p, r)
  <2>1. Reply(p, {}) /\ UNCHANGED pipeVars /\ \A q \in Pid \ {p} : stdin'[q] = stdin[q]
    BY <1>6 DEF ReadStdin, ReadReturns, procVars, TypeOK, ProcType
  <2>2. NoneRevived /\ LiveKept
    BY <1>2, <2>1, ReplyTable
  <2>3. Undisturbed(p, {})
    BY <1>4, <2>1, <2>2, SteadyWithoutPipes DEF Undisturbed, pipeVars
  <2>4. AllAccounted'
    BY <2>1, <2>2, <2>3, ReplyAccounted
  <2> QED
    BY <1>2, <1>3, <2>1, <2>4, ReplyBooks, PipesKept DEF Books
<1>7. CASE ReadParks(p, r)
  <2>1. PICK reason : Park(p, r, reason)
    BY <1>7 DEF ReadParks
  <2>2. UNCHANGED <<pipeVars, stdin>>
    BY <1>7 DEF ReadParks, procVars
  <2>3. NoneRevived /\ LiveKept
    BY <1>2, <2>1, ParkTable
  <2>4. Undisturbed(p, {})
    BY <1>4, <2>2, <2>3, SteadyWithoutPipes DEF Undisturbed, pipeVars
  <2>5. ASSUME Live(p) PROVE WillSleep(p, r)
    <3>1. PICK s \in Request : s = r
      OBVIOUS
    <3>2. s.call = "fdRead" /\ fds'[p][s.arg] = d
      BY <1>2, <3>1 DEF FdRead
    <3>3. \/ /\ d.kind = "pipeRead" /\ pipes[d.id].buf = <<>> /\ WriteOpen(pipes[d.id])
             /\ blockedOn'[p] = On("pipeRead", d.id)
          \/ d.kind = "stdin" /\ stdin[p] = 0 /\ blockedOn'[p] = On("stdin", 0)
      BY <1>7, <2>5 DEF ReadParks, Park, Block, Live, TypeOK, WaitType
    <3>4. AsleepOn(p, s)'
      BY <2>2, <3>2, <3>3 DEF AsleepOn, Starved, pipeVars
    <3> QED
      BY <3>1, <3>4 DEF WillSleep
  <2>6. AllAccounted'
    BY <2>1, <2>3, <2>4, <2>5, ParkAccounted
  <2> QED
    BY <1>2, <1>3, <2>1, <2>2, <2>6, ParkBooks, PipesKept DEF Books
<1> QED
  BY <1>5, <1>6, <1>7 DEF FdRead

LEMMA FdWriteSleepers ==
  ASSUME TypeOK, NEW p \in Pid, NEW STATE r, r \in Request, FdWrite(p, r),
         AllAccounted, Books, Serving(p)
  PROVE  AllAccounted' /\ Books'
<1> DEFINE d == fds[p][r.arg]
<1> USE DEF Serving
<1>1. r.arg \in Fd /\ d \in Desc
  BY DEF FdWrite, Request, Of, TypeOK, ProcType
<1>2. UNCHANGED <<nextPid, exitCode, fds, nextPipe>> /\ UNCHANGED <<procVars, chanVars, netVars>>
  BY DEF FdWrite, WritePipe, WriteParks, WriteReturns, procVars, pipeVars
<1>3. EndsApart'
  BY <1>2, ChansKept DEF Books, procVars
<1>4. \A reasons : \A q \in Pid : OwnKept(q, reasons)
  BY <1>2, OwnWithoutChans DEF chanVars, netVars, procVars, Fetching
<1>5. CASE WritePipe(p, r)
  <2>1. d.id \in PipeId /\ ReadOpen(pipes[d.id]) /\ Space(pipes[d.id]) > 0
        /\ pipes' = [pipes EXCEPT ![d.id] = Fill(@, r.data)] /\ Reply(p, {On("pipeRead", d.id)})
    BY <1>1, <1>5 DEF WritePipe, Desc, PipeKind
  <2>2. NoneRevived /\ LiveKept
    BY <1>2, <2>1, ReplyTable
  <2>3. Undisturbed(p, {On("pipeRead", d.id)})
    BY <1>4, <2>1, <2>2, FillSteady DEF Undisturbed
  <2>4. AllAccounted'
    BY <2>1, <2>2, <2>3, ReplyAccounted
  <2>5. PipesSound'
    <3>1. pipes[d.id] \in Pipe /\ pipes[d.id] # NoPipe /\ Len(pipes[d.id].buf) <= Capacity
      BY <2>1 DEF NoPipe, ReadOpen, TypeOK, PipesType, Books, PipesSound, PipesFit
    <3>2. r.data \in Seq(Byte)
      BY DEF FdWrite, Request, Of
    <3>3. Len(Fill(pipes[d.id], r.data).buf) <= Capacity
      BY <2>1, <3>1, <3>2, BufLens
    <3>4. \A i \in PipeId : pipes'[i] = IF i = d.id THEN Fill(pipes[i], r.data) ELSE pipes[i]
      BY <2>1 DEF TypeOK, PipesType
    <3> QED
      BY <1>2, <3>1, <3>3, <3>4, SoundKept DEF Books
  <2> QED
    BY <1>2, <1>3, <2>1, <2>4, <2>5, ReplyBooks DEF Books
<1>6. CASE WriteReturns(p, r)
  <2>1. Reply(p, {}) /\ UNCHANGED pipeVars
    BY <1>2, <1>6 DEF WriteReturns, pipeVars
  <2>2. NoneRevived /\ LiveKept
    BY <1>2, <2>1, ReplyTable
  <2>3. Undisturbed(p, {})
    BY <1>4, <2>1, <2>2, SteadyWithoutPipes DEF Undisturbed, pipeVars
  <2>4. AllAccounted'
    BY <2>1, <2>2, <2>3, ReplyAccounted
  <2> QED
    BY <1>2, <1>3, <2>1, <2>4, ReplyBooks, PipesKept DEF Books
<1>7. CASE WriteParks(p, r)
  <2>1. Park(p, r, On("pipeWrite", d.id)) /\ UNCHANGED pipeVars
    BY <1>7 DEF WriteParks
  <2>2. NoneRevived /\ LiveKept
    BY <1>2, <2>1, ParkTable
  <2>3. Undisturbed(p, {})
    BY <1>4, <2>1, <2>2, SteadyWithoutPipes DEF Undisturbed, pipeVars
  <2>4. ASSUME Live(p) PROVE WillSleep(p, r)
    <3>1. PICK s \in Request : s = r
      OBVIOUS
    <3>2. s.call = "fdWrite" /\ fds'[p][s.arg] = d
      BY <1>2, <3>1 DEF FdWrite
    <3>3. blockedOn'[p] = On("pipeWrite", d.id)
      BY <2>1, <2>4 DEF Park, Block, Live, TypeOK, WaitType
    <3>4. AsleepOn(p, s)'
      BY <1>7, <2>1, <3>2, <3>3 DEF WriteParks, AsleepOn, Stuffed, pipeVars
    <3> QED
      BY <3>1, <3>4 DEF WillSleep
  <2>5. AllAccounted'
    BY <2>1, <2>2, <2>3, <2>4, ParkAccounted
  <2> QED
    BY <1>2, <1>3, <2>1, <2>5, ParkBooks, PipesKept DEF Books
<1> QED
  BY <1>5, <1>6, <1>7 DEF FdWrite

\* A status is collected: only an entry that was dead is touched.
LEMMA CollectsSleepers ==
  ASSUME TypeOK, NEW p \in Pid, NEW c \in Pid, WaitCollects(p, c), AllAccounted, Books, Serving(p),
         UNCHANGED <<pipeVars, chanVars, netVars>>
  PROVE  AllAccounted' /\ Books'
<1> USE DEF Serving
<1>0. /\ state \in [Pid -> ProcState] /\ blockedOn \in [Pid -> Reason] /\ parked \in [Pid -> Request]
      /\ exitCode \in [Pid -> Codes \cup {NoCode}] /\ holds \in [Pid -> [ChanId -> End \cup {NoEnd}]]
      /\ fds \in [Pid -> [Fd -> Desc]]
      /\ stdin \in [Pid -> Nat] /\ signals \in [Pid -> Nat] /\ input \in [Pid -> Nat]
  BY DEF TypeOK, WaitType, HostType, ProcType
<1>1. exitCode[c] # NoCode /\ Complete(p, {}) /\ Reap(c)
  BY DEF WaitCollects
<1>2. ~Live(c) /\ ~Live(c)' /\ NoneRevived /\ LiveKept /\ UNCHANGED nextPid
  BY <1>0, <1>1 DEF Reap, Forget, Live, Known, NoneRevived, LiveKept, procVars, waitVars
<1>3. ASSUME NEW q \in Pid, q # c
      PROVE  /\ state'[q] = state[q] /\ blockedOn'[q] = blockedOn[q]
             /\ fds'[q] = fds[q] /\ holds'[q] = holds[q] /\ stdin'[q] = stdin[q]
             /\ signals'[q] = signals[q] /\ input'[q] = input[q]
  BY <1>0, <1>1, <1>3 DEF Reap, Forget, procVars, waitVars
<1>4. queue' = queue \ {p} /\ parked' = [parked EXCEPT ![p] = NoReq] /\ UNCHANGED <<workers, turn>>
  BY <1>1 DEF Complete, Stashed
<1>5. Steady({})
  BY <1>2, SteadyWithoutPipes DEF pipeVars
<1>6. ASSUME NEW q \in Pid PROVE Accounted(q)'
  <2>1. CASE q = c
    BY <1>2, <2>1 DEF Accounted
  <2>2. CASE q # c /\ q = p
    BY <1>0, <1>2, <1>3, <1>4, <2>2 DEF Accounted, Awake, MyTurn, NoneRevived
  <2>3. CASE q # c /\ q # p
    <3>1. Wakes(q, {})
      BY <1>0, <1>3, <1>4, <2>3 DEF Wakes, Runnable, Unblocked
    <3>2. OwnKept(q, {})
      BY <1>3, <2>3, OwnWithoutChans DEF chanVars, netVars, Fetching
    <3> QED
      BY <1>2, <1>5, <3>1, <3>2, OthersAccounted DEF AllAccounted, NoneRevived
  <2> QED
    BY <2>1, <2>2, <2>3
<1>7. QueueStashed' /\ Unborn'
  <2>1. \A q \in Pid : blockedOn'[q] \in {blockedOn[q], NotBlocked}
    BY <1>0, <1>1 DEF Reap, waitVars
  <2> QED
    BY <1>0, <1>2, <1>4, <2>1 DEF Books, QueueStashed, Unborn
<1>8. EndsApart'
  <2>1. \A q \in Pid, k \in ChanId : holds'[q][k] \in {holds[q][k], NoEnd}
    <3>1. CASE holds' = [holds EXCEPT ![c] = [k \in ChanId |-> NoEnd]]
      BY <1>0, <3>1
    <3>2. CASE holds' = holds
      BY <3>2
    <3> QED
      BY <1>1, <3>1, <3>2 DEF Reap, Forget, procVars
  <2> QED
    BY <2>1, ChansKept DEF Books
<1> QED
  BY <1>2, <1>4, <1>6, <1>7, <1>8, TurnSame, PipesKept DEF AllAccounted, Books

LEMMA KWaitSleepers ==
  ASSUME TypeOK, NEW p \in Pid, NEW STATE r, r \in Request, KWait(p, r),
         AllAccounted, Books, Serving(p)
  PROVE  AllAccounted' /\ Books'
<1> USE DEF Serving
<1>1. r.arg \in Pid /\ r.call = "kWait" /\ UNCHANGED <<pipeVars, chanVars, netVars>>
  BY DEF KWait, Request, Of
<1>2. CASE WaitCollects(p, r.arg)
  <2>1. \A c \in Pid : c = r.arg => AllAccounted' /\ Books'
    BY <1>1, <1>2, CollectsSleepers
  <2> QED
    BY <1>1, <2>1
<1>3. CASE UNCHANGED procVars
  <2>1. UNCHANGED <<nextPid, exitCode>> /\ EndsApart' /\ PipesSound'
    BY <1>1, <1>3, ChansKept, PipesKept DEF Books, procVars
  <2>2. \A q \in Pid : OwnKept(q, {})
    BY <1>1, <1>3, OwnWithoutChans DEF chanVars, netVars, procVars, Fetching
  <2>3. CASE WaitFindsNone(p, r.arg)
    <3>1. Reply(p, {})
      BY <2>3 DEF WaitFindsNone
    <3>2. NoneRevived /\ LiveKept
      BY <2>1, <3>1, ReplyTable
    <3>3. AllAccounted'
      BY <1>1, <2>2, <3>1, <3>2, ReplyAccounted, SteadyWithoutPipes DEF Undisturbed, pipeVars
    <3> QED
      BY <2>1, <3>1, <3>3, ReplyBooks DEF Books
  <2>4. CASE WaitParks(p, r)
    <3>1. Park(p, r, On("wait", r.arg))
      BY <2>4 DEF WaitParks
    <3>2. NoneRevived /\ LiveKept
      BY <2>1, <3>1, ParkTable
    <3>3. ASSUME Live(p) PROVE WillSleep(p, r)
      <4>1. PICK s \in Request : s = r
        OBVIOUS
      <4>2. Live(s.arg)'
        BY <1>1, <2>4, <3>2, <4>1 DEF WaitParks, LiveKept
      <4>3. blockedOn'[p] = On("wait", s.arg)
        BY <3>1, <3>3, <4>1 DEF Park, Block, Live, TypeOK, WaitType
      <4>4. AsleepOn(p, s)'
        BY <1>1, <4>1, <4>2, <4>3 DEF AsleepOn
      <4> QED
        BY <4>1, <4>4 DEF WillSleep
    <3>4. AllAccounted'
      BY <1>1, <2>2, <3>1, <3>2, <3>3, ParkAccounted, SteadyWithoutPipes DEF Undisturbed, pipeVars
    <3> QED
      BY <2>1, <3>1, <3>4, ParkBooks DEF Books
  <2> QED
    BY <1>1, <2>3, <2>4, <1>2 DEF KWait
<1> QED
  BY <1>2, <1>3 DEF KWait, WaitFindsNone, WaitParks

\* The three calls that concern the caller alone: what else it touches is its own.
LEMMA OwnCallSleepers ==
  ASSUME TypeOK, NEW p \in Pid, NEW STATE r, r \in Request, AllAccounted, Books, Serving(p),
         SigWait(p, r) \/ WinReadInput(p, r) \/ NetRequest(p, r)
  PROVE  AllAccounted' /\ Books'
<1> USE DEF Serving
<1>1. UNCHANGED <<nextPid, exitCode, stdin, fds, holds>> /\ UNCHANGED <<pipeVars, chanVars>>
  BY DEF SigWait, WinReadInput, NetRequest, procVars
<1>2. /\ \A q \in Pid \ {p} : signals'[q] = signals[q] /\ input'[q] = input[q]
      /\ \A q \in Pid \ {p} : Fetching(q) => Fetching(q)'
  BY DEF SigWait, WinReadInput, NetRequest, procVars, netVars, Fetching, TypeOK, ProcType
<1>3. EndsApart' /\ PipesSound'
  BY <1>1, ChansKept, PipesKept DEF Books
<1>4. \A q \in Pid \ {p} : OwnKept(q, {})
  BY <1>1, <1>2, OwnWithoutChans DEF chanVars
<1>5. CASE Reply(p, {})
  <2>1. NoneRevived /\ LiveKept
    BY <1>1, <1>5, ReplyTable
  <2>2. AllAccounted'
    BY <1>1, <1>4, <1>5, <2>1, ReplyAccounted, SteadyWithoutPipes DEF Undisturbed, pipeVars
  <2> QED
    BY <1>1, <1>3, <1>5, <2>2, ReplyBooks DEF Books
<1>6. ASSUME NEW reason, Park(p, r, reason),
             \A s \in Request : s = r /\ blockedOn'[p] = reason => AsleepOn(p, s)'
      PROVE  AllAccounted' /\ Books'
  <2>1. NoneRevived /\ LiveKept
    BY <1>1, <1>6, ParkTable
  <2>2. Live(p) => WillSleep(p, r)
    BY <1>6 DEF WillSleep, Park, Block, Live, TypeOK, WaitType
  <2>3. AllAccounted'
    BY <1>1, <1>4, <1>6, <2>1, <2>2, ParkAccounted, SteadyWithoutPipes DEF Undisturbed, pipeVars
  <2> QED
    BY <1>1, <1>3, <1>6, <2>3, ParkBooks DEF Books
<1>7. CASE SigWait(p, r)
  <2>1. CASE signals[p] = 0 /\ Park(p, r, On("sigWait", 0))
    <3>1. \A s \in Request : s = r /\ blockedOn'[p] = On("sigWait", 0) => AsleepOn(p, s)'
      BY <1>7 DEF SigWait, AsleepOn, TypeOK, ProcType
    <3> QED
      BY <1>6, <2>1, <3>1
  <2> QED
    BY <1>5, <1>7, <2>1 DEF SigWait
<1>8. CASE WinReadInput(p, r)
  <2>1. CASE "input" \in caps[p] /\ input[p] = 0 /\ Park(p, r, On("input", 0))
    <3>1. r.len \in Nat
      BY DEF Request, Of
    <3>2. input'[p] = 0
      BY <1>8, <2>1, <3>1 DEF WinReadInput, SaturatingSub, TypeOK, ProcType
    <3>3. \A s \in Request : s = r /\ blockedOn'[p] = On("input", 0) => AsleepOn(p, s)'
      BY <1>8, <3>2 DEF WinReadInput, AsleepOn
    <3> QED
      BY <1>6, <2>1, <3>3
  <2> QED
    BY <1>5, <1>8, <2>1 DEF WinReadInput
<1>9. CASE NetRequest(p, r)
  <2>1. CASE "net" \in caps[p] /\ Park(p, r, On("netReq", 0)) /\ fetching' = fetching \cup {p}
    <3>1. Fetching(p)'
      BY <1>9, <2>1 DEF NetRequest, Fetching
    <3>2. \A s \in Request : s = r /\ blockedOn'[p] = On("netReq", 0) => AsleepOn(p, s)'
      BY <1>9, <3>1 DEF NetRequest, AsleepOn
    <3> QED
      BY <1>6, <2>1, <3>2
  <2> QED
    BY <1>5, <1>9, <2>1 DEF NetRequest
<1> QED
  BY <1>7, <1>8, <1>9
-----------------------------------------------------------------------------
(***************************************************************************)
(* Channels.                                                               *)
(***************************************************************************)

\* Two processes that hold ends of one channel hold different ones.
LEMMA OtherEnd ==
  ASSUME TypeOK, OneHolder, NEW p \in Pid, NEW q \in Pid, p # q, NEW c \in ChanId,
         holds[p][c] \in End, holds[q][c] \in End
  PROVE  holds[q][c] = 1 - holds[p][c]
BY DEF OneHolder, End, NoEnd

\* A message sent or taken at p's end changes one inbox of one channel.
LEMMA InboxChanged ==
  ASSUME TypeOK, EndsApart, NEW p \in Pid, NEW STATE c, c \in ChanId, holds[p][c] \in End,
         NEW STATE chan, chan.pending = chans[c].pending,
         chans' = [chans EXCEPT ![c] = chan], UNCHANGED <<byName, nextChan, holds>>
  PROVE  EndsApart'
<1>1. chans \in [ChanId -> Chan] /\ byName \in [Names -> 0..MaxChan] /\ nextChan \in Nat
  BY DEF TypeOK, ChansType
<1>2. holds[p][c] # NoEnd
  BY DEF End, NoEnd
<1>3. c < nextChan
  BY <1>1, <1>2 DEF EndsApart, ChansUnused, ChanId
<1>4. ChansUnused'
  <2>1. \A k \in ChanId : k >= nextChan => k # c
    BY <1>1, <1>3 DEF ChanId
  <2> QED
    BY <1>1, <2>1 DEF EndsApart, ChansUnused
<1>5. \A k \in ChanId : chans'[k].pending = chans[k].pending
  BY <1>1
<1>6. NamesLead'
  <2>1. \A n \in Names : byName[n] # 0 => byName[n] \in ChanId
    BY <1>1 DEF ChanId
  <2> QED
    BY <1>5, <2>1 DEF EndsApart, NamesLead
<1> QED
  BY <1>4, <1>5, <1>6 DEF EndsApart, NamesApart, UnmetAlone, OneHolder

LEMMA ChanRecvSleepers ==
  ASSUME TypeOK, NEW p \in Pid, NEW STATE r, r \in Request, ChanRecv(p, r),
         AllAccounted, Books, Serving(p)
  PROVE  AllAccounted' /\ Books'
<1> DEFINE c == r.arg
           end == holds[p][c]
<1> USE DEF Serving
<1>1. c \in ChanId /\ end \in End \cup {NoEnd}
  BY DEF ChanRecv, Request, Of, TypeOK, ProcType
<1>2. UNCHANGED <<nextPid, exitCode, byName, nextChan, selfMet, holds>> /\ UNCHANGED <<procVars, pipeVars, netVars>>
  BY DEF ChanRecv, procVars
<1>3. PipesSound'
  BY <1>2, PipesKept DEF Books
<1>4. UNCHANGED chans => EndsApart' /\ \A q \in Pid : OwnKept(q, {})
  BY <1>2, ChansKept, OwnWithoutChans DEF Books, chanVars, netVars, procVars, Fetching
<1>5. CASE end # NoEnd /\ chans[c].inbox[end] # <<>>
  <2>1. chans' = [chans EXCEPT ![c] = Received(chans[c], end)] /\ Reply(p, {})
    BY <1>5 DEF ChanRecv
  <2>2. end \in End /\ chans[c] \in Chan /\ chans \in [ChanId -> Chan]
    BY <1>1, <1>5 DEF TypeOK, ChansType
  <2>3. /\ Received(chans[c], end).pending = chans[c].pending
        /\ Received(chans[c], end).open = chans[c].open
        /\ Received(chans[c], end).inbox[1 - end] = chans[c].inbox[1 - end]
    BY <2>2 DEF Received, Chan, End
  <2>4. EndsApart'
    BY <1>1, <1>2, <2>1, <2>2, <2>3, InboxChanged DEF Books
  <2>5. NoneRevived /\ LiveKept
    BY <1>2, <2>1, ReplyTable
  <2>6. ASSUME NEW q \in Pid, q # p PROVE ChanKept(q, {})
    <3>1. ASSUME NEW k \in ChanId, holds[q][k] \in End, Silent(k, holds[q][k])
          PROVE  Silent(k, holds[q][k])'
      <4>1. CASE k = c
        <5>1. holds[q][k] = 1 - end
          BY <1>1, <2>2, <2>6, <3>1, <4>1, OtherEnd DEF Books, EndsApart
        <5>2. chans'[k] = Received(chans[c], end) /\ holds'[q][k] = holds[q][k]
          BY <1>2, <2>1, <2>2, <4>1
        <5> QED
          BY <2>3, <3>1, <4>1, <5>1, <5>2 DEF Silent, PeerOpen
      <4>2. CASE k # c
        <5>1. chans'[k] = chans[k] /\ holds'[q][k] = holds[q][k]
          BY <1>2, <2>1, <2>2, <4>2
        <5> QED
          BY <3>1, <5>1 DEF Silent, PeerOpen
      <4> QED
        BY <4>1, <4>2
    <3> QED
      BY <3>1 DEF ChanKept
  <2>7. Undisturbed(p, {})
    BY <1>2, <2>5, <2>6, SteadyWithoutPipes DEF Undisturbed, OwnKept, pipeVars, procVars, netVars, Fetching
  <2>8. AllAccounted'
    BY <2>1, <2>5, <2>7, ReplyAccounted
  <2> QED
    BY <1>2, <1>3, <2>1, <2>4, <2>8, ReplyBooks DEF Books
<1>6. CASE Reply(p, {}) /\ UNCHANGED chans
  <2>1. NoneRevived /\ LiveKept
    BY <1>2, <1>6, ReplyTable
  <2>2. AllAccounted'
    BY <1>2, <1>4, <1>6, <2>1, ReplyAccounted, SteadyWithoutPipes DEF Undisturbed, pipeVars
  <2> QED
    BY <1>2, <1>3, <1>4, <1>6, <2>2, ReplyBooks DEF Books
<1>7. CASE /\ end # NoEnd /\ chans[c].inbox[end] = <<>> /\ PeerOpen(chans[c], end)
           /\ Park(p, r, OnChanRecv(c, end)) /\ UNCHANGED chans
  <2>1. NoneRevived /\ LiveKept
    BY <1>2, <1>7, ParkTable
  <2>2. ASSUME Live(p) PROVE WillSleep(p, r)
    <3>1. PICK s \in Request : s = r
      OBVIOUS
    <3>2. s.call = "chanRecv" /\ holds'[p][s.arg] = end /\ end \in End
      BY <1>1, <1>2, <1>7, <3>1 DEF ChanRecv
    <3>3. blockedOn'[p] = OnChanRecv(s.arg, end)
      BY <1>7, <2>2, <3>1 DEF Park, Block, Live, TypeOK, WaitType
    <3>4. AsleepOn(p, s)'
      BY <1>7, <3>1, <3>2, <3>3 DEF AsleepOn, Silent
    <3> QED
      BY <3>1, <3>4 DEF WillSleep
  <2>3. AllAccounted'
    BY <1>2, <1>4, <1>7, <2>1, <2>2, ParkAccounted, SteadyWithoutPipes DEF Undisturbed, pipeVars
  <2> QED
    BY <1>2, <1>3, <1>4, <1>7, <2>3, ParkBooks DEF Books
<1> QED
  BY <1>5, <1>6, <1>7 DEF ChanRecv

LEMMA ChanSendSleepers ==
  ASSUME TypeOK, NEW p \in Pid, NEW c \in ChanId, NEW msg \in Msg, ChanSend(p, c, msg),
         AllAccounted, Books, Serving(p)
  PROVE  AllAccounted' /\ Books'
<1> DEFINE end == holds[p][c]
           sent == Sent(chans[c], end, msg)
<1> USE DEF Serving
<1>1. end \in End /\ chans[c] \in Chan /\ chans \in [ChanId -> Chan]
  BY DEF ChanSend, TypeOK, ChansType
<1>2. UNCHANGED <<nextPid, exitCode, byName, nextChan, holds>> /\ UNCHANGED <<procVars, pipeVars, netVars>>
  BY DEF ChanSend, procVars
<1>3. chans' = [chans EXCEPT ![c] = sent] /\ Reply(p, {OnChanRecv(c, 1 - end)})
  BY DEF ChanSend
<1>4. sent.pending = chans[c].pending
  BY <1>1 DEF Sent, Chan
<1>5. EndsApart' /\ PipesSound'
  BY <1>1, <1>2, <1>3, <1>4, InboxChanged, PipesKept DEF Books
<1>6. NoneRevived /\ LiveKept
  BY <1>2, <1>3, ReplyTable
<1>7. ASSUME NEW q \in Pid, q # p PROVE ChanKept(q, {OnChanRecv(c, 1 - end)})
  <2>1. ASSUME NEW k \in ChanId, holds[q][k] \in End, Silent(k, holds[q][k]),
               OnChanRecv(k, holds[q][k]) \notin {OnChanRecv(c, 1 - end)}
        PROVE  Silent(k, holds[q][k])'
    <3>1. k # c
      BY <1>1, <1>7, <2>1, OtherEnd DEF Books, EndsApart
    <3>2. chans'[k] = chans[k] /\ holds'[q][k] = holds[q][k]
      BY <1>1, <1>2, <1>3, <3>1
    <3> QED
      BY <2>1, <3>2 DEF Silent
  <2> QED
    BY <2>1 DEF ChanKept
<1>8. Undisturbed(p, {OnChanRecv(c, 1 - end)})
  BY <1>2, <1>6, <1>7, SteadyWithoutPipes DEF Undisturbed, OwnKept, pipeVars, procVars, netVars, Fetching
<1>9. AllAccounted'
  BY <1>3, <1>6, <1>8, ReplyAccounted
<1> QED
  BY <1>2, <1>3, <1>5, <1>9, ReplyBooks DEF Books

\* A new channel is held by its creator alone; one that is met was waited for at
\* its other end.
LEMMA ChanOpenSleepers ==
  ASSUME TypeOK, NEW p \in Pid, NEW name \in Names, ChanOpen(p, name),
         AllAccounted, Books
  PROVE  AllAccounted' /\ Books'
<1>1. UNCHANGED <<nextPid, exitCode, stdin, signals, input, fds, turn>> /\ UNCHANGED <<waitVars, hostVars, pipeVars, netVars>>
  BY DEF ChanOpen, hostVars
<1>2. /\ holds \in [Pid -> [ChanId -> End \cup {NoEnd}]] /\ chans \in [ChanId -> Chan]
      /\ byName \in [Names -> 0..MaxChan] /\ nextChan \in Nat /\ MaxChan \in Nat
  BY ProcAssumption DEF TypeOK, ProcType, ChansType
<1>3. NoneRevived /\ LiveKept /\ EndingDead'
  BY <1>1, TurnSame DEF NoneRevived, LiveKept, Live, Known, waitVars, Books
<1>4. parked[p] = NoReq
  BY DEF ChanOpen, MayCall
<1>5. ASSUME nextChan <= MaxChan, nextChan >= 1,
             chans' = [chans EXCEPT ![nextChan] = NewChan], byName[name] = 0,
             byName' = [byName EXCEPT ![name] = nextChan],
             holds' = [holds EXCEPT ![p][nextChan] = 0], nextChan' = nextChan + 1
      PROVE  EndsApart' /\ \A q \in Pid \ {p} : OwnKept(q, {})
  <2>1. nextChan \in ChanId
    BY <1>2, <1>5 DEF ChanId
  <2>2. \A q \in Pid : holds[q][nextChan] = NoEnd
    BY <1>2, <2>1 DEF Books, EndsApart, ChansUnused
  <2>3. /\ \A k \in ChanId \ {nextChan}, q \in Pid : holds'[q][k] = holds[q][k] /\ chans'[k] = chans[k]
        /\ \A q \in Pid \ {p} : holds'[q] = holds[q]
        /\ holds'[p][nextChan] = 0 /\ chans'[nextChan] = NewChan
    BY <1>2, <1>5, <2>1
  <2>4. ChansUnused'
    <3>1. \A k \in ChanId : k >= nextChan' => k # nextChan /\ k >= nextChan
      BY <1>2, <1>5 DEF ChanId
    <3> QED
      BY <2>3, <3>1 DEF Books, EndsApart, ChansUnused
  <2>5. NamesLead' /\ NamesApart'
    <3>1. NewChan.pending
      BY DEF NewChan
    <3>2. \A n \in Names : byName[n] # 0 => byName[n] \in ChanId /\ byName[n] < nextChan
      BY <1>2 DEF Books, EndsApart, NamesLead, ChanId
    <3>3. \A n \in Names : byName'[n] = IF n = name THEN nextChan ELSE byName[n]
      BY <1>2, <1>5
    <3>4. NamesLead'
      <4>1. ASSUME NEW n \in Names, byName'[n] # 0
            PROVE  byName'[n] < nextChan' /\ chans'[byName'[n]].pending
        <5>1. CASE n = name
          BY <1>2, <1>5, <2>3, <3>1, <3>3, <5>1
        <5>2. CASE n # name
          <6>1. byName'[n] = byName[n] /\ byName[n] \in ChanId \ {nextChan}
            BY <1>2, <3>2, <3>3, <4>1, <5>2
          <6> QED
            BY <1>2, <1>5, <2>3, <3>2, <4>1, <6>1 DEF Books, EndsApart, NamesLead
        <5> QED
          BY <5>1, <5>2
      <4> QED
        BY <4>1 DEF NamesLead
    <3>5. NamesApart'
      BY <1>2, <3>2, <3>3 DEF Books, EndsApart, NamesApart
    <3> QED
      BY <3>4, <3>5
  <2>6. UnmetAlone'
    <3>1. ASSUME NEW k \in ChanId, NEW q \in Pid, chans'[k].pending PROVE holds'[q][k] # 1
      <4>1. CASE k = nextChan
        BY <2>2, <2>3, <4>1 DEF NoEnd
      <4>2. CASE k # nextChan
        BY <2>3, <3>1, <4>2 DEF Books, EndsApart, UnmetAlone
      <4> QED
        BY <4>1, <4>2
    <3> QED
      BY <3>1 DEF UnmetAlone
  <2>7. OneHolder'
    <3>1. \A q \in Pid \ {p} : holds'[q][nextChan] = NoEnd
      BY <2>2, <2>3
    <3> QED
      BY <2>3, <3>1 DEF Books, EndsApart, OneHolder, NoEnd
  <2>8. ASSUME NEW q \in Pid \ {p} PROVE OwnKept(q, {})
    <3>1. NoEnd \notin End
      BY DEF End, NoEnd
    <3> QED
      BY <1>1, <2>2, <2>3, <3>1 DEF OwnKept, ChanKept, Silent, netVars, Fetching
  <2> QED
    BY <2>4, <2>5, <2>6, <2>7, <2>8 DEF EndsApart
<1>6. ASSUME NEW id \in ChanId, byName[name] = id,
             chans' = [chans EXCEPT ![id] = Connected(@)],
             byName' = [byName EXCEPT ![name] = 0],
             holds' = [holds EXCEPT ![p][id] = 1], nextChan' = nextChan
      PROVE  EndsApart' /\ \A q \in Pid \ {p} : OwnKept(q, {})
  <2>1. id < nextChan /\ chans[id].pending
    BY <1>6 DEF Books, EndsApart, NamesLead, ChanId
  <2>2. \A q \in Pid : holds[q][id] # 1
    BY <2>1 DEF Books, EndsApart, UnmetAlone
  <2>3. /\ \A k \in ChanId \ {id}, q \in Pid : holds'[q][k] = holds[q][k] /\ chans'[k] = chans[k]
        /\ \A q \in Pid \ {p} : holds'[q] = holds[q]
        /\ holds'[p][id] = 1 /\ chans'[id] = Connected(chans[id])
    BY <1>2, <1>6
  <2>4. ~Connected(chans[id]).pending /\ Connected(chans[id]).open[1]
        /\ Connected(chans[id]).inbox = chans[id].inbox
    BY <1>2 DEF Connected, Chan, End
  <2>5. ChansUnused'
    <3>1. \A k \in ChanId : k >= nextChan' => k # id /\ k >= nextChan
      BY <1>2, <1>6, <2>1 DEF ChanId
    <3> QED
      BY <2>3, <3>1 DEF Books, EndsApart, ChansUnused
  <2>6. NamesLead' /\ NamesApart'
    <3>1. \A n \in Names : byName'[n] = IF n = name THEN 0 ELSE byName[n]
      BY <1>2, <1>6
    <3>2. \A n \in Names : byName'[n] # 0 => byName[n] \in ChanId \ {id}
      BY <1>2, <1>6, <3>1 DEF Books, EndsApart, NamesApart, ChanId
    <3>3. NamesLead'
      BY <1>6, <2>3, <3>1, <3>2 DEF Books, EndsApart, NamesLead
    <3>4. NamesApart'
      BY <3>1 DEF Books, EndsApart, NamesApart
    <3> QED
      BY <3>3, <3>4
  <2>7. UnmetAlone'
    BY <2>3, <2>4 DEF Books, EndsApart, UnmetAlone
  <2>8. OneHolder'
    BY <2>2, <2>3 DEF Books, EndsApart, OneHolder
  <2>9. ASSUME NEW q \in Pid \ {p} PROVE OwnKept(q, {})
    <3>1. ASSUME NEW k \in ChanId, holds[q][k] \in End, Silent(k, holds[q][k])
          PROVE  Silent(k, holds[q][k])'
      <4>1. CASE k = id
        <5>1. holds[q][k] = 0
          BY <2>2, <3>1, <4>1 DEF End
        <5> QED
          BY <2>3, <2>4, <3>1, <4>1, <5>1 DEF Silent, PeerOpen
      <4>2. CASE k # id
        BY <2>3, <3>1, <4>2 DEF Silent
      <4> QED
        BY <4>1, <4>2
    <3> QED
      BY <1>1, <2>3, <3>1 DEF OwnKept, ChanKept, netVars, Fetching
  <2> QED
    BY <2>5, <2>6, <2>7, <2>8, <2>9 DEF EndsApart
<1>7. EndsApart' /\ \A q \in Pid \ {p} : OwnKept(q, {})
  <2>1. nextChan >= 1 /\ (byName[name] # 0 => byName[name] \in ChanId)
    BY <1>2 DEF TypeOK, ChansType, ChanId
  <2>2. CASE byName[name] = 0
    BY <1>5, <2>1, <2>2 DEF ChanOpen
  <2>3. CASE byName[name] # 0
    <3>1. PICK id \in ChanId : id = byName[name]
      BY <2>1, <2>3
    <3> QED
      BY <1>6, <2>3, <3>1 DEF ChanOpen
  <2> QED
    BY <2>2, <2>3
<1>8. AllAccounted'
  BY <1>1, <1>3, <1>4, <1>7, StillAccounted, SteadyWithoutPipes DEF hostVars, pipeVars
<1>9. QueueStashed' /\ Unborn' /\ PipesSound'
  BY <1>1, PipesKept DEF Books, QueueStashed, Unborn, waitVars, hostVars
<1> QED
  BY <1>3, <1>7, <1>8, <1>9 DEF Books
-----------------------------------------------------------------------------
(***************************************************************************)
(* Descriptors.                                                            *)
(***************************************************************************)
LEMMA EndsBooks ==
  ASSUME TypeOK, PipesSound, UNCHANGED nextPipe,
         \A i \in PipeId : pipes'[i] = pipes[i]
                           \/ \E r, w \in Nat : pipes'[i] = CloseEnds(pipes[i], r, w)
  PROVE  PipesSound'
<1>1. ASSUME NEW r \in Nat, NEW w \in Nat PROVE CloseEnds(NoPipe, r, w) = NoPipe
  <2>1. SaturatingSub(0, r) = 0 /\ SaturatingSub(0, w) = 0
    BY DEF SaturatingSub
  <2> QED
    BY <2>1 DEF CloseEnds, NoPipe
<1>2. ASSUME NEW i \in PipeId, NEW r \in Nat, NEW w \in Nat, pipes'[i] = CloseEnds(pipes[i], r, w)
      PROVE  pipes'[i] = NoPipe \/ (pipes[i] # NoPipe /\ Len(pipes'[i].buf) <= Capacity)
  <2>1. pipes[i] \in Pipe /\ Len(pipes[i].buf) <= Capacity
    BY DEF TypeOK, PipesType, PipesSound, PipesFit
  <2>2. CloseEnds(pipes[i], r, w) = NoPipe \/ CloseEnds(pipes[i], r, w).buf = pipes[i].buf
    BY <2>1, BufLens
  <2> QED
    BY <1>1, <1>2, <2>1, <2>2
<1> QED
  BY <1>2, SoundKept

LEMMA CloseBooks ==
  ASSUME TypeOK, PipesSound, NEW STATE d, d \in Desc, CloseDesc(d), UNCHANGED nextPipe
  PROVE  PipesSound'
<1>1. d.kind \in PipeKind => d.id \in PipeId
  BY DEF Desc, PipeKind
<1>2. \A i \in PipeId : \/ pipes'[i] = pipes[i]
                        \/ \E r, w \in {0, 1} : pipes'[i] = CloseEnds(pipes[i], r, w)
  BY <1>1 DEF CloseDesc, TypeOK, PipesType, PipeKind
<1> QED
  BY <1>2, EndsBooks

\* One descriptor closed, another perhaps moved.
LEMMA ClosesSleepers ==
  ASSUME TypeOK, NEW p \in Pid, NEW STATE d, d \in Desc, CloseDesc(d), Reply(p, CloseReasons(d)),
         \A q \in Pid \ {p} : fds'[q] = fds[q],
         UNCHANGED <<nextPid, exitCode, signals, stdin, input, holds, nextPipe>>,
         UNCHANGED <<chanVars, netVars>>,
         AllAccounted, Books, Serving(p)
  PROVE  AllAccounted' /\ Books'
<1>1. NoneRevived /\ LiveKept
  BY ReplyTable
<1>2. Undisturbed(p, CloseReasons(d))
  BY <1>1, CloseSteady, OwnWithoutChans DEF Undisturbed, chanVars, netVars, Fetching
<1>3. AllAccounted'
  BY <1>1, <1>2, ReplyAccounted DEF Serving
<1> QED
  BY <1>3, ReplyBooks, CloseBooks, ChansKept DEF Books

LEMMA KPipeSleepers ==
  ASSUME TypeOK, NEW p \in Pid, KPipe(p), AllAccounted, Books
  PROVE  AllAccounted' /\ Books'
<1>0. pipes \in [PipeId -> Pipe] /\ nextPipe \in PipeId
  BY ProcAssumption DEF KPipe, TypeOK, PipesType, PipeId
<1>1. /\ UNCHANGED <<nextPid, exitCode, stdin, signals, input, holds, turn>>
      /\ UNCHANGED <<waitVars, hostVars, chanVars, netVars>>
  BY DEF KPipe, hostVars
<1>2. pipes[nextPipe] = NoPipe
  BY <1>0 DEF Books, PipesSound, PipesUnused, PipeId
<1>3. \A i \in PipeId \ {nextPipe} : pipes'[i] = pipes[i]
  BY <1>0 DEF KPipe
<1>4. NoneRevived /\ LiveKept /\ EndingDead'
  BY <1>1, TurnSame DEF NoneRevived, LiveKept, Live, Known, waitVars, Books
<1>5. Steady({})
  BY <1>2, <1>3, <1>4 DEF Steady, LiveKept, Starved, Stuffed, NoPipe, ReadOpen, WriteOpen
<1>6. \A q \in Pid : parked[q] # NoReq => OwnKept(q, {})
  <2>1. \A q \in Pid \ {p} : fds'[q] = fds[q]
    BY DEF KPipe, TypeOK, ProcType
  <2>2. parked[p] = NoReq
    BY DEF KPipe, MayCall
  <2> QED
    BY <1>1, <2>1, <2>2, OwnWithoutChans DEF chanVars, netVars, Fetching
<1>7. AllAccounted'
  BY <1>1, <1>4, <1>5, <1>6, StillAccounted DEF hostVars
<1>8. PipesSound'
  <2>1. \A i \in PipeId : i >= nextPipe' => i >= nextPipe /\ i # nextPipe
    BY <1>0 DEF KPipe, PipeId
  <2>2. Len(pipes'[nextPipe].buf) <= Capacity
    BY <1>0, EmptySeq, PipeAssumption DEF KPipe, NewPipe
  <2> QED
    BY <1>3, <2>1, <2>2 DEF Books, PipesSound, PipesUnused, PipesFit
<1> QED
  BY <1>1, <1>4, <1>7, <1>8, ChansKept DEF Books, QueueStashed, Unborn, waitVars, hostVars
-----------------------------------------------------------------------------
(***************************************************************************)
(* Birth and exit.                                                         *)
(***************************************************************************)

\* The next pid gets an entry; nobody waits under it, and it waits for nothing.
LEMMA BirthSleepers ==
  ASSUME TypeOK, AllAccounted, Books, nextPid \in Pid, nextPid' = nextPid + 1,
         state' = [state EXCEPT ![nextPid] = "ready"], Fresh,
         \A q \in Pid \ {nextPid} : fds'[q] = fds[q],
         UNCHANGED <<blockedOn, parked, queue, exitCode, holds, stdin, signals, input, nextPipe>>,
         UNCHANGED <<chanVars, netVars>>, workers \subseteq workers', turn'.doing # "ending",
         \A i \in PipeId : (Starved(i) => Starved(i)') /\ (Stuffed(i) => Stuffed(i)'),
         PipesSound'
  PROVE  AllAccounted' /\ Books'
<1>1. /\ state \in [Pid -> ProcState] /\ nextPid \in Nat /\ Pid \subseteq Nat
  BY DEF TypeOK, WaitType, ProcType, Pid
<1>2. Steady({})
  BY <1>1 DEF Steady, Live, Known
<1>3. ASSUME NEW q \in Pid PROVE Accounted(q)'
  <2>1. CASE q = nextPid
    <3>1. parked[q] = NoReq /\ blockedOn[q] = NotBlocked
      BY <1>1, <2>1 DEF Books, Unborn
    <3>2. q \notin queue
      BY <3>1 DEF Books, QueueStashed
    <3> QED
      BY <1>1, <2>1, <3>1, <3>2 DEF Accounted, Awake
  <2>2. CASE q # nextPid
    <3>1. Wakes(q, {})
      BY <1>1, <2>2 DEF Wakes, Runnable, Unblocked
    <3>2. OwnKept(q, {})
      BY <2>2, OwnWithoutChans DEF chanVars, netVars, Fetching
    <3>3. Live(q)' => Live(q)
      BY <1>1, <2>2 DEF Live, Known
    <3> QED
      BY <1>2, <3>1, <3>2, <3>3, OthersAccounted DEF AllAccounted
  <2> QED
    BY <2>1, <2>2
<1>4. Unborn'
  BY <1>1 DEF Books, Unborn
<1> QED
  BY <1>3, <1>4, ChansKept DEF AllAccounted, Books, QueueStashed, EndingDead

LEMMA SpawnSleepers ==
  ASSUME Lifecycle, NEW p \in Pid, SpawnAny(p), AllAccounted, Books
  PROVE  AllAccounted' /\ Books'
<1>1. PICK stdio \in Stdio, want \in Wants :
        \E rid \in IF \E fd \in 0..2 : stdio[fd] = "pipeRead" THEN Held(p) ELSE {0},
           wid \in IF \E fd \in 0..2 : stdio[fd] = "pipeWrite" THEN Held(p) ELSE {0} :
          KSpawn(p, stdio, rid, wid, want)
  BY DEF SpawnAny
<1>2. PICK rid, wid : KSpawn(p, stdio, rid, wid, want)
  BY <1>1
<1>a. TypeOK
  BY DEF Lifecycle
<1>b. nextPid \in Pid
  BY <1>2, ProcAssumption DEF KSpawn, Lifecycle, TypeOK, ProcType, Pid
<1>3. nextPid \in Pid /\ TypeOK
  BY <1>a, <1>b
<1> DEFINE ends(kind, i, id) == IF i = id THEN Cardinality({fd \in 0..2 : stdio[fd] = kind}) ELSE 0
<1>4. \A kind, i, id : ends(kind, i, id) \in Nat
  <2>1. \A kind : {fd \in 0..2 : stdio[fd] = kind} \in SUBSET Fd
    BY ProcAssumption DEF Fd
  <2> QED
    BY <2>1, CountType
<1>5. ASSUME NEW i \in PipeId
      PROVE  /\ pipes'[i] = AddEnds(pipes[i], ends("pipeRead", i, rid), ends("pipeWrite", i, wid))
             /\ pipes[i] \in Pipe
  BY <1>2, <1>3 DEF KSpawn, TypeOK, PipesType
<1>6. ASSUME NEW i \in PipeId PROVE (Starved(i) => Starved(i)') /\ (Stuffed(i) => Stuffed(i)')
  <2>1. PICK r \in Nat, w \in Nat : pipes'[i] = AddEnds(pipes[i], r, w)
    BY <1>4, <1>5
  <2>2. pipes'[i].buf = pipes[i].buf /\ pipes[i].readers \in Nat /\ pipes[i].writers \in Nat
    BY <1>5, <2>1 DEF AddEnds, Pipe
  <2>3. Exists(pipes[i]) => pipes'[i].readers = pipes[i].readers + r
                              /\ pipes'[i].writers = pipes[i].writers + w
    BY <1>5, <2>1 DEF AddEnds, Pipe
  <2>4. ReadOpen(pipes[i]) \/ WriteOpen(pipes[i]) => Exists(pipes[i])
    BY DEF ReadOpen, WriteOpen, Exists, NoPipe
  <2>5. ReadOpen(pipes[i]) => ReadOpen(pipes'[i]) /\ Exists(pipes'[i])
    BY <2>2, <2>3, <2>4 DEF ReadOpen, Exists, NoPipe
  <2>6. WriteOpen(pipes[i]) => WriteOpen(pipes'[i])
    BY <2>2, <2>3, <2>4 DEF WriteOpen
  <2> QED
    BY <2>2, <2>4, <2>5, <2>6 DEF Starved, Stuffed, Space
<1>7. PipesSound'
  <2>1. \A i \in PipeId : pipes[i] = NoPipe => pipes'[i] = NoPipe
    BY <1>5 DEF AddEnds, Exists
  <2>2. \A i \in PipeId : pipes'[i].buf = pipes[i].buf
    BY <1>5 DEF AddEnds, Pipe
  <2>3. nextPipe' = nextPipe
    BY <1>2 DEF KSpawn
  <2> QED
    BY <2>1, <2>2, <2>3 DEF Books, PipesSound, PipesUnused, PipesFit
<1>8. UNCHANGED nextPipe /\ workers \subseteq workers' /\ turn'.doing # "ending"
  BY <1>2 DEF KSpawn, Starting
<1>9. \A q \in Pid \ {nextPid} : fds'[q] = fds[q]
  BY <1>2, <1>3 DEF KSpawn, TypeOK, ProcType
<1> QED
  BY <1>2, <1>3, <1>6, <1>7, <1>8, <1>9, BirthSleepers DEF KSpawn, Lifecycle

LEMMA LaunchSleepers ==
  ASSUME Lifecycle, Launch, AllAccounted, Books
  PROVE  AllAccounted' /\ Books'
<1>1. PICK grant \in Grants, started \in BOOLEAN : HostSpawn(grant, started)
  BY DEF Launch
<1>a. TypeOK
  BY DEF Lifecycle
<1>2. nextPid \in Pid
  BY <1>1, ProcAssumption DEF HostSpawn, Lifecycle, TypeOK, ProcType, Pid
<1>3. workers \subseteq workers' /\ turn'.doing # "ending" /\ UNCHANGED pipeVars
  BY <1>1 DEF HostSpawn, AtRest, Idle
<1>4. \A i \in PipeId : (Starved(i) => Starved(i)') /\ (Stuffed(i) => Stuffed(i)')
  BY <1>3 DEF pipeVars, Starved, Stuffed
<1>5. \A q \in Pid \ {nextPid} : fds'[q] = fds[q]
  BY <1>a, <1>1, <1>2 DEF HostSpawn, TypeOK, ProcType
<1>6. PipesSound' /\ UNCHANGED nextPipe
  BY <1>3, PipesKept DEF Books, pipeVars
<1> QED
  BY <1>a, <1>1, <1>2, <1>3, <1>4, <1>5, <1>6, BirthSleepers DEF HostSpawn, Lifecycle

LEMMA EndsCount ==
  ASSUME NEW p, NEW kind, NEW i
  PROVE  Cardinality(EndsOf(p, kind, i)) \in Nat
<1>1. EndsOf(p, kind, i) \subseteq Fd
  BY DEF EndsOf
<1> QED
  BY <1>1, CountType, ProcAssumption DEF Fd

\* What the resources of one process leave behind: whoever waits for nothing that
\* an exit gives can go on waiting.
LEMMA ReleaseSteady ==
  ASSUME TypeOK, NEW p \in Pid, Release(p), OneHolder,
         \A q \in Pid \ {p} : /\ Live(q) => Live(q)'
                              /\ fds'[q] = fds[q] /\ holds'[q] = holds[q] /\ stdin'[q] = stdin[q]
                              /\ signals'[q] = signals[q] /\ input'[q] = input[q]
  PROVE  Undisturbed(p, ExitReasons(p))
<1> DEFINE R == ExitReasons(p)
<1>0. pipes \in [PipeId -> Pipe] /\ chans \in [ChanId -> Chan]
      /\ holds \in [Pid -> [ChanId -> End \cup {NoEnd}]]
  BY DEF TypeOK, PipesType, ChansType, ProcType
<1>1. ASSUME NEW i \in PipeId
      PROVE  /\ On("pipeRead", i) \notin R /\ Starved(i) => Starved(i)'
             /\ On("pipeWrite", i) \notin R /\ Stuffed(i) => Stuffed(i)'
  <2> DEFINE nr == Cardinality(EndsOf(p, "pipeRead", i))
             nw == Cardinality(EndsOf(p, "pipeWrite", i))
  <2>1. nr \in Nat /\ nw \in Nat
    BY EndsCount
  <2>2. pipes'[i] = CloseEnds(pipes[i], nr, nw)
    BY DEF Release, PipesWithout
  <2>3. On("pipeRead", i) \notin R => nw = 0
    BY FS_EmptySet DEF ExitReasons
  <2>4. On("pipeWrite", i) \notin R => nr = 0
    BY FS_EmptySet DEF ExitReasons
  <2>5. /\ WriteOpen(pipes[i]) /\ nw = 0 =>
             pipes'[i].buf = pipes[i].buf /\ WriteOpen(pipes'[i])
        /\ ReadOpen(pipes[i]) /\ nr = 0 =>
             ReadOpen(pipes'[i]) /\ Space(pipes'[i]) = Space(pipes[i])
    BY <1>0, <2>1, <2>2, CloseKeeps
  <2> QED
    BY <2>3, <2>4, <2>5 DEF Starved, Stuffed
<1>2. \A c \in Pid : On("wait", c) \notin R /\ Live(c) => Live(c)'
  <2>1. On("wait", p) \in R
    BY DEF ExitReasons
  <2> QED
    BY <2>1
<1>3. Steady(R)
  BY <1>1, <1>2 DEF Steady
<1>4. ASSUME NEW q \in Pid, q # p PROVE OwnKept(q, R)
  <2>1. ASSUME NEW c \in ChanId, holds[q][c] \in End, OnChanRecv(c, holds[q][c]) \notin R,
               Silent(c, holds[q][c])
        PROVE  Silent(c, holds[q][c])'
    <3>1. holds[p][c] \notin End
      <4>1. SUFFICES ASSUME holds[p][c] \in End PROVE FALSE
        OBVIOUS
      <4>2. OnChanRecv(c, 1 - holds[p][c]) \in R
        BY <4>1 DEF ExitReasons
      <4>3. holds[q][c] = 1 - holds[p][c]
        BY <1>4, <2>1, <4>1, OtherEnd
      <4> QED
        BY <2>1, <4>2, <4>3
    <3>2. chans'[c] = chans[c] /\ holds'[q][c] = holds[q][c]
      BY <1>4, <3>1 DEF Release, ChansWithout
    <3> QED
      BY <2>1, <3>2 DEF Silent
  <2>2. Fetching(q) => Fetching(q)'
    BY <1>4 DEF Release, Fetching
  <2> QED
    BY <1>4, <2>1, <2>2 DEF OwnKept, ChanKept
<1> QED
  BY <1>3, <1>4 DEF Undisturbed

LEMMA ReleaseBooks ==
  ASSUME TypeOK, NEW p \in Pid, Release(p), PipesSound, EndsApart,
         \A q \in Pid, c \in ChanId : holds'[q][c] \in {holds[q][c], NoEnd}
  PROVE  PipesSound' /\ EndsApart'
<1>0. pipes \in [PipeId -> Pipe] /\ chans \in [ChanId -> Chan] /\ byName \in [Names -> 0..MaxChan]
      /\ UNCHANGED <<nextPipe, nextChan>>
  BY DEF TypeOK, PipesType, ChansType, Release
<1>1. PipesSound'
  <2>1. \A i \in PipeId : \E r, w \in Nat : pipes'[i] = CloseEnds(pipes[i], r, w)
    BY EndsCount DEF Release, PipesWithout
  <2> QED
    BY <1>0, <2>1, EndsBooks
<1>2. ASSUME NEW c \in ChanId
      PROVE  chans'[c] = NoChan \/ chans'[c].pending = chans[c].pending
  BY <1>0 DEF Release, ChansWithout, Closed, Chan
<1>3. ChansUnused'
  <2>1. NoEnd \notin End
    BY DEF End, NoEnd
  <2> QED
    BY <1>0, <2>1 DEF Release, ChansWithout, EndsApart, ChansUnused
<1>4. ~NoChan.pending /\ NoEnd # 1
  BY DEF NoChan, NoEnd
<1>5. \A n \in Names : byName'[n] # 0 =>
        byName'[n] = byName[n] /\ byName[n] \in ChanId /\ chans'[byName[n]] # NoChan
  BY <1>0 DEF Release, ChanId
<1>6. NamesLead' /\ NamesApart'
  BY <1>0, <1>2, <1>5 DEF EndsApart, NamesLead, NamesApart
<1>7. UnmetAlone' /\ OneHolder'
  BY <1>2, <1>4 DEF EndsApart, UnmetAlone, OneHolder
<1> QED
  BY <1>1, <1>3, <1>6, <1>7 DEF EndsApart

LEMMA ExitSleepers ==
  ASSUME TypeOK, NEW p \in Pid, NEW code \in Codes, Exit(p, code), Live(p),
         workers \subseteq workers', turn'.doing = "ending" => turn'.pid = p,
         AllAccounted, Books
  PROVE  AllAccounted' /\ Books'
<1>0. /\ state \in [Pid -> ProcState] /\ blockedOn \in [Pid -> Reason] /\ parked \in [Pid -> Request]
      /\ exitCode \in [Pid -> Codes \cup {NoCode}] /\ code # NoCode
  BY NoCodeIsNone DEF TypeOK, WaitType, HostType, ProcType
<1>1. \A q \in Pid \ {p} : /\ (Live(q) <=> Live(q)') /\ Wakes(q, ExitReasons(p))
  BY <1>0 DEF Exit, Live, Known, Wakes, Runnable, Unblocked, Stashed, Waiting
<1>2. ~Live(p)' /\ NoneRevived
  BY <1>0, <1>1 DEF Exit, Live, NoneRevived
<1>3. Release(p) /\ UNCHANGED <<nextPid, fds, holds, stdin, signals, input, parked>>
  BY DEF Exit
<1>4. Undisturbed(p, ExitReasons(p))
  BY <1>1, <1>3, ReleaseSteady DEF Books, EndsApart
<1>5. AllAccounted'
  BY <1>1, <1>2, <1>4, DepartureAccounted
<1>6. PipesSound' /\ EndsApart'
  BY <1>3, ReleaseBooks DEF Books
<1>7. QueueStashed' /\ Unborn' /\ EndingDead'
  BY <1>2, <1>3 DEF Exit, Books, QueueStashed, Unborn, EndingDead, Stashed, Unblocked
<1> QED
  BY <1>5, <1>6, <1>7 DEF Books

LEMMA Kill9Sleepers ==
  ASSUME TypeOK, NEW p \in Pid, NEW t \in Pid, Kill9(p, t), AllAccounted, Books
  PROVE  AllAccounted' /\ Books'
<1>0. /\ state \in [Pid -> ProcState] /\ blockedOn \in [Pid -> Reason] /\ parked \in [Pid -> Request]
      /\ fds \in [Pid -> [Fd -> Desc]] /\ holds \in [Pid -> [ChanId -> End \cup {NoEnd}]]
      /\ stdin \in [Pid -> Nat] /\ input \in [Pid -> Nat] /\ signals \in [Pid -> Nat]
      /\ exitCode \in [Pid -> Codes \cup {NoCode}]
  BY DEF TypeOK, WaitType, HostType, ProcType
<1> DEFINE R == ExitReasons(t)
<1>1. /\ Release(t) /\ Forget(t) /\ queue = {} /\ turn = Idle /\ UNCHANGED turn
      /\ state' = [Runnable(R) EXCEPT ![t] = "none"]
      /\ blockedOn' = [Unblocked(R) EXCEPT ![t] = NotBlocked]
      /\ workers' = workers \ {t} /\ parked' = [parked EXCEPT ![t] = NoReq]
      /\ queue' = Stashed(Waiting(R)) \ {t}
  BY DEF Kill9, ParentOf, MaySignal, MayCall, AtRest
<1>2. \A q \in Pid \ {t} :
        /\ Live(q) <=> Live(q)'
        /\ fds'[q] = fds[q] /\ holds'[q] = holds[q] /\ stdin'[q] = stdin[q]
        /\ signals'[q] = signals[q] /\ input'[q] = input[q]
  BY <1>0, <1>1 DEF Forget, Live, Known, Runnable
<1>3. \A q \in Pid \ {t} : Wakes(q, R)
  BY <1>0, <1>1 DEF Wakes, Runnable, Unblocked, Stashed, Waiting
<1>4. ~Live(t)' /\ NoneRevived
  BY <1>0, <1>1, <1>2 DEF Live, Known, NoneRevived, Runnable
<1>5. Undisturbed(t, R)
  BY <1>1, <1>2, ReleaseSteady DEF Books, EndsApart
<1>6. AllAccounted'
  BY <1>3, <1>4, <1>5, DepartureAccounted
<1>7. PipesSound' /\ EndsApart'
  <2>1. \A q \in Pid, c \in ChanId : holds'[q][c] \in {holds[q][c], NoEnd}
    BY <1>0, <1>1 DEF Forget
  <2> QED
    BY <1>1, <2>1, ReleaseBooks DEF Books
<1>8. QueueStashed' /\ Unborn' /\ EndingDead'
  BY <1>0, <1>1 DEF Books, QueueStashed, Unborn, EndingDead, Stashed, Unblocked, Forget, Idle
<1> QED
  BY <1>6, <1>7, <1>8 DEF Books
-----------------------------------------------------------------------------
(***************************************************************************)
(* Signals, keys and answers; the host's own turns.                        *)
(***************************************************************************)

\* Something for p arrives, and p alone is nudged.
LEMMA NudgeSleepers ==
  ASSUME TypeOK, NEW p \in Pid, NEW STATE reason, Nudge(p, reason),
         \A q \in Pid \ {p} : OwnKept(q, {}), blockedOn[p] # reason => OwnKept(p, {reason}),
         UNCHANGED <<nextPid, exitCode, holds>>, UNCHANGED <<pipeVars, chanVars>>,
         AllAccounted, Books
  PROVE  AllAccounted' /\ Books'
<1>1. NoneRevived /\ LiveKept
  BY NudgeQuiet, TableKept
<1>2. Undisturbed(p, {})
  BY <1>1, SteadyWithoutPipes DEF Undisturbed, pipeVars
<1>3. AllAccounted'
  BY <1>1, <1>2, NudgeAccounted
<1> QED
  BY <1>1, <1>3, NudgeBooks, PipesKept, ChansKept DEF Books

LEMMA ArrivalSleepers ==
  ASSUME TypeOK, NEW p \in Pid, AllAccounted, Books,
         \/ \E q \in Pid : KillTerm(q, p)
         \/ \E n \in Nat : DeliverStdin(p, n) \/ DeliverInput(p, n)
         \/ DeliverNet(p)
  PROVE  AllAccounted' /\ Books'
<1>1. UNCHANGED <<nextPid, exitCode, fds, holds>> /\ UNCHANGED <<pipeVars, chanVars>>
  BY DEF KillTerm, DeliverStdin, DeliverInput, DeliverNet, procVars
<1>2. \A q \in Pid \ {p} : OwnKept(q, {})
  <2>1. \A q \in Pid \ {p} : /\ stdin'[q] = stdin[q] /\ signals'[q] = signals[q] /\ input'[q] = input[q]
                             /\ Fetching(q) => Fetching(q)'
    BY DEF KillTerm, DeliverStdin, DeliverInput, DeliverNet, procVars, netVars, Fetching, TypeOK, ProcType
  <2> QED
    BY <1>1, <2>1, OwnWithoutChans DEF chanVars
<1>3. ASSUME NEW reason, Nudge(p, reason), blockedOn[p] # reason => OwnKept(p, {reason})
      PROVE  AllAccounted' /\ Books'
  BY <1>1, <1>2, <1>3, NudgeSleepers
<1>4. \A R : ChanKept(p, R)
  BY <1>1 DEF ChanKept, Silent, chanVars
<1>5. CASE \E q \in Pid : KillTerm(q, p)
  <2>1. Nudge(p, On("sigWait", 0)) /\ UNCHANGED <<stdin, input>> /\ UNCHANGED netVars
    BY <1>5 DEF KillTerm
  <2>2. OwnKept(p, {On("sigWait", 0)})
    BY <1>1, <1>4, <2>1 DEF OwnKept, netVars, Fetching
  <2> QED
    BY <1>3, <2>1, <2>2
<1>6. CASE \E n \in Nat : DeliverStdin(p, n)
  <2>1. Nudge(p, On("stdin", 0)) /\ UNCHANGED <<signals, input>> /\ UNCHANGED netVars
    BY <1>6 DEF DeliverStdin
  <2>2. OwnKept(p, {On("stdin", 0)})
    BY <1>1, <1>4, <2>1 DEF OwnKept, netVars, Fetching
  <2> QED
    BY <1>3, <2>1, <2>2
<1>7. CASE \E n \in Nat : DeliverInput(p, n)
  <2>1. Nudge(p, On("input", 0)) /\ UNCHANGED <<signals, stdin>> /\ UNCHANGED netVars
    BY <1>7 DEF DeliverInput
  <2>2. OwnKept(p, {On("input", 0)})
    BY <1>1, <1>4, <2>1 DEF OwnKept, netVars, Fetching
  <2> QED
    BY <1>3, <2>1, <2>2
<1>8. CASE DeliverNet(p)
  <2>1. Nudge(p, On("netReq", 0)) /\ UNCHANGED <<signals, stdin, input>>
    BY <1>8 DEF DeliverNet, procVars
  <2>2. OwnKept(p, {On("netReq", 0)})
    BY <1>1, <1>4, <2>1 DEF OwnKept
  <2> QED
    BY <1>3, <2>1, <2>2
<1> QED
  BY <1>5, <1>6, <1>7, <1>8

\* A step that concerns neither what anyone waits for nor who waits.
LEMMA AsideSleepers ==
  ASSUME TypeOK, AllAccounted, Books, workers \subseteq workers',
         UNCHANGED <<nextPid, exitCode, fds, holds, stdin, input, parked, queue>>,
         UNCHANGED <<waitVars, pipeVars, chanVars, netVars>>,
         \A q \in Pid : parked[q] # NoReq => signals'[q] = signals[q],
         turn'.doing = "ending" => turn' = turn \/ ~Live(turn'.pid)
  PROVE  AllAccounted' /\ Books'
<1>1. NoneRevived /\ LiveKept
  BY DEF NoneRevived, LiveKept, Live, Known, waitVars
<1>2. \A q \in Pid : parked[q] # NoReq => OwnKept(q, {})
  BY OwnWithoutChans DEF chanVars, netVars, Fetching
<1>3. AllAccounted'
  BY <1>1, <1>2, StillAccounted, SteadyWithoutPipes DEF pipeVars
<1>4. EndingDead'
  BY DEF Books, EndingDead, Live, Known, waitVars
<1> QED
  BY <1>3, <1>4, PipesKept, ChansKept DEF Books, QueueStashed, Unborn, waitVars

LEMMA FinishSleepers ==
  ASSUME TypeOK, FinishExit, AllAccounted, Books
  PROVE  AllAccounted' /\ Books'
<1>1. /\ state \in [Pid -> ProcState] /\ blockedOn \in [Pid -> Reason] /\ parked \in [Pid -> Request]
  BY DEF TypeOK, WaitType, HostType
<1>2. PICK t \in Pid : t = turn.pid
  BY DEF FinishExit, TypeOK, HostType, Turn
<1>3. /\ ~Live(t) /\ queue = {} /\ turn' = Idle
      /\ parked' = [parked EXCEPT ![t] = NoReq] /\ workers' = workers \ {t}
      /\ UNCHANGED <<nextPid, exitCode, signals, fds, holds, stdin, input>>
      /\ UNCHANGED <<waitVars, queue, pipeVars, chanVars, netVars>>
  BY <1>2 DEF FinishExit, Books, EndingDead, procVars
<1>4. NoneRevived /\ LiveKept /\ ~Live(t)'
  BY <1>3 DEF NoneRevived, LiveKept, Live, Known, waitVars
<1>5. \A q \in Pid \ {t} : Wakes(q, {})
  BY <1>1, <1>3 DEF Wakes, Runnable, Unblocked, waitVars
<1>6. Undisturbed(t, {})
  BY <1>3, <1>4, SteadyWithoutPipes, OwnWithoutChans DEF Undisturbed, pipeVars, chanVars, netVars, Fetching
<1>7. AllAccounted'
  BY <1>4, <1>5, <1>6, DepartureAccounted
<1>8. QueueStashed' /\ Unborn' /\ EndingDead'
  BY <1>1, <1>3 DEF Books, QueueStashed, Unborn, EndingDead, Idle, waitVars
<1> QED
  BY <1>3, <1>7, <1>8, PipesKept, ChansKept DEF Books
-----------------------------------------------------------------------------
(***************************************************************************)
(* Every step.                                                             *)
(***************************************************************************)
LEMMA CallerServing ==
  ASSUME Lifecycle, AllAccounted, NEW p \in Pid, MayCall(p)
  PROVE  Serving(p)
<1>1. Awake(p) /\ p \in workers /\ Known(p)
  BY DEF MayCall, AllAccounted, Accounted, Live
<1>2. p < nextPid
  BY <1>1 DEF Lifecycle, Fresh, TypeOK, ProcType, Pid
<1> QED
  BY <1>1, <1>2 DEF Serving, MyTurn, Awake

LEMMA RedrivenServing ==
  ASSUME Lifecycle, AllAccounted, Books, NEW p \in Pid, p \in queue
  PROVE  Serving(p)
<1>1. parked[p] # NoReq
  BY DEF Books, QueueStashed
<1>2. Live(p) => Woken(p)
  BY <1>1 DEF AllAccounted, Accounted, Asleep
<1>3. p < nextPid
  BY <1>1 DEF Books, Unborn, Lifecycle, TypeOK, ProcType, Pid
<1> QED
  BY <1>2, <1>3 DEF Serving, MyTurn, Woken

LEMMA ServeSleepers ==
  ASSUME TypeOK, NEW p \in Pid, NEW STATE r, r \in Request, Serve(p, r),
         AllAccounted, Books, Serving(p)
  PROVE  AllAccounted' /\ Books'
BY FdReadSleepers, FdWriteSleepers, KWaitSleepers, ChanRecvSleepers, OwnCallSleepers DEF Serve

LEMMA GuestCallSleepers ==
  ASSUME Lifecycle, NEW p \in Pid, GuestCall(p), AllAccounted, Books
  PROVE  AllAccounted' /\ Books'
<1>0. TypeOK
  BY DEF Lifecycle
<1>1. CASE Issue(p)
  <2>1. PICK r \in Offered(p) : Serve(p, r)
    BY <1>1 DEF Issue
  <2>2. r \in Request /\ Serving(p)
    BY <1>0, <1>1, OfferedType, CallerServing DEF Issue
  <2> QED
    BY <1>0, <2>1, <2>2, ServeSleepers
<1>2. CASE KPipe(p)
  BY <1>0, <1>2, KPipeSleepers
<1>3. CASE \E fd \in Fd : FdClose(p, fd)
  <2>1. PICK fd \in Fd : FdClose(p, fd)
    BY <1>3
  <2>2. Serving(p) /\ fds[p][fd] \in Desc /\ \A q \in Pid \ {p} : fds'[q] = fds[q]
    BY <1>0, <2>1, CallerServing DEF FdClose, TypeOK, ProcType
  <2> QED
    BY <1>0, <2>1, <2>2, ClosesSleepers DEF FdClose
<1>4. CASE \E old \in Fd, new \in RenumberTo : FdRenumber(p, old, new)
  <2>1. PICK old \in Fd, new \in Fd : FdRenumber(p, old, new)
    BY <1>4, KernelAssumption
  <2>2. Serving(p) /\ fds[p][new] \in Desc /\ \A q \in Pid \ {p} : fds'[q] = fds[q]
    BY <1>0, <2>1, CallerServing DEF FdRenumber, TypeOK, ProcType
  <2> QED
    BY <1>0, <2>1, <2>2, ClosesSleepers DEF FdRenumber
<1>5. CASE SpawnAny(p)
  BY <1>5, SpawnSleepers
<1>6. CASE \E code \in ExitCodes : ProcExit(p, code)
  <2>1. PICK code \in Codes : ProcExit(p, code)
    BY <1>6 DEF Codes
  <2>2. Exit(p, code) /\ Live(p) /\ workers' = workers /\ turn'.doing # "ending"
    BY <2>1 DEF ProcExit, MayCall, AtRest, Idle
  <2> QED
    BY <1>0, <2>2, ExitSleepers
<1>7. CASE \E t \in Pid : Kill9(p, t)
  BY <1>0, <1>7, Kill9Sleepers
<1>8. CASE \E t \in Pid : KillTerm(p, t)
  BY <1>0, <1>8, ArrivalSleepers
<1>9. CASE \E name \in Names : ChanOpen(p, name)
  BY <1>0, <1>9, ChanOpenSleepers
<1>10. CASE \E c \in ChanId, msg \in Msg : ChanSend(p, c, msg)
  <2>1. Serving(p)
    BY <1>10, CallerServing DEF ChanSend
  <2> QED
    BY <1>0, <1>10, <2>1, ChanSendSleepers
<1>11. CASE ProcRaise(p) \/ ShmCreate(p) \/ (\E s \in ShmId, t \in Pid : ShmGrant(p, s, t)) \/ WinSurface(p)
  <2>1. parked[p] = NoReq /\ workers' = workers /\ turn' = turn
        /\ UNCHANGED <<nextPid, exitCode, fds, holds, stdin, input, parked, queue>>
        /\ UNCHANGED <<waitVars, pipeVars, chanVars, netVars>>
    BY <1>11 DEF ProcRaise, ShmCreate, ShmGrant, WinSurface, MayCall, procVars, hostVars
  <2>2. \A q \in Pid : parked[q] # NoReq => signals'[q] = signals[q]
    BY <1>0, <1>11, <2>1 DEF ProcRaise, ShmCreate, ShmGrant, WinSurface, procVars, TypeOK, ProcType
  <2> QED
    BY <1>0, <2>1, <2>2, AsideSleepers
<1> QED
  BY <1>1, <1>2, <1>3, <1>4, <1>5, <1>6, <1>7, <1>8, <1>9, <1>10, <1>11 DEF GuestCall

LEMMA HostExitSleepers ==
  ASSUME TypeOK, NEW p \in Pid, NEW code \in Codes, HostExit(p, code), AllAccounted, Books
  PROVE  AllAccounted' /\ Books'
<1>1. turn' = Ending(p) /\ workers' = workers
  BY DEF HostExit
<1>2. CASE Live(p)
  BY <1>1, <1>2, ExitSleepers DEF HostExit, Unrecorded, Ending
<1>3. CASE ~Live(p)
  <2>1. UNCHANGED <<nextPid, exitCode, fds, holds, stdin, signals, input, parked, queue>>
        /\ UNCHANGED <<waitVars, pipeVars, chanVars, netVars>>
    BY <1>3 DEF HostExit, Unrecorded, procVars
  <2> QED
    BY <1>1, <1>3, <2>1, AsideSleepers DEF Ending
<1> QED
  BY <1>2, <1>3

LEMMA SleepersNext ==
  ASSUME Sleepers, [Next]_vars
  PROVE  Sleepers'
<1>0. TypeOK /\ Lifecycle /\ Lifecycle' /\ AllAccounted /\ Books
  BY LifecycleNext DEF Sleepers, Lifecycle, Books
<1>1. CASE Launch
  BY <1>0, <1>1, LaunchSleepers DEF Sleepers, Books
<1>2. CASE \E p \in Pid : Redrive(p)
  <2>1. PICK p \in Pid : Redrive(p)
    BY <1>2
  <2>2. p \in queue /\ Serve(p, parked[p]) /\ parked[p] \in Request
    BY <1>0, <2>1 DEF Redrive, TypeOK, HostType
  <2>3. AllAccounted' /\ Books'
    BY <1>0, <2>2, RedrivenServing, ServeSleepers
  <2> QED
    BY <1>0, <2>3 DEF Sleepers, Books
<1>3. CASE FinishExit
  BY <1>0, <1>3, FinishSleepers DEF Sleepers, Books
<1>4. CASE StartChild \/ UNCHANGED vars
  <2>1. /\ UNCHANGED <<nextPid, exitCode, fds, holds, stdin, signals, input, parked, queue>>
        /\ UNCHANGED <<waitVars, pipeVars, chanVars, netVars>> /\ workers \subseteq workers'
        /\ turn' \in {turn, Idle}
    BY <1>4 DEF StartChild, vars, procVars, hostVars
  <2>2. AllAccounted' /\ Books'
    BY <1>0, <2>1, AsideSleepers DEF Idle
  <2> QED
    BY <1>0, <2>2 DEF Sleepers, Books
<1>5. CASE SpawnFailed
  <2>1. turn.pid \in Pid /\ Live(turn.pid) /\ Exit(turn.pid, 127) /\ 127 \in Codes
    BY <1>0, <1>5 DEF SpawnFailed, TypeOK, HostType, Turn, Codes, Lifecycle, StartingLive
  <2>2. workers' = workers /\ turn'.doing # "ending"
    BY <1>5 DEF SpawnFailed, Idle
  <2>3. AllAccounted' /\ Books'
    BY <1>0, <2>1, <2>2, ExitSleepers
  <2> QED
    BY <1>0, <2>3 DEF Sleepers, Books
<1>6. ASSUME NEW p \in Pid, GuestCall(p) PROVE Sleepers'
  BY <1>0, <1>6, GuestCallSleepers DEF Sleepers, Books
<1>7. ASSUME NEW p \in Pid, HostEvent(p) PROVE Sleepers'
  <2>1. CASE (\E code \in ExitCodes : WorkerExit(p, code)) \/ HostKill(p)
    <3>1. \E code \in Codes : HostExit(p, code)
      BY <2>1 DEF WorkerExit, HostKill, Codes
    <3> QED
      BY <1>0, <3>1, HostExitSleepers DEF Sleepers, Books
  <2>2. CASE (\E n \in Nat : DeliverStdin(p, n) \/ DeliverInput(p, n)) \/ DeliverNet(p)
    BY <1>0, <2>2, ArrivalSleepers DEF Sleepers, Books
  <2> QED
    BY <1>7, <2>1, <2>2, KernelAssumption DEF HostEvent
<1> QED
  BY <1>1, <1>2, <1>3, <1>4, <1>5, <1>6, <1>7 DEF Next, HostTurn

LEMMA SleepersInit == Init => Sleepers
<1> SUFFICES ASSUME Init PROVE Sleepers
  OBVIOUS
<1>1. Lifecycle
  BY LifecycleInit
<1>2. AllAccounted /\ QueueStashed /\ Unborn /\ EndingDead /\ PipesUnused
  BY DEF Init, AllAccounted, Accounted, Awake, QueueStashed, Unborn, EndingDead, PipesUnused, Idle
<1>3. EndsApart
  BY DEF Init, EndsApart, ChansUnused, NamesLead, NamesApart, UnmetAlone, OneHolder, NoEnd, NoChan
<1>4. PipesFit
  BY EmptySeq, PipeAssumption DEF Init, PipesFit, NoPipe
<1> QED
  BY <1>1, <1>2, <1>3, <1>4 DEF Sleepers, PipesSound

LEMMA SleepersAlways == Spec => []Sleepers
BY SleepersInit, SleepersNext, PTL DEF Spec

-----------------------------------------------------------------------------
(***************************************************************************)
(* The theorems.                                                           *)
(***************************************************************************)
\* A sleeper's call could still not finish.
LEMMA AsleepWouldPark ==
  ASSUME TypeOK, NEW p \in Pid, AsleepOn(p, parked[p])
  PROVE  WouldPark(p, parked[p])
<1>1. PICK r \in Request : r = parked[p]
  BY DEF TypeOK, HostType
<1> QED
  BY <1>1 DEF AsleepOn, WouldPark, Starved, Stuffed, Silent, Fetching

\* What fd_ready() answers is what a call would find, whichever way the pipe is.
LEMMA ReadyAgrees ==
  ASSUME TypeOK, PipesFit, NEW p \in Pid, NEW fd \in Fd, NEW writable \in BOOLEAN,
         fds[p][fd].kind \in Pollable(writable)
  PROVE  LET call == [call |-> IF writable THEN "fdWrite" ELSE "fdRead", arg |-> fd]
         IN  FdReady(p, fd, writable) <=> ~WouldPark(p, call)
<1> DEFINE d == fds[p][fd]
<1>1. d \in Desc /\ pipes \in [PipeId -> Pipe] /\ stdin[p] \in Nat
  BY DEF TypeOK, ProcType, PipesType
<1>2. CASE d.kind = "stdin" /\ ~writable
  BY <1>1, <1>2 DEF FdReady, WouldPark
<1>3. CASE d.kind = "pipeRead" /\ ~writable
  BY <1>3 DEF FdReady, WouldPark
<1>4. CASE d.kind = "pipeWrite" /\ writable
  <2>1. d.id \in PipeId
    BY <1>1, <1>4 DEF Desc, PipeKind
  <2>2. Space(pipes[d.id]) \in Nat
    <3>1. Len(pipes[d.id].buf) \in Nat /\ Len(pipes[d.id].buf) <= Capacity
      BY <1>1, <2>1 DEF Pipe, PipesFit
    <3>2. Capacity - Len(pipes[d.id].buf) \in Nat
      <4> HIDE DEF d
      <4> QED
        BY <3>1, PipeAssumption
    <3>3. Space(pipes[d.id]) = Capacity - Len(pipes[d.id].buf) \/ Space(pipes[d.id]) = 0
      BY DEF Space
    <3> QED
      BY <3>2, <3>3
  <2> QED
    BY <1>4, <2>2 DEF FdReady, WouldPark
<1> QED
  BY <1>2, <1>3, <1>4 DEF Pollable

\* No wakeup is lost, for any number of processes and any mixture of calls, exits,
\* kills and deliveries: whoever sleeps would still have to, or is queued to be
\* driven again, and whoever polls is told the same.
THEOREM WakeupsKept == Spec => []NoLostWakeup
<1>1. Sleepers => NoLostWakeup
  BY AsleepWouldPark, ReadyAgrees
     DEF Sleepers, Lifecycle, PipesSound, AllAccounted, Accounted, Woken, Asleep, NoLostWakeup
<1> QED
  BY <1>1, SleepersAlways, PTL

\* The kernel's blocked_on and the host's parked map, which different code keeps,
\* name the same sleepers, and each of them has a worker to answer.
THEOREM HalvesAgree == Spec => []ParkedAgrees
<1>1. Sleepers => ParkedAgrees
  BY AsleepWaits DEF Sleepers, AllAccounted, Accounted, Awake, Woken, Asleep, ParkedAgrees
<1> QED
  BY <1>1, SleepersAlways, PTL

(***************************************************************************)
(* What the dead leave to the living: no response is kept for a process    *)
(* that is gone and did not sleep in its net_request, no peer is waited    *)
(* for that cannot come, exit and wait keep the promise of WaitService,    *)
(* and the counts of every pipe are the descriptors the living have.       *)
(***************************************************************************)
\* A child whose worker is about to start has made no call, and nothing else runs.
StartingSilent == turn.doing = "starting" => queue = {} /\ parked[turn.pid] = NoReq

\* The user may close the window of a process that sleeps in a net_request: nothing
\* drives the call again before the host forgets it.
FetchEnds ==
  \A p \in Pid : ~Live(p) /\ parked[p].call = "netRequest" =>
    turn = Ending(p) /\ p \notin queue /\ blockedOn[p] \in {NotBlocked, On("netReq", 0)}

\* No other dead process waits for a response.
TornAway == \A p \in Pid : Awaited(p) => Live(p) \/ p \in torn

Leaving == StartingSilent /\ FetchEnds /\ TornAway

Departures == Sleepers /\ Leaving

LEMMA DepartureFacts ==
  ASSUME Departures
  PROVE  /\ TypeOK /\ Lifecycle /\ AllAccounted /\ Books
         /\ state \in [Pid -> ProcState] /\ blockedOn \in [Pid -> Reason]
         /\ parked \in [Pid -> Request] /\ exitCode \in [Pid -> Codes \cup {NoCode}]
         /\ Leaving
BY DEF Departures, Sleepers, Lifecycle, Books, TypeOK, WaitType, HostType, ProcType

\* A step that does not tear a caller away from its call, while the host ends nobody.
LEMMA CalmLeaves ==
  ASSUME Departures, turn.doing # "ending", turn'.doing # "starting", torn \subseteq torn',
         \A q \in Pid : ~Live(q)' =>
           \/ /\ ~Live(q) /\ parked'[q] \in {parked[q], NoReq}
              /\ blockedOn'[q] \in {blockedOn[q], NotBlocked}
           \/ parked'[q] = NoReq /\ blockedOn'[q] = NotBlocked
  PROVE  Leaving'
<1>1. NoReq.call = "none" /\ NotBlocked # On("netReq", 0)
  BY DEF NoReq, Req, NotBlocked, On
<1>2. \A q \in Pid : ~Live(q) => parked[q].call # "netRequest"
  BY DEF Departures, Leaving, FetchEnds, Ending
<1>3. StartingSilent'
  BY DEF StartingSilent
<1>4. FetchEnds'
  BY <1>1, <1>2 DEF FetchEnds
<1>5. TornAway'
  BY <1>1 DEF Departures, Leaving, TornAway, Awaited
<1> QED
  BY <1>3, <1>4, <1>5 DEF Leaving

LEMMA SameTableLive ==
  ASSUME SameTable, UNCHANGED exitCode
  PROVE  \A q \in Pid : Live(q)' <=> Live(q)
BY DEF SameTable, Live

\* Whoever is serviced is alive, or is driven again in another call than net_request.
LEMMA ServedFacts ==
  ASSUME Departures, NEW p \in Pid, NEW STATE r, MayCall(p) \/ (p \in queue /\ r = parked[p])
  PROVE  Serving(p) /\ turn.doing # "starting" /\ (r.call = "netRequest" => Live(p))
<1>1. CASE MayCall(p)
  BY <1>1, CallerServing, DepartureFacts DEF MayCall, AtRest, Idle
<1>2. CASE p \in queue /\ r = parked[p]
  <2>1. Serving(p)
    BY <1>2, RedrivenServing, DepartureFacts
  <2> QED
    BY <1>2, <2>1 DEF Departures, Leaving, StartingSilent, FetchEnds
<1> QED
  BY <1>1, <1>2

\* No reply gives what a net_request waits for.
LEMMA ReplyLeaves ==
  ASSUME Departures, NEW p \in Pid, NEW STATE reasons, Reply(p, reasons),
         On("netReq", 0) \notin reasons, NotBlocked \notin reasons,
         UNCHANGED <<exitCode, torn>>, turn.doing # "starting"
  PROVE  Leaving'
<1>1. \A q \in Pid : Live(q)' <=> Live(q)
  BY ReplyQuiet, SameTableLive, DepartureFacts
<1>2. /\ turn' = turn
      /\ \A q \in Pid : parked'[q] \in {parked[q], NoReq}
      /\ \A q \in Pid : blockedOn'[q] \in {blockedOn[q], NotBlocked}
  BY DepartureFacts DEF Reply, Wake, Unblocked, Complete
<1>3. \A q \in Pid : q \in queue' => q \in queue \/ blockedOn[q] \in reasons
  BY DEF Reply, Complete, Stashed, Waiting
<1>4. NoReq.call = "none" /\ NotBlocked # On("netReq", 0)
  BY DEF NoReq, Req, NotBlocked, On
<1>5. StartingSilent'
  BY <1>2 DEF StartingSilent
<1>6. FetchEnds'
  <2> SUFFICES ASSUME NEW q \in Pid, ~Live(q)', parked'[q].call = "netRequest"
               PROVE  turn' = Ending(q) /\ q \notin queue' /\ blockedOn'[q] \in {NotBlocked, On("netReq", 0)}
    BY DEF FetchEnds
  <2>1. ~Live(q) /\ parked[q].call = "netRequest"
    BY <1>1, <1>2, <1>4
  <2>2. turn = Ending(q) /\ q \notin queue /\ blockedOn[q] \in {NotBlocked, On("netReq", 0)}
    BY <2>1 DEF Departures, Leaving, FetchEnds
  <2> QED
    BY <1>2, <1>3, <2>2
<1>7. TornAway'
  BY <1>1, <1>2, <1>4 DEF Departures, Leaving, TornAway, Awaited
<1> QED
  BY <1>5, <1>6, <1>7 DEF Leaving

LEMMA ParkLeaves ==
  ASSUME Departures, NEW p \in Pid, NEW STATE r, NEW STATE reason, Park(p, r, reason),
         ~Live(p) => r.call # "netRequest" /\ reason # On("netReq", 0),
         UNCHANGED <<exitCode, torn>>, turn.doing # "starting"
  PROVE  Leaving'
<1>1. \A q \in Pid : Live(q)' <=> Live(q)
  BY ParkQuiet, SameTableLive, DepartureFacts
<1>2. /\ turn' = turn /\ queue' \subseteq queue
      /\ parked'[p] = r /\ (blockedOn'[p] = reason \/ blockedOn'[p] = blockedOn[p])
      /\ \A q \in Pid \ {p} : parked'[q] = parked[q] /\ blockedOn'[q] = blockedOn[q]
  BY DepartureFacts DEF Park, Block, waitVars
<1>3. StartingSilent'
  BY <1>2 DEF StartingSilent
<1>4. FetchEnds'
  <2> SUFFICES ASSUME NEW q \in Pid, ~Live(q)', parked'[q].call = "netRequest"
               PROVE  turn' = Ending(q) /\ q \notin queue' /\ blockedOn'[q] \in {NotBlocked, On("netReq", 0)}
    BY DEF FetchEnds
  <2>1. q # p /\ ~Live(q) /\ parked[q].call = "netRequest"
    BY <1>1, <1>2
  <2> QED
    BY <1>2, <2>1 DEF Departures, Leaving, FetchEnds
<1>5. TornAway'
  BY <1>1, <1>2 DEF Departures, Leaving, TornAway, Awaited
<1> QED
  BY <1>3, <1>4, <1>5 DEF Leaving

LEMMA NudgeLeaves ==
  ASSUME Departures, NEW p \in Pid, NEW STATE reason, Nudge(p, reason), AtRest,
         UNCHANGED <<exitCode, torn>>
  PROVE  Leaving'
<1>1. \A q \in Pid : Live(q)' <=> Live(q)
  BY NudgeQuiet, SameTableLive, DepartureFacts
<1>2. /\ UNCHANGED <<parked, turn>>
      /\ \A q \in Pid : blockedOn'[q] \in {blockedOn[q], NotBlocked}
  BY DepartureFacts DEF Nudge, waitVars, hostVars
<1> QED
  BY <1>1, <1>2, CalmLeaves DEF AtRest, Idle

\* Only a window closed over a process asleep in its net_request tears it away.
LEMMA ExitLeft ==
  ASSUME Departures, NEW p \in Pid, NEW code \in Codes, Exit(p, code), parked[p] = NoReq, Live(p),
         turn.doing # "ending", turn'.doing # "starting"
  PROVE  Leaving'
<1>1. blockedOn[p] = NotBlocked
  BY DepartureFacts DEF AllAccounted, Accounted, Awake
<1>2. \A q \in Pid : blockedOn'[q] \in {blockedOn[q], NotBlocked} /\ parked'[q] = parked[q]
  BY DepartureFacts DEF Exit, Unblocked
<1>3. \A q \in Pid \ {p} : ~Live(q)' => ~Live(q)
  BY DepartureFacts DEF Exit, Live, Known, Runnable
<1>4. torn \subseteq torn'
  BY DEF Exit
<1> QED
  BY <1>1, <1>2, <1>3, <1>4, CalmLeaves

LEMMA HostExitLeaves ==
  ASSUME Departures, NEW p \in Pid, NEW code \in Codes, HostExit(p, code), Live(p)
  PROVE  Leaving'
<1>1. Exit(p, code) /\ AtRest /\ turn' = Ending(p)
  BY DEF HostExit, Unrecorded
<1>2. \A q \in Pid : blockedOn'[q] \in {blockedOn[q], NotBlocked} /\ parked'[q] = parked[q]
  BY <1>1, DepartureFacts DEF Exit, Unblocked
<1>3. \A q \in Pid \ {p} : ~Live(q)' => ~Live(q)
  BY <1>1, DepartureFacts DEF Exit, Live, Known, Runnable
<1>4. NotBlocked # On("netReq", 0)
  BY DEF NotBlocked, On
<1>5. StartingSilent'
  BY <1>1 DEF StartingSilent, Ending
<1>6. TornAway'
  <2> SUFFICES ASSUME NEW q \in Pid, Awaited(q)', ~Live(q)' PROVE q \in torn'
    BY DEF TornAway
  <2>1. Awaited(q)
    BY <1>2, <1>4 DEF Awaited
  <2>2. CASE q = p
    BY <1>1, <2>1, <2>2 DEF Exit
  <2>3. CASE q # p
    BY <1>1, <1>3, <2>1, <2>3 DEF Exit, Departures, Leaving, TornAway
  <2> QED
    BY <2>2, <2>3
<1>7. FetchEnds'
  <2> SUFFICES ASSUME NEW q \in Pid, ~Live(q)', parked'[q].call = "netRequest"
               PROVE  turn' = Ending(q) /\ q \notin queue' /\ blockedOn'[q] \in {NotBlocked, On("netReq", 0)}
    BY DEF FetchEnds
  <2>1. parked[q].call = "netRequest"
    BY <1>2
  <2>2. q = p
    BY <1>1, <1>3, <2>1 DEF Departures, Leaving, FetchEnds, AtRest, Idle, Ending
  <2>3. parked[q] # NoReq /\ queue = {}
    BY <1>1, <2>1 DEF NoReq, Req, AtRest
  <2>4. Asleep(p)
    BY <2>2, <2>3, DepartureFacts DEF AllAccounted, Accounted, Woken
  <2>5. blockedOn[p] = On("netReq", 0)
    BY <2>1, <2>2, <2>4 DEF Asleep, AsleepOn
  <2>6. On("netReq", 0) \notin ExitReasons(p)
    BY DEF ExitReasons, On, OnChanRecv
  <2>7. q \notin queue'
    BY <1>1, <2>2, <2>3, <2>5, <2>6 DEF Exit, Stashed, Waiting
  <2> QED
    BY <1>1, <1>2, <2>2, <2>5, <2>7
<1> QED
  BY <1>5, <1>6, <1>7 DEF Leaving

LEMMA Kill9Leaves ==
  ASSUME Departures, NEW p \in Pid, NEW t \in Pid, Kill9(p, t)
  PROVE  Leaving'
<1>1. turn = Idle /\ UNCHANGED <<turn, torn>>
  <2>1. MayCall(p)
    BY DEF Kill9, MaySignal
  <2>2. UNCHANGED <<turn, torn>>
    BY DEF Kill9
  <2> QED
    BY <2>1, <2>2 DEF MayCall, AtRest
<1>2. parked'[t] = NoReq /\ blockedOn'[t] = NotBlocked
  BY DepartureFacts DEF Kill9, ParentOf, Unblocked
<1>3. \A q \in Pid \ {t} : /\ ~Live(q)' => ~Live(q)
                           /\ parked'[q] = parked[q] /\ blockedOn'[q] \in {blockedOn[q], NotBlocked}
  BY DepartureFacts DEF Kill9, ParentOf, Forget, Live, Known, Runnable, Unblocked
<1> QED
  BY <1>1, <1>2, <1>3, CalmLeaves DEF Idle

LEMMA CollectsLeaves ==
  ASSUME Departures, NEW p \in Pid, NEW c \in Pid, WaitCollects(p, c), UNCHANGED torn,
         turn.doing # "starting"
  PROVE  Leaving'
<1>1. /\ turn' = turn /\ queue' \subseteq queue
      /\ \A q \in Pid : parked'[q] \in {parked[q], NoReq}
  BY DepartureFacts DEF WaitCollects, Complete, Stashed
<1>2. \A q \in Pid : blockedOn'[q] \in {blockedOn[q], NotBlocked} /\ (~Live(q)' => ~Live(q))
  <2>1. CASE state[c] = "zombie"
    BY <2>1, DepartureFacts DEF WaitCollects, Reap, Forget, Live, Known
  <2>2. CASE state[c] # "zombie"
    BY <2>2 DEF WaitCollects, Reap, procVars, waitVars, Live, Known
  <2> QED
    BY <2>1, <2>2
<1>3. NoReq.call = "none" /\ NotBlocked # On("netReq", 0)
  BY DEF NoReq, Req, NotBlocked, On
<1>4. StartingSilent'
  BY <1>1 DEF StartingSilent
<1>5. FetchEnds'
  <2> SUFFICES ASSUME NEW q \in Pid, ~Live(q)', parked'[q].call = "netRequest"
               PROVE  turn' = Ending(q) /\ q \notin queue' /\ blockedOn'[q] \in {NotBlocked, On("netReq", 0)}
    BY DEF FetchEnds
  <2>1. ~Live(q) /\ parked[q].call = "netRequest"
    BY <1>1, <1>2, <1>3
  <2> QED
    BY <1>1, <1>2, <2>1 DEF Departures, Leaving, FetchEnds
<1>6. TornAway'
  <2> SUFFICES ASSUME NEW q \in Pid, Awaited(q)', ~Live(q)' PROVE q \in torn'
    BY DEF TornAway
  <2> QED
    BY <1>2, <1>3 DEF Awaited, Departures, Leaving, TornAway
<1> QED
  BY <1>4, <1>5, <1>6 DEF Leaving

LEMMA ServeLeaves ==
  ASSUME Departures, NEW p \in Pid, NEW STATE r, r \in Request, Serve(p, r),
         r.call = "netRequest" => Live(p), turn.doing # "starting"
  PROVE  Leaving'
<1>1. /\ \A i \in Nat, why \in Blocking \ {"netReq"} : On(why, i) # On("netReq", 0)
      /\ \A c, e : OnChanRecv(c, e) # On("netReq", 0)
  BY DEF On, OnChanRecv
<1>2. CASE FdRead(p, r)
  <2>1. UNCHANGED <<exitCode, torn>> /\ r.call # "netRequest"
    BY <1>2 DEF FdRead, ReadPipe, ReadStdin, ReadParks, ReadReturns, procVars, netVars
  <2>2. \A i : On("pipeWrite", i) # On("netReq", 0) /\ On("pipeWrite", i) # NotBlocked
               /\ On("pipeRead", i) # On("netReq", 0) /\ On("stdin", i) # On("netReq", 0)
    BY DEF On, NotBlocked
  <2>3. CASE ReadPipe(p, r)
    BY <2>1, <2>2, <2>3, ReplyLeaves DEF ReadPipe
  <2>4. CASE ReadStdin(p, r) \/ ReadReturns(p, r)
    BY <2>1, <2>4, ReplyLeaves DEF ReadStdin, ReadReturns
  <2>5. CASE ReadParks(p, r)
    BY <2>1, <2>2, <2>5, ParkLeaves DEF ReadParks
  <2> QED
    BY <1>2, <2>3, <2>4, <2>5 DEF FdRead
<1>3. CASE FdWrite(p, r)
  <2>1. UNCHANGED <<exitCode, torn>> /\ r.call # "netRequest"
    BY <1>3 DEF FdWrite, procVars, netVars
  <2>2. \A i : On("pipeRead", i) # On("netReq", 0) /\ On("pipeRead", i) # NotBlocked
               /\ On("pipeWrite", i) # On("netReq", 0)
    BY DEF On, NotBlocked
  <2>3. CASE WritePipe(p, r)
    BY <2>1, <2>2, <2>3, ReplyLeaves DEF WritePipe
  <2>4. CASE WriteReturns(p, r)
    BY <2>1, <2>4, ReplyLeaves DEF WriteReturns
  <2>5. CASE WriteParks(p, r)
    BY <2>1, <2>2, <2>5, ParkLeaves DEF WriteParks
  <2> QED
    BY <1>3, <2>3, <2>4, <2>5 DEF FdWrite
<1>4. CASE KWait(p, r)
  <2>1. UNCHANGED torn /\ r.call # "netRequest"
    BY <1>4 DEF KWait, netVars
  <2>2. PICK c \in Pid : c = r.arg
    BY <1>4 DEF KWait, Request, Of
  <2>3. CASE WaitCollects(p, c)
    BY <2>1, <2>3, CollectsLeaves
  <2>4. CASE WaitFindsNone(p, c)
    BY <2>1, <2>4, ReplyLeaves DEF WaitFindsNone, procVars
  <2>5. CASE WaitParks(p, r)
    <3>1. On("wait", r.arg) # On("netReq", 0)
      BY DEF On
    <3> QED
      BY <2>1, <2>5, <3>1, ParkLeaves DEF WaitParks, procVars
  <2> QED
    BY <1>4, <2>2, <2>3, <2>4, <2>5 DEF KWait
<1>5. CASE SigWait(p, r)
  <2>1. UNCHANGED <<exitCode, torn>> /\ r.call # "netRequest" /\ On("sigWait", 0) # On("netReq", 0)
    BY <1>5 DEF SigWait, netVars, On
  <2> QED
    BY <1>5, <2>1, ReplyLeaves, ParkLeaves DEF SigWait
<1>6. CASE ChanRecv(p, r)
  <2>1. UNCHANGED <<exitCode, torn>> /\ r.call # "netRequest"
    BY <1>6 DEF ChanRecv, procVars, netVars
  <2> QED
    BY <1>1, <1>6, <2>1, ReplyLeaves, ParkLeaves DEF ChanRecv
<1>7. CASE WinReadInput(p, r)
  <2>1. UNCHANGED <<exitCode, torn>> /\ r.call # "netRequest" /\ On("input", 0) # On("netReq", 0)
    BY <1>7 DEF WinReadInput, netVars, On
  <2> QED
    BY <1>7, <2>1, ReplyLeaves, ParkLeaves DEF WinReadInput
<1>8. CASE NetRequest(p, r)
  <2>1. UNCHANGED <<exitCode, torn>> /\ r.call = "netRequest"
    BY <1>8 DEF NetRequest, procVars
  <2> QED
    BY <1>8, <2>1, ReplyLeaves, ParkLeaves DEF NetRequest
<1> QED
  BY <1>2, <1>3, <1>4, <1>5, <1>6, <1>7, <1>8 DEF Serve

\* Steps that neither put to sleep nor wake, and end nobody.
LEMMA AsideLeaves ==
  ASSUME Departures, UNCHANGED <<state, blockedOn, exitCode, parked, torn>>,
         turn.doing # "ending", turn'.doing # "starting"
  PROVE  Leaving'
<1>1. \A q \in Pid : Live(q)' <=> Live(q)
  BY DEF Live, Known
<1> QED
  BY <1>1, CalmLeaves

LEMMA BirthLeaves ==
  ASSUME Departures, AtRest, nextPid \in Pid, state' = [state EXCEPT ![nextPid] = "ready"],
         UNCHANGED <<blockedOn, exitCode, parked, queue, torn>>,
         turn' \in {turn, Starting(nextPid)}
  PROVE  Leaving'
<1>1. ~Known(nextPid) /\ parked[nextPid] = NoReq /\ blockedOn[nextPid] = NotBlocked
  BY DepartureFacts DEF Lifecycle, Fresh, Books, Unborn, TypeOK, ProcType, Pid
<1>2. \A q \in Pid : ~Live(q)' => ~Live(q)
  BY <1>1, DepartureFacts DEF Live, Known
<1>3. queue = {} /\ turn = Idle
  BY DEF AtRest
<1>4. StartingSilent'
  BY <1>1, <1>3 DEF StartingSilent, Starting, Idle
<1>5. \A q \in Pid : ~Live(q) => parked[q].call # "netRequest"
  BY <1>3 DEF Departures, Leaving, FetchEnds, Ending, Idle
<1>6. FetchEnds'
  BY <1>2, <1>5 DEF FetchEnds
<1>7. TornAway'
  BY <1>2 DEF Departures, Leaving, TornAway, Awaited
<1> QED
  BY <1>4, <1>6, <1>7 DEF Leaving

LEMMA GuestCallLeaves ==
  ASSUME Departures, NEW p \in Pid, GuestCall(p)
  PROVE  Leaving'
<1>1. CASE Issue(p)
  <2>1. PICK r \in Offered(p) : Serve(p, r)
    BY <1>1 DEF Issue
  <2>2. r \in Request
    BY OfferedType, DepartureFacts
  <2>3. Live(p) /\ turn.doing # "starting"
    BY <1>1 DEF Issue, MayCall, AtRest, Idle
  <2> QED
    BY <2>1, <2>2, <2>3, ServeLeaves
<1>2. CASE \/ KPipe(p) \/ ProcRaise(p) \/ (\E name \in Names : ChanOpen(p, name))
           \/ ShmCreate(p) \/ (\E s \in ShmId, t \in Pid : ShmGrant(p, s, t)) \/ WinSurface(p)
  <2>1. UNCHANGED <<state, blockedOn, exitCode, parked, turn, torn>> /\ turn = Idle
    BY <1>2 DEF KPipe, ProcRaise, ChanOpen, ShmCreate, ShmGrant, WinSurface, procVars, waitVars,
                hostVars, netVars, MayCall, AtRest
  <2> QED
    BY <2>1, AsideLeaves DEF Idle
<1>3. ASSUME NEW d, Reply(p, CloseReasons(d)), UNCHANGED <<exitCode, torn>>, MayCall(p)
      PROVE  Leaving'
  <2>1. On("netReq", 0) \notin CloseReasons(d) /\ NotBlocked \notin CloseReasons(d)
    BY DEF CloseReasons, On, NotBlocked
  <2>2. turn.doing # "starting"
    BY <1>3 DEF MayCall, AtRest, Idle
  <2> QED
    BY <1>3, <2>1, <2>2, ReplyLeaves
<1>4. CASE \E fd \in Fd : FdClose(p, fd)
  BY <1>3, <1>4 DEF FdClose, netVars
<1>5. CASE \E old \in Fd, new \in RenumberTo : FdRenumber(p, old, new)
  BY <1>3, <1>5 DEF FdRenumber, netVars
<1>6. CASE SpawnAny(p)
  <2>1. /\ nextPid \in Pid /\ state' = [state EXCEPT ![nextPid] = "ready"] /\ AtRest
        /\ UNCHANGED <<blockedOn, exitCode, parked, queue, torn>> /\ turn' = Starting(nextPid)
    BY <1>6, ProcAssumption, DepartureFacts
       DEF SpawnAny, KSpawn, MayCall, netVars, TypeOK, ProcType, Pid
  <2> QED
    BY <2>1, BirthLeaves
<1>7. CASE \E code \in ExitCodes : ProcExit(p, code)
  <2>1. PICK code \in Codes : ProcExit(p, code)
    BY <1>7 DEF Codes
  <2>2. Exit(p, code) /\ parked[p] = NoReq /\ Live(p) /\ turn' = turn /\ turn = Idle
    BY <2>1 DEF ProcExit, MayCall, AtRest
  <2> QED
    BY <2>2, ExitLeft DEF Idle
<1>8. CASE \E t \in Pid : Kill9(p, t)
  BY <1>8, Kill9Leaves
<1>9. CASE \E t \in Pid : KillTerm(p, t)
  BY <1>9, NudgeLeaves DEF KillTerm, MaySignal, MayCall, netVars
<1>10. CASE \E c \in ChanId, msg \in Msg : ChanSend(p, c, msg)
  <2>1. PICK c \in ChanId, msg \in Msg : ChanSend(p, c, msg)
    BY <1>10
  <2>2. UNCHANGED <<exitCode, torn>> /\ turn.doing # "starting"
    BY <2>1 DEF ChanSend, procVars, netVars, MayCall, AtRest, Idle
  <2>3. OnChanRecv(c, 1 - holds[p][c]) # On("netReq", 0) /\ OnChanRecv(c, 1 - holds[p][c]) # NotBlocked
    BY DEF OnChanRecv, On, NotBlocked
  <2> QED
    BY <2>1, <2>2, <2>3, ReplyLeaves DEF ChanSend
<1> QED
  BY <1>1, <1>2, <1>4, <1>5, <1>6, <1>7, <1>8, <1>9, <1>10 DEF GuestCall

LEMMA HostEventLeaves ==
  ASSUME Departures, NEW p \in Pid, HostEvent(p)
  PROVE  Leaving'
<1>1. ASSUME NEW code \in Codes, HostExit(p, code) PROVE Leaving'
  <2>1. CASE Live(p)
    BY <1>1, <2>1, HostExitLeaves
  <2>2. CASE ~Live(p)
    <3>1. UNCHANGED <<state, blockedOn, exitCode, parked, torn>>
      BY <1>1, <2>2 DEF HostExit, Unrecorded, procVars, waitVars, netVars
    <3>2. turn.doing # "ending" /\ turn'.doing # "starting"
      BY <1>1 DEF HostExit, AtRest, Idle, Ending
    <3> QED
      BY <3>1, <3>2, AsideLeaves
  <2> QED
    BY <2>1, <2>2
<1>2. CASE (\E code \in ExitCodes : WorkerExit(p, code)) \/ HostKill(p)
  BY <1>1, <1>2 DEF WorkerExit, HostKill, Codes
<1>3. CASE \E n \in Nat : DeliverStdin(p, n) \/ DeliverInput(p, n)
  BY <1>3, NudgeLeaves DEF DeliverStdin, DeliverInput, netVars
<1>4. CASE DeliverNet(p)
  BY <1>4, NudgeLeaves DEF DeliverNet, procVars
<1> QED
  BY <1>2, <1>3, <1>4, KernelAssumption DEF HostEvent

LEMMA DeparturesNext ==
  ASSUME Departures, [Next]_vars
  PROVE  Departures'
<1>1. Sleepers'
  BY SleepersNext DEF Departures
<1>2. CASE Launch
  <2>1. /\ nextPid \in Pid /\ state' = [state EXCEPT ![nextPid] = "ready"] /\ AtRest
        /\ UNCHANGED <<blockedOn, exitCode, parked, queue, turn, torn>>
    BY <1>2, ProcAssumption, DepartureFacts DEF Launch, HostSpawn, netVars, TypeOK, ProcType, Pid
  <2> QED
    BY <1>1, <2>1, BirthLeaves DEF Departures
<1>3. CASE \E p \in Pid : Redrive(p)
  <2>1. PICK p \in Pid : p \in queue /\ Serve(p, parked[p])
    BY <1>3 DEF Redrive
  <2>2. parked[p] \in Request
    BY DepartureFacts
  <2>3. turn.doing # "starting" /\ (parked[p].call = "netRequest" => Live(p))
    BY <2>1 DEF Departures, Leaving, StartingSilent, FetchEnds
  <2> QED
    BY <1>1, <2>1, <2>2, <2>3, ServeLeaves DEF Departures
<1>4. CASE FinishExit
  <2>1. /\ UNCHANGED <<state, blockedOn, exitCode, queue, torn>> /\ turn' = Idle
        /\ parked'[turn.pid] = NoReq /\ \A q \in Pid \ {turn.pid} : parked'[q] = parked[q]
    <3>1. turn.pid \in Pid
      BY <1>4, DepartureFacts DEF FinishExit, TypeOK, HostType, Turn
    <3> QED
      BY <1>4, <3>1, DepartureFacts DEF FinishExit, procVars, waitVars, netVars
  <2>2. \A q \in Pid : Live(q)' <=> Live(q)
    BY <2>1 DEF Live, Known
  <2>3. \A q \in Pid : ~Live(q) /\ parked[q].call = "netRequest" => q = turn.pid
    BY DEF Departures, Leaving, FetchEnds, Ending
  <2>4. FetchEnds'
    BY <2>1, <2>2, <2>3 DEF FetchEnds, NoReq, Req
  <2>5. TornAway' /\ StartingSilent'
    BY <2>1, <2>2 DEF Departures, Leaving, TornAway, StartingSilent, Awaited, Idle
  <2> QED
    BY <1>1, <2>4, <2>5 DEF Departures, Leaving
<1>5. CASE StartChild
  <2>1. UNCHANGED <<state, blockedOn, exitCode, parked, torn>> /\ turn' = Idle /\ turn.doing = "starting"
    BY <1>5 DEF StartChild, procVars, waitVars, netVars
  <2> QED
    BY <1>1, <2>1, AsideLeaves DEF Departures, Idle
<1>6. CASE SpawnFailed
  <2>1. turn.pid \in Pid /\ 127 \in Codes
    BY <1>6, DepartureFacts DEF SpawnFailed, TypeOK, HostType, Turn, Codes
  <2>2. parked[turn.pid] = NoReq /\ Live(turn.pid)
    BY <1>6, DepartureFacts DEF SpawnFailed, Leaving, StartingSilent, Lifecycle, StartingLive
  <2>3. Exit(turn.pid, 127) /\ turn.doing = "starting" /\ turn'.doing # "starting"
    BY <1>6 DEF SpawnFailed, Idle
  <2> QED
    BY <1>1, <2>1, <2>2, <2>3, ExitLeft DEF Departures
<1>7. CASE \E p \in Pid : GuestCall(p) \/ HostEvent(p)
  BY <1>1, <1>7, GuestCallLeaves, HostEventLeaves DEF Departures
<1>8. CASE UNCHANGED vars
  BY <1>1, <1>8 DEF Departures, Leaving, StartingSilent, FetchEnds, TornAway, Awaited, Live, Known,
                    vars, procVars, waitVars, hostVars, netVars
<1> QED
  BY <1>2, <1>3, <1>4, <1>5, <1>6, <1>7, <1>8 DEF Next, HostTurn

LEMMA DeparturesInit == Init => Departures
<1> SUFFICES ASSUME Init PROVE Departures
  OBVIOUS
<1>1. Sleepers
  BY SleepersInit
<1>2. Leaving
  BY DEF Init, Leaving, StartingSilent, FetchEnds, TornAway, Awaited, Idle, NoReq, Req, NotBlocked, On
<1> QED
  BY <1>1, <1>2 DEF Departures

LEMMA DeparturesAlways == Spec => []Departures
<1>1. Departures /\ [Next]_vars => Departures'
  BY DeparturesNext
<1> QED
  BY <1>1, DeparturesInit, PTL DEF Spec

-----------------------------------------------------------------------------
(***************************************************************************)
(* Responses.                                                              *)
(***************************************************************************)
LEMMA ResponseFrom ==
  ASSUME Departures, [Next]_vars
  PROVE  netResponse' \subseteq netResponse \/ \E p \in Pid : DeliverNet(p)
<1>1. ASSUME NEW p \in Pid, NEW STATE r, Serve(p, r) PROVE netResponse' \subseteq netResponse
  BY <1>1 DEF Serve, FdRead, FdWrite, KWait, SigWait, ChanRecv, WinReadInput, NetRequest, netVars
<1>2. ASSUME NEW p \in Pid, NEW code, Exit(p, code) PROVE netResponse' \subseteq netResponse
  BY <1>2 DEF Exit, Release
<1>3. ASSUME NEW p \in Pid, NEW code, HostExit(p, code) \/ ProcExit(p, code)
      PROVE  netResponse' \subseteq netResponse
  BY <1>2, <1>3 DEF HostExit, ProcExit, netVars
<1>4. CASE \E p \in Pid : GuestCall(p)
  <2>1. PICK p \in Pid : GuestCall(p)
    BY <1>4
  <2>2. CASE Issue(p) \/ \E code \in ExitCodes : ProcExit(p, code)
    BY <1>1, <1>3, <2>2 DEF Issue
  <2>3. CASE \E t \in Pid : Kill9(p, t)
    BY <2>3 DEF Kill9, Release
  <2>4. CASE KPipe(p) \/ SpawnAny(p) \/ ProcRaise(p) \/ (\E name \in Names : ChanOpen(p, name))
    BY <2>4 DEF KPipe, SpawnAny, KSpawn, ProcRaise, ChanOpen, netVars
  <2>5. CASE (\E fd \in Fd : FdClose(p, fd)) \/ \E old \in Fd, new \in RenumberTo : FdRenumber(p, old, new)
    BY <2>5 DEF FdClose, FdRenumber, netVars
  <2>6. CASE (\E t \in Pid : KillTerm(p, t)) \/ \E c \in ChanId, msg \in Msg : ChanSend(p, c, msg)
    BY <2>6 DEF KillTerm, ChanSend, netVars
  <2>7. CASE ShmCreate(p) \/ (\E s \in ShmId, t \in Pid : ShmGrant(p, s, t)) \/ WinSurface(p)
    BY <2>7 DEF ShmCreate, ShmGrant, WinSurface, netVars
  <2> QED
    BY <2>1, <2>2, <2>3, <2>4, <2>5, <2>6, <2>7 DEF GuestCall
<1>5. CASE \E p \in Pid : HostEvent(p) /\ ~DeliverNet(p)
  BY <1>3, <1>5 DEF HostEvent, WorkerExit, HostKill, DeliverStdin, DeliverInput, netVars
<1>6. CASE HostTurn
  <2>1. CASE \E p \in Pid : Redrive(p)
    BY <1>1, <2>1 DEF Redrive
  <2>2. CASE FinishExit \/ StartChild
    BY <2>2 DEF FinishExit, StartChild, netVars
  <2>3. CASE SpawnFailed
    <3>1. turn.pid \in Pid
      BY <2>3, DepartureFacts DEF SpawnFailed, TypeOK, HostType, Turn
    <3> QED
      BY <1>2, <2>3, <3>1 DEF SpawnFailed
  <2> QED
    BY <1>6, <2>1, <2>2, <2>3 DEF HostTurn
<1>7. CASE Launch \/ UNCHANGED vars
  BY <1>7 DEF Launch, HostSpawn, vars, netVars
<1> QED
  BY <1>4, <1>5, <1>6, <1>7 DEF Next

\* Who departs leaves no response behind.
LEMMA GoneUnanswered ==
  ASSUME Departures, [Next]_vars, NEW p \in Pid, Live(p), ~Live(p)'
  PROVE  p \notin netResponse'
<1>1. Kinds
  BY NextKind DEF Departures, Sleepers
<1> QED
  BY <1>1, DepartureFacts DEF Kinds, Quiet, Claims, Collected, Destroyed, Departs, Born, Removed, Freed,
         SameTable, Live, Known

LEMMA TornKept ==
  ASSUME Departures, [Next]_vars
  PROVE  torn \subseteq torn'
<1>1. ASSUME NEW p \in Pid, NEW STATE r, Serve(p, r) PROVE torn' = torn
  BY <1>1 DEF Serve, FdRead, FdWrite, KWait, SigWait, ChanRecv, WinReadInput, NetRequest, netVars
<1>2. ASSUME NEW p \in Pid, NEW code, Exit(p, code) PROVE torn \subseteq torn'
  BY <1>2 DEF Exit
<1>3. CASE \E p \in Pid : GuestCall(p)
  <2>1. PICK p \in Pid : GuestCall(p)
    BY <1>3
  <2>2. CASE Issue(p)
    BY <1>1, <2>2 DEF Issue
  <2>3. CASE \E code \in ExitCodes : ProcExit(p, code)
    BY <1>2, <2>3 DEF ProcExit
  <2>4. CASE (\E t \in Pid : Kill9(p, t)) \/ \E name \in Names : ChanOpen(p, name)
    BY <2>4 DEF Kill9, ChanOpen, netVars
  <2>5. CASE KPipe(p) \/ SpawnAny(p) \/ ProcRaise(p)
    BY <2>5 DEF KPipe, SpawnAny, KSpawn, ProcRaise, netVars
  <2>6. CASE (\E fd \in Fd : FdClose(p, fd)) \/ \E old \in Fd, new \in RenumberTo : FdRenumber(p, old, new)
    BY <2>6 DEF FdClose, FdRenumber, netVars
  <2>7. CASE (\E t \in Pid : KillTerm(p, t)) \/ \E c \in ChanId, msg \in Msg : ChanSend(p, c, msg)
    BY <2>7 DEF KillTerm, ChanSend, netVars
  <2>8. CASE ShmCreate(p) \/ (\E s \in ShmId, t \in Pid : ShmGrant(p, s, t)) \/ WinSurface(p)
    BY <2>8 DEF ShmCreate, ShmGrant, WinSurface, netVars
  <2> QED
    BY <2>1, <2>2, <2>3, <2>4, <2>5, <2>6, <2>7, <2>8 DEF GuestCall
<1>4. CASE \E p \in Pid : HostEvent(p)
  <2>1. ASSUME NEW p \in Pid, NEW code, HostExit(p, code) PROVE torn \subseteq torn'
    BY <1>2, <2>1 DEF HostExit, netVars
  <2> QED
    BY <1>4, <2>1 DEF HostEvent, WorkerExit, HostKill, DeliverStdin, DeliverInput, DeliverNet, netVars
<1>5. CASE HostTurn
  BY <1>1, <1>2, <1>5 DEF HostTurn, Redrive, FinishExit, StartChild, SpawnFailed, Exit, netVars
<1>6. CASE Launch \/ UNCHANGED vars
  BY <1>6 DEF Launch, HostSpawn, vars, netVars
<1> QED
  BY <1>3, <1>4, <1>5, <1>6 DEF Next

\* A response outlives its caller only if the caller exited asleep in its net_request,
\* that is, if the user closed its window during the fetch: whoever exits, traps or is
\* sent SIGKILL at any other point leaves none, whenever the fetch ends.
THEOREM ResponsesCollected == Spec => []NetResponsesKept
<1>1. Init => NetResponsesKept
  BY DEF Init, NetResponsesKept
<1>2. Departures /\ NetResponsesKept /\ [Next]_vars => NetResponsesKept'
  <2> SUFFICES ASSUME Departures, NetResponsesKept, [Next]_vars, NEW p \in netResponse'
               PROVE  Live(p)' \/ p \in torn'
    BY DEF NetResponsesKept
  <2>1. p \in netResponse \/ (p \in Pid /\ Awaited(p))
    BY ResponseFrom DEF DeliverNet, Kept
  <2>2. p \in Pid /\ (Live(p) \/ p \in torn)
    BY <2>1, DepartureFacts DEF NetResponsesKept, Leaving, TornAway, TypeOK, NetType
  <2> QED
    BY <2>2, GoneUnanswered, TornKept
<1> QED
  BY <1>1, <1>2, DeparturesAlways, PTL DEF Spec
-----------------------------------------------------------------------------
(***************************************************************************)
(* The wait service.  A step of the kernel is judged by what it does to    *)
(* the table and to the waits: the kinds of LifecycleProofs give the one,  *)
(* and only a k_wait, a kill and the end of a worker touch the other.      *)
(***************************************************************************)
WaitsOn == {w \in Pid \X Pid : parked[w[1]] = Req("kWait", w[2])}
LifeMap == [p \in Pid |-> LifeOf(p)]

\* The host stashes a k_wait as it was offered.
WaitsPlain == \A p \in Pid : parked[p].call = "kWait" => parked[p] = Req("kWait", parked[p].arg)

\* A status is that of an entry: it is forgotten with it.
StatusListed == \A p \in Pid : exitCode[p] # NoCode => Known(p)

Promises == Departures /\ WaitsPlain /\ StatusListed

LEMMA ParkedServed ==
  ASSUME TypeOK, NEW p \in Pid, NEW STATE r, Serve(p, r)
  PROVE  /\ \A q \in Pid \ {p} : parked'[q] = parked[q]
         /\ parked'[p] \in {NoReq, r}
<1> USE DEF Reply, Complete, Park, TypeOK, HostType
<1>1. CASE FdRead(p, r)
  BY <1>1 DEF FdRead, ReadPipe, ReadStdin, ReadParks, ReadReturns
<1>2. CASE FdWrite(p, r)
  BY <1>2 DEF FdWrite, WritePipe, WriteParks, WriteReturns
<1>3. CASE KWait(p, r)
  BY <1>3 DEF KWait, WaitCollects, WaitFindsNone, WaitParks
<1>4. CASE SigWait(p, r) \/ ChanRecv(p, r) \/ WinReadInput(p, r) \/ NetRequest(p, r)
  BY <1>4 DEF SigWait, ChanRecv, WinReadInput, NetRequest
<1> QED
  BY <1>1, <1>2, <1>3, <1>4 DEF Serve

\* The calls that put nobody to sleep, and that end and begin no life.
PlainCall(p) ==
  \/ KPipe(p) \/ ProcRaise(p) \/ (\E name \in Names : ChanOpen(p, name))
  \/ ShmCreate(p) \/ (\E s \in ShmId, t \in Pid : ShmGrant(p, s, t)) \/ WinSurface(p)
  \/ (\E fd \in Fd : FdClose(p, fd)) \/ (\E old \in Fd, new \in RenumberTo : FdRenumber(p, old, new))
  \/ (\E t \in Pid : KillTerm(p, t)) \/ (\E c \in ChanId, msg \in Msg : ChanSend(p, c, msg))

Arrival(p) == (\E n \in Nat : DeliverStdin(p, n) \/ DeliverInput(p, n)) \/ DeliverNet(p)

\* A stutter of the service: the same entries, exits and sleepers.
Unmoved == SameTable /\ UNCHANGED <<nextPid, exitCode, parked>>

LEMMA NudgeParked ==
  ASSUME NEW p \in Pid, NEW STATE reason, Nudge(p, reason)
  PROVE  UNCHANGED parked
BY DEF Nudge, hostVars

LEMMA PlainUnmoved ==
  ASSUME Departures, NEW p \in Pid, PlainCall(p)
  PROVE  Unmoved
<1>1. CASE (\E fd \in Fd : FdClose(p, fd)) \/ \E old \in Fd, new \in RenumberTo : FdRenumber(p, old, new)
  <2>1. PICK reasons \in {CloseReasons(fds[p][fd]) : fd \in Fd} : Reply(p, reasons)
    BY <1>1, KernelAssumption DEF FdClose, FdRenumber
  <2>2. SameTable /\ parked'[p] = NoReq /\ \A q \in Pid \ {p} : parked'[q] = parked[q]
    BY <2>1, ReplyQuiet, DepartureFacts DEF Reply, Complete
  <2>3. parked' = parked
    BY <1>1, <2>1, <2>2, DepartureFacts DEF FdClose, FdRenumber, MayCall, Reply, Complete
  <2> QED
    BY <1>1, <2>2, <2>3 DEF FdClose, FdRenumber, Unmoved
<1>2. CASE \E c \in ChanId, msg \in Msg : ChanSend(p, c, msg)
  <2>1. PICK c \in ChanId, msg \in Msg : ChanSend(p, c, msg)
    BY <1>2
  <2>2. SameTable
    BY <2>1, ReplyQuiet, DepartureFacts DEF ChanSend
  <2>3. parked' = parked
    BY <2>1, DepartureFacts DEF ChanSend, MayCall, Reply, Complete
  <2> QED
    BY <2>1, <2>2, <2>3 DEF ChanSend, Unmoved, procVars
<1>3. CASE \E t \in Pid : KillTerm(p, t)
  BY <1>3, NudgeQuiet, NudgeParked, DepartureFacts DEF KillTerm, Unmoved
<1>4. CASE \/ KPipe(p) \/ ProcRaise(p) \/ (\E name \in Names : ChanOpen(p, name))
           \/ ShmCreate(p) \/ (\E s \in ShmId, t \in Pid : ShmGrant(p, s, t)) \/ WinSurface(p)
  BY <1>4 DEF KPipe, ProcRaise, ChanOpen, ShmCreate, ShmGrant, WinSurface, Unmoved, SameTable, Known,
              procVars, waitVars, hostVars
<1> QED
  BY <1>1, <1>2, <1>3, <1>4 DEF PlainCall

LEMMA ArrivalUnmoved ==
  ASSUME Departures, NEW p \in Pid, Arrival(p)
  PROVE  Unmoved
BY NudgeQuiet, NudgeParked, DepartureFacts
   DEF Arrival, DeliverStdin, DeliverInput, DeliverNet, Unmoved, procVars

\* A departure, and what it leaves of the waits.
Leaves(p, code) == Departs(p, code) /\ UNCHANGED parked

LEMMA ExitLeaves ==
  ASSUME Departures, NEW p \in Pid, NEW code \in Codes, ProcExit(p, code) \/ HostExit(p, code)
  PROVE  Leaves(p, code) \/ Unmoved
<1>1. Departs(p, code) \/ (SameTable /\ UNCHANGED <<nextPid, exitCode>>)
  BY DepartureKind, DepartureFacts DEF Quiet, SameRights
<1>2. UNCHANGED parked
  BY DEF ProcExit, HostExit, Exit
<1> QED
  BY <1>1, <1>2 DEF Leaves, Unmoved

\* Every step of the kernel, as the service sees it.
Seen ==
  \/ Unmoved
  \/ \E p \in Pid, code \in Codes : Leaves(p, code)
  \/ UNCHANGED parked /\ \E parent \in Pid \cup {NoPid}, grant \in SUBSET Capability : Born(parent, grant)
  \/ \E p, t \in Pid : Kill9(p, t)
  \/ \E p \in Pid : Issue(p) \/ Redrive(p)
  \/ FinishExit

LEMMA NextSeen ==
  ASSUME Departures, [Next]_vars
  PROVE  Seen
<1>1. CASE Launch
  BY <1>1, LaunchKind, DepartureFacts DEF Launch, HostSpawn, Seen
<1>2. CASE FinishExit
  BY <1>2 DEF Seen
<1>3. CASE StartChild \/ UNCHANGED vars
  BY <1>3 DEF StartChild, Seen, Unmoved, SameTable, Known, vars, procVars, waitVars, hostVars
<1>4. CASE SpawnFailed
  <2>1. turn.pid \in Pid /\ 127 \in Codes /\ Live(turn.pid) /\ NoneStarting
    BY <1>4, DepartureFacts DEF SpawnFailed, TypeOK, HostType, Turn, Codes, Lifecycle, StartingLive,
                                NoneStarting, Idle
  <2>2. Leaves(turn.pid, 127)
    BY <1>4, <2>1, ExitKind, DepartureFacts DEF SpawnFailed, Exit, Leaves
  <2> QED
    BY <2>1, <2>2 DEF Seen
<1>5. CASE \E p \in Pid : GuestCall(p)
  <2>1. PICK p \in Pid : GuestCall(p)
    BY <1>5
  <2>2. CASE PlainCall(p)
    BY <2>2, PlainUnmoved DEF Seen
  <2>3. CASE SpawnAny(p)
    BY <2>3, SpawnKind, DepartureFacts DEF SpawnAny, KSpawn, Seen
  <2>4. CASE \E code \in ExitCodes : ProcExit(p, code)
    BY <2>4, ExitLeaves DEF Seen, Codes
  <2>5. CASE Issue(p) \/ \E t \in Pid : Kill9(p, t)
    BY <2>5 DEF Seen
  <2> QED
    BY <2>1, <2>2, <2>3, <2>4, <2>5 DEF GuestCall, PlainCall
<1>6. CASE \E p \in Pid : HostEvent(p)
  <2>1. PICK p \in Pid : HostEvent(p)
    BY <1>6
  <2>2. CASE (\E code \in ExitCodes : WorkerExit(p, code)) \/ HostKill(p)
    BY <2>2, ExitLeaves DEF WorkerExit, HostKill, Seen, Codes
  <2>3. CASE Arrival(p)
    BY <2>3, ArrivalUnmoved DEF Seen
  <2> QED
    BY <2>1, <2>2, <2>3, KernelAssumption DEF HostEvent, Arrival
<1>7. CASE \E p \in Pid : Redrive(p)
  BY <1>7 DEF Seen
<1> QED
  BY <1>1, <1>2, <1>3, <1>4, <1>5, <1>6, <1>7 DEF Next, HostTurn

LEMMA LifeFacts ==
  ASSUME Departures, NEW p \in Pid
  PROVE  /\ p >= nextPid => LifeOf(p) = "unborn"
         /\ Live(p) <=> LifeOf(p) = "alive"
         /\ Known(p) /\ exitCode[p] # NoCode <=> LifeOf(p) = "exited"
         /\ Known(p) => p < nextPid
<1>1. p \in Nat /\ nextPid \in Nat /\ (p >= nextPid => ~Known(p))
  BY DepartureFacts DEF Lifecycle, Fresh, TypeOK, ProcType, Pid
<1> QED
  BY <1>1 DEF LifeOf, Live

\* What a process is next follows from what the table says next.
LEMMA LifeNext ==
  ASSUME Departures, NEW p \in Pid, nextPid' \in Nat, Known(p)' => p < nextPid'
  PROVE  LifeOf(p)' = IF p >= nextPid' THEN "unborn"
                      ELSE IF ~Known(p)' THEN "gone"
                      ELSE IF exitCode'[p] = NoCode THEN "alive" ELSE "exited"
<1>1. p \in Nat
  BY DEF Pid
<1> QED
  BY <1>1 DEF LifeOf

LEMMA UnmovedStutters ==
  ASSUME Unmoved
  PROVE  UNCHANGED Service!serviceVars
<1>1. \A p \in Pid : LifeOf(p)' = LifeOf(p)
  BY DEF Unmoved, SameTable, LifeOf
<1> QED
  BY <1>1 DEF Unmoved, Service!serviceVars

LEMMA LifeSame ==
  ASSUME NEW q \in Pid, Known(q)' <=> Known(q), nextPid' = nextPid, exitCode'[q] = exitCode[q]
  PROVE  LifeOf(q)' = LifeOf(q)
BY DEF LifeOf, Known

LEMMA LeavesDeparts ==
  ASSUME Departures, NEW p \in Pid, NEW code \in Codes, Leaves(p, code)
  PROVE  Service!Depart(p, code)
<1>1. \A q \in Pid : LifeOf(q)' = IF q = p THEN "exited" ELSE LifeOf(q)
  <2> SUFFICES ASSUME NEW q \in Pid PROVE LifeOf(q)' = IF q = p THEN "exited" ELSE LifeOf(q)
    OBVIOUS
  <2>1. (Known(q)' <=> Known(q)) /\ nextPid' = nextPid
    BY DEF Leaves, Departs, SameTable, SameRights
  <2>2. CASE q = p
    <3>1. Known(p) /\ p < nextPid /\ nextPid \in Nat /\ p \in Nat /\ exitCode'[p] # NoCode
      BY LifeFacts, NoCodeIsNone, DepartureFacts DEF Leaves, Departs, Live, TypeOK, ProcType, Pid
    <3> QED
      BY <2>1, <2>2, <3>1 DEF LifeOf
  <2>3. CASE q # p
    <3>1. exitCode'[q] = exitCode[q]
      BY <2>3, DepartureFacts DEF Leaves, Departs
    <3> QED
      BY <2>1, <2>3, <3>1, LifeSame
  <2> QED
    BY <2>2, <2>3
<1>2. LifeOf(p) = "alive"
  BY LifeFacts DEF Leaves, Departs
<1> QED
  BY <1>1, <1>2 DEF Leaves, Departs, Service!Depart

LEMMA BornCreates ==
  ASSUME Departures, UNCHANGED parked, NEW parent, NEW grant, Born(parent, grant)
  PROVE  Service!Create(nextPid)
<1>1. nextPid \in Pid /\ nextPid \in Nat /\ Pid \subseteq Nat
  BY DEF Born, Pid
<1>2. ~Known(nextPid) /\ exitCode[nextPid] = NoCode /\ UNCHANGED exitCode
  BY <1>1, DepartureFacts DEF Born, Lifecycle, Fresh
<1>3. LifeOf(nextPid) = "unborn"
  BY <1>1, LifeFacts
<1>4. ASSUME NEW q \in Pid PROVE LifeOf(q)' = IF q = nextPid THEN "alive" ELSE LifeOf(q)
  <2>1. (Known(q)' <=> Known(q) \/ q = nextPid) /\ nextPid' = nextPid + 1 /\ q \in Nat
    BY <1>1 DEF Born
  <2>2. CASE q = nextPid
    BY <1>1, <1>2, <2>1, <2>2 DEF LifeOf
  <2>3. CASE q # nextPid
    BY <1>1, <1>2, <2>1, <2>3 DEF LifeOf
  <2> QED
    BY <2>2, <2>3
<1> QED
  BY <1>1, <1>2, <1>3, <1>4 DEF Service!Create

\* An entry that leaves the table.
LEMMA RemovedLife ==
  ASSUME Departures, NEW c \in Pid, Known(c), Removed(c)
  PROVE  \A q \in Pid : LifeOf(q)' = IF q = c THEN "gone" ELSE LifeOf(q)
<1> SUFFICES ASSUME NEW q \in Pid PROVE LifeOf(q)' = IF q = c THEN "gone" ELSE LifeOf(q)
  OBVIOUS
<1>1. (Known(q)' <=> Known(q) /\ q # c) /\ nextPid' = nextPid
  BY DEF Removed
<1>2. CASE q = c
  BY <1>1, <1>2, LifeFacts, DepartureFacts DEF LifeOf, TypeOK, ProcType, Pid
<1>3. CASE q # c
  <2>1. exitCode'[q] = exitCode[q]
    BY <1>3, DepartureFacts DEF Removed
  <2> QED
    BY <1>1, <1>3, <2>1, LifeSame
<1> QED
  BY <1>2, <1>3

LEMMA KillDestroys ==
  ASSUME Departures, NEW p \in Pid, NEW t \in Pid, Kill9(p, t)
  PROVE  Service!Destroy(t)
<1>1. Known(t) /\ Removed(t)
  BY Kill9Kind, DepartureFacts DEF Destroyed
<1>2. LifeOf(t) \in {"alive", "exited"}
  BY <1>1, LifeFacts DEF Live
<1>3. \A q \in Pid : LifeOf(q)' = IF q = t THEN "gone" ELSE LifeOf(q)
  BY <1>1, RemovedLife
<1>4. exitCode' = [exitCode EXCEPT ![t] = NoCode]
  BY <1>1 DEF Removed
<1>5. \A q, c \in Pid : parked'[q] = Req("kWait", c) <=> parked[q] = Req("kWait", c) /\ q # t
  BY DepartureFacts DEF Kill9, Req, NoReq
<1>6. WaitsOn' = {w \in WaitsOn : w[1] # t}
  BY <1>5 DEF WaitsOn
<1> QED
  BY <1>2, <1>3, <1>4, <1>6 DEF Service!Destroy, WaitsOn

\* Who a call is of, and what it slept on before: nothing, or the same call.
Own(p, r) == \/ MayCall(p) /\ (r.call = "kWait" => r = Req("kWait", r.arg))
             \/ p \in queue /\ r = parked[p]

LEMMA OwnFacts ==
  ASSUME Promises, NEW p \in Pid, NEW STATE r, r \in Request, Own(p, r)
  PROVE  /\ parked[p] \in {NoReq, r} /\ (Live(p) \/ parked[p] = r)
         /\ r.call = "kWait" => r.arg \in Pid /\ r = Req("kWait", r.arg)
<1>1. Live(p) \/ parked[p] = r
  BY DEF Own, MayCall
<1>2. r.call = "kWait" => r.arg \in Pid
  BY DEF Request, Of
<1> QED
  BY <1>1, <1>2 DEF Own, MayCall, Promises, WaitsPlain

\* Any other call is no step of the service.
LEMMA OtherServed ==
  ASSUME Promises, NEW p \in Pid, NEW STATE r, r \in Request, Own(p, r), Serve(p, r), ~KWait(p, r)
  PROVE  UNCHANGED Service!serviceVars
<1>0. Departures
  BY DEF Promises
<1>1. SameTable /\ UNCHANGED <<nextPid, exitCode>>
  <2>1. CASE FdRead(p, r)
    BY <1>0, <2>1, ReplyQuiet, ParkQuiet, DepartureFacts
       DEF FdRead, ReadPipe, ReadStdin, ReadParks, ReadReturns, procVars
  <2>2. CASE FdWrite(p, r)
    BY <1>0, <2>2, ReplyQuiet, ParkQuiet, DepartureFacts
       DEF FdWrite, WritePipe, WriteParks, WriteReturns, procVars
  <2>3. CASE SigWait(p, r) \/ ChanRecv(p, r) \/ WinReadInput(p, r) \/ NetRequest(p, r)
    BY <1>0, <2>3, ReplyQuiet, ParkQuiet, DepartureFacts
       DEF SigWait, ChanRecv, WinReadInput, NetRequest, procVars
  <2> QED
    BY <2>1, <2>2, <2>3 DEF Serve
<1>2. r.call # "kWait"
  BY DEF Serve, FdRead, FdWrite, SigWait, ChanRecv, WinReadInput, NetRequest
<1>3. /\ \A q \in Pid \ {p} : parked'[q] = parked[q]
      /\ parked'[p] \in {NoReq, r} /\ parked[p] \in {NoReq, r}
  BY <1>0, ParkedServed, OwnFacts, DepartureFacts
<1>4. \A q, c \in Pid : parked'[q] = Req("kWait", c) <=> parked[q] = Req("kWait", c)
  BY <1>2, <1>3 DEF Req, NoReq
<1>5. WaitsOn' = WaitsOn
  BY <1>4 DEF WaitsOn
<1>6. \A q \in Pid : LifeOf(q)' = LifeOf(q)
  BY <1>1 DEF SameTable, LifeOf
<1> QED
  BY <1>1, <1>5, <1>6 DEF Service!serviceVars, WaitsOn

\* A process that exited asleep is blocked again when its call is driven once more
\* before the host forgets it; reap() then no longer takes it for a zombie.
Revived(c) == Known(c) /\ exitCode[c] # NoCode /\ state[c] # "zombie"

\* The waiter is answered, and the status stays.
Uncollected(p, c) ==
  /\ Revived(c) /\ WaitCollects(p, c)
  /\ WaitsOn' = WaitsOn \ {<<p, c>>} /\ UNCHANGED <<LifeMap, exitCode>>

\* A k_wait that collects the status of c ...
LEMMA CollectsAnswered ==
  ASSUME Promises, NEW p \in Pid, NEW c \in Pid, Own(p, Req("kWait", c)), WaitCollects(p, c),
         ~Revived(c)
  PROVE  Service!Answer(p, c) \/ Service!Collect(p, c)
<1>0. Departures /\ Req("kWait", c) \in Request
  BY DEF Promises, Req, Request, Of
<1>1. parked[p] \in {NoReq, Req("kWait", c)} /\ (Live(p) \/ parked[p] = Req("kWait", c))
  BY <1>0, OwnFacts
<1>2. ~Live(c) /\ Known(c) /\ state[c] = "zombie"
  BY DEF WaitCollects, Promises, StatusListed, Revived, Live
<1>3. Removed(c)
  BY <1>0, <1>2, DepartureFacts DEF WaitCollects, Reap, Forget, Removed, Known
<1>4. \A q \in Pid : LifeOf(q)' = IF q = c THEN "gone" ELSE LifeOf(q)
  BY <1>0, <1>2, <1>3, RemovedLife
<1>5. (Live(p) => LifeOf(p) = "alive") /\ LifeOf(c) = "exited"
  BY <1>0, <1>2, LifeFacts DEF Live
<1>6. parked' = [parked EXCEPT ![p] = NoReq]
  BY DEF WaitCollects, Complete
<1>7. exitCode' = [exitCode EXCEPT ![c] = NoCode]
  BY <1>3 DEF Removed
<1>8. CASE parked[p] = NoReq
  <2>1. WaitsOn' = WaitsOn
    BY <1>0, <1>6, <1>8, DepartureFacts DEF WaitsOn
  <2>2. Live(p)
    BY <1>1, <1>8 DEF Req, NoReq
  <2> QED
    BY <1>4, <1>5, <1>7, <2>1, <2>2 DEF Service!Collect, Service!Collected, WaitsOn
<1>9. CASE parked[p] = Req("kWait", c)
  <2>1. \A q, d \in Pid : parked'[q] = Req("kWait", d)
                          <=> parked[q] = Req("kWait", d) /\ <<q, d>> # <<p, c>>
    BY <1>0, <1>6, <1>9, DepartureFacts DEF Req, NoReq
  <2>2. WaitsOn' = WaitsOn \ {<<p, c>>} /\ <<p, c>> \in WaitsOn
    BY <1>9, <2>1 DEF WaitsOn
  <2> QED
    BY <1>4, <1>5, <1>7, <2>2 DEF Service!Answer, Service!Collected, WaitsOn
<1> QED
  BY <1>1, <1>8, <1>9

\* ... or leaves it where it is, because c does not look like a zombie any more ...
LEMMA RevivedStays ==
  ASSUME Promises, NEW p \in Pid, NEW c \in Pid, Own(p, Req("kWait", c)), WaitCollects(p, c),
         Revived(c), UNCHANGED turn
  PROVE  Uncollected(p, c)
<1>0. Departures /\ Req("kWait", c) \in Request
  BY DEF Promises, Req, Request, Of
<1>1. parked[p] \in {NoReq, Req("kWait", c)}
  BY <1>0, OwnFacts
<1>2. UNCHANGED procVars /\ UNCHANGED waitVars /\ parked' = [parked EXCEPT ![p] = NoReq]
  BY DEF WaitCollects, Reap, Revived, Complete
<1>3. UNCHANGED <<state, nextPid, exitCode>>
  BY <1>2 DEF procVars, waitVars
<1>4. LifeMap' = LifeMap
  BY <1>3 DEF LifeMap, LifeOf, Known
<1>5. \A q, d \in Pid : parked'[q] = Req("kWait", d)
                        <=> parked[q] = Req("kWait", d) /\ <<q, d>> # <<p, c>>
  BY <1>0, <1>1, <1>2, DepartureFacts DEF Req, NoReq
<1>6. WaitsOn' = WaitsOn \ {<<p, c>>}
  BY <1>5 DEF WaitsOn
<1> QED
  BY <1>3, <1>4, <1>6 DEF Uncollected

\* ... finds no such process ...
LEMMA NoneAnswered ==
  ASSUME Promises, NEW p \in Pid, NEW c \in Pid, Own(p, Req("kWait", c)), WaitFindsNone(p, c)
  PROVE  Service!Answer(p, c) \/ UNCHANGED Service!serviceVars
<1>0. Departures /\ Req("kWait", c) \in Request
  BY DEF Promises, Req, Request, Of
<1>1. parked[p] \in {NoReq, Req("kWait", c)} /\ ~Live(c)
  BY <1>0, OwnFacts DEF WaitFindsNone, Live
<1>2. SameTable /\ UNCHANGED <<nextPid, exitCode>> /\ parked' = [parked EXCEPT ![p] = NoReq]
  BY <1>0, ReplyQuiet, DepartureFacts DEF WaitFindsNone, Reply, Complete, procVars
<1>3. \A q \in Pid : LifeOf(q)' = LifeOf(q)
  BY <1>2 DEF SameTable, LifeOf
<1>4. LifeOf(c) # "alive" /\ LifeOf(c) # "exited"
  BY <1>0, <1>1, LifeFacts DEF WaitFindsNone
<1>5. CASE parked[p] = NoReq
  <2>1. WaitsOn' = WaitsOn
    BY <1>0, <1>2, <1>5, DepartureFacts DEF WaitsOn
  <2> QED
    BY <1>2, <1>3, <2>1 DEF Service!serviceVars, WaitsOn
<1>6. CASE parked[p] = Req("kWait", c)
  <2>1. \A q, d \in Pid : parked'[q] = Req("kWait", d)
                          <=> parked[q] = Req("kWait", d) /\ <<q, d>> # <<p, c>>
    BY <1>0, <1>2, <1>6, DepartureFacts DEF Req, NoReq
  <2>2. WaitsOn' = WaitsOn \ {<<p, c>>} /\ <<p, c>> \in WaitsOn
    BY <1>6, <2>1 DEF WaitsOn
  <2> QED
    BY <1>2, <1>3, <1>4, <2>2 DEF Service!Answer, Service!Collected, WaitsOn
<1> QED
  BY <1>1, <1>5, <1>6

\* ... or sleeps until there is one, or sleeps on.
LEMMA ParksSleep ==
  ASSUME Promises, NEW p \in Pid, NEW c \in Pid, Own(p, Req("kWait", c)), WaitParks(p, Req("kWait", c))
  PROVE  Service!Sleep(p, c) \/ UNCHANGED Service!serviceVars
<1>0. Departures /\ Req("kWait", c) \in Request /\ Req("kWait", c).arg = c
  BY DEF Promises, Req, Request, Of
<1>1. /\ Live(c) /\ parked[p] \in {NoReq, Req("kWait", c)}
      /\ Live(p) \/ parked[p] = Req("kWait", c)
  BY <1>0, OwnFacts DEF WaitParks
<1>2. SameTable /\ UNCHANGED <<nextPid, exitCode>> /\ parked' = [parked EXCEPT ![p] = Req("kWait", c)]
  BY <1>0, ParkQuiet, DepartureFacts DEF WaitParks, Park, procVars
<1>3. \A q \in Pid : LifeOf(q)' = LifeOf(q)
  BY <1>2 DEF SameTable, LifeOf
<1>4. \A q, d \in Pid : parked'[q] = Req("kWait", d)
                        <=> parked[q] = Req("kWait", d) \/ <<q, d>> = <<p, c>>
  BY <1>0, <1>1, <1>2, DepartureFacts DEF Req, NoReq
<1>5. WaitsOn' = WaitsOn \cup {<<p, c>>}
  BY <1>4 DEF WaitsOn
<1>6. LifeOf(c) = "alive" /\ (Live(p) => LifeOf(p) = "alive")
  BY <1>0, <1>1, LifeFacts
<1>7. CASE Live(p)
  BY <1>2, <1>3, <1>5, <1>6, <1>7 DEF Service!Sleep, WaitsOn
<1>8. CASE parked[p] = Req("kWait", c)
  <2>1. WaitsOn' = WaitsOn
    BY <1>5, <1>8 DEF WaitsOn
  <2> QED
    BY <1>2, <1>3, <2>1 DEF Service!serviceVars, WaitsOn
<1> QED
  BY <1>1, <1>7, <1>8

\* A step of the service, or none, but for the status that is left uncollected.
Promised ==
  [Service!ServiceNext \/ \E p, c \in Pid : Uncollected(p, c)]_(Service!serviceVars)

LEMMA ServeAnswers ==
  ASSUME Promises, NEW p \in Pid, NEW STATE r, r \in Request, Own(p, r), Serve(p, r)
  PROVE  Promised
<1>1. CASE ~KWait(p, r)
  BY <1>1, OtherServed DEF Promised
<1>2. CASE KWait(p, r)
  <2>1. PICK c \in Pid : r = Req("kWait", c)
    BY <1>2, OwnFacts DEF KWait
  <2>2. r.arg = c
    BY <2>1 DEF Req
  <2>3. \/ Service!Answer(p, c) \/ Service!Collect(p, c) \/ Service!Sleep(p, c)
        \/ UNCHANGED Service!serviceVars \/ Uncollected(p, c)
    BY <1>2, <2>1, <2>2, CollectsAnswered, RevivedStays, NoneAnswered, ParksSleep
       DEF KWait, WaitCollects, Complete
  <2> QED
    BY <2>3 DEF Service!ServiceNext, Promised
<1> QED
  BY <1>1, <1>2

LEMMA OfferedOwn ==
  ASSUME NEW p \in Pid, MayCall(p), NEW r \in Offered(p)
  PROVE  Own(p, r)
<1>1. \/ \E fd \in Fd, n \in ReadLens : r = ReadReq(fd, n)
      \/ \E fd \in Fd, data \in Payloads : r = WriteReq(fd, data)
      \/ \E c \in Pid : r = Req("kWait", c)
      \/ \E n \in InputLens : r = [Req("winReadInput", 0) EXCEPT !.len = n]
      \/ \E c \in ChanId : r = Req("chanRecv", c)
      \/ r \in {Req("sigWait", 0), Req("netRequest", 0)}
  BY DEF Offered
<1>2. r.call = "kWait" => r = Req("kWait", r.arg)
  <2>1. CASE \E c \in Pid : r = Req("kWait", c)
    BY <2>1 DEF Req
  <2>2. CASE \E n \in InputLens : r = [Req("winReadInput", 0) EXCEPT !.len = n]
    BY <2>2 DEF Req
  <2>3. CASE \E fd \in Fd, n \in ReadLens : r = ReadReq(fd, n)
    BY <2>3 DEF Req, ReadReq
  <2>4. CASE \E fd \in Fd, data \in Payloads : r = WriteReq(fd, data)
    BY <2>4 DEF Req, WriteReq
  <2>5. CASE (\E c \in ChanId : r = Req("chanRecv", c)) \/ r \in {Req("sigWait", 0), Req("netRequest", 0)}
    BY <2>5 DEF Req
  <2> QED
    BY <1>1, <2>1, <2>2, <2>3, <2>4, <2>5
<1> QED
  BY <1>2 DEF Own

\* The host forgets the call that a process died in.
LEMMA FinishWithdraws ==
  ASSUME Promises, FinishExit
  PROVE  [Service!ServiceNext]_(Service!serviceVars)
<1>0. Departures
  BY DEF Promises
<1>1. PICK p \in Pid : p = turn.pid
  BY <1>0, DepartureFacts DEF FinishExit, TypeOK, HostType, Turn
<1>2. ~Live(p)
  BY <1>0, <1>1, DepartureFacts DEF FinishExit, Books, EndingDead
<1>3. UNCHANGED <<nextPid, state, exitCode>> /\ parked' = [parked EXCEPT ![p] = NoReq]
  BY <1>1 DEF FinishExit, procVars, waitVars
<1>4. \A q \in Pid : LifeOf(q)' = LifeOf(q)
  BY <1>3 DEF LifeOf, Known
<1>5. LifeOf(p) # "alive"
  BY <1>0, <1>2, LifeFacts
<1>6. CASE parked[p].call # "kWait"
  <2>1. \A q, d \in Pid : parked'[q] = Req("kWait", d) <=> parked[q] = Req("kWait", d)
    BY <1>0, <1>3, <1>6, DepartureFacts DEF Req, NoReq
  <2>2. WaitsOn' = WaitsOn
    BY <2>1 DEF WaitsOn
  <2> QED
    BY <1>3, <1>4, <2>2 DEF Service!serviceVars, WaitsOn
<1>7. CASE parked[p].call = "kWait"
  <2>1. PICK c \in Pid : parked[p] = Req("kWait", c)
    <3>1. parked[p] \in Request /\ parked[p] = Req("kWait", parked[p].arg)
      BY <1>0, <1>7, DepartureFacts DEF Promises, WaitsPlain
    <3>2. parked[p].arg \in Pid
      BY <1>7, <3>1 DEF Request, Of
    <3> QED
      BY <3>1, <3>2
  <2>2. \A q, d \in Pid : parked'[q] = Req("kWait", d)
                          <=> parked[q] = Req("kWait", d) /\ <<q, d>> # <<p, c>>
    BY <1>0, <1>3, <2>1, DepartureFacts DEF Req, NoReq
  <2>3. WaitsOn' = WaitsOn \ {<<p, c>>} /\ <<p, c>> \in WaitsOn
    BY <2>1, <2>2 DEF WaitsOn
  <2>4. Service!Withdraw(p, c)
    BY <1>3, <1>4, <1>5, <2>3 DEF Service!Withdraw, WaitsOn
  <2> QED
    BY <2>4 DEF Service!ServiceNext
<1> QED
  BY <1>6, <1>7

LEMMA SeenImplements ==
  ASSUME Promises, Seen
  PROVE  Promised
<1> USE DEF Promised
<1>0. Departures
  BY DEF Promises
<1>1. CASE Unmoved
  BY <1>1, UnmovedStutters
<1>2. CASE \E p \in Pid, code \in Codes : Leaves(p, code)
  BY <1>0, <1>2, LeavesDeparts DEF Service!ServiceNext
<1>3. CASE UNCHANGED parked /\ \E parent \in Pid \cup {NoPid}, grant \in SUBSET Capability : Born(parent, grant)
  BY <1>0, <1>3, BornCreates DEF Service!ServiceNext, Born
<1>4. CASE \E p, t \in Pid : Kill9(p, t)
  BY <1>0, <1>4, KillDestroys DEF Service!ServiceNext
<1>5. CASE \E p \in Pid : Issue(p)
  BY <1>0, <1>5, OfferedType, OfferedOwn, ServeAnswers, DepartureFacts DEF Issue
<1>6. CASE \E p \in Pid : Redrive(p)
  <2>1. PICK p \in Pid : p \in queue /\ Serve(p, parked[p])
    BY <1>6 DEF Redrive
  <2>2. parked[p] \in Request /\ Own(p, parked[p])
    BY <1>0, <2>1, DepartureFacts DEF Own
  <2> QED
    BY <2>1, <2>2, ServeAnswers
<1>7. CASE FinishExit
  BY <1>7, FinishWithdraws
<1> QED
  BY <1>1, <1>2, <1>3, <1>4, <1>5, <1>6, <1>7 DEF Seen

LEMMA PlainNext ==
  ASSUME Promises, Seen
  PROVE  WaitsPlain'
<1>0. Departures
  BY DEF Promises
<1>1. CASE UNCHANGED parked
  BY <1>1 DEF Promises, WaitsPlain
<1>2. CASE \E p, t \in Pid : Kill9(p, t)
  BY <1>0, <1>2, DepartureFacts DEF Kill9, Promises, WaitsPlain, NoReq, Req
<1>3. CASE \E p \in Pid : Issue(p) \/ Redrive(p)
  <2>1. PICK p \in Pid : Issue(p) \/ Redrive(p)
    BY <1>3
  <2>2. PICK r \in Request : Serve(p, r) /\ (r.call = "kWait" => r = Req("kWait", r.arg))
    <3>1. CASE Issue(p)
      BY <1>0, <3>1, OfferedType, OfferedOwn, DepartureFacts DEF Issue, Own, Promises, WaitsPlain
    <3>2. CASE Redrive(p)
      BY <1>0, <3>2, DepartureFacts DEF Redrive, Promises, WaitsPlain
    <3> QED
      BY <2>1, <3>1, <3>2
  <2>3. (\A q \in Pid \ {p} : parked'[q] = parked[q]) /\ parked'[p] \in {NoReq, r}
    BY <1>0, <2>2, ParkedServed, DepartureFacts
  <2> QED
    BY <2>2, <2>3 DEF Promises, WaitsPlain, NoReq, Req
<1>4. CASE FinishExit
  BY <1>0, <1>4, DepartureFacts DEF FinishExit, Promises, WaitsPlain, NoReq, Req
<1> QED
  BY <1>1, <1>2, <1>3, <1>4 DEF Seen, Unmoved, Leaves

LEMMA ListedNext ==
  ASSUME Promises, [Next]_vars
  PROVE  StatusListed'
<1>1. Kinds
  BY NextKind, DepartureFacts DEF Promises
<1> QED
  BY <1>1, DepartureFacts DEF Promises, StatusListed, Kinds, Quiet, Claims, Collected, Destroyed, Departs,
         Born, Removed, SameTable, Live, Known

\* The kernel implements the wait service (its safety): a status goes to one waiter,
\* every waiter sleeps on a process that lived when it asked, and is answered only
\* once that process has departed, or dropped with a sleeper that departs itself.  One
\* kind of step is not the service's: the status of a process whose window was closed
\* over a call, and whose call was driven again before the host forgot it, is handed
\* to its waiter and stays in the table.
THEOREM WaitsKept ==
  Spec => /\ Service!ServiceInit
          /\ [][Service!ServiceNext \/ \E p, c \in Pid : Uncollected(p, c)]_(Service!serviceVars)
<1>1. Init => Service!ServiceInit /\ Promises
  <2> SUFFICES ASSUME Init PROVE Service!ServiceInit /\ Promises
    OBVIOUS
  <2>1. Departures
    BY DeparturesInit
  <2>2. \A p \in Pid : LifeOf(p) = IF p = InitPid THEN "alive" ELSE "unborn"
    BY DEF Init, LifeOf, Known, Pid, InitPid
  <2>3. \A p \in Pid : parked[p].call = "none"
    BY DEF Init, NoReq, Req
  <2>4. WaitsPlain /\ WaitsOn = {} /\ StatusListed
    BY <2>3 DEF WaitsPlain, WaitsOn, Req, StatusListed, Init
  <2> QED
    BY <2>1, <2>2, <2>4 DEF Promises, Init, Service!ServiceInit, WaitsOn
<1>2. /\ Promises /\ [Next]_vars => Promises'
      /\ Promises /\ [Next]_vars
           => [Service!ServiceNext \/ \E p, c \in Pid : Uncollected(p, c)]_(Service!serviceVars)
  BY NextSeen, DeparturesNext, PlainNext, ListedNext, SeenImplements DEF Promises, Promised
<1> QED
  BY <1>1, <1>2, PTL DEF Spec

-----------------------------------------------------------------------------
(***************************************************************************)
(* Channels.  An end closes with the process that holds it, and a name is  *)
(* forgotten with a rendezvous that nobody and nothing waits at.           *)
(***************************************************************************)

Meetings == Sleepers /\ ChannelsLive

\* The living, but for those in gone, live on and hold what they held.
LiveOn(gone) == \A q \in Pid \ gone : Live(q) => Live(q)' /\ holds'[q] = holds[q]

LEMMA MeetingFacts ==
  ASSUME Meetings
  PROVE  /\ TypeOK /\ Lifecycle /\ ChannelEndsHeld /\ NamesFresh /\ NamesLead /\ NamesApart /\ UnmetAlone
         /\ chans \in [ChanId -> Chan] /\ byName \in [Names -> 0..MaxChan] /\ nextChan \in 1..(MaxChan + 1)
         /\ holds \in [Pid -> [ChanId -> End \cup {NoEnd}]]
         /\ \A n \in Names : byName[n] # 0 => byName[n] \in ChanId
BY ProcAssumption
   DEF Meetings, ChannelsLive, Sleepers, EndsApart, Lifecycle, TypeOK, ChansType, ProcType, ChanId

LEMMA StayLive ==
  ASSUME SameTable, UNCHANGED <<exitCode, holds>>
  PROVE  LiveOn({})
BY DEF SameTable, LiveOn, Live

LEMMA UntouchedLive ==
  ASSUME Meetings, UNCHANGED <<chans, byName, selfMet>>, LiveOn({})
  PROVE  ChannelsLive'
<1>1. ChannelEndsHeld'
  BY MeetingFacts DEF ChannelEndsHeld, LiveOn
<1>2. NamesFresh'
  BY MeetingFacts DEF NamesFresh
<1> QED
  BY <1>1, <1>2 DEF ChannelsLive

LEMMA ReleaseLive ==
  ASSUME Meetings, NEW t \in Pid, Release(t), LiveOn({t})
  PROVE  ChannelsLive'
<1>0. selfMet' = selfMet
  BY DEF Release
<1>1. ASSUME NEW c \in ChanId \ selfMet', NEW e \in End, chans'[c].open[e]
      PROVE  \E p \in Pid : Live(p)' /\ holds'[p][c] = e
  <2>1. chans[c] \in Chan /\ chans'[c] = ChansWithout(t)[c]
    BY MeetingFacts DEF Release
  <2>2. chans[c].open[e] /\ holds[t][c] # e
    BY <1>1, <2>1 DEF ChansWithout, Closed, NoChan, Chan, End
  <2>3. PICK p \in Pid : Live(p) /\ holds[p][c] = e
    BY <1>0, <2>2, MeetingFacts DEF ChannelEndsHeld
  <2> QED
    BY <2>2, <2>3 DEF LiveOn
<1>2. ASSUME NEW n \in Names, byName'[n] # 0
      PROVE  chans'[byName'[n]].pending /\ (chans'[byName'[n]].open[0] \/ chans'[byName'[n]].inbox[1] # <<>>)
  <2>1. PICK c \in ChanId : c = byName[n]
    BY <1>2, MeetingFacts DEF Release
  <2>2. byName'[n] = c /\ ChansWithout(t)[c] # NoChan /\ chans'[c] = ChansWithout(t)[c] /\ chans[c] \in Chan
    BY <1>2, <2>1, MeetingFacts DEF Release
  <2>3. chans[c].pending /\ (chans[c].open[0] \/ chans[c].inbox[1] # <<>>) /\ holds[t][c] # 1
    BY <1>2, <2>1, <2>2, MeetingFacts DEF NamesFresh, UnmetAlone
  <2>4. CASE holds[t][c] = 0
    BY <2>2, <2>3, <2>4 DEF ChansWithout, Closed, Abandoned, Collectable, NoChan, Chan, End
  <2>5. CASE holds[t][c] = NoEnd
    BY <2>2, <2>3, <2>5 DEF ChansWithout, NoEnd, End
  <2> QED
    BY <2>2, <2>3, <2>4, <2>5, MeetingFacts DEF End
<1> QED
  BY <1>1, <1>2 DEF ChannelsLive, ChannelEndsHeld, NamesFresh

LEMMA OpenLive ==
  ASSUME Meetings, NEW p \in Pid, NEW name \in Names, ChanOpen(p, name)
  PROVE  ChannelsLive'
<1>0. Live(p) /\ \A q \in Pid : Live(q)' <=> Live(q)
  BY DEF ChanOpen, MayCall, Live, Known, waitVars
<1>1. CASE byName[name] = 0
  <2>1. PICK new \in ChanId : new = nextChan
    BY <1>1, MeetingFacts, ProcAssumption DEF ChanOpen, ChanId
  <2>2. /\ chans' = [chans EXCEPT ![new] = NewChan] /\ byName' = [byName EXCEPT ![name] = new]
        /\ holds' = [holds EXCEPT ![p][new] = 0] /\ selfMet' = selfMet
    BY <1>1, <2>1 DEF ChanOpen
  <2>3. ChannelEndsHeld'
    <3> SUFFICES ASSUME NEW c \in ChanId \ selfMet', NEW e \in End, chans'[c].open[e]
                 PROVE  \E q \in Pid : Live(q)' /\ holds'[q][c] = e
      BY DEF ChannelEndsHeld
    <3>1. CASE c = new
      BY <1>0, <2>2, <3>1, MeetingFacts DEF NewChan, End
    <3>2. CASE c # new
      BY <1>0, <2>2, <3>2, MeetingFacts DEF ChannelEndsHeld
    <3> QED
      BY <3>1, <3>2
  <2>4. NamesFresh'
    <3> SUFFICES ASSUME NEW n \in Names, NEW c, c = byName'[n], c # 0
                 PROVE  chans'[c].pending /\ (chans'[c].open[0] \/ chans'[c].inbox[1] # <<>>)
      BY DEF NamesFresh
    <3>1. CASE n = name
      BY <2>2, <3>1, MeetingFacts DEF NewChan, End
    <3>2. CASE n # name
      <4>1. c = byName[n] /\ c \in ChanId /\ c # new
        BY <2>1, <2>2, <3>2, MeetingFacts DEF NamesLead, ChanId
      <4> QED
        BY <2>2, <4>1, MeetingFacts DEF NamesFresh
    <3> QED
      BY <3>1, <3>2
  <2> QED
    BY <2>3, <2>4 DEF ChannelsLive
<1>2. CASE byName[name] # 0
  <2>1. PICK id \in ChanId : id = byName[name]
    BY <1>2, MeetingFacts
  <2>2. /\ chans' = [chans EXCEPT ![id] = Connected(@)] /\ byName' = [byName EXCEPT ![name] = 0]
        /\ holds' = [holds EXCEPT ![p][id] = 1]
        /\ selfMet' = IF holds[p][id] = NoEnd THEN selfMet ELSE selfMet \cup {id}
    BY <1>2, <2>1 DEF ChanOpen
  <2>3. ChannelEndsHeld'
    <3> SUFFICES ASSUME NEW c \in ChanId \ selfMet', NEW e \in End, chans'[c].open[e]
                 PROVE  \E q \in Pid : Live(q)' /\ holds'[q][c] = e
      BY DEF ChannelEndsHeld
    <3>1. CASE c = id /\ e = 1
      BY <1>0, <2>2, <3>1, MeetingFacts
    <3>2. CASE ~(c = id /\ e = 1)
      <4>1. chans[c].open[e]
        BY <2>2, <3>2, MeetingFacts DEF Connected, Chan, End
      <4>2. PICK q \in Pid : Live(q) /\ holds[q][c] = e
        BY <2>2, <4>1, MeetingFacts DEF ChannelEndsHeld
      <4>3. holds'[q][c] = e
        BY <2>2, <4>2, MeetingFacts DEF NoEnd, End
      <4> QED
        BY <1>0, <4>2, <4>3
    <3> QED
      BY <3>1, <3>2
  <2>4. NamesFresh'
    <3> SUFFICES ASSUME NEW n \in Names, NEW c, c = byName'[n], c # 0
                 PROVE  chans'[c].pending /\ (chans'[c].open[0] \/ chans'[c].inbox[1] # <<>>)
      BY DEF NamesFresh
    <3>1. n # name /\ c = byName[n]
      BY <2>2, MeetingFacts
    <3>2. c # id /\ c \in ChanId
      BY <1>2, <2>1, <3>1, MeetingFacts DEF NamesApart
    <3> QED
      BY <2>2, <3>1, <3>2, MeetingFacts DEF NamesFresh
  <2> QED
    BY <2>3, <2>4 DEF ChannelsLive
<1> QED
  BY <1>1, <1>2

\* A message sent or received moves no end.
LEMMA MessageLive ==
  ASSUME Meetings, LiveOn({}), UNCHANGED <<byName, selfMet>>, NEW c \in ChanId, NEW chan \in Chan,
         chans' = [chans EXCEPT ![c] = chan],
         chan.open = chans[c].open, chan.pending = chans[c].pending,
         chan.pending /\ chans[c].inbox[1] # <<>> => chan.inbox[1] # <<>>
  PROVE  ChannelsLive'
<1>1. \A d \in ChanId : /\ chans'[d].open = chans[d].open /\ chans'[d].pending = chans[d].pending
                        /\ chans[d].pending /\ chans[d].inbox[1] # <<>> => chans'[d].inbox[1] # <<>>
  BY MeetingFacts
<1>2. ChannelEndsHeld'
  BY <1>1, MeetingFacts DEF ChannelEndsHeld, LiveOn
<1>3. NamesFresh'
  <2> SUFFICES ASSUME NEW n \in Names, NEW d, d = byName[n], d # 0
               PROVE  chans'[d].pending /\ (chans'[d].open[0] \/ chans'[d].inbox[1] # <<>>)
    BY DEF NamesFresh
  <2>1. d \in ChanId /\ chans[d].pending /\ (chans[d].open[0] \/ chans[d].inbox[1] # <<>>)
    BY MeetingFacts DEF NamesFresh
  <2> QED
    BY <1>1, <2>1
<1> QED
  BY <1>2, <1>3 DEF ChannelsLive

LEMMA SendLive ==
  ASSUME Meetings, NEW p \in Pid, NEW c \in ChanId, NEW msg \in Msg, ChanSend(p, c, msg)
  PROVE  ChannelsLive'
<1>1. PICK end \in End : end = holds[p][c]
  BY DEF ChanSend
<1>2. PICK chan \in Chan : chan = chans[c]
  BY MeetingFacts
<1>3. PICK sent : sent = Sent(chan, end, msg)
  OBVIOUS
<1>4. /\ sent \in Chan /\ sent.open = chan.open /\ sent.pending = chan.pending
      /\ chan.inbox[1] # <<>> => sent.inbox[1] # <<>>
  <2>1. chan.inbox[1 - end] \in Seq(Msg) /\ chan.inbox \in [End -> Seq(Msg)] /\ 1 - end \in End
    BY <1>2 DEF Chan, End
  <2>2. PICK box : box = Append(chan.inbox[1 - end], msg)
    OBVIOUS
  <2>3. box \in Seq(Msg) /\ box # <<>>
    BY <2>1, <2>2
  <2>4. sent = [chan EXCEPT !.inbox[1 - end] = box]
    BY <1>3, <2>2 DEF Sent
  <2> QED
    BY <2>1, <2>3, <2>4 DEF Chan, End
<1>5. LiveOn({}) /\ UNCHANGED <<byName, selfMet>>
  BY ReplyQuiet, StayLive, MeetingFacts DEF ChanSend, procVars
<1> QED
  BY <1>1, <1>2, <1>3, <1>4, <1>5, MessageLive DEF ChanSend

LEMMA RecvLive ==
  ASSUME Meetings, NEW p \in Pid, NEW STATE r, r \in Request, ChanRecv(p, r)
  PROVE  ChannelsLive'
<1>1. PICK c \in ChanId : c = r.arg
  BY DEF ChanRecv, Request, Of
<1>2. LiveOn({}) /\ UNCHANGED <<byName, selfMet>>
  BY ReplyQuiet, ParkQuiet, StayLive, MeetingFacts DEF ChanRecv, procVars
<1>3. CASE UNCHANGED chans
  BY <1>2, <1>3, UntouchedLive
<1>4. CASE holds[p][c] # NoEnd /\ chans[c].inbox[holds[p][c]] # <<>>
           /\ chans' = [chans EXCEPT ![c] = Received(@, holds[p][c])]
  <2>1. PICK end \in End : end = holds[p][c]
    BY <1>4, MeetingFacts
  <2>2. PICK chan \in Chan : chan = chans[c]
    BY MeetingFacts
  <2>3. PICK left : left = Received(chan, end)
    OBVIOUS
  <2>4. /\ left \in Chan /\ left.open = chan.open /\ left.pending = chan.pending
        /\ end = 0 => left.inbox[1] = chan.inbox[1]
    <3>1. chan.inbox \in [End -> Seq(Msg)]
      BY DEF Chan
    <3>2. chan.inbox[end] \in Seq(Msg) /\ chan.inbox[end] # <<>>
      BY <1>4, <2>1, <2>2, <3>1
    <3>3. PICK box \in Seq(Msg) : box = chan.inbox[end] /\ box # <<>>
      BY <3>2
    <3>5. PICK rest \in Seq(Msg) : rest = Tail(box)
      <4>1. Tail(box) \in Seq(Msg)
        BY <3>3
      <4> QED
        BY <4>1
    <3>4. left = [chan EXCEPT !.inbox[end] = rest]
      BY <2>3, <3>3, <3>5 DEF Received
    <3>6. left.open = chan.open /\ left.pending = chan.pending
      BY <3>4 DEF Chan
    <3>7. left \in Chan
      BY <2>2, <3>1, <3>4, <3>5 DEF Chan
    <3>8. end = 0 => left.inbox[1] = chan.inbox[1]
      BY <2>2, <3>1, <3>4 DEF Chan, End
    <3> QED
      BY <3>6, <3>7, <3>8
  <2>5. chan.pending => end = 0
    BY <2>1, <2>2, MeetingFacts DEF UnmetAlone, End
  <2> QED
    BY <1>2, <1>4, <2>1, <2>2, <2>3, <2>4, <2>5, MessageLive
<1> QED
  BY <1>1, <1>3, <1>4 DEF ChanRecv

\* Who serves, and whom a step costs its life.
LEMMA ServeLive ==
  ASSUME Meetings, NEW p \in Pid, NEW STATE r, r \in Request, Serve(p, r)
  PROVE  ChannelsLive'
<1>1. CASE ChanRecv(p, r)
  BY <1>1, RecvLive
<1>2. CASE FdRead(p, r) \/ FdWrite(p, r) \/ SigWait(p, r) \/ WinReadInput(p, r) \/ NetRequest(p, r)
  <2>1. UNCHANGED <<chans, byName, selfMet, exitCode, holds>>
    BY <1>2 DEF FdRead, ReadPipe, ReadStdin, ReadParks, ReadReturns, FdWrite, SigWait, WinReadInput,
                NetRequest, procVars, chanVars
  <2>2. SameTable
    BY <1>2, ReplyQuiet, ParkQuiet, MeetingFacts
       DEF FdRead, ReadPipe, ReadStdin, ReadParks, ReadReturns, FdWrite, WritePipe, WriteParks, WriteReturns,
           SigWait, WinReadInput, NetRequest
  <2> QED
    BY <2>1, <2>2, StayLive, UntouchedLive
<1>3. CASE KWait(p, r)
  <2>1. UNCHANGED <<chans, byName, selfMet>>
    BY <1>3 DEF KWait, chanVars
  <2>2. PICK c \in Pid : c = r.arg
    BY <1>3 DEF KWait, Request, Of
  <2>3. CASE WaitCollects(p, c)
    <3>1. ~Live(c) /\ \A q \in Pid \ {c} : /\ state'[q] = state[q] /\ exitCode'[q] = exitCode[q]
                                           /\ holds'[q] = holds[q]
      BY <2>3, MeetingFacts DEF WaitCollects, Live, Reap, Forget, TypeOK, ProcType, WaitType,
                                procVars, waitVars
    <3>2. LiveOn({})
      BY <3>1 DEF LiveOn, Live, Known
    <3> QED
      BY <2>1, <3>2, UntouchedLive
  <2>4. CASE WaitFindsNone(p, c) \/ WaitParks(p, r)
    BY <2>1, <2>4, ReplyQuiet, ParkQuiet, StayLive, UntouchedLive, MeetingFacts
       DEF WaitFindsNone, WaitParks, procVars
  <2> QED
    BY <1>3, <2>2, <2>3, <2>4 DEF KWait
<1> QED
  BY <1>1, <1>2, <1>3 DEF Serve

\* Whom an exit wakes stays in the table.
LEMMA WokenKnown ==
  ASSUME Meetings, NEW reasons, NEW t \in Pid, NEW v, state' = [Runnable(reasons) EXCEPT ![t] = v]
  PROVE  \A q \in Pid \ {t} : Known(q)' <=> Known(q)
<1>1. TypeOK
  BY MeetingFacts
<1>2. PICK run : run = Runnable(reasons)
  OBVIOUS
<1>3. DOMAIN run = Pid
  BY <1>2 DEF Runnable
<1>4. \A q \in Pid : run[q] = "none" <=> state[q] = "none"
  BY <1>1, <1>2, RunnableTable
<1>5. \A q \in Pid \ {t} : state'[q] = run[q]
  BY <1>2, <1>3
<1> QED
  BY <1>4, <1>5 DEF Known

LEMMA ExitLive ==
  ASSUME Meetings, NEW p \in Pid, NEW code, Exit(p, code)
  PROVE  ChannelsLive'
<1>1. /\ Release(p) /\ exitCode' = [exitCode EXCEPT ![p] = code] /\ holds' = holds
      /\ state' = [Runnable(ExitReasons(p)) EXCEPT ![p] = "zombie"]
  BY DEF Exit
<1>2. \A q \in Pid \ {p} : Known(q)' <=> Known(q)
  BY <1>1, WokenKnown
<1>3. DOMAIN exitCode = Pid
  BY MeetingFacts DEF TypeOK, ProcType
<1>4. \A q \in Pid \ {p} : exitCode'[q] = exitCode[q]
  BY <1>1, <1>3
<1>5. LiveOn({p})
  BY <1>1, <1>2, <1>4 DEF LiveOn, Live
<1> QED
  BY <1>1, <1>5, ReleaseLive

LEMMA Kill9Live ==
  ASSUME Meetings, NEW p \in Pid, NEW t \in Pid, Kill9(p, t)
  PROVE  ChannelsLive'
<1>1. Release(t)
  BY DEF Kill9
<1>2. DOMAIN exitCode = Pid /\ DOMAIN holds = Pid
  BY MeetingFacts DEF TypeOK, ProcType
<1>3. \A q \in Pid \ {t} : Known(q)' <=> Known(q)
  <2>1. \/ state' = [Runnable(ExitReasons(t)) EXCEPT ![t] = "none"]
        \/ state' = [Runnable(ExitReasons(t)) EXCEPT ![t] = "zombie"]
    BY DEF Kill9
  <2> QED
    BY <2>1, WokenKnown
<1>4. \A q \in Pid \ {t} : exitCode'[q] = exitCode[q]
  <2>1. \/ exitCode' = [exitCode EXCEPT ![t] = NoCode]
        \/ exitCode' = [exitCode EXCEPT ![t] = 137]
    BY DEF Kill9, Forget
  <2> QED
    BY <1>2, <2>1
<1>5. \A q \in Pid \ {t} : holds'[q] = holds[q]
  <2>1. \/ holds' = [holds EXCEPT ![t] = [c \in ChanId |-> NoEnd]]
        \/ holds' = holds
    BY DEF Kill9, Forget
  <2> QED
    BY <1>2, <2>1
<1>6. LiveOn({t})
  BY <1>3, <1>4, <1>5 DEF LiveOn, Live
<1> QED
  BY <1>1, <1>6, ReleaseLive

LEMMA GuestCallLive ==
  ASSUME Meetings, NEW p \in Pid, GuestCall(p)
  PROVE  ChannelsLive'
<1>1. CASE Issue(p)
  <2>1. PICK r \in Offered(p) : Serve(p, r)
    BY <1>1 DEF Issue
  <2> QED
    BY <2>1, OfferedType, ServeLive, MeetingFacts
<1>2. CASE KPipe(p) \/ ProcRaise(p) \/ ShmCreate(p) \/ (\E s \in ShmId, t \in Pid : ShmGrant(p, s, t)) \/ WinSurface(p)
  <2>1. UNCHANGED <<chans, byName, selfMet, holds, exitCode, state>>
    BY <1>2 DEF KPipe, ProcRaise, ShmCreate, ShmGrant, WinSurface, procVars, waitVars, chanVars
  <2> QED
    BY <2>1, StayLive, UntouchedLive DEF SameTable, Known
<1>3. CASE (\E fd \in Fd : FdClose(p, fd)) \/ (\E old \in Fd, new \in RenumberTo : FdRenumber(p, old, new))
           \/ \E t \in Pid : KillTerm(p, t)
  <2>1. UNCHANGED <<chans, byName, selfMet, holds, exitCode>>
    BY <1>3 DEF FdClose, FdRenumber, KillTerm, chanVars
  <2>2. SameTable
    BY <1>3, ReplyQuiet, NudgeQuiet, MeetingFacts DEF FdClose, FdRenumber, KillTerm
  <2> QED
    BY <2>1, <2>2, StayLive, UntouchedLive
<1>4. CASE SpawnAny(p)
  <2>1. UNCHANGED <<chans, byName, selfMet, holds>>
    BY <1>4 DEF SpawnAny, KSpawn, chanVars
  <2>2. LiveOn({})
    BY <1>4, <2>1, SpawnKind, MeetingFacts DEF Born, LiveOn, Live
  <2> QED
    BY <2>1, <2>2, UntouchedLive
<1>5. CASE \E name \in Names : ChanOpen(p, name)
  BY <1>5, OpenLive
<1>6. CASE \E c \in ChanId, msg \in Msg : ChanSend(p, c, msg)
  BY <1>6, SendLive
<1>7. CASE (\E code \in ExitCodes : ProcExit(p, code)) \/ \E t \in Pid : Kill9(p, t)
  BY <1>7, ExitLive, Kill9Live DEF ProcExit
<1> QED
  BY <1>1, <1>2, <1>3, <1>4, <1>5, <1>6, <1>7 DEF GuestCall

LEMMA HostExitLive ==
  ASSUME Meetings, NEW p \in Pid, NEW code, HostExit(p, code)
  PROVE  ChannelsLive'
<1>1. CASE Unrecorded(p)
  BY <1>1, ExitLive DEF HostExit
<1>2. CASE ~Unrecorded(p)
  BY <1>2, StayLive, UntouchedLive DEF HostExit, procVars, waitVars, chanVars, SameTable, Known
<1> QED
  BY <1>1, <1>2

LEMMA HostEventLive ==
  ASSUME Meetings, NEW p \in Pid, HostEvent(p)
  PROVE  ChannelsLive'
<1>1. CASE (\E code \in ExitCodes : WorkerExit(p, code)) \/ HostKill(p)
  BY <1>1, HostExitLive DEF WorkerExit, HostKill
<1>2. CASE (\E n \in Nat : DeliverStdin(p, n) \/ DeliverInput(p, n)) \/ DeliverNet(p)
  <2>1. UNCHANGED <<chans, byName, selfMet, holds, exitCode>>
    BY <1>2 DEF DeliverStdin, DeliverInput, DeliverNet, procVars, chanVars
  <2>2. SameTable
    BY <1>2, NudgeQuiet, MeetingFacts DEF DeliverStdin, DeliverInput, DeliverNet
  <2> QED
    BY <2>1, <2>2, StayLive, UntouchedLive
<1> QED
  BY <1>1, <1>2, KernelAssumption DEF HostEvent

LEMMA MeetingsNext ==
  ASSUME Meetings, [Next]_vars
  PROVE  Meetings'
<1>1. Sleepers'
  BY SleepersNext DEF Meetings
<1>2. CASE Launch
  <2>1. UNCHANGED <<chans, byName, selfMet, holds>>
    BY <1>2 DEF Launch, HostSpawn, chanVars
  <2>2. LiveOn({})
    BY <1>2, <2>1, LaunchKind, MeetingFacts DEF Born, LiveOn, Live
  <2> QED
    BY <1>1, <2>1, <2>2, UntouchedLive DEF Meetings
<1>3. CASE \E p \in Pid : Redrive(p)
  <2>1. PICK p \in Pid : Serve(p, parked[p])
    BY <1>3 DEF Redrive
  <2>2. parked[p] \in Request
    BY MeetingFacts DEF TypeOK, HostType
  <2> QED
    BY <1>1, <2>1, <2>2, ServeLive DEF Meetings
<1>4. CASE FinishExit \/ StartChild \/ UNCHANGED vars
  <2>1. UNCHANGED <<chans, byName, selfMet, holds, exitCode, state>>
    BY <1>4 DEF FinishExit, StartChild, vars, procVars, waitVars, chanVars
  <2> QED
    BY <1>1, <2>1, StayLive, UntouchedLive DEF SameTable, Known, Meetings
<1>5. CASE SpawnFailed
  <2>1. turn.pid \in Pid
    BY <1>5, MeetingFacts DEF SpawnFailed, TypeOK, HostType, Turn
  <2> QED
    BY <1>1, <1>5, <2>1, ExitLive DEF SpawnFailed, Meetings
<1>6. CASE \E p \in Pid : GuestCall(p) \/ HostEvent(p)
  BY <1>1, <1>6, GuestCallLive, HostEventLive DEF Meetings
<1> QED
  BY <1>2, <1>3, <1>4, <1>5, <1>6 DEF Next, HostTurn

\* Nobody waits for a peer that cannot come, by an open end or by a name, however its
\* peers close, exit or are torn away (close_proc_channels, open, close, gc): on every
\* channel but those that one process opened both ends of, whatever else it does.
THEOREM PeersReachable == Spec => []ChannelsLive
<1>1. Init => Meetings
  <2> SUFFICES ASSUME Init PROVE ChannelsLive
    BY SleepersInit DEF Meetings
  <2> QED
    BY DEF Init, ChannelsLive, ChannelEndsHeld, NamesFresh, NoChan, End
<1>2. Meetings /\ [Next]_vars => Meetings'
  BY MeetingsNext
<1>3. Meetings => ChannelsLive
  BY DEF Meetings
<1> QED
  BY <1>1, <1>2, <1>3, PTL DEF Spec

-----------------------------------------------------------------------------
(***************************************************************************)
(* The counts of a pipe are the descriptors the living have for it, for    *)
(* any number of processes, descriptors and pipes, as long as no end of it *)
(* is lost or released twice.  Every step is judged by what it does to the *)
(* set of those descriptors: nothing, one more, one fewer, all of one      *)
(* process.                                                                *)
(***************************************************************************)
Ends(kind, i) == {pf \in Pid \X Fd : Live(pf[1]) /\ fds[pf[1]][pf[2]] = PipeEnd(kind, i)}

\* The counts of every pipe that nothing miscounted are right.
CountsHold == \A i \in PipeId \ miscounted : CountsMatch(i)

Counted == Sleepers /\ CountsHold

\* No pipe is ever taken off the list again.
Marked == miscounted \subseteq miscounted'

LEMMA CountedFacts ==
  ASSUME Counted
  PROVE  /\ TypeOK /\ Lifecycle /\ PipesUnused /\ CountsHold
         /\ pipes \in [PipeId -> Pipe] /\ nextPipe \in 1..(MaxPipe + 1)
         /\ fds \in [Pid -> [Fd -> Desc]] /\ nextFd \in [Pid -> Fd]
         /\ state \in [Pid -> ProcState] /\ exitCode \in [Pid -> Codes \cup {NoCode}]
         /\ nextPid \in 2..(MaxPid + 1)
BY DEF Counted, Sleepers, PipesSound, Lifecycle, TypeOK, ProcType, WaitType, PipesType

-----------------------------------------------------------------------------
(***************************************************************************)
(* Counting.                                                               *)
(***************************************************************************)
LEMMA TableFinite ==
  ASSUME NEW S \in SUBSET (Pid \X Fd)
  PROVE  IsFiniteSet(S) /\ Cardinality(S) \in Nat
<1>1. IsFiniteSet(Pid) /\ IsFiniteSet(Fd)
  BY ProcAssumption, FS_Interval DEF Pid, Fd
<1>2. IsFiniteSet(S)
  BY <1>1, FS_Product, FS_Subset
<1> QED
  BY <1>2, FS_CardinalityType

LEMMA EndsFinite ==
  ASSUME NEW kind, NEW i
  PROVE  IsFiniteSet(Ends(kind, i)) /\ LiveEnds(kind, i) = Cardinality(Ends(kind, i)) /\ LiveEnds(kind, i) \in Nat
<1>1. Ends(kind, i) \in SUBSET (Pid \X Fd)
  BY DEF Ends
<1> QED
  BY <1>1, TableFinite DEF Ends, LiveEnds

LEMMA EndsFiniteNext ==
  ASSUME NEW kind, NEW i
  PROVE  LiveEnds(kind, i)' = Cardinality(Ends(kind, i)')
BY DEF Ends, LiveEnds

\* The descriptors of one process.
LEMMA OneProcess ==
  ASSUME NEW p, NEW S \in SUBSET Fd
  PROVE  IsFiniteSet({p} \X S) /\ Cardinality({p} \X S) = Cardinality(S)
<1>1. IsFiniteSet(S) /\ Cardinality(S) \in Nat
  BY CountType
<1>2. IsFiniteSet({p}) /\ Cardinality({p}) = 1
  BY FS_Singleton
<1> QED
  BY <1>1, <1>2, FS_Product

LEMMA CloseCounts ==
  ASSUME NEW pipe \in Pipe, NEW r \in Nat, NEW w \in Nat, r <= pipe.readers, w <= pipe.writers
  PROVE  /\ CloseEnds(pipe, r, w).readers = pipe.readers - r
         /\ CloseEnds(pipe, r, w).writers = pipe.writers - w
<1>1. pipe.readers \in Nat /\ pipe.writers \in Nat
      /\ pipe = [buf |-> pipe.buf, readers |-> pipe.readers, writers |-> pipe.writers]
  BY DEF Pipe
<1> DEFINE left == [pipe EXCEPT !.readers = SaturatingSub(@, r), !.writers = SaturatingSub(@, w)]
<1>2. left.readers = pipe.readers - r /\ left.writers = pipe.writers - w
  BY <1>1 DEF SaturatingSub
<1>3. CloseEnds(pipe, r, w) = IF left.readers = 0 /\ left.writers = 0 THEN NoPipe ELSE left
  BY DEF CloseEnds
<1> HIDE DEF left
<1> QED
  BY <1>1, <1>2, <1>3 DEF NoPipe

LEMMA AddCounts ==
  ASSUME NEW pipe \in Pipe, NEW r \in Nat, NEW w \in Nat, pipe # NoPipe
  PROVE  /\ AddEnds(pipe, r, w).readers = pipe.readers + r
         /\ AddEnds(pipe, r, w).writers = pipe.writers + w
BY DEF Pipe, AddEnds, Exists

\* What an end the living have is an end of: a pipe that is there.
LEMMA HeldIsThere ==
  ASSUME CountsHold, NEW i \in PipeId \ miscounted, NEW kind \in PipeKind, NEW pf \in Ends(kind, i)
  PROVE  pipes[i] # NoPipe /\ LiveEnds(kind, i) >= 1
<1>1. LiveEnds(kind, i) # 0
  BY EndsFinite, FS_EmptySet
<1> QED
  BY <1>1, EndsFinite DEF CountsHold, CountsMatch, PipeKind, NoPipe

\* Nothing changed for a pipe, if not for what is in its buffer.
LEMMA KeptRef ==
  ASSUME CountsHold, Marked,
         \A q \in Pid : (Live(q)' <=> Live(q)) /\ (Live(q) => fds'[q] = fds[q]),
         \A i \in PipeId : pipes'[i].readers = pipes[i].readers /\ pipes'[i].writers = pipes[i].writers
  PROVE  CountsHold'
<1>1. \A kind, i : Ends(kind, i)' = Ends(kind, i)
  BY DEF Ends
<1>2. \A kind, i : LiveEnds(kind, i)' = LiveEnds(kind, i)
  BY <1>1, EndsFinite, EndsFiniteNext
<1> QED
  BY <1>2 DEF CountsHold, CountsMatch, Marked

\* One end of a pipe fewer, or none (d is no pipe's).
OneFewer(d) ==
  \A kind \in PipeKind, i \in PipeId :
    LiveEnds(kind, i)' = IF d = PipeEnd(kind, i) THEN LiveEnds(kind, i) - 1 ELSE LiveEnds(kind, i)

LEMMA CloseRef ==
  ASSUME CountsHold, Marked, pipes \in [PipeId -> Pipe], NEW d \in Desc, CloseDesc(d), OneFewer(d),
         \A kind \in PipeKind, i \in PipeId \ miscounted : d = PipeEnd(kind, i) => LiveEnds(kind, i) >= 1
  PROVE  CountsHold'
<1> SUFFICES ASSUME NEW i \in PipeId \ miscounted
             PROVE  /\ pipes'[i].readers = LiveEnds("pipeRead", i)'
                    /\ pipes'[i].writers = LiveEnds("pipeWrite", i)'
  BY DEF CountsHold, CountsMatch, Marked
<1>1. /\ pipes[i] \in Pipe /\ pipes[i].readers = LiveEnds("pipeRead", i)
      /\ pipes[i].writers = LiveEnds("pipeWrite", i)
      /\ pipes[i].readers \in Nat /\ pipes[i].writers \in Nat
  BY EndsFinite DEF CountsHold, CountsMatch
<1>2. CASE d = PipeEnd("pipeRead", i)
  <2>1. d.kind = "pipeRead" /\ d.id = i /\ d # PipeEnd("pipeWrite", i)
    BY <1>2 DEF PipeEnd
  <2>2. pipes'[i] = CloseEnds(pipes[i], 1, 0) /\ pipes[i].readers >= 1
    BY <1>1, <1>2, <2>1 DEF CloseDesc, PipeKind
  <2> QED
    BY <1>1, <1>2, <2>1, <2>2, CloseCounts DEF OneFewer, PipeKind
<1>3. CASE d = PipeEnd("pipeWrite", i)
  <2>1. d.kind = "pipeWrite" /\ d.id = i /\ d # PipeEnd("pipeRead", i)
    BY <1>3 DEF PipeEnd
  <2>2. pipes'[i] = CloseEnds(pipes[i], 0, 1) /\ pipes[i].writers >= 1
    BY <1>1, <1>3, <2>1 DEF CloseDesc, PipeKind
  <2> QED
    BY <1>1, <1>3, <2>1, <2>2, CloseCounts DEF OneFewer, PipeKind
<1>4. CASE d # PipeEnd("pipeRead", i) /\ d # PipeEnd("pipeWrite", i)
  <2>1. d.kind \in PipeKind => d.id # i
    BY <1>4 DEF Desc, PipeEnd, PipeKind
  <2>2. pipes'[i] = pipes[i]
    BY <2>1 DEF CloseDesc, PipeKind
  <2> QED
    BY <1>1, <1>4, <2>2 DEF OneFewer, PipeKind
<1> QED
  BY <1>2, <1>3, <1>4

-----------------------------------------------------------------------------
(***************************************************************************)
(* The calls on descriptors.                                               *)
(***************************************************************************)
LEMMA FdCloseRef ==
  ASSUME Counted, NEW p \in Pid, NEW fd \in Fd, FdClose(p, fd)
  PROVE  CountsHold'
<1>0. PICK d \in Desc : d = fds[p][fd]
  BY CountedFacts
<1>1. Live(p) /\ \A q \in Pid : Live(q)' <=> Live(q)
  <2>1. SameTable /\ UNCHANGED exitCode
    BY ReplyQuiet, CountedFacts DEF FdClose
  <2> QED
    BY <2>1 DEF FdClose, MayCall, SameTable, Live
<1>2. ASSUME NEW kind \in PipeKind, NEW i \in PipeId
      PROVE  LiveEnds(kind, i)' = IF d = PipeEnd(kind, i) THEN LiveEnds(kind, i) - 1 ELSE LiveEnds(kind, i)
  <2>1. PipeEnd(kind, i) # NoDesc
    BY DEF PipeEnd, NoDesc, PipeKind
  <2>2. Ends(kind, i)' = Ends(kind, i) \ {<<p, fd>>}
    BY <1>1, <2>1, CountedFacts DEF FdClose, Ends
  <2>3. <<p, fd>> \in Ends(kind, i) <=> d = PipeEnd(kind, i)
    BY <1>0, <1>1 DEF Ends
  <2> QED
    BY <2>2, <2>3, EndsFinite, EndsFiniteNext, FS_RemoveElement
<1>3. \A kind \in PipeKind, i \in PipeId \ miscounted : d = PipeEnd(kind, i) => LiveEnds(kind, i) >= 1
  <2>1. \A kind \in PipeKind, i \in PipeId : d = PipeEnd(kind, i) => <<p, fd>> \in Ends(kind, i)
    BY <1>0, <1>1 DEF Ends
  <2> QED
    BY <2>1, HeldIsThere, CountedFacts
<1> QED
  BY <1>0, <1>2, <1>3, CloseRef, CountedFacts DEF FdClose, OneFewer, Marked

LEMMA FdRenumberRef ==
  ASSUME Counted, NEW p \in Pid, NEW old \in Fd, NEW new \in Fd, FdRenumber(p, old, new)
  PROVE  CountsHold'
<1>0. PICK d \in Desc : d = fds[p][new]
  BY CountedFacts
<1>1. Live(p) /\ \A q \in Pid : Live(q)' <=> Live(q)
  <2>1. SameTable /\ UNCHANGED exitCode
    BY ReplyQuiet, CountedFacts DEF FdRenumber
  <2> QED
    BY <2>1 DEF FdRenumber, MayCall, SameTable, Live
<1>2. ASSUME NEW kind \in PipeKind, NEW i \in PipeId
      PROVE  LiveEnds(kind, i)' = IF d = PipeEnd(kind, i) THEN LiveEnds(kind, i) - 1 ELSE LiveEnds(kind, i)
  <2>1. PipeEnd(kind, i) # NoDesc /\ old # new
    BY DEF PipeEnd, NoDesc, PipeKind, FdRenumber
  <2>2. <<p, new>> \in Ends(kind, i) <=> d = PipeEnd(kind, i)
    BY <1>0, <1>1 DEF Ends
  <2>3. CASE fds[p][old] = PipeEnd(kind, i)
    <3>1. Ends(kind, i)' = (Ends(kind, i) \ {<<p, old>>}) \cup {<<p, new>>}
      BY <1>1, <2>1, <2>3, CountedFacts DEF FdRenumber, Ends
    <3>2. <<p, old>> \in Ends(kind, i)
      BY <1>1, <2>3 DEF Ends
    <3>3. PICK S : S = Ends(kind, i) \ {<<p, old>>}
      OBVIOUS
    <3>4. IsFiniteSet(S) /\ Cardinality(S) = LiveEnds(kind, i) - 1
      <4>1. IsFiniteSet(Ends(kind, i)) /\ Cardinality(Ends(kind, i)) = LiveEnds(kind, i)
        BY EndsFinite
      <4>2. /\ IsFiniteSet(Ends(kind, i) \ {<<p, old>>})
            /\ Cardinality(Ends(kind, i) \ {<<p, old>>}) = Cardinality(Ends(kind, i)) - 1
        BY <3>2, <4>1, FS_RemoveElement
      <4> QED
        BY <3>3, <4>1, <4>2
    <3>5. <<p, new>> \in S <=> d = PipeEnd(kind, i)
      BY <2>1, <2>2, <3>3
    <3>6. Ends(kind, i)' = S \cup {<<p, new>>}
      BY <3>1, <3>3
    <3>7. Cardinality(S \cup {<<p, new>>}) = IF d = PipeEnd(kind, i) THEN Cardinality(S) ELSE Cardinality(S) + 1
      BY <3>4, <3>5, FS_AddElement
    <3>8. LiveEnds(kind, i)' = Cardinality(S \cup {<<p, new>>}) /\ LiveEnds(kind, i) \in Nat
      BY <3>6, EndsFinite, EndsFiniteNext
    <3> QED
      BY <3>4, <3>7, <3>8
  <2>4. CASE fds[p][old] # PipeEnd(kind, i)
    <3>1. Ends(kind, i)' = Ends(kind, i) \ {<<p, new>>}
      BY <1>1, <2>1, <2>4, CountedFacts DEF FdRenumber, Ends
    <3> QED
      BY <2>2, <3>1, EndsFinite, EndsFiniteNext, FS_RemoveElement
  <2> QED
    BY <2>3, <2>4
<1>3. \A kind \in PipeKind, i \in PipeId \ miscounted : d = PipeEnd(kind, i) => LiveEnds(kind, i) >= 1
  <2>1. \A kind \in PipeKind, i \in PipeId : d = PipeEnd(kind, i) => <<p, new>> \in Ends(kind, i)
    BY <1>0, <1>1 DEF Ends
  <2> QED
    BY <2>1, HeldIsThere, CountedFacts
<1> QED
  BY <1>0, <1>2, <1>3, CloseRef, CountedFacts DEF FdRenumber, OneFewer, Marked

LEMMA KPipeRef ==
  ASSUME Counted, NEW p \in Pid, KPipe(p)
  PROVE  CountsHold'
<1>1. Live(p) /\ \A q \in Pid : Live(q)' <=> Live(q)
  BY DEF KPipe, MayCall, Live, Known, waitVars
<1>2. PICK i \in PipeId : i = nextPipe
  BY CountedFacts, ProcAssumption DEF KPipe, PipeId
<1>3. PICK rfd \in Fd, wfd \in Fd : rfd = nextFd[p] /\ wfd = FdAfter(rfd) /\ rfd # wfd
  <2>1. nextFd[p] \in 0..MaxFd /\ MaxFd \in Nat /\ MaxFd >= 4
    BY CountedFacts, ProcAssumption DEF Fd
  <2>2. FdAfter(nextFd[p]) \in 0..MaxFd /\ FdAfter(nextFd[p]) # nextFd[p]
    BY <2>1 DEF FdAfter
  <2> QED
    BY <2>1, <2>2 DEF Fd
<1>4. /\ miscounted' = miscounted \cup EndsAt(p, {rfd, wfd})
      /\ \A kind \in PipeKind, j \in PipeId \ miscounted' :
            fds[p][rfd] # PipeEnd(kind, j) /\ fds[p][wfd] # PipeEnd(kind, j)
  <2>1. miscounted' = miscounted \cup EndsAt(p, {rfd, wfd})
    BY <1>3 DEF KPipe
  <2> QED
    BY <2>1 DEF EndsAt
<1>5. /\ fds' = [fds EXCEPT ![p] = [@ EXCEPT ![rfd] = PipeEnd("pipeRead", i), ![wfd] = PipeEnd("pipeWrite", i)]]
      /\ pipes' = [pipes EXCEPT ![i] = NewPipe] /\ pipes[i] = NoPipe
  BY <1>2, <1>3, CountedFacts DEF KPipe, PipesUnused, PipeId
<1>6. ASSUME NEW kind \in PipeKind, NEW j \in PipeId \ miscounted'
      PROVE  LiveEnds(kind, j)' = IF j = i THEN LiveEnds(kind, j) + 1 ELSE LiveEnds(kind, j)
  <2>1. PICK fd \in Fd : fd = IF kind = "pipeRead" THEN rfd ELSE wfd
    OBVIOUS
  <2>2. PipeEnd(kind, j) # NoDesc /\ rfd # wfd
    BY <1>3 DEF PipeEnd, NoDesc, PipeKind, Fd
  <2>3. /\ PipeEnd(kind, j) = PipeEnd("pipeRead", i) <=> kind = "pipeRead" /\ j = i
        /\ PipeEnd(kind, j) = PipeEnd("pipeWrite", i) <=> kind = "pipeWrite" /\ j = i
    BY DEF PipeEnd
  <2>4. CASE j = i
    <3>0. \A q \in Pid, f \in Fd :
             fds'[q][f] = PipeEnd(kind, j) <=> (fds[q][f] = PipeEnd(kind, j) \/ (q = p /\ f = fd))
      <4>1. fds[p][rfd] # PipeEnd(kind, j) /\ fds[p][wfd] # PipeEnd(kind, j)
        BY <1>4
      <4>2. CASE kind = "pipeRead"
        <5>1. fd = rfd /\ PipeEnd(kind, j) = PipeEnd("pipeRead", i) /\ PipeEnd(kind, j) # PipeEnd("pipeWrite", i)
          BY <2>1, <2>3, <2>4, <4>2
        <5> QED
          BY <1>5, <2>2, <4>1, <5>1, CountedFacts
      <4>3. CASE kind = "pipeWrite"
        <5>1. fd = wfd /\ PipeEnd(kind, j) = PipeEnd("pipeWrite", i) /\ PipeEnd(kind, j) # PipeEnd("pipeRead", i)
          BY <2>1, <2>3, <2>4, <4>3
        <5> QED
          BY <1>5, <2>2, <4>1, <5>1, CountedFacts
      <4> QED
        BY <4>2, <4>3 DEF PipeKind
    <3>1. Ends(kind, j)' = Ends(kind, j) \cup {<<p, fd>>}
      <4>1. \A pf \in Pid \X Fd : pf \in Ends(kind, j)' <=> pf \in Ends(kind, j) \/ pf = <<p, fd>>
        BY <1>1, <2>1, <3>0 DEF Ends
      <4>2. <<p, fd>> \in Pid \X Fd /\ Ends(kind, j) \subseteq Pid \X Fd /\ Ends(kind, j)' \subseteq Pid \X Fd
        BY <2>1 DEF Ends
      <4> QED
        BY <4>1, <4>2
    <3>2. <<p, fd>> \notin Ends(kind, j)
      BY <1>4, <2>1, <2>2 DEF Ends
    <3> QED
      BY <2>4, <3>1, <3>2, EndsFinite, EndsFiniteNext, FS_AddElement
  <2>5. CASE j # i
    <3>1. Ends(kind, j)' = Ends(kind, j)
      BY <1>1, <1>4, <1>5, <2>2, <2>3, <2>5, CountedFacts DEF Ends
    <3> QED
      BY <2>5, <3>1, EndsFinite, EndsFiniteNext
  <2> QED
    BY <2>4, <2>5
<1> QED
  <2> SUFFICES ASSUME NEW j \in PipeId \ miscounted'
               PROVE  /\ pipes'[j].readers = LiveEnds("pipeRead", j)'
                      /\ pipes'[j].writers = LiveEnds("pipeWrite", j)'
    BY DEF CountsHold, CountsMatch
  <2>0. pipes[j].readers = LiveEnds("pipeRead", j) /\ pipes[j].writers = LiveEnds("pipeWrite", j)
    BY <1>4, CountedFacts DEF CountsHold, CountsMatch
  <2>1. CASE j = i
    BY <1>5, <1>6, <2>0, <2>1, CountedFacts DEF NewPipe, NoPipe, PipeKind
  <2>2. CASE j # i
    BY <1>5, <1>6, <2>0, <2>2, CountedFacts DEF PipeKind
  <2> QED
    BY <2>1, <2>2

-----------------------------------------------------------------------------
(***************************************************************************)
(* Births and departures.                                                  *)
(***************************************************************************)

\* Who is born is the only one who was not alive before.
LEMMA BirthLive ==
  ASSUME Counted, nextPid \in Pid, state' = [state EXCEPT ![nextPid] = "ready"], UNCHANGED exitCode
  PROVE  ~Live(nextPid) /\ \A q \in Pid : Live(q)' <=> Live(q) \/ q = nextPid
BY CountedFacts DEF Lifecycle, Fresh, Live, Known

LEMMA LaunchRef ==
  ASSUME Counted, Launch
  PROVE  CountsHold'
<1>1. PICK new \in Pid : /\ new = nextPid /\ state' = [state EXCEPT ![new] = "ready"]
                         /\ fds' = [fds EXCEPT ![new] = StdFds]
  <2>1. nextPid \in Pid
    BY CountedFacts, ProcAssumption DEF Launch, HostSpawn, Pid
  <2> QED
    BY <2>1 DEF Launch, HostSpawn
<1>2. UNCHANGED <<pipes, miscounted, exitCode>>
  BY DEF Launch, HostSpawn, pipeVars
<1>3. ~Live(new) /\ \A q \in Pid : Live(q)' <=> Live(q) \/ q = new
  BY <1>1, <1>2, BirthLive
<1>4. ASSUME NEW kind \in PipeKind, NEW i PROVE Ends(kind, i)' = Ends(kind, i)
  <2>1. \A fd \in Fd : StdFds[fd] # PipeEnd(kind, i)
    BY DEF StdFds, PipeEnd, PipeKind, StdinDesc, OtherDesc, NoDesc
  <2> QED
    BY <1>1, <1>3, <2>1, CountedFacts DEF Ends
<1>5. \A kind \in PipeKind, i \in PipeId : LiveEnds(kind, i)' = LiveEnds(kind, i)
  BY <1>4, EndsFinite, EndsFiniteNext
<1> QED
  BY <1>2, <1>5, CountedFacts DEF CountsHold, CountsMatch, PipeKind

\* The stdio of a child that are ends of pipe i.
Inherited(stdio, kind) == {fd \in 0..2 : stdio[fd] = kind}

LEMMA SpawnRef ==
  ASSUME Counted, NEW p \in Pid, SpawnAny(p)
  PROVE  CountsHold'
<1>1. PICK stdio \in Stdio, want \in Wants :
        \E rid \in IF \E fd \in 0..2 : stdio[fd] = "pipeRead" THEN Held(p) ELSE {0},
           wid \in IF \E fd \in 0..2 : stdio[fd] = "pipeWrite" THEN Held(p) ELSE {0} :
          KSpawn(p, stdio, rid, wid, want)
  BY DEF SpawnAny
<1>2. PICK rid \in IF \E fd \in 0..2 : stdio[fd] = "pipeRead" THEN Held(p) ELSE {0},
           wid \in IF \E fd \in 0..2 : stdio[fd] = "pipeWrite" THEN Held(p) ELSE {0} :
          KSpawn(p, stdio, rid, wid, want)
  BY <1>1
<1>3. PICK new \in Pid : /\ new = nextPid /\ state' = [state EXCEPT ![new] = "ready"]
                         /\ fds' = [fds EXCEPT ![new] = ChildFds(stdio, rid, wid)]
  <2>1. nextPid \in Pid
    BY <1>2, CountedFacts, ProcAssumption DEF KSpawn, Pid
  <2> QED
    BY <1>2, <2>1 DEF KSpawn
<1>4. ~Live(new) /\ (\A q \in Pid : Live(q)' <=> Live(q) \/ q = new) /\ Live(p)
  BY <1>2, <1>3, BirthLive DEF KSpawn, MayCall
<1> DEFINE id(kind) == IF kind = "pipeRead" THEN rid ELSE wid
           set(kind, i) == IF i = id(kind) THEN Inherited(stdio, kind) ELSE {}
           n(kind, i) == Cardinality(set(kind, i))
<1>5. \A kind, i : set(kind, i) \in SUBSET Fd /\ n(kind, i) \in Nat
  <2>1. \A kind, i : set(kind, i) \in SUBSET Fd
    BY ProcAssumption DEF Inherited, Fd
  <2> QED
    BY <2>1, CountType
<1>6. \A i \in PipeId : pipes'[i] = AddEnds(pipes[i], n("pipeRead", i), n("pipeWrite", i))
  <2>1. Cardinality({}) = 0
    BY FS_EmptySet
  <2> QED
    BY <1>2, <2>1 DEF KSpawn, Inherited
<1>7. ASSUME NEW kind \in PipeKind, NEW i \in PipeId \ miscounted, n(kind, i) # 0
      PROVE  pipes[i] # NoPipe
  <2>1. set(kind, i) # {}
    BY <1>7, FS_EmptySet
  <2>2. i = id(kind) /\ \E fd \in 0..2 : stdio[fd] = kind
    BY <2>1 DEF Inherited
  <2>3. i \in Held(p)
    BY <1>7, <2>2 DEF PipeKind
  <2>4. PICK k \in PipeKind, fd \in Fd : fds[p][fd] = PipeEnd(k, i)
    BY <2>3 DEF Held, EndsOf
  <2>5. <<p, fd>> \in Ends(k, i)
    BY <1>4, <2>4 DEF Ends
  <2> QED
    BY <2>5, HeldIsThere, CountedFacts
<1>8. ASSUME NEW kind \in PipeKind, NEW i \in PipeId
      PROVE  LiveEnds(kind, i)' = LiveEnds(kind, i) + n(kind, i)
  <2>1. \A fd \in Fd : ChildFds(stdio, rid, wid)[fd] = PipeEnd(kind, i) <=> fd \in set(kind, i)
    <3> SUFFICES ASSUME NEW fd \in Fd
                 PROVE  ChildFds(stdio, rid, wid)[fd] = PipeEnd(kind, i) <=> fd \in set(kind, i)
      OBVIOUS
    <3>1. CASE fd \in 0..2
      <4>1. stdio[fd] \in SpecKind /\ ChildFds(stdio, rid, wid)[fd] = ChildDesc(fd, stdio[fd], rid, wid)
        BY <3>1, KernelAssumption DEF ChildFds
      <4>2. ChildDesc(fd, stdio[fd], rid, wid) = PipeEnd(kind, i) <=> stdio[fd] = kind /\ i = id(kind)
        BY <4>1 DEF ChildDesc, SpecKind, PipeKind, PipeEnd, StdinDesc, OtherDesc
      <4> QED
        BY <3>1, <4>1, <4>2 DEF Inherited
    <3>2. CASE fd \notin 0..2
      <4>1. ChildFds(stdio, rid, wid)[fd] # PipeEnd(kind, i)
        BY <3>2 DEF ChildFds, StdFds, PipeEnd, PipeKind, StdinDesc, OtherDesc, NoDesc
      <4> QED
        BY <3>2, <4>1 DEF Inherited
    <3> QED
      BY <3>1, <3>2
  <2>2. PICK S \in SUBSET Fd : S = set(kind, i)
    BY <1>5
  <2>3. Ends(kind, i)' = Ends(kind, i) \cup ({new} \X S)
    <3> HIDE DEF set
    <3> QED
      BY <1>3, <1>4, <2>1, <2>2, CountedFacts DEF Ends
  <2>4. Ends(kind, i) \cap ({new} \X S) = {}
    BY <1>4 DEF Ends
  <2>a. n(kind, i) = Cardinality(set(kind, i))
    OBVIOUS
  <2> HIDE DEF n, set
  <2>5. n(kind, i) = Cardinality(S) /\ n(kind, i) \in Nat
    BY <1>5, <2>2, <2>a
  <2>6. IsFiniteSet({new} \X S) /\ Cardinality({new} \X S) = n(kind, i)
    BY <2>5, OneProcess
  <2>7. IsFiniteSet(Ends(kind, i)) /\ Cardinality(Ends(kind, i)) = LiveEnds(kind, i) /\ LiveEnds(kind, i) \in Nat
    BY EndsFinite
  <2>8. Cardinality(Ends(kind, i) \cup ({new} \X S)) = LiveEnds(kind, i) + n(kind, i) - Cardinality({})
    BY <2>4, <2>6, <2>7, FS_Union
  <2>9. Cardinality({}) = 0
    BY FS_EmptySet
  <2>10. LiveEnds(kind, i)' = Cardinality(Ends(kind, i) \cup ({new} \X S))
    BY <2>3, EndsFiniteNext
  <2> QED
    BY <2>5, <2>7, <2>8, <2>9, <2>10
<1> HIDE DEF n, set, id
<1> QED
  <2>0. UNCHANGED miscounted
    BY <1>2 DEF KSpawn
  <2> SUFFICES ASSUME NEW i \in PipeId \ miscounted
               PROVE  /\ pipes'[i].readers = LiveEnds("pipeRead", i)'
                      /\ pipes'[i].writers = LiveEnds("pipeWrite", i)'
    BY <2>0 DEF CountsHold, CountsMatch
  <2>1. /\ pipes[i] \in Pipe /\ pipes[i].readers = LiveEnds("pipeRead", i)
        /\ pipes[i].writers = LiveEnds("pipeWrite", i)
    BY CountedFacts DEF CountsHold, CountsMatch
  <2>2. n("pipeRead", i) \in Nat /\ n("pipeWrite", i) \in Nat
    BY <1>5
  <2>3. CASE pipes[i] = NoPipe
    <3>1. n("pipeRead", i) = 0 /\ n("pipeWrite", i) = 0
      BY <1>7, <2>3 DEF PipeKind
    <3>2. pipes'[i] = pipes[i]
      BY <1>6, <2>3 DEF AddEnds, Exists
    <3>3. /\ LiveEnds("pipeRead", i)' = LiveEnds("pipeRead", i) + 0
          /\ LiveEnds("pipeWrite", i)' = LiveEnds("pipeWrite", i) + 0
      BY <1>8, <3>1 DEF PipeKind
    <3>4. LiveEnds("pipeRead", i) \in Nat /\ LiveEnds("pipeWrite", i) \in Nat
      BY EndsFinite
    <3> QED
      BY <2>1, <3>2, <3>3, <3>4
  <2>4. CASE pipes[i] # NoPipe
    BY <1>6, <1>8, <2>1, <2>2, <2>4, AddCounts DEF PipeKind
  <2> QED
    BY <2>3, <2>4

\* All that one process had is released, once.
LEMMA ReleaseRef ==
  ASSUME Counted, Marked, NEW t \in Pid, ~Live(t)', Release(t),
         Live(t) \/ Held(t) \subseteq miscounted',
         \A q \in Pid \ {t} : (Live(q)' <=> Live(q)) /\ fds'[q] = fds[q]
  PROVE  CountsHold'
<1>1. ASSUME NEW kind \in PipeKind, NEW i \in PipeId \ miscounted'
      PROVE  /\ LiveEnds(kind, i)' = LiveEnds(kind, i) - Cardinality(EndsOf(t, kind, i))
             /\ Cardinality(EndsOf(t, kind, i)) <= LiveEnds(kind, i)
  <2>1. PICK S \in SUBSET Fd : S = EndsOf(t, kind, i)
    BY DEF EndsOf
  <2>0. Live(t) \/ S = {}
    BY <2>1 DEF Held
  <2>2. Ends(kind, i)' = Ends(kind, i) \ ({t} \X S)
    <3>1. CASE Live(t)
      BY <2>1, <3>1 DEF Ends, EndsOf
    <3>2. CASE ~Live(t)
      BY <2>0, <3>2 DEF Ends
    <3> QED
      BY <3>1, <3>2
  <2>3. Ends(kind, i) \cap ({t} \X S) = {t} \X S /\ {t} \X S \subseteq Ends(kind, i)
    BY <2>0, <2>1 DEF Ends, EndsOf
  <2>4. IsFiniteSet({t} \X S) /\ Cardinality({t} \X S) = Cardinality(S) /\ Cardinality(S) \in Nat
    BY OneProcess, CountType
  <2>5. Cardinality(Ends(kind, i) \ ({t} \X S)) = LiveEnds(kind, i) - Cardinality(S)
    <3>1. IsFiniteSet(Ends(kind, i)) /\ Cardinality(Ends(kind, i)) = LiveEnds(kind, i)
      BY EndsFinite
    <3>2. Cardinality(Ends(kind, i) \ ({t} \X S))
            = Cardinality(Ends(kind, i)) - Cardinality(Ends(kind, i) \cap ({t} \X S))
      BY <3>1, FS_Difference
    <3> QED
      BY <2>3, <2>4, <3>1, <3>2
  <2>6. Cardinality({t} \X S) <= Cardinality(Ends(kind, i))
    BY <2>3, EndsFinite, FS_Subset
  <2> QED
    BY <2>1, <2>2, <2>4, <2>5, <2>6, EndsFinite, EndsFiniteNext
<1> SUFFICES ASSUME NEW i \in PipeId \ miscounted'
             PROVE  /\ pipes'[i].readers = LiveEnds("pipeRead", i)'
                    /\ pipes'[i].writers = LiveEnds("pipeWrite", i)'
  BY DEF CountsHold, CountsMatch
<1> DEFINE nr == Cardinality(EndsOf(t, "pipeRead", i))
           nw == Cardinality(EndsOf(t, "pipeWrite", i))
<1>2. pipes'[i] = CloseEnds(pipes[i], nr, nw) /\ nr \in Nat /\ nw \in Nat
  BY EndsCount DEF Release, PipesWithout
<1>3. /\ pipes[i] \in Pipe /\ pipes[i].readers = LiveEnds("pipeRead", i)
      /\ pipes[i].writers = LiveEnds("pipeWrite", i)
  BY CountedFacts DEF CountsHold, CountsMatch, Marked
<1>4. /\ LiveEnds("pipeRead", i)' = LiveEnds("pipeRead", i) - nr /\ nr <= LiveEnds("pipeRead", i)
      /\ LiveEnds("pipeWrite", i)' = LiveEnds("pipeWrite", i) - nw /\ nw <= LiveEnds("pipeWrite", i)
  BY <1>1 DEF PipeKind
<1> HIDE DEF nr, nw
<1> QED
  BY <1>2, <1>3, <1>4, CloseCounts

LEMMA ExitRef ==
  ASSUME Counted, NEW p \in Pid, NEW code \in Codes, Live(p), Exit(p, code)
  PROVE  CountsHold'
<1>1. \A q \in Pid \ {p} : (Known(q)' <=> Known(q)) /\ exitCode'[q] = exitCode[q] /\ fds'[q] = fds[q]
  BY RunnableTable, CountedFacts DEF Exit, Known, Runnable
<1>2. exitCode'[p] # NoCode
  BY NoCodeIsNone, CountedFacts DEF Exit
<1> QED
  BY <1>1, <1>2, ReleaseRef DEF Live, Exit, Marked

LEMMA Kill9Ref ==
  ASSUME Counted, NEW p \in Pid, NEW t \in Pid, Kill9(p, t)
  PROVE  CountsHold'
<1>1. \A q \in Pid \ {t} : (Known(q)' <=> Known(q)) /\ exitCode'[q] = exitCode[q] /\ fds'[q] = fds[q]
  BY RunnableTable, CountedFacts DEF Kill9, ParentOf, Forget, Known, Runnable
<1>2. (Live(t) \/ Held(t) \subseteq miscounted') /\ Marked
  BY DEF Kill9, Marked
<1>3. ~Live(t)'
  BY CountedFacts DEF Kill9, ParentOf, Live, Known, Runnable
<1> QED
  BY <1>1, <1>2, <1>3, ReleaseRef DEF Live, Kill9

-----------------------------------------------------------------------------
(***************************************************************************)
(* Every step.                                                             *)
(***************************************************************************)
\* Steps that leave descriptors, exit codes and the table alone.
LEMMA TableCounts ==
  ASSUME Counted, SameTable, UNCHANGED <<miscounted, exitCode, fds>>,
         \A i \in PipeId : pipes'[i].readers = pipes[i].readers /\ pipes'[i].writers = pipes[i].writers
  PROVE  CountsHold'
<1>1. \A q \in Pid : Live(q)' <=> Live(q)
  BY DEF SameTable, Live
<1> QED
  BY <1>1, KeptRef, CountedFacts DEF Marked

LEMMA DrainCounts ==
  ASSUME NEW pipe \in Pipe, NEW n
  PROVE  Drain(pipe, n).readers = pipe.readers /\ Drain(pipe, n).writers = pipe.writers
BY DEF Pipe, Drain

LEMMA FillCounts ==
  ASSUME NEW pipe \in Pipe, NEW data
  PROVE  Fill(pipe, data).readers = pipe.readers /\ Fill(pipe, data).writers = pipe.writers
BY DEF Pipe, Fill

LEMMA ServeCounts ==
  ASSUME Counted, NEW p \in Pid, NEW STATE r, r \in Request, Serve(p, r)
  PROVE  CountsHold'
<1>1. CASE FdRead(p, r)
  <2>1. SameTable /\ UNCHANGED <<miscounted, exitCode, fds>>
    BY <1>1, ReplyQuiet, ParkQuiet, CountedFacts
       DEF FdRead, ReadPipe, ReadStdin, ReadParks, ReadReturns, procVars, pipeVars
  <2>2. CASE ReadPipe(p, r)
    <3>1. PICK i, n : i = fds[p][r.arg].id /\ n = r.len
      OBVIOUS
    <3>2. pipes' = [pipes EXCEPT ![i] = Drain(@, n)]
      BY <2>2, <3>1 DEF ReadPipe
    <3>3. \A j \in PipeId : pipes'[j] = IF j = i THEN Drain(pipes[j], n) ELSE pipes[j]
      BY <3>2, CountedFacts
    <3>4. \A j \in PipeId : pipes'[j].readers = pipes[j].readers /\ pipes'[j].writers = pipes[j].writers
      BY <3>3, DrainCounts, CountedFacts
    <3> QED
      BY <2>1, <3>4, TableCounts
  <2>3. CASE ~ReadPipe(p, r)
    <3>1. UNCHANGED pipes
      BY <1>1, <2>3 DEF FdRead, ReadStdin, ReadParks, ReadReturns, pipeVars
    <3> QED
      BY <2>1, <3>1, TableCounts
  <2> QED
    BY <2>2, <2>3
<1>2. CASE FdWrite(p, r)
  <2>1. SameTable /\ UNCHANGED <<miscounted, exitCode, fds>>
    BY <1>2, ReplyQuiet, ParkQuiet, CountedFacts
       DEF FdWrite, WritePipe, WriteParks, WriteReturns, procVars, pipeVars
  <2>2. CASE WritePipe(p, r)
    <3>1. PICK i, data : i = fds[p][r.arg].id /\ data = r.data
      OBVIOUS
    <3>2. pipes' = [pipes EXCEPT ![i] = Fill(@, data)]
      BY <2>2, <3>1 DEF WritePipe
    <3>3. \A j \in PipeId : pipes'[j] = IF j = i THEN Fill(pipes[j], data) ELSE pipes[j]
      BY <3>2, CountedFacts
    <3>4. \A j \in PipeId : pipes'[j].readers = pipes[j].readers /\ pipes'[j].writers = pipes[j].writers
      BY <3>3, FillCounts, CountedFacts
    <3> QED
      BY <2>1, <3>4, TableCounts
  <2>3. CASE ~WritePipe(p, r)
    <3>1. UNCHANGED pipes
      BY <1>2, <2>3 DEF FdWrite, WriteParks, WriteReturns, pipeVars
    <3> QED
      BY <2>1, <3>1, TableCounts
  <2> QED
    BY <2>2, <2>3
<1>3. CASE KWait(p, r)
  <2>1. UNCHANGED <<pipes, miscounted>>
    BY <1>3 DEF KWait, pipeVars
  <2>2. PICK c \in Pid : c = r.arg
    BY <1>3 DEF KWait, Request, Of
  <2>3. CASE WaitCollects(p, c)
    <3>1. ~Live(c)
      BY <2>3 DEF WaitCollects, Live
    <3>2. \A q \in Pid \ {c} : /\ state'[q] = state[q] /\ exitCode'[q] = exitCode[q]
                               /\ fds'[q] = fds[q]
      BY <2>3, CountedFacts DEF WaitCollects, Reap, Forget, procVars, waitVars
    <3>3. ~Live(c)'
      BY <2>3, <3>1, CountedFacts DEF WaitCollects, Reap, Forget, Live, Known, procVars, waitVars
    <3> QED
      BY <2>1, <3>1, <3>2, <3>3, KeptRef, CountedFacts DEF Live, Known, Marked
  <2>4. CASE WaitFindsNone(p, c) \/ WaitParks(p, r)
    BY <2>1, <2>4, ReplyQuiet, ParkQuiet, TableCounts, CountedFacts DEF WaitFindsNone, WaitParks, procVars
  <2> QED
    BY <1>3, <2>2, <2>3, <2>4 DEF KWait
<1>4. CASE SigWait(p, r) \/ ChanRecv(p, r) \/ WinReadInput(p, r) \/ NetRequest(p, r)
  <2>1. SameTable /\ UNCHANGED <<miscounted, exitCode, fds, pipes>>
    BY <1>4, ReplyQuiet, ParkQuiet, CountedFacts
       DEF SigWait, ChanRecv, WinReadInput, NetRequest, procVars, pipeVars
  <2> QED
    BY <2>1, TableCounts
<1> QED
  BY <1>1, <1>2, <1>3, <1>4 DEF Serve

LEMMA HostExitCounts ==
  ASSUME Counted, NEW p \in Pid, NEW code \in Codes, HostExit(p, code)
  PROVE  CountsHold'
<1>1. CASE Unrecorded(p)
  BY <1>1, ExitRef DEF HostExit, Unrecorded
<1>2. CASE ~Unrecorded(p)
  BY <1>2, TableCounts DEF HostExit, SameTable, Known, procVars, waitVars, pipeVars
<1> QED
  BY <1>1, <1>2

LEMMA GuestCallCounts ==
  ASSUME Counted, NEW p \in Pid, GuestCall(p)
  PROVE  CountsHold'
<1>1. CASE Issue(p)
  <2>1. PICK r \in Offered(p) : Serve(p, r)
    BY <1>1 DEF Issue
  <2> QED
    BY <2>1, OfferedType, ServeCounts, CountedFacts
<1>2. CASE KPipe(p) \/ SpawnAny(p)
  BY <1>2, KPipeRef, SpawnRef
<1>3. CASE \E fd \in Fd : FdClose(p, fd)
  BY <1>3, FdCloseRef
<1>4. CASE \E old \in Fd, new \in RenumberTo : FdRenumber(p, old, new)
  BY <1>4, FdRenumberRef, KernelAssumption
<1>5. CASE \E code \in ExitCodes : ProcExit(p, code)
  BY <1>5, ExitRef DEF ProcExit, MayCall, Codes
<1>6. CASE \E t \in Pid : Kill9(p, t)
  BY <1>6, Kill9Ref
<1>7. CASE (\E t \in Pid : KillTerm(p, t)) \/ \E c \in ChanId, msg \in Msg : ChanSend(p, c, msg)
  <2>1. SameTable
    BY <1>7, ReplyQuiet, NudgeQuiet, CountedFacts DEF KillTerm, ChanSend
  <2> QED
    BY <1>7, <2>1, TableCounts DEF KillTerm, ChanSend, procVars, pipeVars
<1>8. CASE ProcRaise(p) \/ (\E name \in Names : ChanOpen(p, name)) \/ ShmCreate(p)
           \/ (\E s \in ShmId, t \in Pid : ShmGrant(p, s, t)) \/ WinSurface(p)
  <2>1. UNCHANGED <<state, miscounted, exitCode, fds, pipes>>
    BY <1>8 DEF ProcRaise, ChanOpen, ShmCreate, ShmGrant, WinSurface, procVars, waitVars, pipeVars
  <2> QED
    BY <2>1, TableCounts DEF SameTable, Known
<1> QED
  BY <1>1, <1>2, <1>3, <1>4, <1>5, <1>6, <1>7, <1>8 DEF GuestCall

LEMMA HostEventCounts ==
  ASSUME Counted, NEW p \in Pid, HostEvent(p)
  PROVE  CountsHold'
<1>1. CASE (\E code \in ExitCodes : WorkerExit(p, code)) \/ HostKill(p)
  BY <1>1, HostExitCounts DEF WorkerExit, HostKill, Codes
<1>2. CASE (\E n \in Nat : DeliverStdin(p, n) \/ DeliverInput(p, n)) \/ DeliverNet(p)
  <2>1. SameTable
    BY <1>2, NudgeQuiet, CountedFacts DEF DeliverStdin, DeliverInput, DeliverNet
  <2>2. UNCHANGED <<miscounted, exitCode, fds, pipes>>
    BY <1>2 DEF DeliverStdin, DeliverInput, DeliverNet, procVars, pipeVars
  <2> QED
    BY <2>1, <2>2, TableCounts
<1> QED
  BY <1>1, <1>2, KernelAssumption DEF HostEvent

LEMMA CountedNext ==
  ASSUME Counted, [Next]_vars
  PROVE  Counted'
<1>1. Sleepers'
  BY SleepersNext DEF Counted
<1>2. CountsHold'
  <2>1. CASE Launch
    BY <2>1, LaunchRef
  <2>2. CASE \E p \in Pid : Redrive(p)
    <3>1. PICK p \in Pid : Serve(p, parked[p])
      BY <2>2 DEF Redrive
    <3>2. parked[p] \in Request
      BY CountedFacts DEF TypeOK, HostType
    <3> QED
      BY <3>1, <3>2, ServeCounts
  <2>3. CASE FinishExit \/ StartChild \/ UNCHANGED vars
    <3>1. UNCHANGED <<state, miscounted, exitCode, fds, pipes>>
      BY <2>3 DEF FinishExit, StartChild, vars, procVars, waitVars, pipeVars
    <3> QED
      BY <3>1, TableCounts DEF SameTable, Known
  <2>4. CASE SpawnFailed
    <3>1. turn.pid \in Pid /\ 127 \in Codes /\ Live(turn.pid)
      BY <2>4, CountedFacts DEF SpawnFailed, TypeOK, HostType, Turn, Codes, Lifecycle, StartingLive
    <3> QED
      BY <2>4, <3>1, ExitRef DEF SpawnFailed
  <2>5. CASE \E p \in Pid : GuestCall(p) \/ HostEvent(p)
    BY <2>5, GuestCallCounts, HostEventCounts
  <2> QED
    BY <2>1, <2>2, <2>3, <2>4, <2>5 DEF Next, HostTurn
<1> QED
  BY <1>1, <1>2 DEF Counted

LEMMA CountedInit == Init => Counted
<1> SUFFICES ASSUME Init PROVE Counted
  OBVIOUS
<1>1. Sleepers
  BY SleepersInit
<1>2. ASSUME NEW kind \in PipeKind, NEW i PROVE LiveEnds(kind, i) = 0
  <2>1. \A fd \in Fd : StdFds[fd] # PipeEnd(kind, i) /\ NoFds[fd] # PipeEnd(kind, i)
    BY DEF StdFds, NoFds, PipeEnd, PipeKind, StdinDesc, OtherDesc, NoDesc
  <2>2. Ends(kind, i) = {}
    BY <2>1 DEF Init, Ends
  <2> QED
    BY <2>2, EndsFinite, FS_EmptySet
<1>3. CountsHold
  BY <1>2 DEF Init, CountsHold, CountsMatch, PipeKind, NoPipe
<1> QED
  BY <1>1, <1>3 DEF Counted

\* The counts of a pipe are the descriptors the living have for it, through every
\* spawn, close, renumbering, exit and kill: end of file and EPIPE come with the last
\* peer, neither before nor never.  Two things miscount a pipe, and nothing else does:
\* a SIGKILL sent to a zombie that had ends of it, and a k_pipe() whose descriptor
\* numbers have come round to those of its ends.
THEOREM CountsKept ==
  Spec => []((\A i \in PipeId \ miscounted : CountsMatch(i)) /\ (miscounted = {} => RefCounts))
<1>1. Counted /\ [Next]_vars => Counted'
  BY CountedNext
<1>2. Counted => (\A i \in PipeId \ miscounted : CountsMatch(i)) /\ (miscounted = {} => RefCounts)
  BY DEF Counted, CountsHold, RefCounts
<1> QED
  BY <1>1, <1>2, CountedInit, PTL DEF Spec
=============================================================================
