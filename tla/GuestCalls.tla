----------------------------- MODULE GuestCalls -----------------------------
(***************************************************************************)
(* What a guest gets of a reply (crates/wasmos-sys over the syscall shim): *)
(* the ring, the shim and the library each have a buffer of their own, and *)
(* the sizes decide whether a reply arrives, is dropped or stops the pump. *)
(* A payload is its length; the sizes are the source's.                    *)
(***************************************************************************)
EXTENDS ChannelTable, FiniteSets

CONSTANTS
  Bodies,    \* lengths of the pages that are fetched
  Tables,    \* process tables that are listed: [count, entry], an entry's length
  MaxSignals,\* signals that may be pending at once
  MaxOps     \* calls made

VARIABLES
  chan,      \* a connected channel, endpoint 0 sending to endpoint 1
  region,    \* the size of the receiver's shared region, 0 before it is created
  written,   \* the end of what has been written to it
  queued,    \* bytes of queued events
  signals,   \* pending signals
  got,       \* the last call: its buffer, what the kernel replied, what was given
  ops

guestVars == <<chan, region, written, queued, signals, got, ops>>
memVars   == <<region, written>>

RingCap     == 64 * 1024   \* REQ_CAP, RESP_CAP
DefaultBuf  == 256         \* call()
RecvBuf     == 16 * 1024   \* chan_recv
ProcBuf     == 16 * 1024   \* proc_list
ShmBuf      == 64 * 1024   \* shm_read
NetBuf      == 60 * 1024   \* net_request
MaxShmSize  == 60 * 1024   \* MAX_SHM_SIZE
MaxNetBytes == 8 * 1024 * 1024
Event       == 12          \* INPUT_EVENT_SIZE, on both sides
Header      == 6           \* errno and length
Lesser(a, b) == IF a <= b THEN a ELSE b
Greater(a, b) == IF a <= b THEN b ELSE a

\* A bug: what arrived is returned, short as it is.
Given_Cut(real, buf) ==
  IF Header + real > RingCap THEN [real |-> real, given |-> 0, stuck |-> TRUE]
  ELSE [real |-> real, given |-> Lesser(real, buf - Header), stuck |-> FALSE]
\* RingServer.complete throws on a reply that is too long, and the pump is gone.
\* The shim copies what fits and returns the true length; the library cuts its
\* buffer to the shorter, and where the payload does not fit returns no bytes.
Given(real, buf) ==
  IF Header + real > RingCap THEN [real |-> real, given |-> 0, stuck |-> TRUE]
  ELSE IF Header + real <= buf THEN [real |-> real, given |-> real, stuck |-> FALSE]
  ELSE [real |-> real, given |-> 0, stuck |-> FALSE]
Nothing == [real |-> 0, given |-> 0, stuck |-> FALSE]
Was(op, buf, answer) == [op |-> op, buf |-> buf, size |-> answer.real, answer |-> answer]

GuestInit == /\ chan = Connected(NewChan) /\ region = 0 /\ written = 0 /\ queued = 0 /\ signals = 0
             /\ got = Was("none", 0, Nothing) /\ ops = 0
----------------------------------------------------------------------------
Calls == ops < MaxOps /\ ops' = ops + 1 /\ ~got.answer.stuck

\* The request is op, channel and message; a longer one than the ring throws in the guest.
ChanSend(n) ==
  /\ Calls /\ 5 + n <= RingCap /\ chan.open[0] /\ PeerOpen(chan, 0)
  /\ chan' = Sent(chan, 0, n) /\ UNCHANGED <<memVars, queued, signals, got>>
SenderCloses ==
  /\ Calls /\ chan.open[0]
  /\ chan' = Closed(chan, 0) /\ UNCHANGED <<memVars, queued, signals, got>>

\* Parks while the inbox is empty and the peer open; empty and closed is end of file.
ChanRecv ==
  /\ Calls
  /\ \/ /\ chan.inbox[1] # <<>>
        /\ got' = Was("recv", RecvBuf, Given(Head(chan.inbox[1]), RecvBuf))
        /\ chan' = Received(chan, 1)
     \/ /\ chan.inbox[1] = <<>> /\ ~PeerOpen(chan, 1)
        /\ got' = Was("recv", RecvBuf, Nothing) /\ UNCHANGED chan
  /\ UNCHANGED <<memVars, queued, signals>>

ShmCreate(size) ==
  /\ Calls /\ region = 0
  /\ region' = Lesser(size, MaxShmSize) /\ UNCHANGED <<chan, written, queued, signals, got>>

\* ShmTable.read and write clip to the region, and take nothing beyond its end.
Clipped(off, len) == IF off < region THEN Lesser(len, region - off) ELSE 0

\* The request is op, region, offset and data.
ShmWrite(off, n) ==
  /\ Calls /\ 9 + n <= RingCap /\ off < region
  /\ written' = Greater(written, off + Clipped(off, n))
  /\ UNCHANGED <<chan, region, queued, signals, got>>

ShmRead(off, len) ==
  /\ Calls /\ region > 0
  /\ got' = Was("shm", ShmBuf, Given(Clipped(off, len), ShmBuf))
  /\ UNCHANGED <<chan, memVars, queued, signals>>

\* The body is clamped by the host, not by what the ring or the library takes.
Fetch(n) ==
  /\ Calls /\ got' = Was("fetch", NetBuf, Given(Lesser(n, MaxNetBytes), NetBuf))
  /\ UNCHANGED <<chan, memVars, queued, signals>>

\* Unlike the others proc_list does not look at the true length: it decodes the entries
\* that are whole in its buffer, and leaves out the rest.
ProcList(t) ==
  LET size == t.count * t.entry IN
  /\ Calls
  /\ got' = [op |-> "procs", buf |-> ProcBuf, size |-> size,
             answer |-> IF Header + size > RingCap
                        THEN [real |-> t.count, given |-> 0, stuck |-> TRUE]
                        ELSE [real |-> t.count, stuck |-> FALSE,
                              given |-> Lesser(t.count, (ProcBuf - Header) \div t.entry)]]
  /\ UNCHANGED <<chan, memVars, queued, signals>>

Kill(n) == /\ Calls /\ signals + n <= MaxSignals
           /\ signals' = signals + n /\ UNCHANGED <<chan, memVars, queued, got>>
\* Drains every pending signal into one reply.
SigWait == /\ Calls /\ signals > 0
           /\ got' = Was("signals", DefaultBuf, Given(signals, DefaultBuf)) /\ signals' = 0
           /\ UNCHANGED <<chan, memVars, queued>>

\* Events come in whole records; the library asks for as many as fit its buffer.
MaxEvents == 20
Deliver(n) == /\ Calls /\ queued = 0
              /\ queued' = n * Event /\ UNCHANGED <<chan, memVars, signals, got>>
\* Drains whole records, and parks when there are none.
WinReadInput ==
  LET drained == Lesser(queued, MaxEvents * Event)
  IN  /\ Calls /\ queued > 0
      /\ got' = Was("input", DefaultBuf, Given(drained, DefaultBuf)) /\ queued' = queued - drained
      /\ UNCHANGED <<chan, memVars, signals>>

GuestNext ==
  \/ (\E n \in Msg : ChanSend(n)) \/ SenderCloses \/ ChanRecv
  \/ (\E n \in {1, RingCap} : ShmCreate(n)) \/ (\E off \in {0, 1} : ShmRead(off, RingCap))
  \/ (\E off \in {0, 1}, n \in {1, RingCap - 9} : ShmWrite(off, n))
  \/ (\E n \in Bodies : Fetch(n)) \/ (\E t \in Tables : ProcList(t)) \/ (\E n \in {1, MaxSignals} : Kill(n)) \/ SigWait
  \/ (\E n \in {1, MaxEvents, 2 * MaxEvents + 1} : Deliver(n)) \/ WinReadInput
----------------------------------------------------------------------------
Arrives == ~got.answer.stuck /\ got.answer.given = got.answer.real
\* A reply that fits the buffer of its call arrives whole, so that nothing from chan_recv
\* is the peer's close or a message that does not fit.  Of one that does not fit nothing
\* arrives, but for the process table, whose first entries do.
WholeIfItFits == /\ Header + got.size <= got.buf => Arrives
                 /\ got.op # "procs" => got.answer.given \in {0, got.answer.real}

\* "fits one SAB ring payload, so a read/write is one syscall" (shm.rs:12): every
\* byte that one call can write reaches its reader.
RegionsReadWhole == /\ got.op = "shm" => Arrives
                    /\ written <= RingCap - Header /\ written <= ShmBuf - Header

\* A queue of events is read without losing one or cutting a record: what is drained
\* for a call fits the buffer of the caller.
EventsWhole == /\ got.op = "input" => Arrives /\ got.answer.real % Event = 0
               /\ queued % Event = 0

RepliesWhole == WholeIfItFits /\ RegionsReadWhole /\ EventsWhole
=============================================================================
