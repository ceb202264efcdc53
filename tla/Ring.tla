-------------------------------- MODULE Ring --------------------------------
(***************************************************************************)
(* The syscall ring (packages/host/src/ring): one guest thread and the     *)
(* kernel worker share a block of memory with two doorbell counters, two   *)
(* lengths and two byte regions, and no lock.  The guest blocks in         *)
(* Atomics.wait; the kernel worker waits in Atomics.waitAsync and never    *)
(* blocks, and it may answer a call long after it has taken it.            *)
(*                                                                         *)
(* A step is one access to the shared memory.  The bytes of call k and of  *)
(* its answer are written k, and so are their lengths.  The kernel worker  *)
(* is one thread: it does nothing else while it writes an answer.          *)
(***************************************************************************)
EXTENDS Naturals

CONSTANTS
  Calls,      \* the guest makes calls 1 .. Calls
  Wrap,       \* the counters are Int32 lanes: 2^32 in the source
  Oversized,  \* calls whose answer is longer than RESP_CAP
  LateSets    \* the choices of late, below

Call == 1..Calls

ASSUME RingAssumption ==
  /\ Calls \in Nat \ {0}
  /\ Wrap \in Nat /\ Wrap >= 2
  /\ Oversized \subseteq Call
  /\ LateSets \subseteq SUBSET {"guest", "kernel"}

VARIABLES
  reqSeq, respSeq, opLen, respLen,  \* the header lanes
  reqBytes, respBytes,              \* the two regions
  guest,      \* where the guest thread is in RingClient.call
  call,       \* the call it is making, or made last
  respSeen,   \* the response counter it saw before it rang
  gotLen,     \* the answer's length, read before its bytes
  pump,       \* where RingServer.nextRequest and pump() are
  expected,   \* the request counter the server saw last
  taken,      \* the request nextRequest returned
  stashed,    \* the host's parked map: the request stashed, or 0
  writing,    \* where the kernel worker is in RingServer.complete
  reply,      \* the answer it writes
  torn,       \* onProcExit ran: aborted, and the pid is not in procs
  dead,       \* terminate() has ended the guest's thread
  late,       \* who may be descheduled between a counter's add and its notify
  served, answered, got             \* history: what happened to each call

memory   == <<reqSeq, respSeq, opLen, respLen, reqBytes, respBytes>>
guestVars  == <<guest, call, respSeen, gotLen>>
serverVars == <<pump, expected, taken, stashed, writing, reply>>
ringHistory    == <<served, answered, got>>
world      == <<torn, dead, late>>
ringVars       == <<memory, guestVars, serverVars, world, ringHistory>>

Next32(n) == (n + 1) % Wrap

RingInit ==
  /\ reqSeq = 0 /\ respSeq = 0 /\ opLen = 0 /\ respLen = 0 /\ reqBytes = 0 /\ respBytes = 0
  /\ guest = "running" /\ call = 0 /\ respSeen = 0 /\ gotLen = 0
  /\ pump = "poll" /\ expected = 0 /\ taken = 0 /\ stashed = 0
  /\ writing = "nothing" /\ reply = 0
  /\ torn = FALSE /\ dead = FALSE /\ late \in LateSets
  /\ served = [k \in Call |-> 0] /\ answered = {} /\ got = [k \in Call |-> 0]

-----------------------------------------------------------------------------
(***************************************************************************)
(* The guest: RingClient.call.                                             *)
(***************************************************************************)

\* Atomics.notify on the request counter resolves the server's promise.
Rung == IF pump = "waiting" THEN "woken" ELSE pump

StageBytes ==
  /\ guest = "running" /\ call < Calls
  /\ call' = call + 1
  /\ reqBytes' = call + 1
  /\ guest' = "staged"
  /\ UNCHANGED <<reqSeq, respSeq, opLen, respLen, respBytes, respSeen, gotLen, serverVars, world, ringHistory>>

StageLength ==
  /\ guest = "staged"
  /\ opLen' = call
  /\ guest' = "sized"
  /\ UNCHANGED <<reqSeq, respSeq, respLen, reqBytes, respBytes, call, respSeen, gotLen,
                 serverVars, world, ringHistory>>

Snapshot ==
  /\ guest = "sized"
  /\ respSeen' = respSeq
  /\ guest' = "armed"
  /\ UNCHANGED <<memory, call, gotLen, serverVars, world, ringHistory>>

RingBell ==
  /\ guest = "armed"
  /\ reqSeq' = Next32(reqSeq)
  /\ IF "guest" \in late
     THEN guest' = "rung" /\ UNCHANGED pump
     ELSE guest' = "waits" /\ pump' = Rung
  /\ UNCHANGED <<respSeq, opLen, respLen, reqBytes, respBytes, call, respSeen, gotLen,
                 expected, taken, stashed, writing, reply, world, ringHistory>>

NotifyServer ==
  /\ guest = "rung"
  /\ guest' = "waits"
  /\ pump' = Rung
  /\ UNCHANGED <<memory, call, respSeen, gotLen, expected, taken, stashed, writing, reply, world, ringHistory>>

\* Faulty: the guest goes to sleep without comparing.
Wait_Blind ==
  /\ guest = "waits"
  /\ guest' = "asleep"
  /\ UNCHANGED <<memory, call, respSeen, gotLen, serverVars, world, ringHistory>>

\* Atomics.wait: "not-equal" returns at once.  Its result is not tested.
Wait ==
  /\ guest = "waits"
  /\ guest' = IF respSeq = respSeen THEN "asleep" ELSE "awake"
  /\ UNCHANGED <<memory, call, respSeen, gotLen, serverVars, world, ringHistory>>

ReadLength ==
  /\ guest = "awake"
  /\ gotLen' = respLen
  /\ guest' = "reading"
  /\ UNCHANGED <<memory, call, respSeen, serverVars, world, ringHistory>>

\* The bytes of one answer cut to the length of another are nobody's answer.
ReadBytes ==
  /\ guest = "reading"
  /\ got' = [got EXCEPT ![call] = IF gotLen = respBytes THEN respBytes ELSE Calls + 1]
  /\ guest' = "running"
  /\ UNCHANGED <<memory, call, respSeen, gotLen, serverVars, world, served, answered>>

GuestStep ==
  ~dead /\ (
  \/ StageBytes \/ StageLength \/ Snapshot \/ RingBell \/ NotifyServer
  \/ Wait \/ ReadLength \/ ReadBytes)

-----------------------------------------------------------------------------
(***************************************************************************)
(* The kernel worker: RingServer.nextRequest, driveSyscall, complete.      *)
(***************************************************************************)
Free == writing = "nothing"

\* The abort test, then Atomics.waitAsync: "not-equal" returns at once.
Poll ==
  /\ Free /\ pump = "poll"
  /\ pump' = IF torn THEN "stopped" ELSE IF reqSeq # expected THEN "woken" ELSE "waiting"
  /\ UNCHANGED <<memory, guestVars, expected, taken, stashed, writing, reply, world, ringHistory>>

\* The abort test again, and the counter is read anew.
Wake ==
  /\ Free /\ pump = "woken"
  /\ IF torn
     THEN pump' = "stopped" /\ UNCHANGED expected
     ELSE pump' = "loaded" /\ expected' = reqSeq
  /\ UNCHANGED <<memory, guestVars, taken, stashed, writing, reply, world, ringHistory>>

\* slice(): the promise of nextRequest resolves with a copy of the request.
Take ==
  /\ Free /\ pump = "loaded"
  /\ taken' = IF opLen = reqBytes THEN reqBytes ELSE 0
  /\ pump' = "taken"
  /\ UNCHANGED <<memory, guestVars, expected, stashed, writing, reply, world, ringHistory>>

Count(k) == served' = [j \in Call |-> IF j = k THEN served[j] + 1 ELSE served[j]]

\* Faulty: the pid is not looked up in procs.
InProcs_Ignored == TRUE

InProcs == ~torn

\* driveSyscall(): an answer now, or the request is stashed, or the pid is gone.
DriveAnswers ==
  /\ Free /\ pump = "taken" /\ InProcs
  /\ Count(taken)
  /\ pump' = "driving" /\ writing' = "copies" /\ reply' = taken
  /\ UNCHANGED <<memory, guestVars, expected, taken, stashed, world, answered, got>>

DriveParks ==
  /\ Free /\ pump = "taken" /\ InProcs /\ taken # 0
  /\ Count(taken)
  /\ pump' = "poll" /\ stashed' = taken
  /\ UNCHANGED <<memory, guestVars, expected, taken, writing, reply, world, answered, got>>

DriveDrops ==
  /\ Free /\ pump = "taken" /\ ~InProcs
  /\ pump' = "poll"
  /\ UNCHANGED <<memory, guestVars, expected, taken, stashed, writing, reply, world, ringHistory>>

\* Faulty: the request stays stashed when it is driven.
Redrive_Keeps ==
  /\ Free /\ ~torn /\ stashed # 0
  /\ writing' = "copies" /\ reply' = stashed
  /\ UNCHANGED <<memory, guestVars, pump, expected, taken, stashed, world, ringHistory>>

\* processWakeups(): an event lets the stashed call finish.
Redrive ==
  /\ Free /\ ~torn /\ stashed # 0
  /\ stashed' = 0 /\ writing' = "copies" /\ reply' = stashed
  /\ UNCHANGED <<memory, guestVars, pump, expected, taken, world, ringHistory>>

\* complete(), and the turn goes on where it was called from.
PumpOn == IF pump = "driving" THEN "poll" ELSE pump

\* An answer that does not fit throws; the pump's promise rejects with it.
Throw ==
  /\ writing = "copies" /\ reply \in Oversized
  /\ writing' = "nothing"
  /\ pump' = IF pump = "driving" THEN "stopped" ELSE pump
  /\ UNCHANGED <<memory, guestVars, expected, taken, stashed, reply, world, ringHistory>>

CopyBytes ==
  /\ writing = "copies" /\ reply \notin Oversized
  /\ respBytes' = reply
  /\ writing' = "sizes"
  /\ UNCHANGED <<reqSeq, respSeq, opLen, respLen, reqBytes, guestVars, pump, expected, taken,
                 stashed, reply, world, ringHistory>>

StoreLength ==
  /\ writing = "sizes"
  /\ respLen' = reply
  /\ writing' = "bumps"
  /\ UNCHANGED <<reqSeq, respSeq, opLen, reqBytes, respBytes, guestVars, pump, expected, taken,
                 stashed, reply, world, ringHistory>>

Roused == IF guest = "asleep" THEN "awake" ELSE guest

Bump ==
  /\ writing = "bumps"
  /\ respSeq' = Next32(respSeq)
  /\ answered' = answered \cup ({reply} \cap Call)
  /\ IF "kernel" \in late
     THEN writing' = "notifies" /\ UNCHANGED <<guest, pump>>
     ELSE writing' = "nothing" /\ pump' = PumpOn /\ guest' = Roused
  /\ UNCHANGED <<reqSeq, opLen, respLen, reqBytes, respBytes, call, respSeen, gotLen,
                 expected, taken, stashed, reply, world, served, got>>

NotifyGuest ==
  /\ writing = "notifies"
  /\ writing' = "nothing" /\ pump' = PumpOn /\ guest' = Roused
  /\ UNCHANGED <<memory, call, respSeen, gotLen, expected, taken, stashed, reply, world, ringHistory>>

ServerStep ==
  \/ Poll \/ Wake \/ Take \/ DriveAnswers \/ DriveParks \/ DriveDrops
  \/ Throw \/ CopyBytes \/ StoreLength \/ Bump \/ NotifyGuest

\* onProcExit(): the stash is dropped, the pump aborted and woken by wakeRing(),
\* and terminate() ends the thread, wherever it is, some time later.
TearDown ==
  /\ Free /\ pump # "loaded" /\ ~torn
  /\ torn' = TRUE /\ stashed' = 0
  /\ reqSeq' = Next32(reqSeq) /\ pump' = Rung
  /\ UNCHANGED <<respSeq, opLen, respLen, reqBytes, respBytes, guestVars, expected, taken,
                 writing, reply, dead, late, ringHistory>>

Terminate ==
  /\ torn /\ ~dead
  /\ dead' = TRUE
  /\ UNCHANGED <<memory, guestVars, serverVars, torn, late, ringHistory>>

RingNext == GuestStep \/ ServerStep \/ Redrive \/ TearDown \/ Terminate

\* Both threads run; a stashed call may wait for its event for ever.
RingSpec == RingInit /\ [][RingNext]_ringVars /\ WF_ringVars(GuestStep) /\ WF_ringVars(ServerStep)

-----------------------------------------------------------------------------
(***************************************************************************)
(* Properties.                                                             *)
(***************************************************************************)
Lane   == 0..(Wrap - 1)
CallNo == 0..Calls          \* 0: no call

RingTypeOK ==
  /\ reqSeq \in Lane /\ respSeq \in Lane /\ expected \in Lane /\ respSeen \in Lane
  /\ opLen \in CallNo /\ respLen \in CallNo /\ reqBytes \in CallNo
  /\ respBytes \in CallNo /\ gotLen \in CallNo /\ call \in CallNo
  /\ taken \in CallNo /\ stashed \in CallNo /\ reply \in CallNo
  /\ guest \in {"running", "staged", "sized", "armed", "rung", "waits", "asleep", "awake", "reading"}
  /\ pump \in {"poll", "waiting", "woken", "loaded", "taken", "driving", "stopped"}
  /\ writing \in {"nothing", "copies", "sizes", "bumps", "notifies"}
  /\ torn \in BOOLEAN /\ dead \in BOOLEAN /\ late \subseteq {"guest", "kernel"}
  /\ served \in [Call -> Nat] /\ answered \subseteq Call /\ got \in [Call -> CallNo \cup {Calls + 1}]

\* Neither region is read while the other side may write it: the server copies a
\* request, and writes an answer, only while the guest waits for that answer.
RegionsExclusive ==
  late = {} =>
    /\ pump = "loaded" => guest \in {"waits", "asleep"} /\ opLen = call /\ reqBytes = call
    /\ Free \/ (guest \in {"waits", "asleep"} /\ reply = call)

\* A request is serviced once: "a guest's RESP_SEQ is bumped exactly once per
\* Atomics.wait" (processWakeups).
ServedOnce == \A k \in Call : served[k] <= 1

\* Once the process is torn down its requests are neither serviced nor answered,
\* whatever the pump had already taken and however late the doorbell rings.
NothingAfterTearDown == [][torn => UNCHANGED <<served, respSeq>>]_ringVars

\* The ring keeps the promise of Rpc in the behaviours where nobody is
\* descheduled between an add and its notify.  (In the others Rpc never starts.)
Promise == INSTANCE Rpc WITH
  asked    <- IF late # {} THEN 0 ELSE IF guest \in {"staged", "sized", "armed"} THEN call - 1 ELSE call,
  served   <- IF late # {} THEN [k \in Call |-> 0] ELSE served,
  answered <- IF late # {} THEN {} ELSE answered,
  got      <- IF late # {} THEN [k \in Call |-> 0] ELSE got

ImplementsRpc == Promise!RpcSpec
=============================================================================
