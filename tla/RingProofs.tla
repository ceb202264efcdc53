----------------------------- MODULE RingProofs -----------------------------
(***************************************************************************)
(* Proofs about Ring, for any number of calls, any width of the counters   *)
(* and any choice of answers that do not fit.                              *)
(***************************************************************************)
EXTENDS Ring, TLAPS

\* A bump changes a counter and keeps it in its lane, however narrow: two laps
\* of a doorbell are never confused with none.
LEMMA BumpMoves == \A n \in Lane : Next32(n) \in Lane /\ Next32(n) # n
<1> TAKE n \in Lane
<1>1. n \in Nat /\ n < Wrap /\ Wrap \in Nat /\ Wrap >= 2
  BY RingAssumption DEF Lane
<1>2. CASE n + 1 < Wrap
  <2>1. (n + 1) % Wrap = n + 1
    BY <1>1, <1>2
  <2> QED
    BY <1>1, <1>2, <2>1 DEF Lane, Next32
<1>3. CASE n + 1 = Wrap
  <2>1. (n + 1) % Wrap = 0
    BY <1>1, <1>3
  <2> QED
    BY <1>1, <1>3, <2>1 DEF Lane, Next32
<1> QED
  BY <1>1, <1>2, <1>3

-----------------------------------------------------------------------------
(***************************************************************************)
(* After the teardown.                                                     *)
(***************************************************************************)

\* A torn-down process has no answer under way.
Silent == torn => Free

LEMMA SilentInit == RingInit => Silent
  BY DEF RingInit, Silent, Free

LEMMA SilentStep == Silent /\ [RingNext]_ringVars => Silent'
<1> SUFFICES ASSUME Silent, [RingNext]_ringVars PROVE Silent'
  OBVIOUS
<1> USE DEF Silent, Free
<1>1. CASE GuestStep
  BY <1>1 DEF GuestStep, StageBytes, StageLength, Snapshot, RingBell, NotifyServer, Wait,
              ReadLength, ReadBytes, serverVars, world
<1>2. CASE Poll \/ Wake \/ Take \/ DriveParks \/ DriveDrops \/ Terminate
  BY <1>2 DEF Poll, Wake, Take, DriveParks, DriveDrops, Terminate, serverVars, world
<1>3. CASE DriveAnswers \/ Redrive
  BY <1>3 DEF DriveAnswers, Redrive, InProcs, world
<1>4. CASE Throw \/ CopyBytes \/ StoreLength \/ Bump \/ NotifyGuest
  BY <1>4 DEF Throw, CopyBytes, StoreLength, Bump, NotifyGuest, world
<1>5. CASE TearDown
  BY <1>5 DEF TearDown
<1>6. CASE UNCHANGED ringVars
  BY <1>6 DEF ringVars, serverVars, world
<1> QED
  BY <1>1, <1>2, <1>3, <1>4, <1>5, <1>6 DEF RingNext, ServerStep

\* No step of a torn-down process serves a request or bumps the response
\* counter: the drive looks the pid up, and no answer is under way.
LEMMA SilentKeeps == Silent /\ [RingNext]_ringVars => (torn => UNCHANGED <<served, respSeq>>)
<1> SUFFICES ASSUME Silent, [RingNext]_ringVars, torn PROVE served' = served /\ respSeq' = respSeq
  OBVIOUS
<1> USE DEF Silent, Free
<1>1. CASE GuestStep
  BY <1>1 DEF GuestStep, StageBytes, StageLength, Snapshot, RingBell, NotifyServer, Wait,
              ReadLength, ReadBytes, memory, ringHistory
<1>2. CASE ServerStep
  BY <1>2 DEF ServerStep, Poll, Wake, Take, DriveAnswers, DriveParks, DriveDrops, InProcs,
              Throw, CopyBytes, StoreLength, Bump, NotifyGuest, memory, ringHistory
<1>3. CASE Redrive \/ TearDown \/ Terminate \/ UNCHANGED ringVars
  BY <1>3 DEF Redrive, TearDown, Terminate, ringVars, memory, ringHistory
<1> QED
  BY <1>1, <1>2, <1>3 DEF RingNext

\* Once onProcExit has run nothing is served or answered, whatever the pump had
\* taken and however late the doorbell rings (driveSyscall, nextRequest).
THEOREM TornIsSilent == RingSpec => NothingAfterTearDown
<1>1. RingSpec => []Silent
  BY SilentInit, SilentStep, PTL DEF RingSpec
<1>2. Silent /\ [RingNext]_ringVars => [torn => UNCHANGED <<served, respSeq>>]_ringVars
  BY SilentKeeps
<1> QED
  BY <1>1, <1>2, PTL DEF RingSpec, NothingAfterTearDown

-----------------------------------------------------------------------------
(***************************************************************************)
(* Types.                                                                  *)
(***************************************************************************)
LEMMA CallNumbers == 0 \in CallNo /\ Call \subseteq CallNo
                     /\ \A k \in CallNo : k < Calls => k + 1 \in CallNo
  BY RingAssumption DEF Call, CallNo

LEMMA TypeInit == RingInit => RingTypeOK
<1> SUFFICES ASSUME RingInit PROVE RingTypeOK
  OBVIOUS
<1>1. 0 \in Lane
  BY RingAssumption DEF Lane
<1>2. late \subseteq {"guest", "kernel"}
  BY RingAssumption DEF RingInit
<1> QED
  BY <1>1, <1>2, CallNumbers DEF RingInit, RingTypeOK

LEMMA TypeGuest == RingTypeOK /\ GuestStep => RingTypeOK'
<1> SUFFICES ASSUME RingTypeOK, GuestStep PROVE RingTypeOK'
  OBVIOUS
<1> USE CallNumbers DEF RingTypeOK
<1>1. CASE StageBytes
  <2>1. call + 1 \in CallNo
    BY <1>1 DEF StageBytes
  <2>2. call' \in CallNo /\ reqBytes' \in CallNo
    BY <1>1, <2>1 DEF StageBytes
  <2> HIDE DEF RingTypeOK
  <2>3. RingTypeOK /\ call' \in CallNo /\ reqBytes' \in CallNo
        /\ guest' = "staged" /\ UNCHANGED <<reqSeq, respSeq, opLen, respLen, respBytes, respSeen,
                                            gotLen, serverVars, world, ringHistory>>
    BY <1>1, <2>2 DEF StageBytes, ringHistory
  <2> QED
    BY <2>3 DEF RingTypeOK, serverVars, world, ringHistory
<1>2. CASE StageLength \/ Snapshot \/ Wait \/ ReadLength
  <2>1. CASE StageLength
    BY <2>1 DEF StageLength, serverVars, world, ringHistory
  <2>2. CASE Snapshot
    BY <2>2 DEF Snapshot, memory, serverVars, world, ringHistory
  <2>3. CASE Wait
    BY <2>3 DEF Wait, memory, serverVars, world, ringHistory
  <2>4. CASE ReadLength
    BY <2>4 DEF ReadLength, memory, serverVars, world, ringHistory
  <2> QED
    BY <1>2, <2>1, <2>2, <2>3, <2>4
<1>3. CASE RingBell \/ NotifyServer
  BY <1>3, BumpMoves DEF RingBell, NotifyServer, Rung, memory, world, ringHistory
<1>4. CASE ReadBytes
  BY <1>4 DEF ReadBytes, memory, serverVars, world
<1> QED
  BY <1>1, <1>2, <1>3, <1>4 DEF GuestStep

LEMMA CountType == RingTypeOK /\ Count(taken) => served' \in [Call -> Nat]
<1> SUFFICES ASSUME RingTypeOK, Count(taken) PROVE served' \in [Call -> Nat]
  OBVIOUS
<1>1. \A j \in Call : (IF j = taken THEN served[j] + 1 ELSE served[j]) \in Nat
  BY DEF RingTypeOK
<1> QED
  BY <1>1 DEF Count

LEMMA TypeServer == RingTypeOK /\ ServerStep => RingTypeOK'
<1> SUFFICES ASSUME RingTypeOK, ServerStep PROVE RingTypeOK'
  OBVIOUS
<1> USE CallNumbers DEF RingTypeOK
<1>1. CASE Poll \/ Wake \/ Take \/ DriveDrops
  <2>1. CASE Poll
    BY <2>1 DEF Poll, memory, guestVars, world, ringHistory
  <2>2. CASE Wake
    BY <2>2 DEF Wake, memory, guestVars, world, ringHistory
  <2>3. CASE Take
    BY <2>3 DEF Take, memory, guestVars, world, ringHistory
  <2>4. CASE DriveDrops
    BY <2>4 DEF DriveDrops, memory, guestVars, world, ringHistory
  <2> QED
    BY <1>1, <2>1, <2>2, <2>3, <2>4
<1>2. CASE DriveAnswers
  BY <1>2, CountType DEF DriveAnswers, memory, guestVars, world
<1>3. CASE DriveParks
  BY <1>3, CountType DEF DriveParks, memory, guestVars, world
<1>4. CASE Throw
  BY <1>4 DEF Throw, memory, guestVars, world, ringHistory
<1>5. CASE CopyBytes \/ StoreLength
  <2>1. CASE CopyBytes
    BY <2>1 DEF CopyBytes, guestVars, world, ringHistory
  <2>2. CASE StoreLength
    BY <2>2 DEF StoreLength, guestVars, world, ringHistory
  <2> QED
    BY <1>5, <2>1, <2>2
<1>6. CASE Bump
  <2> HIDE DEF RingTypeOK
  <2>1. respSeq' \in Lane /\ answered' \subseteq Call
    BY <1>6, BumpMoves DEF Bump, RingTypeOK
  <2>2. writing' \in {"nothing", "notifies"}
    BY <1>6 DEF Bump
  <2>3. /\ pump' \in {"poll", "waiting", "woken", "loaded", "taken", "driving", "stopped"}
        /\ guest' \in {"running", "staged", "sized", "armed", "rung", "waits", "asleep", "awake", "reading"}
    BY <1>6 DEF Bump, PumpOn, Roused, RingTypeOK
  <2>4. UNCHANGED <<reqSeq, opLen, respLen, reqBytes, respBytes, call, respSeen, gotLen,
                    expected, taken, stashed, reply, world, served, got>>
    BY <1>6 DEF Bump
  <2> QED
    BY <2>1, <2>2, <2>3, <2>4 DEF RingTypeOK, world
<1>7. CASE NotifyGuest
  BY <1>7 DEF NotifyGuest, PumpOn, Roused, memory, world, ringHistory
<1> QED
  BY <1>1, <1>2, <1>3, <1>4, <1>5, <1>6, <1>7 DEF ServerStep

LEMMA TypeStep == RingTypeOK /\ [RingNext]_ringVars => RingTypeOK'
<1> SUFFICES ASSUME RingTypeOK, [RingNext]_ringVars PROVE RingTypeOK'
  OBVIOUS
<1> USE CallNumbers DEF RingTypeOK
<1>1. CASE Redrive
  BY <1>1 DEF Redrive, memory, guestVars, world, ringHistory
<1>2. CASE TearDown
  BY <1>2, BumpMoves DEF TearDown, Rung, guestVars, ringHistory
<1>3. CASE Terminate
  BY <1>3 DEF Terminate, memory, guestVars, serverVars, ringHistory
<1>4. CASE UNCHANGED ringVars
  BY <1>4 DEF ringVars, memory, guestVars, serverVars, world, ringHistory
<1> QED
  BY <1>1, <1>2, <1>3, <1>4, TypeGuest, TypeServer DEF RingNext

\* The lanes never leave their width, and a region never holds anything but the
\* bytes of one call.
THEOREM RingTypes == RingSpec => []RingTypeOK
  BY TypeInit, TypeStep, PTL DEF RingSpec
-----------------------------------------------------------------------------
(***************************************************************************)
(* While nobody is descheduled between an add and its notify.              *)
(***************************************************************************)
Staging == guest \in {"staged", "sized", "armed"}
Away    == guest \in {"waits", "asleep"}
Back    == guest \in {"awake", "reading"}

\* Nothing is asked of the server.
Calm == Free /\ stashed = 0 /\ reqSeq = expected /\ pump \in {"poll", "waiting"}

\* The guest's own half holds before the teardown and after it.
GuestHalf ==
  /\ guest # "rung" /\ (guest # "running" => call \in Call)
  /\ Staging => reqBytes = call
  /\ guest \in {"sized", "armed"} => opLen = call
  /\ guest = "armed" => respSeen = respSeq

\* The server has the guest's request, or is about to take it, and has not
\* served it ...
Unserved ==
  /\ Free /\ stashed = 0
  /\ \/ reqSeq # expected /\ pump \in {"poll", "woken"}
     \/ reqSeq = expected /\ pump = "loaded"
     \/ reqSeq = expected /\ pump = "taken" /\ taken = call

\* ... or has served it and stashed it, writes the answer, or has dropped it.
Served ==
  /\ reqSeq = expected
  /\ \/ Free /\ stashed = call /\ pump \in {"poll", "waiting"}
     \/ Free /\ stashed = 0 /\ pump \in {"poll", "waiting", "stopped"}
     \/ ~Free /\ stashed = 0 /\ reply = call /\ pump \in {"poll", "waiting", "driving"}

\* Until the teardown, the guest and the server are never both at it.
Turns ==
  \/ (guest = "running" \/ Staging \/ Back) /\ Calm
  \/ guest = "waits" /\ respSeq # respSeen /\ Calm
  \/ /\ Away /\ respSeq = respSeen /\ opLen = call /\ reqBytes = call
     /\ Unserved \/ Served

Orderly ==
  late = {} =>
    /\ GuestHalf /\ writing # "notifies"
    /\ IF torn THEN Free /\ pump # "loaded" ELSE Turns

LEMMA OrderlyInit == RingInit => Orderly
  BY DEF RingInit, Orderly, GuestHalf, Turns, Calm, Free, Staging, Away, Back

\* late is chosen once.
LEMMA LateFixed == [RingNext]_ringVars => late' = late
  BY DEF RingNext, ringVars, world, ringHistory, GuestStep, StageBytes, StageLength, Snapshot, RingBell,
         NotifyServer, Wait, ReadLength, ReadBytes, ServerStep, Poll, Wake, Take, DriveAnswers,
         DriveParks, DriveDrops, Throw, CopyBytes, StoreLength, Bump, NotifyGuest, Redrive,
         TearDown, Terminate

LEMMA OrderlyGuest == RingTypeOK /\ Orderly /\ GuestStep => Orderly'
<1> SUFFICES ASSUME RingTypeOK, Orderly, GuestStep, late = {} PROVE Orderly'
  BY LateFixed DEF Orderly, RingNext
<1> USE DEF Orderly, GuestHalf, Turns, Calm, Unserved, Served, Staging, Away, Back, Free,
            memory, serverVars, world
<1>1. CASE StageBytes
  <2>1. call' \in Call
    BY <1>1, RingAssumption DEF StageBytes, RingTypeOK, CallNo, Call
  <2> QED
    BY <1>1, <2>1 DEF StageBytes
<1>2. CASE StageLength \/ Snapshot
  BY <1>2 DEF StageLength, Snapshot
<1>3. CASE RingBell
  BY <1>3, BumpMoves DEF RingBell, Rung, RingTypeOK
<1>4. CASE NotifyServer
  BY <1>4 DEF NotifyServer
<1>5. CASE Wait
  BY <1>5 DEF Wait
<1>6. CASE ReadLength \/ ReadBytes
  BY <1>6 DEF ReadLength, ReadBytes
<1> QED
  BY <1>1, <1>2, <1>3, <1>4, <1>5, <1>6 DEF GuestStep

LEMMA OrderlyServer == RingTypeOK /\ Orderly /\ ServerStep => Orderly'
<1> SUFFICES ASSUME RingTypeOK, Orderly, ServerStep, late = {} PROVE Orderly'
  BY LateFixed DEF Orderly, RingNext
<1> USE DEF Orderly, GuestHalf, Turns, Calm, Unserved, Served, Staging, Away, Back, Free,
            memory, guestVars, world
<1>1. CASE Poll
  BY <1>1 DEF Poll
<1>2. CASE Wake
  BY <1>2 DEF Wake
<1>3. CASE Take
  BY <1>3 DEF Take
<1>4. CASE DriveAnswers \/ DriveParks \/ DriveDrops
  BY <1>4 DEF DriveAnswers, DriveParks, DriveDrops, InProcs
<1>5. CASE Throw \/ CopyBytes \/ StoreLength
  BY <1>5 DEF Throw, CopyBytes, StoreLength
<1>6. CASE Bump
  BY <1>6, BumpMoves DEF Bump, PumpOn, Roused, RingTypeOK
<1>7. CASE NotifyGuest
  BY <1>7 DEF NotifyGuest
<1> QED
  BY <1>1, <1>2, <1>3, <1>4, <1>5, <1>6, <1>7 DEF ServerStep

LEMMA OrderlyStep == RingTypeOK /\ Orderly /\ [RingNext]_ringVars => Orderly'
<1> SUFFICES ASSUME RingTypeOK, Orderly, [RingNext]_ringVars, late = {} PROVE Orderly'
  BY LateFixed DEF Orderly
<1> USE DEF Orderly, GuestHalf, Turns, Calm, Unserved, Served, Staging, Away, Back, Free
<1>1. CASE Redrive
  BY <1>1 DEF Redrive, memory, guestVars, world
<1>2. CASE TearDown
  BY <1>2 DEF TearDown, Rung, guestVars
<1>3. CASE Terminate \/ UNCHANGED ringVars
  BY <1>3 DEF Terminate, ringVars, memory, guestVars, serverVars, world
<1> QED
  BY <1>1, <1>2, <1>3, OrderlyGuest, OrderlyServer DEF RingNext

LEMMA OrderlyRegions == Orderly => RegionsExclusive
  BY DEF Orderly, RegionsExclusive, GuestHalf, Turns, Calm, Unserved, Served, Staging, Away, Back, Free

\* The server copies a request, and writes an answer, only while the guest waits
\* for that answer: neither region is touched from both sides (RingClient.call,
\* nextRequest, complete).
THEOREM RegionsApart == RingSpec => []RegionsExclusive
  BY TypeInit, TypeStep, OrderlyInit, OrderlyStep, OrderlyRegions, PTL DEF RingSpec

-----------------------------------------------------------------------------
(***************************************************************************)
(* The ring implements Rpc: initial states and steps.                      *)
(***************************************************************************)

\* The answer of the current call is out, and is what the region holds.
HasAnswer == call \in answered /\ respLen = call /\ respBytes = call

\* The answer as it is written.
Written ==
  /\ writing \in {"sizes", "bumps"} => respBytes = call
  /\ writing = "bumps" => respLen = call

\* What has happened to the calls before this one, to those after it ...
Past   == \A k \in Call : k < call => got[k] = k
Future == \A k \in Call : k > call => served[k] = 0 /\ k \notin answered /\ got[k] = 0

\* ... and to this one, by where the guest and the server are.
Present ==
  /\ guest = "running" => call = 0 \/ got[call] = call
  /\ guest # "running" => got[call] = 0
  /\ Staging => served[call] = 0 /\ call \notin answered
  /\ Back \/ (guest = "waits" /\ respSeq # respSeen) => HasAnswer
  /\ guest = "reading" => gotLen = call
  /\ ~torn /\ Away /\ respSeq = respSeen =>
       /\ call \notin answered /\ Written
       /\ Unserved => served[call] = 0
       /\ Served => served[call] = 1

Told == late = {} => Past /\ Future /\ Present

LEMMA ToldInit == RingInit => Told
  BY RingAssumption DEF RingInit, Told, Past, Future, Present, HasAnswer, Staging, Away, Back, Call

LEMMA ToldGuest == RingTypeOK /\ Orderly /\ Told /\ GuestStep => Told'
<1> SUFFICES ASSUME RingTypeOK, Orderly, Told, GuestStep, late = {} PROVE Told'
  BY LateFixed DEF Told, RingNext
<1>0. GuestHalf /\ Past /\ Future /\ Present /\ (~torn => Turns)
  BY DEF Orderly, Told
<1> USE DEF Past, Future, Present, HasAnswer, Written, Unserved, Served, Staging, Away, Back, Free,
            memory, serverVars, world, ringHistory
<1>1. CASE StageBytes
  <2>1. call \in Nat /\ call + 1 \in Call /\ \A k \in Call : k \in Nat /\ k # 0
    BY <1>1, RingAssumption DEF StageBytes, RingTypeOK, CallNo, Call
  <2>2. Past'
    BY <1>0, <1>1, <2>1 DEF StageBytes
  <2>3. Future' /\ Present'
    BY <1>0, <1>1, <2>1 DEF StageBytes
  <2> QED
    BY <2>2, <2>3 DEF Told
<1>2. CASE StageLength \/ Snapshot
  BY <1>0, <1>2 DEF StageLength, Snapshot, Told
<1>3. CASE RingBell
  BY <1>0, <1>3, BumpMoves DEF RingBell, Rung, RingTypeOK, Told, GuestHalf, Turns, Calm
<1>4. CASE NotifyServer
  BY <1>0, <1>4 DEF NotifyServer, GuestHalf
<1>5. CASE Wait
  BY <1>0, <1>5 DEF Wait, Told
<1>6. CASE ReadLength
  BY <1>0, <1>6 DEF ReadLength, Told
<1>7. CASE ReadBytes
  <2>1. call \in Call /\ got' = [got EXCEPT ![call] = call] /\ call' = call
    BY <1>0, <1>7 DEF ReadBytes, GuestHalf
  <2>2. \A k \in Call : k \in Nat
    BY RingAssumption DEF Call
  <2>3. Past' /\ Future'
    BY <1>0, <1>7, <2>1, <2>2 DEF ReadBytes, RingTypeOK
  <2>4. Present'
    BY <1>0, <1>7, <2>1 DEF ReadBytes, RingTypeOK
  <2> QED
    BY <2>3, <2>4 DEF Told
<1> QED
  BY <1>1, <1>2, <1>3, <1>4, <1>5, <1>6, <1>7 DEF GuestStep

LEMMA ToldServer == RingTypeOK /\ Orderly /\ Told /\ ServerStep => Told'
<1> SUFFICES ASSUME RingTypeOK, Orderly, Told, ServerStep, late = {} PROVE Told'
  BY LateFixed DEF Told, RingNext
<1>0. GuestHalf /\ writing # "notifies" /\ Past /\ Future /\ Present
      /\ IF torn THEN Free /\ pump # "loaded" ELSE Turns
  BY DEF Orderly, Told
<1> USE DEF Told, GuestHalf, Turns, Calm, Past, Future, Present, HasAnswer, Written, Unserved, Served,
            Staging, Away, Back, Free, memory, guestVars, world, ringHistory
<1>1. CASE Poll \/ Wake
  BY <1>0, <1>1 DEF Poll, Wake
<1>2. CASE Take
  BY <1>0, <1>2 DEF Take
<1>3. CASE DriveAnswers \/ DriveParks
  <2>1. ~torn /\ Away /\ respSeq = respSeen /\ taken = call /\ call \in Call /\ served[call] = 0
    BY <1>0, <1>3 DEF DriveAnswers, DriveParks, InProcs
  <2>2. \A k \in Call : served'[k] = IF k = call THEN 1 ELSE served[k]
    BY <1>3, <2>1 DEF DriveAnswers, DriveParks, Count
  <2> QED
    BY <1>0, <1>3, <2>1, <2>2 DEF DriveAnswers, DriveParks
<1>4. CASE DriveDrops
  BY <1>0, <1>4 DEF DriveDrops, InProcs
<1>5. CASE Throw
  BY <1>0, <1>5 DEF Throw
<1>6. CASE CopyBytes \/ StoreLength
  BY <1>0, <1>6 DEF CopyBytes, StoreLength
<1>7. CASE Bump
  BY <1>0, <1>7, BumpMoves DEF Bump, PumpOn, Roused, RingTypeOK
<1>8. CASE NotifyGuest
  BY <1>0, <1>8 DEF NotifyGuest
<1> QED
  BY <1>1, <1>2, <1>3, <1>4, <1>5, <1>6, <1>7, <1>8 DEF ServerStep

LEMMA ToldStep == RingTypeOK /\ Orderly /\ Told /\ [RingNext]_ringVars => Told'
<1> SUFFICES ASSUME RingTypeOK, Orderly, Told, [RingNext]_ringVars, late = {} PROVE Told'
  BY LateFixed DEF Told
<1> USE DEF Told, Past, Future, Present, HasAnswer, Written, Unserved, Served, Staging, Away, Back, Free
<1>1. CASE Redrive
  BY <1>1 DEF Redrive, Orderly, Turns, Calm, memory, guestVars, world, ringHistory
<1>2. CASE TearDown
  BY <1>2 DEF TearDown, guestVars, ringHistory
<1>3. CASE Terminate \/ UNCHANGED ringVars
  BY <1>3 DEF Terminate, ringVars, memory, guestVars, serverVars, world, ringHistory
<1> QED
  BY <1>1, <1>2, <1>3, ToldGuest, ToldServer DEF RingNext

LEMMA RpcStart == RingInit => Promise!RpcInit
  BY DEF RingInit, Promise!RpcInit, Promise!Call, Call

\* What Rpc sees of a step that only the bookkeeping of a thread notices.
LEMMA Unseen ==
  ASSUME late' = late, UNCHANGED <<served, answered, got, torn, dead>>,
         late # {} \/ (IF Staging THEN call - 1 ELSE call)' = (IF Staging THEN call - 1 ELSE call)
  PROVE  UNCHANGED Promise!rpcVars
  BY DEF Promise!rpcVars, Promise!Call, Call, Staging

\* Behaviours in which somebody is late: Rpc sees the process end, and no more.
LEMMA RpcLate == late # {} /\ [RingNext]_ringVars => [Promise!RpcNext]_(Promise!rpcVars)
<1> SUFFICES ASSUME late # {}, [RingNext]_ringVars PROVE Promise!RpcNext \/ UNCHANGED Promise!rpcVars
  OBVIOUS
<1>1. late' = late
  BY LateFixed
<1>2. CASE TearDown
  BY <1>1, <1>2 DEF TearDown, Promise!RpcNext, Promise!TearDown, Promise!Call, Call
<1>3. CASE Terminate
  BY <1>1, <1>3 DEF Terminate, Promise!RpcNext, Promise!Die, Promise!Call, Call
<1>4. CASE GuestStep \/ ServerStep \/ Redrive \/ UNCHANGED ringVars
  <2>1. torn' = torn /\ dead' = dead
    BY <1>4 DEF ringVars, world, GuestStep, StageBytes, StageLength, Snapshot, RingBell, NotifyServer,
                Wait, ReadLength, ReadBytes, ServerStep, Poll, Wake, Take, DriveAnswers, DriveParks,
                DriveDrops, Throw, CopyBytes, StoreLength, Bump, NotifyGuest, Redrive
  <2> QED
    BY <1>1, <2>1 DEF Promise!rpcVars, Promise!Call
<1> QED
  BY <1>2, <1>3, <1>4 DEF RingNext

LEMMA RpcGuest ==
  RingTypeOK /\ Orderly /\ Told /\ late = {} /\ GuestStep => Promise!RpcNext \/ UNCHANGED Promise!rpcVars
<1> SUFFICES ASSUME RingTypeOK, Orderly, Told, late = {}, GuestStep
             PROVE  Promise!RpcNext \/ UNCHANGED Promise!rpcVars
  OBVIOUS
<1>0. late' = late /\ GuestHalf /\ Past /\ Present /\ ~dead /\ call \in Nat
  BY LateFixed DEF Orderly, Told, GuestStep, RingNext, RingTypeOK, CallNo
<1> USE DEF memory, serverVars, world, ringHistory
<1>1. CASE StageBytes
  BY <1>0, <1>1, Unseen DEF StageBytes, Staging
<1>2. CASE StageLength \/ Snapshot \/ NotifyServer \/ Wait \/ ReadLength
  BY <1>0, <1>2, Unseen DEF StageLength, Snapshot, NotifyServer, Wait, ReadLength, Staging, GuestHalf
<1>3. CASE RingBell
  <2>1. call \in Call /\ guest = "armed" /\ guest' = "waits" /\ call' = call
        /\ UNCHANGED <<served, answered, got, torn, dead>>
    BY <1>0, <1>3 DEF RingBell, GuestHalf
  <2>2. call - 1 > 0 => call - 1 \in Call /\ got[call - 1] # 0
    BY <1>0, <2>1, RingAssumption DEF Past, Call
  <2>3. call - 1 < Calls /\ call = (call - 1) + 1
    BY <1>0, <2>1, RingAssumption DEF Call
  <2>4. Promise!Ask
    BY <1>0, <2>1, <2>2, <2>3 DEF Promise!Ask, Promise!Returned, Promise!Call, Call
  <2> QED
    BY <2>4 DEF Promise!RpcNext
<1>4. CASE ReadBytes
  <2>1. call \in Call /\ got[call] = 0 /\ call \in answered /\ guest = "reading" /\ guest' = "running"
        /\ call' = call /\ got' = [got EXCEPT ![call] = call]
        /\ UNCHANGED <<served, answered, torn, dead>>
    BY <1>0, <1>4 DEF ReadBytes, GuestHalf, Present, HasAnswer, Back
  <2>2. Promise!Return
    BY <1>0, <2>1 DEF Promise!Return, Promise!Returned, Promise!Call, Call
  <2> QED
    BY <2>2 DEF Promise!RpcNext
<1> QED
  BY <1>1, <1>2, <1>3, <1>4 DEF GuestStep

LEMMA RpcServer ==
  RingTypeOK /\ Orderly /\ Told /\ late = {} /\ ServerStep => Promise!RpcNext \/ UNCHANGED Promise!rpcVars
<1> SUFFICES ASSUME RingTypeOK, Orderly, Told, late = {}, ServerStep
             PROVE  Promise!RpcNext \/ UNCHANGED Promise!rpcVars
  OBVIOUS
<1>0. late' = late /\ GuestHalf /\ Present /\ writing # "notifies"
      /\ IF torn THEN Free /\ pump # "loaded" ELSE Turns
  BY LateFixed DEF Orderly, Told, RingNext
<1> USE DEF memory, guestVars, world, ringHistory
<1>1. CASE Poll \/ Wake \/ Take \/ DriveDrops \/ Throw \/ CopyBytes \/ StoreLength \/ NotifyGuest
  BY <1>0, <1>1, Unseen DEF Poll, Wake, Take, DriveDrops, Throw, CopyBytes, StoreLength, NotifyGuest, Staging
<1>2. CASE DriveAnswers \/ DriveParks
  <2>1. ~torn /\ Away /\ taken = call /\ call \in Call /\ served[call] = 0
    BY <1>0, <1>2 DEF DriveAnswers, DriveParks, InProcs, GuestHalf, Turns, Calm, Unserved, Served,
                      Staging, Away, Back, Free, Present
  <2>2. served' = [served EXCEPT ![call] = 1]
        /\ UNCHANGED <<guest, call, answered, got, torn, dead>>
    BY <1>2, <2>1 DEF DriveAnswers, DriveParks, Count, RingTypeOK
  <2>3. late = {} /\ late' = {} /\ guest \notin {"staged", "sized", "armed"} /\ call > 0 /\ Promise!Call = Call
    BY <1>0, <2>1, RingAssumption DEF Promise!Call, Call, Away
  <2>4. ~torn /\ call > 0 /\ served[call] = 0
    BY <2>1, <2>3
  <2>5. guest' \notin {"staged", "sized", "armed"} /\ UNCHANGED <<guest, call, answered, got, torn, dead>>
    BY <2>2, <2>3
  <2>6. served' = [served EXCEPT ![call] = 1]
    BY <2>2
  <2> QED
    BY <2>3, <2>4, <2>5, <2>6 DEF Promise!ServeOnce, Promise!RpcNext
<1>3. CASE Bump
  <2>1. ~torn /\ Away /\ reply = call /\ call \in Call /\ served[call] = 1 /\ call \notin answered
    BY <1>0, <1>3 DEF Bump, GuestHalf, Turns, Calm, Unserved, Served, Staging, Away, Back, Free, Present
  <2>2. answered' = answered \cup {call} /\ guest' \in {"waits", "asleep", "awake"}
        /\ UNCHANGED <<call, served, got, torn, dead>>
    BY <1>0, <1>3, <2>1 DEF Bump, Roused, Away
  <2>3. Promise!Answer
    BY <1>0, <2>1, <2>2, RingAssumption DEF Promise!Answer, Promise!Call, Call, Away
  <2> QED
    BY <2>3 DEF Promise!RpcNext
<1> QED
  BY <1>1, <1>2, <1>3 DEF ServerStep

LEMMA RpcStep == RingTypeOK /\ Orderly /\ Told /\ [RingNext]_ringVars => [Promise!RpcNext]_(Promise!rpcVars)
<1> SUFFICES ASSUME RingTypeOK, Orderly, Told, [RingNext]_ringVars, late = {}
             PROVE  Promise!RpcNext \/ UNCHANGED Promise!rpcVars
  BY RpcLate
<1>1. late' = late
  BY LateFixed
<1>2. CASE Redrive \/ UNCHANGED ringVars
  BY <1>1, <1>2, Unseen DEF Redrive, ringVars, memory, guestVars, world, ringHistory, Staging
<1>3. CASE TearDown
  BY <1>1, <1>3 DEF TearDown, guestVars, ringHistory, Promise!RpcNext, Promise!TearDown, Promise!Call, Call
<1>4. CASE Terminate
  BY <1>1, <1>4 DEF Terminate, memory, guestVars, serverVars, ringHistory, Promise!RpcNext, Promise!Die,
                    Promise!Call, Call
<1> QED
  BY <1>2, <1>3, <1>4, RpcGuest, RpcServer DEF RingNext

\* Each call is asked, served, answered and returned once and in that order,
\* with its own answer, and nothing is served once the process is torn down: the
\* ring implements Rpc, its fairness aside.
THEOREM RingImplementsRpc == RingSpec => Promise!RpcInit /\ [][Promise!RpcNext]_(Promise!rpcVars)
  BY TypeInit, TypeStep, OrderlyInit, OrderlyStep, ToldInit, ToldStep, RpcStart, RpcStep, PTL DEF RingSpec

=============================================================================
