---------------------------- MODULE StoreProofs ----------------------------
(***************************************************************************)
(* Proofs about CachedStore, for any number of keys, writes, flushes and   *)
(* reloads and either backing store.                                       *)
(***************************************************************************)
EXTENDS CachedStore, SequenceTheorems, TLAPS

OpType == [key: Keys, value: Block]

\* The queue runs in order: what settles is its head.
LEMMA HeadSettles ==
  ASSUME TypeOK, NEW i \in 1..MaxOps, Turn(i)
  PROVE  /\ i = 1 /\ queue \in Seq(OpType) /\ queue # <<>> /\ Len(queue) \in Nat \ {0}
         /\ SubSeq(queue, 1, i - 1) \o SubSeq(queue, i + 1, Len(queue)) = Tail(queue)
<1>1. i = 1 /\ queue \in Seq(OpType) /\ queue # <<>>
  BY DEF Turn, TypeOK, OpType
<1>2. Len(queue) \in Nat \ {0}
  BY <1>1, LenProperties, EmptySeq
<1>3. SubSeq(queue, 1, 0) = <<>>
  BY <1>1, <1>2, SubSeqEmpty
<1>4. SubSeq(queue, 2, Len(queue)) = Tail(queue)
  BY <1>1, TailIsSubSeq
<1>5. Tail(queue) \in Seq(OpType)
  BY <1>1, HeadTailProperties
<1>6. <<>> \o Tail(queue) = Tail(queue)
  BY <1>5, ConcatEmptySeq
<1> QED
  BY <1>1, <1>2, <1>3, <1>4, <1>6

\* What Tail leaves of a queue.
LEMMA TailFacts ==
  ASSUME NEW q \in Seq(OpType), q # <<>>
  PROVE  /\ Tail(q) \in Seq(OpType) /\ Len(q) \in Nat \ {0} /\ Len(Tail(q)) = Len(q) - 1
         /\ \A n \in 1..Len(q) - 1 : Tail(q)[n] = q[n + 1]
         /\ \A n \in 1..Len(q) : q[n] \in OpType
<1>1. Len(q) \in Nat \ {0}
  BY LenProperties, EmptySeq
<1>2. Tail(q) \in Seq(OpType) /\ Len(Tail(q)) = Len(q) - 1
  BY HeadTailProperties
<1>3. \A n \in 1..Len(q) - 1 : Tail(q)[n] = q[n + 1]
  BY <1>1, <1>2, HeadTailProperties, LenProperties
<1>4. \A n \in 1..Len(q) : q[n] \in OpType
  BY ElementOfSeq
<1> QED
  BY <1>1, <1>2, <1>3, <1>4

\* What queueing a few operations adds.
LEMMA ConcatFacts ==
  ASSUME NEW q \in Seq(OpType), NEW r \in Seq(OpType)
  PROVE  /\ q \o r \in Seq(OpType) /\ Len(q) \in Nat /\ Len(r) \in Nat
         /\ Len(q \o r) = Len(q) + Len(r)
         /\ \A n \in 1..Len(q) : (q \o r)[n] = q[n]
         /\ \A n \in 1..Len(r) : (q \o r)[Len(q) + n] = r[n]
<1>1. Len(q) \in Nat /\ Len(r) \in Nat
  BY LenProperties
<1>2. q \o r \in Seq(OpType) /\ Len(q \o r) = Len(q) + Len(r)
  BY ConcatProperties
<1>3. \A n \in 1..Len(q) : (q \o r)[n] = q[n]
  BY <1>1, ConcatProperties
<1>4. \A n \in 1..Len(r) : (q \o r)[Len(q) + n] = r[n]
  BY <1>1, ConcatProperties
<1> QED
  BY <1>1, <1>2, <1>3, <1>4

LEMMA BlockFacts ==
  /\ Absent \in Block /\ Empty \in Block /\ Content \subseteq Block /\ MaxOps \in Nat
  /\ Absent # Empty /\ Absent \notin Content /\ Empty \notin Content
BY CachedStoreAssumption DEF Absent, Empty, Content, Block

-----------------------------------------------------------------------------
(***************************************************************************)
(* Types.  The bound on the queue makes settled a number of operations.    *)
(***************************************************************************)

Typed == TypeOK /\ Issued <= MaxOps

LEMMA TypedInit == Init => Typed
<1> SUFFICES ASSUME Init PROVE Typed
  OBVIOUS
<1>1. queue \in Seq(OpType) /\ Len(queue) = 0
  BY EmptySeq DEF Init
<1>2. Issued <= MaxOps
  BY <1>1, CachedStoreAssumption DEF Init, Issued
<1>3. mirror \in [Keys -> Block] /\ disk \in [Keys -> Block]
  BY BlockFacts DEF Init
<1>4. flush \in [Flushes -> [at: {"idle", "waiting", "ok", "failed"}, upTo: 0..MaxOps]]
  BY BlockFacts DEF Init, NoFlush
<1>5. settled \in 0..MaxOps /\ writeError \in 0..MaxOps /\ written \in 0..MaxOps /\ reloads \in 0..MaxReloads
  BY CachedStoreAssumption DEF Init
<1>6. /\ unreported \subseteq 1..MaxOps /\ refused \subseteq 1..MaxOps
      /\ lostKeys \subseteq Keys /\ lostPut \in BOOLEAN /\ landed \subseteq Block
      /\ backend \in Backends /\ begun \in BOOLEAN
  BY DEF Init
<1> QED
  BY <1>1, <1>2, <1>3, <1>4, <1>5, <1>6 DEF Typed, TypeOK, OpType

\* The calls that queue operations.
LEMMA TypedEnqueue ==
  ASSUME Typed, NEW ops \in Seq(OpType), Enqueue(ops),
         mirror' \in [Keys -> Block], written' \in 0..MaxOps
  PROVE  Typed'
<1>1. queue \in Seq(OpType) /\ Len(queue) \in Nat /\ settled \in Nat
  BY LenProperties DEF Typed, TypeOK, OpType
<1>2. queue' \in Seq(OpType) /\ Len(queue') = Len(queue) + Len(ops) /\ Len(ops) \in Nat
  BY <1>1, ConcatFacts DEF Enqueue
<1>3. Issued' <= MaxOps
  BY <1>1, <1>2 DEF Enqueue, Issued
<1> QED
  BY <1>2, <1>3 DEF Typed, TypeOK, Enqueue, OpType, history

\* The operation at the head settles.
LEMMA TypedSettle ==
  ASSUME Typed, NEW i \in 1..MaxOps, Turn(i), Settle(i)
  PROVE  /\ queue' = Tail(queue) /\ queue' \in Seq(OpType) /\ Len(queue') = Len(queue) - 1
         /\ settled' = settled + 1 /\ settled' \in 0..MaxOps /\ Issued' = Issued
         /\ queue[1] \in OpType
<1>1. /\ queue \in Seq(OpType) /\ Len(queue) \in Nat \ {0} /\ queue # <<>>
      /\ queue' = Tail(queue)
  BY HeadSettles DEF Typed, Settle
<1>2. queue' \in Seq(OpType) /\ Len(queue') = Len(queue) - 1 /\ queue[1] \in OpType
  BY <1>1, TailFacts
<1>3. settled' = settled + 1 /\ settled \in Nat /\ MaxOps \in Nat /\ settled + Len(queue) <= MaxOps
  BY CachedStoreAssumption DEF Settle, Typed, TypeOK, Issued
<1>4. settled' \in 0..MaxOps /\ Issued' = Issued
  BY <1>1, <1>2, <1>3 DEF Issued
<1> QED
  BY <1>1, <1>2, <1>3, <1>4

LEMMA TypedStep == Typed /\ [Next]_vars => Typed'
<1> SUFFICES ASSUME Typed, [Next]_vars PROVE Typed'
  OBVIOUS
<1>0. /\ TypeOK /\ queue \in Seq(OpType) /\ Len(queue) \in Nat /\ settled \in Nat /\ MaxOps \in Nat
      /\ written \in Nat /\ Issued \in 0..MaxOps
  <2>1. queue \in Seq(OpType) /\ TypeOK /\ MaxOps \in Nat
    BY BlockFacts DEF Typed, TypeOK, OpType
  <2>2. Len(queue) \in Nat /\ settled \in Nat /\ written \in Nat
    BY <2>1, LenProperties DEF TypeOK
  <2> QED
    BY <2>1, <2>2 DEF Typed, Issued
<1>1. CASE UNCHANGED vars
  BY <1>1, <1>0 DEF vars, state, history, Typed, TypeOK, Issued
<1>2. ASSUME NEW k \in Keys, Write(k) PROVE Typed'
  <2>1. written + 1 \in Block /\ written' \in 0..MaxOps
    BY <1>0, <1>2 DEF Write, Block, Content
  <2>2. <<Op(k, written + 1)>> \in Seq(OpType)
    BY <2>1 DEF Op, OpType
  <2>3. mirror' \in [Keys -> Block]
    BY <1>0, <1>2, <2>1 DEF Write, TypeOK
  <2> QED
    BY <1>2, <2>1, <2>2, <2>3, TypedEnqueue DEF Write
<1>3. ASSUME NEW k \in Keys, Delete(k) PROVE Typed'
  <2>2. <<Op(k, Absent)>> \in Seq(OpType)
    BY BlockFacts DEF Op, OpType
  <2>3. mirror' \in [Keys -> Block] /\ written' \in 0..MaxOps
    BY <1>0, <1>3, BlockFacts DEF Delete, TypeOK
  <2> QED
    BY <1>3, <2>2, <2>3, TypedEnqueue DEF Delete
<1>4. ASSUME NEW from \in Keys, NEW to \in Keys, Rename(from, to) PROVE Typed'
  <2>1. mirror[from] \in Block
    BY <1>0 DEF TypeOK
  <2>2. <<Op(to, mirror[from]), Op(from, Absent)>> \in Seq(OpType)
    BY <2>1, BlockFacts DEF Op, OpType
  <2>3. mirror' \in [Keys -> Block] /\ written' \in 0..MaxOps
    BY <1>0, <1>4, <2>1, BlockFacts DEF Rename, TypeOK
  <2> QED
    BY <1>4, <2>2, <2>3, TypedEnqueue DEF Rename
<1>5. ASSUME NEW i \in 1..MaxOps, Turn(i), OpfsCreate(queue[i]) PROVE Typed'
  <2>1. disk' \in [Keys -> Block]
    BY <1>0, <1>5, BlockFacts DEF OpfsCreate, TypeOK
  <2> QED
    BY <1>0, <1>5, <2>1 DEF OpfsCreate, Typed, TypeOK, history, Issued
<1>6. ASSUME NEW i \in 1..MaxOps, Turn(i), Land(i) \/ Refuse(i) \/ Reject(i) PROVE Typed'
  <2>1. Settle(i) /\ i = 1
    BY <1>6 DEF Land, Refuse, Reject, Turn
  <2>2. /\ queue' \in Seq(OpType) /\ settled' = settled + 1 /\ settled' \in 0..MaxOps
        /\ Issued' = Issued /\ queue[1] \in OpType
    BY <1>6, <2>1, TypedSettle
  <2>3. settled + 1 \in 1..MaxOps
    BY <1>0, <2>2
  <2>4. /\ backend' \in Backends /\ mirror' \in [Keys -> Block] /\ begun' \in BOOLEAN
        /\ flush' \in [Flushes -> [at: {"idle", "waiting", "ok", "failed"}, upTo: 0..MaxOps]]
        /\ written' \in 0..MaxOps /\ reloads' \in 0..MaxReloads
    BY <1>0, <2>1 DEF Settle, TypeOK
  <2>5. disk' \in [Keys -> Block] /\ landed' \subseteq Block
    BY <1>0, <1>6, <2>1, <2>2 DEF Land, Refuse, Reject, TypeOK, OpType
  <2>6. unreported' \subseteq 1..MaxOps /\ refused' \subseteq 1..MaxOps /\ lostKeys' \subseteq Keys
    BY <1>0, <1>6, <2>1, <2>2, <2>3 DEF Land, Refuse, Reject, TypeOK, OpType
  <2>7. lostPut' \in BOOLEAN
    BY <1>0, <1>6 DEF Land, Refuse, Reject, TypeOK
  <2>8. writeError' \in 0..MaxOps
    BY <1>0, <1>6, <2>3 DEF Land, Refuse, Reject, Caught, TypeOK
  <2> QED
    BY <1>0, <2>2, <2>4, <2>5, <2>6, <2>7, <2>8 DEF Typed, TypeOK, OpType
<1>7. ASSUME NEW f \in Flushes, CallFlush(f) PROVE Typed'
  <2>1. flush' \in [Flushes -> [at: {"idle", "waiting", "ok", "failed"}, upTo: 0..MaxOps]]
    BY <1>0, <1>7 DEF CallFlush, TypeOK
  <2> QED
    BY <1>0, <1>7, <2>1 DEF CallFlush, Typed, TypeOK, history, Issued
<1>8. ASSUME NEW f \in Flushes, ResumeFlush(f) PROVE Typed'
  <2> DEFINE at == IF writeError = 0 THEN "ok" ELSE "failed"
  <2>0. at \in {"ok", "failed"} /\ flush' = [flush EXCEPT ![f].at = at]
    BY <1>8 DEF ResumeFlush
  <2> HIDE DEF at
  <2>1. flush' \in [Flushes -> [at: {"idle", "waiting", "ok", "failed"}, upTo: 0..MaxOps]]
    BY <1>0, <2>0 DEF TypeOK
  <2>2. writeError' \in 0..MaxOps /\ unreported' \subseteq 1..MaxOps
    BY <1>0, <1>8 DEF ResumeFlush, TypeOK
  <2>3. UNCHANGED <<backend, mirror, disk, queue, begun, settled, written, reloads, refused, lostKeys, lostPut, landed>>
    BY <1>8 DEF ResumeFlush
  <2> QED
    BY <1>0, <2>1, <2>2, <2>3 DEF Typed, TypeOK, Issued
<1>9. ASSUME NEW unread \in SUBSET Keys, Reload(unread) PROVE Typed'
  <2>1. mirror' \in [Keys -> Block]
    BY <1>0, <1>9, BlockFacts DEF Reload, TypeOK
  <2>2. flush' \in [Flushes -> [at: {"idle", "waiting", "ok", "failed"}, upTo: 0..MaxOps]]
    BY <1>0, <1>9 DEF Reload, NoFlush
  <2>3. queue' \in Seq(OpType) /\ Len(queue') = 0
    BY <1>9, EmptySeq DEF Reload
  <2>4. settled' \in 0..MaxOps /\ Issued' <= MaxOps
    BY <1>0, <1>9, <2>3 DEF Reload, Issued
  <2>5. reloads' \in 0..MaxReloads
    BY <1>0, <1>9, CachedStoreAssumption DEF Reload, TypeOK
  <2>6. /\ writeError' \in 0..MaxOps /\ unreported' \subseteq 1..MaxOps /\ refused' \subseteq 1..MaxOps
        /\ lostKeys' \subseteq Keys /\ lostPut' \in BOOLEAN /\ begun' \in BOOLEAN
    <3>1. /\ writeError' = 0 /\ unreported' = {} /\ refused' = {} /\ lostKeys' = unread
          /\ lostPut' = FALSE /\ begun' = FALSE
      BY <1>9 DEF Reload
    <3>2. writeError' \in 0..MaxOps
      BY <1>0, <3>1
    <3>3. lostKeys' \subseteq Keys
      BY <1>9, <3>1
    <3> QED
      BY <3>1, <3>2, <3>3
  <2>7. UNCHANGED <<backend, disk, written, landed>>
    BY <1>9 DEF Reload
  <2> QED
    BY <1>0, <2>1, <2>2, <2>3, <2>4, <2>5, <2>6, <2>7 DEF Typed, TypeOK, OpType
<1> QED
  BY <1>1, <1>2, <1>3, <1>4, <1>5, <1>6, <1>7, <1>8, <1>9 DEF Next, Backing

\* Every put, delete, flush, settled write and reload leaves the mirror, the queue, the disk
\* and the flushes of CachedStore well formed.
THEOREM StoreTypes == Spec => []TypeOK
<1>1. Typed => TypeOK
  BY DEF Typed
<1> QED
  BY <1>1, TypedInit, TypedStep, PTL DEF Spec

-----------------------------------------------------------------------------
(***************************************************************************)
(* Flushes and rejections.                                                 *)
(***************************************************************************)

\* writeError is the first rejection no flush has thrown.
FirstError ==
  /\ writeError = 0 <=> unreported = {}
  /\ writeError # 0 => writeError \in unreported /\ \A i \in unreported : writeError <= i
  /\ unreported \subseteq 1..settled

LEMMA FirstErrorInit == Init => FirstError
  BY DEF Init, FirstError

LEMMA FirstErrorStep == Typed /\ FirstError /\ [Next]_vars => FirstError'
<1> SUFFICES ASSUME Typed, FirstError, [Next]_vars PROVE FirstError'
  OBVIOUS
<1>0. settled \in Nat /\ unreported \subseteq 1..settled /\ Len(queue) \in Nat
  BY LenProperties DEF Typed, TypeOK, FirstError
<1>1. CASE UNCHANGED <<settled, writeError, unreported>>
  BY <1>1 DEF FirstError
<1>2. ASSUME NEW i \in 1..MaxOps, Turn(i), Land(i) \/ Refuse(i) PROVE FirstError'
  <2>1. settled' = settled + 1 /\ UNCHANGED <<writeError, unreported>>
    BY <1>2 DEF Land, Refuse, Settle
  <2> QED
    BY <1>0, <2>1 DEF FirstError
<1>3. ASSUME NEW i \in 1..MaxOps, Turn(i), Reject(i) PROVE FirstError'
  <2>1. settled' = settled + 1 /\ unreported' = unreported \cup {settled + 1} /\ Caught
    BY <1>3 DEF Reject, Settle
  <2>2. CASE writeError = 0
    <3>1. unreported' = {settled + 1} /\ writeError' = settled + 1
      BY <2>1, <2>2 DEF FirstError, Caught
    <3> QED
      BY <1>0, <2>1, <3>1 DEF FirstError
  <2>3. CASE writeError # 0
    <3>1. writeError' = writeError /\ writeError \in unreported
      BY <2>1, <2>3 DEF FirstError, Caught
    <3>2. writeError \in Nat /\ writeError <= settled + 1
      BY <1>0, <3>1
    <3>3. \A j \in unreported' : writeError' <= j
      BY <1>0, <2>1, <2>3, <3>1, <3>2 DEF FirstError
    <3>4. unreported' \subseteq 1..settled'
      BY <1>0, <2>1
    <3> QED
      BY <2>1, <2>3, <3>1, <3>3, <3>4 DEF FirstError
  <2> QED
    BY <2>2, <2>3
<1>4. ASSUME NEW f \in Flushes, ResumeFlush(f) PROVE FirstError'
  <2>1. writeError' = 0 /\ settled' = settled
    BY <1>4 DEF ResumeFlush
  <2>2. unreported' = {}
    BY <1>4 DEF ResumeFlush, FirstError
  <2> QED
    BY <2>1, <2>2 DEF FirstError
<1>5. ASSUME NEW unread \in SUBSET Keys, Reload(unread) PROVE FirstError'
  <2>1. writeError' = 0 /\ unreported' = {}
    BY <1>5 DEF Reload
  <2> QED
    BY <2>1 DEF FirstError
<1> QED
  BY <1>1, <1>2, <1>3, <1>4, <1>5
     DEF Next, Backing, vars, state, history, Write, Delete, Rename, Enqueue, OpfsCreate, CallFlush

\* A flush ends by resuming, or with its page.
LEMMA OnlyResumes ==
  ASSUME Typed, [Next]_vars, NEW f \in Flushes,
         flush[f].at = "waiting", flush'[f].at \in {"ok", "failed"}
  PROVE  /\ writeError = 0 => flush'[f].at = "ok"
         /\ writeError # 0 => flush'[f].at = "failed"
<1>0. flush \in [Flushes -> [at: {"idle", "waiting", "ok", "failed"}, upTo: 0..MaxOps]]
  BY DEF Typed, TypeOK
<1>1. flush' # flush
  OBVIOUS
<1>2. \/ \E g \in Flushes : CallFlush(g) \/ ResumeFlush(g)
      \/ \E unread \in SUBSET Keys : Reload(unread)
  BY <1>1 DEF Next, Backing, vars, state, Write, Delete, Rename, Enqueue, OpfsCreate,
              Land, Refuse, Reject, Settle
<1>3. ASSUME NEW unread \in SUBSET Keys, Reload(unread) PROVE FALSE
  BY <1>3 DEF Reload, NoFlush
<1>4. ASSUME NEW g \in Flushes, CallFlush(g) PROVE FALSE
  BY <1>0, <1>4 DEF CallFlush
<1>5. ASSUME NEW g \in Flushes, ResumeFlush(g)
      PROVE  flush'[f].at = IF writeError = 0 THEN "ok" ELSE "failed"
  <2> DEFINE at == IF writeError = 0 THEN "ok" ELSE "failed"
  <2>1. flush' = [flush EXCEPT ![g].at = at]
    BY <1>5 DEF ResumeFlush
  <2> HIDE DEF at
  <2>2. f = g
    BY <1>0, <2>1
  <2>3. flush'[f].at = at
    BY <1>0, <2>1, <2>2
  <2> QED
    BY <2>3 DEF at
<1> QED
  BY <1>2, <1>3, <1>4, <1>5

\* A flush that resolves leaves no rejection behind that it waited for, and one
\* that throws has the earliest that no flush has thrown before.
THEOREM RejectionsReported == Spec => RejectionReported
<1>1. Typed /\ FirstError /\ [Next]_vars =>
        [\A f \in Flushes :
           /\ Resolves(f) => \A i \in unreported : i > flush[f].upTo
           /\ Throws(f) => writeError \in unreported /\ \A i \in unreported : writeError <= i]_vars
  <2> SUFFICES ASSUME Typed, FirstError, [Next]_vars, NEW f \in Flushes
               PROVE  /\ Resolves(f) => \A i \in unreported : i > flush[f].upTo
                      /\ Throws(f) => writeError \in unreported /\ \A i \in unreported : writeError <= i
    OBVIOUS
  <2>1. ASSUME Resolves(f) PROVE unreported = {}
    <3>1. writeError = 0
      BY <2>1, OnlyResumes DEF Resolves
    <3> QED
      BY <3>1 DEF FirstError
  <2>2. ASSUME Throws(f) PROVE writeError \in unreported /\ \A i \in unreported : writeError <= i
    <3>1. writeError # 0
      BY <2>2, OnlyResumes DEF Throws
    <3> QED
      BY <3>1 DEF FirstError
  <2> QED
    BY <2>1, <2>2
<1> QED
  BY <1>1, TypedInit, TypedStep, FirstErrorInit, FirstErrorStep, PTL DEF Spec, RejectionReported

-----------------------------------------------------------------------------
(***************************************************************************)
(* What the queue will leave on disk.                                      *)
(***************************************************************************)

\* When the first n operations of q have worked on disk d, key k holds v.
Holds(d, q, n, k, v) ==
  \/ \E m \in 1..n : /\ q[m].key = k /\ q[m].value = v
                    /\ \A j \in m + 1..n : q[j].key # k
  \/ (\A j \in 1..n : q[j].key # k) /\ d[k] = v

\* Operations behind the first n change nothing of that.
LEMMA HoldsBefore ==
  ASSUME NEW d, NEW q \in Seq(OpType), NEW r \in Seq(OpType),
         NEW n \in 0..Len(q), NEW k, NEW v, Holds(d, q, n, k, v)
  PROVE  Holds(d, q \o r, n, k, v)
<1>1. Len(q) \in Nat /\ \A m \in 1..n : (q \o r)[m] = q[m]
  BY ConcatFacts
<1> QED
  BY <1>1 DEF Holds

\* An operation on another key leaves what k holds, and one on k sets it.
LEMMA HoldsNext ==
  ASSUME NEW d, NEW q, NEW n \in Nat, NEW k, NEW v
  PROVE  /\ Holds(d, q, n, k, v) /\ q[n + 1].key # k => Holds(d, q, n + 1, k, v)
         /\ q[n + 1].key = k /\ q[n + 1].value = v => Holds(d, q, n + 1, k, v)
<1>1. ASSUME Holds(d, q, n, k, v), q[n + 1].key # k PROVE Holds(d, q, n + 1, k, v)
  <2>1. CASE (\A j \in 1..n : q[j].key # k) /\ d[k] = v
    <3>1. \A j \in 1..n + 1 : q[j].key # k
      <4> TAKE j \in 1..n + 1
      <4> QED
        BY <1>1, <2>1, j \in 1..n \/ j = n + 1
    <3> QED
      BY <2>1, <3>1 DEF Holds
  <2>2. ASSUME NEW m \in 1..n, q[m].key = k, q[m].value = v, \A j \in m + 1..n : q[j].key # k
        PROVE  Holds(d, q, n + 1, k, v)
    <3>1. \A j \in m + 1..n + 1 : q[j].key # k
      <4> TAKE j \in m + 1..n + 1
      <4> QED
        BY <1>1, <2>2, j \in m + 1..n \/ j = n + 1
    <3>2. m \in 1..n + 1
      BY <2>2
    <3> QED
      BY <2>2, <3>1, <3>2 DEF Holds
  <2> QED
    BY <1>1, <2>1, <2>2 DEF Holds
<1>2. ASSUME q[n + 1].key = k, q[n + 1].value = v PROVE Holds(d, q, n + 1, k, v)
  <2>1. n + 1 \in 1..n + 1 /\ \A j \in n + 1 + 1..n + 1 : q[j].key # k
    OBVIOUS
  <2> QED
    BY <1>2, <2>1 DEF Holds
<1> QED
  BY <1>1, <1>2

\* The head of the queue has worked: the rest of it is replayed on the new disk.
LEMMA HoldsTail ==
  ASSUME NEW d, NEW e, NEW q \in Seq(OpType), q # <<>>, NEW n \in 1..Len(q), NEW k, NEW v,
         Holds(d, q, n, k, v),
         q[1].key = k /\ q[1].value = v /\ (\A j \in 2..n : q[j].key # k) => e[k] = v,
         q[1].key # k => e[k] = d[k]
  PROVE  Holds(e, Tail(q), n - 1, k, v)
<1>0. Len(q) \in Nat /\ n \in Nat /\ \A m \in 1..n - 1 : Tail(q)[m] = q[m + 1]
  BY TailFacts
<1>1. CASE (\A j \in 1..n : q[j].key # k) /\ d[k] = v
  <2>1. \A j \in 1..n - 1 : Tail(q)[j].key # k
    BY <1>0, <1>1
  <2>2. e[k] = v
    BY <1>0, <1>1
  <2> QED
    BY <2>1, <2>2 DEF Holds
<1>2. ASSUME NEW m \in 1..n, q[m].key = k, q[m].value = v, \A j \in m + 1..n : q[j].key # k
      PROVE  Holds(e, Tail(q), n - 1, k, v)
  <2>1. CASE m = 1
    <3>1. \A j \in 1..n - 1 : Tail(q)[j].key # k
      BY <1>0, <1>2, <2>1
    <3>2. e[k] = v
      BY <1>2, <2>1
    <3> QED
      BY <3>1, <3>2 DEF Holds
  <2>2. CASE m # 1
    <3>1. m - 1 \in 1..n - 1 /\ Tail(q)[m - 1] = q[m]
      BY <1>0, <1>2, <2>2
    <3>2. \A j \in (m - 1) + 1..n - 1 : Tail(q)[j].key # k
      BY <1>0, <1>2
    <3> QED
      BY <1>2, <3>1, <3>2 DEF Holds
  <2> QED
    BY <2>1, <2>2
<1> QED
  BY <1>1, <1>2 DEF Holds

\* A disk that differs only at keys the first n operations write.
LEMMA HoldsDisk ==
  ASSUME NEW d, NEW e, NEW q, NEW n \in Nat, NEW k, NEW v, Holds(d, q, n, k, v),
         e[k] = d[k] \/ \E m \in 1..n : q[m].key = k
  PROVE  Holds(e, q, n, k, v)
BY DEF Holds

\* Holds names what CachedStore's Replayed computes.
LEMMA HoldsReplayed ==
  ASSUME TypeOK, NEW k \in Keys, NEW v, Holds(disk, queue, Len(queue), k, v)
  PROVE  Replayed(k) = v
<1> DEFINE ops == {i \in DOMAIN queue : queue[i].key = k}
<1>0. Len(queue) \in Nat /\ DOMAIN queue = 1..Len(queue)
  BY LenProperties DEF TypeOK
<1>1. CASE (\A j \in 1..Len(queue) : queue[j].key # k) /\ disk[k] = v
  <2>1. ops = {}
    BY <1>0, <1>1
  <2> QED
    BY <1>1, <2>1 DEF Replayed
<1>2. ASSUME NEW m \in 1..Len(queue), queue[m].key = k, queue[m].value = v,
             \A j \in m + 1..Len(queue) : queue[j].key # k
      PROVE  Replayed(k) = v
  <2>1. m \in ops /\ \A j \in ops : j <= m
    BY <1>0, <1>2
  <2>2. \A i \in ops : (\A j \in ops : j <= i) => i = m
    <3> TAKE i \in ops
    <3> HAVE \A j \in ops : j <= i
    <3>1. i \in Nat /\ m \in Nat /\ m <= i /\ i <= m
      BY <1>0, <1>2, <2>1
    <3> QED
      BY <3>1
  <2>3. (CHOOSE i \in ops : \A j \in ops : j <= i) = m
    BY <2>1, <2>2
  <2>4. ops # {}
    BY <2>1
  <2> QED
    BY <1>2, <2>3, <2>4 DEF Replayed
<1> QED
  BY <1>1, <1>2 DEF Holds

-----------------------------------------------------------------------------
(***************************************************************************)
(* The inductive invariant: what the queue leaves is what the mirror       *)
(* shows, and no content is missing from the disk half way.                *)
(***************************************************************************)

\* Running the queue out gives k the block the mirror shows.
Agrees(k) == Holds(disk, queue, Len(queue), k, mirror[k])

CatchesUp == \A k \in Keys \ lostKeys : Agrees(k)
Shown     == \A k \in Keys : mirror[k] # Absent => Agrees(k)

\* A content is made once.
Made  == (0..written) \cup {Empty}
Fresh == /\ \A k \in Keys : mirror[k] \in Made /\ disk[k] \in Made
         /\ \A m \in 1..Len(queue) : queue[m].value \in Made
         /\ landed \subseteq Made

\* When n operations have worked, every content shown that has been on disk is there.
KeptAt(n) ==
  \A k \in Keys :
    mirror[k] # Absent /\ (mirror[k] \in landed \/ \E m \in 1..n : queue[m].value = mirror[k])
      => \E j \in Keys : Holds(disk, queue, n, j, mirror[k])
Kept == \A n \in 0..Len(queue) : KeptAt(n)

NothingLost == ~lostPut => Shown /\ Kept

\* One operation more on a queue.
LEMMA OneMore ==
  ASSUME NEW q \in Seq(OpType), NEW op \in OpType, NEW d
  PROVE  /\ q \o <<op>> \in Seq(OpType) /\ Len(q) \in Nat
         /\ Len(q \o <<op>>) = Len(q) + 1 /\ (q \o <<op>>)[Len(q) + 1] = op
         /\ \A k, v : k # op.key /\ Holds(d, q, Len(q), k, v) => Holds(d, q \o <<op>>, Len(q) + 1, k, v)
         /\ Holds(d, q \o <<op>>, Len(q) + 1, op.key, op.value)
<1> DEFINE r == q \o <<op>>
<1>1. <<op>> \in Seq(OpType) /\ Len(<<op>>) = 1 /\ <<op>>[1] = op
  OBVIOUS
<1>2. r \in Seq(OpType) /\ Len(q) \in Nat /\ Len(r) = Len(q) + 1 /\ r[Len(q) + 1] = op
  BY <1>1, ConcatFacts
<1>3. ASSUME NEW k, NEW v, k # op.key, Holds(d, q, Len(q), k, v)
      PROVE  Holds(d, r, Len(q) + 1, k, v)
  <2>1. Len(q) \in 0..Len(q)
    BY <1>2
  <2>2. Holds(d, r, Len(q), k, v)
    BY <1>1, <1>3, <2>1, HoldsBefore
  <2> QED
    BY <1>2, <1>3, <2>2, HoldsNext
<1>4. Holds(d, r, Len(q) + 1, op.key, op.value)
  BY <1>2, HoldsNext
<1> QED
  BY <1>2, <1>3, <1>4

\* The two operations of a rename, one after the other.
LEMMA TwoMore ==
  ASSUME NEW q \in Seq(OpType), NEW a \in OpType, NEW b \in OpType
  PROVE  q \o <<a, b>> = (q \o <<a>>) \o <<b>>
<1>1. /\ <<a>> \in Seq(OpType) /\ <<b>> \in Seq(OpType) /\ <<a, b>> \in Seq(OpType)
      /\ Len(<<a>>) = 1 /\ Len(<<b>>) = 1 /\ Len(<<a, b>>) = 2
      /\ <<a>>[1] = a /\ <<b>>[1] = b /\ <<a, b>>[1] = a /\ <<a, b>>[2] = b
  OBVIOUS
<1> DEFINE one == <<a>>
           two == <<b>>
           both == <<a, b>>
<1>2. /\ one \in Seq(OpType) /\ two \in Seq(OpType) /\ both \in Seq(OpType)
      /\ Len(one) = 1 /\ Len(two) = 1 /\ Len(both) = 2
      /\ one[1] = a /\ two[1] = b /\ both[1] = a /\ both[2] = b
  BY <1>1
<1> HIDE DEF one, two, both
<1>3. /\ one \o two \in Seq(OpType) /\ Len(one \o two) = 2
      /\ (one \o two)[1] = a /\ (one \o two)[2] = b
  <2>1. /\ one \o two \in Seq(OpType) /\ Len(one \o two) = Len(one) + Len(two)
        /\ \A n \in 1..Len(one) : (one \o two)[n] = one[n]
        /\ \A n \in 1..Len(two) : (one \o two)[Len(one) + n] = two[n]
    BY <1>2, ConcatFacts
  <2> QED
    BY <1>2, <2>1
<1>4. one \o two = both
  <2>1. \A n \in 1..Len(both) : (one \o two)[n] = both[n]
    BY <1>2, <1>3
  <2> QED
    BY <1>2, <1>3, <2>1, SeqEqual
<1>5. (q \o one) \o two = q \o (one \o two)
  <2>1. one \in Seq(OpType) /\ two \in Seq(OpType)
    BY <1>2
  <2> QED
    BY <2>1, ConcatAssociative, SMTT(20)
<1>6. (q \o one) \o two = q \o both
  BY <1>4, <1>5
<1> QED
  BY <1>6 DEF one, two, both

Calls == \/ \E k \in Keys : Write(k) \/ Delete(k)
         \/ \E from, to \in Keys : Rename(from, to)

\* What a call leaves alone, and where what the mirror shows comes from.
LEMMA CallFacts ==
  ASSUME Typed, Fresh, Calls
  PROVE  /\ \E ops \in Seq(OpType) : queue' = queue \o ops
         /\ UNCHANGED <<disk, landed, lostKeys, lostPut>>
         /\ \A k \in Keys : \/ mirror'[k] = Absent
                          \/ (mirror'[k] = written + 1 /\ written + 1 \notin Made)
                          \/ \E j \in Keys : mirror[j] = mirror'[k]
<1>0. mirror \in [Keys -> Block] /\ written \in Nat /\ MaxOps \in Nat
  BY BlockFacts DEF Typed, TypeOK
<1>1. CASE \E k \in Keys : Write(k)
  <2>1. PICK k \in Keys : Write(k)
    BY <1>1
  <2>2. written < MaxOps
    BY <2>1 DEF Write
  <2>3. written + 1 \in Block /\ written + 1 \notin Made
    BY <1>0, <2>2 DEF Block, Content, Made, Empty
  <2>4. <<Op(k, written + 1)>> \in Seq(OpType)
    BY <2>1, <2>3 DEF Op, OpType
  <2>5. \A j \in Keys : mirror'[j] = IF j = k THEN written + 1 ELSE mirror[j]
    BY <1>0, <2>1 DEF Write
  <2> QED
    BY <2>1, <2>3, <2>4, <2>5 DEF Write, Enqueue, history
<1>2. CASE \E k \in Keys : Delete(k)
  <2>1. PICK k \in Keys : Delete(k)
    BY <1>2
  <2>4. <<Op(k, Absent)>> \in Seq(OpType)
    BY <2>1, BlockFacts DEF Op, OpType
  <2>5. \A j \in Keys : mirror'[j] = IF j = k THEN Absent ELSE mirror[j]
    BY <1>0, <2>1 DEF Delete
  <2>6. /\ queue' = queue \o <<Op(k, Absent)>>
        /\ UNCHANGED <<disk, landed, lostKeys, lostPut>>
    BY <2>1 DEF Delete, Enqueue, history
  <2>7. \A j \in Keys : mirror'[j] = Absent \/ \E l \in Keys : mirror[l] = mirror'[j]
    BY <2>5
  <2>8. \E ops \in Seq(OpType) : queue' = queue \o ops
    BY <2>4, <2>6
  <2> QED
    BY <2>6, <2>7, <2>8
<1>3. CASE \E from, to \in Keys : Rename(from, to)
  <2>1. PICK from \in Keys, to \in Keys : Rename(from, to)
    BY <1>3
  <2>4. <<Op(to, mirror[from]), Op(from, Absent)>> \in Seq(OpType)
    BY <1>0, <2>1, BlockFacts DEF Op, OpType
  <2>5. \A j \in Keys : mirror'[j] = IF j = to THEN mirror[from] ELSE IF j = from THEN Absent ELSE mirror[j]
    BY <1>0, <2>1 DEF Rename
  <2>6. /\ queue' = queue \o <<Op(to, mirror[from]), Op(from, Absent)>>
        /\ UNCHANGED <<disk, landed, lostKeys, lostPut>>
    BY <2>1 DEF Rename, Enqueue, history
  <2>7. \A j \in Keys : mirror'[j] = Absent \/ \E l \in Keys : mirror[l] = mirror'[j]
    BY <2>1, <2>5
  <2>8. \E ops \in Seq(OpType) : queue' = queue \o ops
    BY <2>4, <2>6
  <2> QED
    BY <2>6, <2>7, <2>8
<1> QED
  BY <1>1, <1>2, <1>3 DEF Calls

\* After a call, what the queue leaves on disk is what the mirror shows wherever
\* it was so before or the mirror has changed.
LEMMA AgreesCall ==
  ASSUME Typed, Calls, NEW k \in Keys, Agrees(k) \/ mirror'[k] # mirror[k]
  PROVE  Agrees(k)'
<1>0. /\ mirror \in [Keys -> Block] /\ written \in Nat /\ MaxOps \in Nat
      /\ queue \in Seq(OpType) /\ Len(queue) \in Nat
  BY BlockFacts, LenProperties DEF Typed, TypeOK, OpType
<1>1. CASE \E a \in Keys : Write(a)
  <2>1. PICK a \in Keys : Write(a)
    BY <1>1
  <2>2. written + 1 \in Block
    BY <1>0, <2>1 DEF Write, Block, Content
  <2> DEFINE op == Op(a, written + 1)
  <2>3. op \in OpType /\ op.key = a /\ op.value = written + 1
    BY <2>1, <2>2 DEF Op, OpType
  <2>4. queue' = queue \o <<op>> /\ disk' = disk
    BY <2>1 DEF Write, Enqueue
  <2>5. mirror'[k] = IF k = a THEN op.value ELSE mirror[k]
    BY <1>0, <2>1, <2>3 DEF Write
  <2> HIDE DEF op
  <2> QED
    BY <1>0, <2>3, <2>4, <2>5, OneMore DEF Agrees
<1>2. CASE \E a \in Keys : Delete(a)
  <2>1. PICK a \in Keys : Delete(a)
    BY <1>2
  <2> DEFINE op == Op(a, Absent)
  <2>3. op \in OpType /\ op.key = a /\ op.value = Absent
    BY <2>1, BlockFacts DEF Op, OpType
  <2>4. queue' = queue \o <<op>> /\ disk' = disk
    BY <2>1 DEF Delete, Enqueue
  <2>5. mirror'[k] = IF k = a THEN op.value ELSE mirror[k]
    BY <1>0, <2>1, <2>3 DEF Delete
  <2> HIDE DEF op
  <2> QED
    BY <1>0, <2>3, <2>4, <2>5, OneMore DEF Agrees
<1>3. CASE \E from, to \in Keys : Rename(from, to)
  <2>1. PICK from \in Keys, to \in Keys : Rename(from, to)
    BY <1>3
  <2> DEFINE put == Op(to, mirror[from])
             del == Op(from, Absent)
  <2>2. /\ put \in OpType /\ put.key = to /\ put.value = mirror[from]
        /\ del \in OpType /\ del.key = from /\ del.value = Absent
    BY <1>0, <2>1, BlockFacts DEF Op, OpType
  <2>3. queue' = queue \o <<put, del>> /\ disk' = disk /\ from # to
    BY <2>1 DEF Rename, Enqueue, MayRename
  <2>5. mirror'[k] = IF k = to THEN put.value ELSE IF k = from THEN del.value ELSE mirror[k]
    BY <1>0, <2>1, <2>2 DEF Rename
  <2> HIDE DEF put, del
  <2> DEFINE r == queue \o <<put>>
  <2>6. queue' = r \o <<del>>
    BY <1>0, <2>2, <2>3, TwoMore
  <2>7. /\ r \in Seq(OpType) /\ Len(r) = Len(queue) + 1
        /\ Holds(disk, r, Len(r), to, put.value)
        /\ k # to /\ Holds(disk, queue, Len(queue), k, mirror[k]) => Holds(disk, r, Len(r), k, mirror[k])
    BY <1>0, <2>2, OneMore
  <2> HIDE DEF r
  <2>8. /\ Len(queue') = Len(r) + 1
        /\ Holds(disk, queue', Len(queue'), from, del.value)
        /\ to # from => Holds(disk, queue', Len(queue'), to, put.value)
        /\ k # from /\ Holds(disk, r, Len(r), k, mirror[k]) => Holds(disk, queue', Len(queue'), k, mirror[k])
    BY <2>2, <2>6, <2>7, OneMore
  <2> QED
    BY <2>3, <2>5, <2>7, <2>8 DEF Agrees
<1> QED
  BY <1>1, <1>2, <1>3 DEF Calls

\* OPFS makes the file of the head's put: the put writes it again.
LEMMA HoldsCreate ==
  ASSUME Typed, NEW i \in 1..MaxOps, Turn(i), OpfsCreate(queue[i])
  PROVE  /\ disk \in [Keys -> Block] /\ Len(queue) \in Nat \ {0} /\ queue[1].key \in Keys
         /\ UNCHANGED <<mirror, queue, written, lostKeys, lostPut, landed>>
         /\ \A k \in Keys : disk'[k] # disk[k] =>
              k = queue[1].key /\ disk[k] = Absent /\ disk'[k] = Empty
<1>1. i = 1 /\ Len(queue) \in Nat \ {0} /\ queue \in Seq(OpType) /\ queue # <<>>
  BY HeadSettles DEF Typed
<1>2. queue[1].key \in Keys
  <2>1. queue[1] \in OpType
    BY <1>1, TailFacts
  <2> QED
    BY <2>1 DEF OpType
<1>3. disk \in [Keys -> Block]
  BY DEF Typed, TypeOK
<1>4. \A k \in Keys : disk'[k] = IF k = queue[1].key /\ disk[k] = Absent THEN Empty ELSE disk[k]
  BY <1>1, <1>2, <1>3 DEF OpfsCreate
<1>5. UNCHANGED <<mirror, queue, written, lostKeys, lostPut, landed>>
  BY DEF OpfsCreate, history
<1> QED
  BY <1>1, <1>2, <1>3, <1>4, <1>5

Settles(i) == Turn(i) /\ (Land(i) \/ Refuse(i) \/ Reject(i))

\* The head of the queue settles: it has written its block, or its key is lost.
LEMMA SettleFacts ==
  ASSUME Typed, NEW i \in 1..MaxOps, Settles(i)
  PROVE  /\ queue \in Seq(OpType) /\ queue # <<>> /\ Len(queue) \in Nat \ {0}
         /\ queue' = Tail(queue) /\ Len(queue') = Len(queue) - 1
         /\ \A m \in 1..Len(queue) - 1 : queue'[m] = queue[m + 1]
         /\ queue[1] \in OpType
         /\ UNCHANGED <<mirror, written>>
         /\ \/ /\ \A k \in Keys : disk'[k] = IF k = queue[1].key THEN queue[1].value ELSE disk[k]
               /\ landed' = landed \cup {queue[1].value}
               /\ UNCHANGED <<lostKeys, lostPut>>
            \/ /\ UNCHANGED <<disk, landed>>
               /\ lostKeys' = lostKeys \cup {queue[1].key}
               /\ ~lostPut' => ~lostPut /\ queue[1].value = Absent
<1>1. i = 1 /\ Settle(i) /\ Turn(i)
  BY DEF Settles, Land, Refuse, Reject, Turn
<1>2. /\ queue \in Seq(OpType) /\ queue # <<>> /\ Len(queue) \in Nat \ {0}
      /\ queue' = Tail(queue) /\ UNCHANGED <<mirror, written>>
  BY <1>1, HeadSettles DEF Settle, Typed
<1>3. /\ Len(queue') = Len(queue) - 1 /\ queue[1] \in OpType
      /\ \A m \in 1..Len(queue) - 1 : queue'[m] = queue[m + 1]
  BY <1>2, TailFacts
<1>4. disk \in [Keys -> Block]
  BY DEF Typed, TypeOK
<1>5. CASE Land(i)
  <2>1. \A k \in Keys : disk'[k] = IF k = queue[1].key THEN queue[1].value ELSE disk[k]
    BY <1>1, <1>3, <1>4, <1>5 DEF Land, OpType
  <2>2. landed' = landed \cup {queue[1].value} /\ UNCHANGED <<lostKeys, lostPut>>
    BY <1>1, <1>5 DEF Land
  <2> QED
    BY <1>2, <1>3, <2>1, <2>2
<1>6. CASE Refuse(i)
  <2>1. /\ UNCHANGED <<disk, landed>> /\ lostKeys' = lostKeys \cup {queue[1].key}
    BY <1>1, <1>6 DEF Refuse
  <2>2. ~lostPut' => ~lostPut /\ queue[1].value = Absent
    BY <1>1, <1>6 DEF Refuse, IsPut
  <2> QED
    BY <1>2, <1>3, <2>1, <2>2
<1>7. CASE Reject(i)
  <2>1. /\ UNCHANGED <<disk, landed>> /\ lostKeys' = lostKeys \cup {queue[1].key}
    BY <1>1, <1>7 DEF Reject
  <2>2. ~lostPut' => ~lostPut /\ queue[1].value = Absent
    BY <1>1, <1>7 DEF Reject, IsPut
  <2> QED
    BY <1>2, <1>3, <2>1, <2>2
<1> QED
  BY <1>5, <1>6, <1>7 DEF Settles

\* Whatever the head of the queue did, the rest of it leaves on disk what the
\* whole would have left, except at the key of an operation that failed.
LEMMA HoldsSettle ==
  ASSUME Typed, NEW i \in 1..MaxOps, Settles(i), NEW n \in 1..Len(queue), NEW k \in Keys, NEW v,
         Holds(disk, queue, n, k, v),
         k \notin lostKeys' \/ (~lostPut' /\ v # Absent)
  PROVE  Holds(disk', queue', n - 1, k, v)
<1>1. /\ queue \in Seq(OpType) /\ queue # <<>> /\ queue' = Tail(queue)
      /\ \/ \A j \in Keys : disk'[j] = IF j = queue[1].key THEN queue[1].value ELSE disk[j]
         \/ /\ disk' = disk /\ lostKeys' = lostKeys \cup {queue[1].key}
            /\ ~lostPut' => ~lostPut /\ queue[1].value = Absent
  BY SettleFacts
<1>2. queue[1].key # k => disk'[k] = disk[k]
  BY <1>1
<1>3. queue[1].key = k /\ queue[1].value = v => disk'[k] = v
  BY <1>1
<1> QED
  BY <1>1, <1>2, <1>3, HoldsTail

LEMMA CatchesUpInit == Init => CatchesUp /\ Shown
<1> SUFFICES ASSUME Init, NEW k \in Keys PROVE Agrees(k)
  BY DEF CatchesUp, Shown
<1>1. Len(queue) = 0 /\ disk[k] = mirror[k]
  BY EmptySeq DEF Init
<1> QED
  BY <1>1 DEF Agrees, Holds

\* The steps that leave alone what this is about.
Aside == UNCHANGED <<mirror, disk, queue, written, lostKeys, lostPut, landed>>

LEMMA StepCases ==
  ASSUME [Next]_vars
  PROVE  \/ Aside
         \/ Calls
         \/ \E i \in 1..MaxOps : Turn(i) /\ OpfsCreate(queue[i])
         \/ \E i \in 1..MaxOps : Settles(i)
         \/ \E unread \in SUBSET Keys : Reload(unread)
<1>1. CASE UNCHANGED vars
  BY <1>1 DEF vars, state, history, Aside
<1>2. CASE Next
  BY <1>2 DEF Next, Backing, Calls, Settles, Aside, CallFlush, ResumeFlush, history
<1> QED
  BY <1>1, <1>2

\* A reload starts the mirror from the disk.
LEMMA ReloadFacts ==
  ASSUME Typed, NEW unread \in SUBSET Keys, Reload(unread)
  PROVE  /\ queue' = <<>> /\ Len(queue') = 0 /\ lostKeys' = unread /\ ~lostPut'
         /\ UNCHANGED <<disk, written, landed>>
         /\ \A k \in Keys : mirror'[k] = IF k \in unread THEN Absent ELSE disk[k]
         /\ \A k \in Keys : k \notin unread \/ mirror'[k] # Absent => Agrees(k)'
<1>1. /\ queue' = <<>> /\ lostKeys' = unread /\ ~lostPut'
      /\ UNCHANGED <<disk, written, landed>>
      /\ \A k \in Keys : mirror'[k] = IF k \in unread THEN Absent ELSE disk[k]
  BY DEF Reload
<1>2. Len(queue') = 0
  BY <1>1, EmptySeq
<1>3. ASSUME NEW k \in Keys, k \notin unread \/ mirror'[k] # Absent PROVE Agrees(k)'
  <2>1. disk'[k] = mirror'[k]
    BY <1>1, <1>3
  <2> QED
    BY <1>2, <2>1 DEF Agrees, Holds
<1> QED
  BY <1>1, <1>2, <1>3

LEMMA CatchesUpStep == Typed /\ Fresh /\ CatchesUp /\ [Next]_vars => CatchesUp'
<1> SUFFICES ASSUME Typed, Fresh, CatchesUp, [Next]_vars, NEW k \in Keys, k \notin lostKeys'
             PROVE  Agrees(k)'
  BY DEF CatchesUp
<1>1. CASE Aside
  BY <1>1 DEF Aside, CatchesUp, Agrees
<1>2. CASE Calls
  <2>1. lostKeys' = lostKeys
    BY <1>2, CallFacts
  <2> QED
    BY <1>2, <2>1, AgreesCall DEF CatchesUp
<1>3. ASSUME NEW i \in 1..MaxOps, Turn(i), OpfsCreate(queue[i]) PROVE Agrees(k)'
  <2>1. /\ UNCHANGED <<mirror, queue, lostKeys>> /\ Len(queue) \in Nat \ {0}
        /\ disk'[k] # disk[k] => k = queue[1].key
    BY <1>3, HoldsCreate
  <2>2. Holds(disk, queue, Len(queue), k, mirror[k])
    BY <2>1 DEF CatchesUp, Agrees
  <2>3. disk'[k] = disk[k] \/ \E m \in 1..Len(queue) : queue[m].key = k
    BY <2>1
  <2>4. Holds(disk', queue, Len(queue), k, mirror[k])
    BY <2>1, <2>2, <2>3, HoldsDisk
  <2> QED
    BY <2>1, <2>4 DEF Agrees
<1>4. ASSUME NEW i \in 1..MaxOps, Settles(i) PROVE Agrees(k)'
  <2>1. /\ mirror' = mirror /\ Len(queue') = Len(queue) - 1 /\ Len(queue) \in Nat \ {0}
        /\ lostKeys \subseteq lostKeys'
    BY <1>4, SettleFacts
  <2>2. Holds(disk, queue, Len(queue), k, mirror[k])
    BY <2>1 DEF CatchesUp, Agrees
  <2>3. Len(queue) \in 1..Len(queue)
    BY <2>1
  <2>4. Holds(disk', queue', Len(queue) - 1, k, mirror[k])
    BY <1>4, <2>2, <2>3, HoldsSettle
  <2> QED
    BY <2>1, <2>4 DEF Agrees
<1>5. ASSUME NEW unread \in SUBSET Keys, Reload(unread) PROVE Agrees(k)'
  BY <1>5, ReloadFacts
<1> QED
  BY <1>1, <1>2, <1>3, <1>4, <1>5, StepCases

\* As long as no put is refused: a key whose delete failed may be written again,
\* and agrees from then on.
LEMMA ShownStep == Typed /\ Fresh /\ (~lostPut => Shown) /\ [Next]_vars => (~lostPut => Shown)'
<1> SUFFICES ASSUME Typed, Fresh, ~lostPut => Shown, [Next]_vars, ~lostPut',
                    NEW k \in Keys, mirror'[k] # Absent
             PROVE  Agrees(k)'
  BY DEF Shown
<1>1. CASE Aside
  BY <1>1 DEF Aside, Shown, Agrees
<1>2. CASE Calls
  <2>1. lostPut' = lostPut
    BY <1>2, CallFacts
  <2>2. Agrees(k) \/ mirror'[k] # mirror[k]
    BY <2>1 DEF Shown
  <2> QED
    BY <1>2, <2>2, AgreesCall
<1>3. ASSUME NEW i \in 1..MaxOps, Turn(i), OpfsCreate(queue[i]) PROVE Agrees(k)'
  <2>1. /\ UNCHANGED <<mirror, queue, lostPut>> /\ Len(queue) \in Nat \ {0}
        /\ disk'[k] # disk[k] => k = queue[1].key
    BY <1>3, HoldsCreate
  <2>2. Holds(disk, queue, Len(queue), k, mirror[k])
    BY <2>1 DEF Shown, Agrees
  <2>3. disk'[k] = disk[k] \/ \E m \in 1..Len(queue) : queue[m].key = k
    BY <2>1
  <2>4. Holds(disk', queue, Len(queue), k, mirror[k])
    BY <2>1, <2>2, <2>3, HoldsDisk
  <2> QED
    BY <2>1, <2>4 DEF Agrees
<1>4. ASSUME NEW i \in 1..MaxOps, Settles(i) PROVE Agrees(k)'
  <2>1. /\ mirror' = mirror /\ Len(queue') = Len(queue) - 1 /\ Len(queue) \in Nat \ {0}
        /\ ~lostPut
    BY <1>4, SettleFacts
  <2>2. Holds(disk, queue, Len(queue), k, mirror[k])
    BY <2>1 DEF Shown, Agrees
  <2>3. Len(queue) \in 1..Len(queue)
    BY <2>1
  <2>4. Holds(disk', queue', Len(queue) - 1, k, mirror[k])
    BY <1>4, <2>1, <2>2, <2>3, HoldsSettle
  <2> QED
    BY <2>1, <2>4 DEF Agrees
<1>5. ASSUME NEW unread \in SUBSET Keys, Reload(unread) PROVE Agrees(k)'
  BY <1>5, ReloadFacts
<1> QED
  BY <1>1, <1>2, <1>3, <1>4, <1>5, StepCases

\* Contents are numbered in the order they are made.
LEMMA FreshInit == Init => Fresh
<1> SUFFICES ASSUME Init PROVE Fresh
  OBVIOUS
<1>1. Len(queue) = 0 /\ Absent \in Made
  BY EmptySeq DEF Init, Made, Absent
<1> QED
  BY <1>1 DEF Init, Fresh

LEMMA FreshEnqueue ==
  ASSUME Typed, Fresh, NEW ops \in Seq(OpType), queue' = queue \o ops,
         UNCHANGED <<disk, landed>>, Made \subseteq Made',
         \A k \in Keys : mirror'[k] \in Made',
         \A m \in 1..Len(ops) : ops[m].value \in Made'
  PROVE  Fresh'
<1>1. queue \in Seq(OpType) /\ Len(queue) \in Nat
  BY LenProperties DEF Typed, TypeOK, OpType
<1>2. /\ Len(queue') = Len(queue) + Len(ops) /\ Len(ops) \in Nat
      /\ \A n \in 1..Len(queue) : queue'[n] = queue[n]
      /\ \A n \in 1..Len(ops) : queue'[Len(queue) + n] = ops[n]
  BY <1>1, ConcatFacts
<1>3. \A m \in 1..Len(queue') : queue'[m].value \in Made'
  <2> TAKE m \in 1..Len(queue')
  <2>1. CASE m \in 1..Len(queue)
    BY <1>2, <2>1 DEF Fresh
  <2>2. CASE m \notin 1..Len(queue)
    <3>1. m - Len(queue) \in 1..Len(ops) /\ m = Len(queue) + (m - Len(queue))
      BY <1>1, <1>2, <2>2
    <3> QED
      BY <1>2, <3>1
  <2> QED
    BY <2>1, <2>2
<1> QED
  BY <1>3 DEF Fresh

LEMMA FreshStep == Typed /\ Fresh /\ [Next]_vars => Fresh'
<1> SUFFICES ASSUME Typed, Fresh, [Next]_vars PROVE Fresh'
  OBVIOUS
<1>0. /\ mirror \in [Keys -> Block] /\ disk \in [Keys -> Block] /\ written \in Nat
      /\ Absent \in Made /\ Empty \in Made
  BY DEF Typed, TypeOK, Made, Absent
<1>1. CASE Aside
  BY <1>1 DEF Aside, Fresh, Made
<1>2. CASE \E k \in Keys : Write(k)
  <2>1. PICK k \in Keys : Write(k)
    BY <1>2
  <2>2. written' = written + 1 /\ Made \subseteq Made' /\ written + 1 \in Made'
    BY <1>0, <2>1 DEF Write, Made
  <2>3. written + 1 \in Block
    BY <1>0, <2>1, BlockFacts DEF Write, Block, Content
  <2> DEFINE ops == <<Op(k, written + 1)>>
  <2>4. ops \in Seq(OpType) /\ Len(ops) = 1 /\ ops[1].value = written + 1
    BY <2>1, <2>3 DEF Op, OpType
  <2>5. queue' = queue \o ops /\ UNCHANGED <<disk, landed>>
    BY <2>1 DEF Write, Enqueue, history
  <2>6. \A j \in Keys : mirror'[j] = IF j = k THEN written + 1 ELSE mirror[j]
    BY <1>0, <2>1 DEF Write
  <2>7. \A j \in Keys : mirror'[j] \in Made'
    BY <2>2, <2>6 DEF Fresh
  <2> HIDE DEF ops
  <2>8. \A m \in 1..Len(ops) : ops[m].value \in Made'
    BY <2>2, <2>4
  <2> QED
    BY <2>2, <2>4, <2>5, <2>7, <2>8, FreshEnqueue
<1>3. CASE \E k \in Keys : Delete(k)
  <2>1. PICK k \in Keys : Delete(k)
    BY <1>3
  <2>2. Made' = Made
    BY <2>1 DEF Delete, Made
  <2> DEFINE ops == <<Op(k, Absent)>>
  <2>4. ops \in Seq(OpType) /\ Len(ops) = 1 /\ ops[1].value = Absent
    BY <2>1, BlockFacts DEF Op, OpType
  <2>5. queue' = queue \o ops /\ UNCHANGED <<disk, landed>>
    BY <2>1 DEF Delete, Enqueue, history
  <2>6. \A j \in Keys : mirror'[j] = IF j = k THEN Absent ELSE mirror[j]
    BY <1>0, <2>1 DEF Delete
  <2>7. \A j \in Keys : mirror'[j] \in Made'
    BY <1>0, <2>2, <2>6 DEF Fresh
  <2> HIDE DEF ops
  <2>8. \A m \in 1..Len(ops) : ops[m].value \in Made'
    BY <1>0, <2>2, <2>4
  <2> QED
    BY <2>2, <2>4, <2>5, <2>7, <2>8, FreshEnqueue
<1>4. CASE \E from, to \in Keys : Rename(from, to)
  <2>1. PICK from \in Keys, to \in Keys : Rename(from, to)
    BY <1>4
  <2>2. Made' = Made
    BY <2>1 DEF Rename, Made
  <2> DEFINE ops == <<Op(to, mirror[from]), Op(from, Absent)>>
  <2>3. mirror[from] \in Block /\ mirror[from] \in Made
    BY <1>0, <2>1 DEF Fresh
  <2>4. ops \in Seq(OpType) /\ Len(ops) = 2 /\ ops[1].value = mirror[from] /\ ops[2].value = Absent
    BY <2>1, <2>3, BlockFacts DEF Op, OpType
  <2>5. queue' = queue \o ops /\ UNCHANGED <<disk, landed>>
    BY <2>1 DEF Rename, Enqueue, history
  <2>6. \A j \in Keys : mirror'[j] = IF j = to THEN mirror[from] ELSE IF j = from THEN Absent ELSE mirror[j]
    BY <1>0, <2>1 DEF Rename
  <2>7. \A j \in Keys : mirror'[j] \in Made'
    BY <1>0, <2>2, <2>3, <2>6 DEF Fresh
  <2> HIDE DEF ops
  <2>8. \A m \in 1..Len(ops) : ops[m].value \in Made'
    BY <1>0, <2>2, <2>3, <2>4
  <2> QED
    BY <2>2, <2>4, <2>5, <2>7, <2>8, FreshEnqueue
<1>5. ASSUME NEW i \in 1..MaxOps, Turn(i), OpfsCreate(queue[i]) PROVE Fresh'
  <2>1. /\ UNCHANGED <<mirror, queue, written, landed>> /\ Made' = Made
        /\ \A k \in Keys : disk'[k] # disk[k] => disk'[k] = Empty
    BY <1>5, HoldsCreate DEF Made
  <2> QED
    BY <1>0, <2>1 DEF Fresh
<1>6. ASSUME NEW i \in 1..MaxOps, Settles(i) PROVE Fresh'
  <2>1. /\ Len(queue) \in Nat \ {0} /\ Len(queue') = Len(queue) - 1
        /\ \A m \in 1..Len(queue) - 1 : queue'[m] = queue[m + 1]
        /\ UNCHANGED mirror /\ Made' = Made
    BY <1>6, SettleFacts DEF Made
  <2>2. queue[1].value \in Made
    BY <2>1 DEF Fresh
  <2>3. \A m \in 1..Len(queue') : queue'[m].value \in Made
    BY <2>1 DEF Fresh
  <2>4. /\ \A k \in Keys : disk'[k] \in {queue[1].value, disk[k]}
        /\ landed' \subseteq landed \cup {queue[1].value}
    BY <1>6, SettleFacts
  <2> QED
    BY <2>1, <2>2, <2>3, <2>4 DEF Fresh
<1>7. ASSUME NEW unread \in SUBSET Keys, Reload(unread) PROVE Fresh'
  <2>1. /\ Len(queue') = 0 /\ UNCHANGED <<disk, landed>> /\ Made' = Made
        /\ \A k \in Keys : mirror'[k] \in {Absent, disk[k]}
    BY <1>7, ReloadFacts DEF Made
  <2> QED
    BY <1>0, <2>1 DEF Fresh
<1> QED
  BY <1>1, <1>2, <1>3, <1>4, <1>5, <1>6, <1>7, StepCases DEF Calls

\* A call does not change what its predecessors in the queue do.
LEMMA KeptBefore ==
  ASSUME Typed, Fresh, Calls, NEW n \in 0..Len(queue), KeptAt(n)
  PROVE  KeptAt(n)'
<1> SUFFICES ASSUME NEW k \in Keys, mirror'[k] # Absent,
                    mirror'[k] \in landed' \/ \E m \in 1..n : queue'[m].value = mirror'[k]
             PROVE  \E j \in Keys : Holds(disk', queue', n, j, mirror'[k])
  BY DEF KeptAt
<1>1. PICK ops \in Seq(OpType) : queue' = queue \o ops
  BY CallFacts
<1>2. queue \in Seq(OpType) /\ Len(queue) \in Nat
  BY LenProperties DEF Typed, TypeOK, OpType
<1>3. \A m \in 1..n : m \in 1..Len(queue) /\ queue'[m] = queue[m]
  BY <1>1, <1>2, ConcatFacts
<1>4. disk' = disk /\ landed' = landed
  BY CallFacts
<1>5. mirror'[k] \in Made
  BY <1>3, <1>4 DEF Fresh
<1>6. PICK j \in Keys : mirror[j] = mirror'[k]
  BY <1>5, CallFacts
<1>7. mirror[j] \in landed \/ \E m \in 1..n : queue[m].value = mirror[j]
  BY <1>3, <1>4, <1>6
<1>8. PICK l \in Keys : Holds(disk, queue, n, l, mirror[j])
  BY <1>6, <1>7 DEF KeptAt
<1>9. Holds(disk, queue \o ops, n, l, mirror[j])
  BY <1>1, <1>2, <1>8, HoldsBefore
<1> QED
  BY <1>1, <1>4, <1>6, <1>8, <1>9

\* When the put of a rename has worked and its delete has not, every content
\* shown is on disk: the one renamed under its new name.
LEMMA KeptHalfWay ==
  ASSUME Typed, Shown, NEW from \in Keys, NEW to \in Keys, Rename(from, to),
         NEW n \in Nat, n = Len(queue) + 1
  PROVE  Len(queue') = n + 1 /\ KeptAt(n)'
<1>0. /\ mirror \in [Keys -> Block] /\ queue \in Seq(OpType) /\ Len(queue) \in Nat
  BY LenProperties DEF Typed, TypeOK, OpType
<1> DEFINE put == Op(to, mirror[from])
           del == Op(from, Absent)
<1>1. /\ put \in OpType /\ put.key = to /\ put.value = mirror[from]
      /\ del \in OpType
  BY <1>0, BlockFacts DEF Op, OpType
<1>2. queue' = queue \o <<put, del>> /\ disk' = disk
  BY DEF Rename, Enqueue
<1>3. \A k \in Keys : mirror'[k] = IF k = to THEN mirror[from] ELSE IF k = from THEN Absent ELSE mirror[k]
  BY <1>0 DEF Rename
<1> HIDE DEF put, del
<1> DEFINE r == queue \o <<put>>
<1>4. queue' = r \o <<del>>
  BY <1>0, <1>1, <1>2, TwoMore
<1>5. /\ r \in Seq(OpType) /\ Len(r) = n /\ n \in Nat
      /\ Holds(disk, r, n, to, mirror[from])
      /\ \A k, v : k # to /\ Holds(disk, queue, Len(queue), k, v) => Holds(disk, r, n, k, v)
  BY <1>0, <1>1, OneMore
<1> HIDE DEF r
<1>6. Len(queue') = n + 1
  BY <1>1, <1>4, <1>5, OneMore
<1>7. ASSUME NEW k \in Keys, mirror'[k] # Absent
      PROVE  \E j \in Keys : Holds(disk', queue', n, j, mirror'[k])
  <2>1. \E j \in Keys : Holds(disk, r, n, j, mirror'[k])
    <3>1. CASE k = to
      BY <1>3, <1>5, <3>1
    <3>2. CASE k # to
      <4>1. mirror'[k] = mirror[k]
        BY <1>3, <1>7, <3>2
      <4>2. Holds(disk, queue, Len(queue), k, mirror[k])
        BY <1>7, <4>1 DEF Shown, Agrees
      <4> QED
        BY <1>5, <1>7, <3>2, <4>1, <4>2
    <3> QED
      BY <3>1, <3>2
  <2>2. PICK j \in Keys : Holds(disk, r, n, j, mirror'[k])
    BY <2>1
  <2>3. <<del>> \in Seq(OpType) /\ n \in 0..Len(r)
    BY <1>1, <1>5
  <2>4. Holds(disk, r \o <<del>>, n, j, mirror'[k])
    BY <1>5, <2>2, <2>3, HoldsBefore
  <2> QED
    BY <1>2, <1>4, <2>2, <2>4
<1> QED
  BY <1>6, <1>7 DEF KeptAt

LEMMA ShownKeeps == Shown => KeptAt(Len(queue))
  BY DEF Shown, KeptAt, Agrees

LEMMA KeptStep ==
  Typed /\ Fresh /\ NothingLost /\ (~lostPut => Shown)' /\ [Next]_vars => NothingLost'
<1> SUFFICES ASSUME Typed, Fresh, NothingLost, (~lostPut => Shown)', [Next]_vars, ~lostPut'
             PROVE  Kept'
  BY DEF NothingLost
<1>0. /\ Shown' /\ KeptAt(Len(queue))'
      /\ queue \in Seq(OpType) /\ Len(queue) \in Nat /\ Len(queue') \in Nat
  <2>1. Shown' /\ Typed'
    BY TypedStep
  <2>2. Shown' => KeptAt(Len(queue))'
    BY DEF Shown, KeptAt, Agrees
  <2>3. queue \in Seq(OpType) /\ queue' \in Seq(OpType)
    BY <2>1 DEF Typed, TypeOK, OpType
  <2> QED
    BY <2>1, <2>2, <2>3, LenProperties
\* What is left is what holds before the last operation of the queue has worked.
<1> SUFFICES ASSUME NEW n \in Nat, n < Len(queue') PROVE KeptAt(n)'
  <2> SUFFICES ASSUME NEW n \in 0..Len(queue') PROVE KeptAt(n)'
    BY DEF Kept
  <2>1. CASE n = Len(queue')
    BY <1>0, <2>1 DEF KeptAt
  <2> QED
    BY <1>0, <2>1
<1>1. CASE Aside
  BY <1>0, <1>1 DEF Aside, NothingLost, Kept, KeptAt
<1>2. CASE Calls
  <2>1. Shown /\ Kept
    BY <1>2, CallFacts DEF NothingLost
  <2>2. CASE n <= Len(queue)
    BY <1>0, <1>2, <2>1, <2>2, KeptBefore DEF Kept
  <2>3. CASE n > Len(queue)
    <3>1. ASSUME NEW k \in Keys, Write(k) \/ Delete(k) PROVE FALSE
      <4>1. PICK op \in OpType : queue' = queue \o <<op>>
        <5>1. CASE Write(k)
          <6>1. Op(k, written + 1) \in OpType
            BY <5>1, CachedStoreAssumption DEF Write, Typed, TypeOK, Op, OpType, Block, Content
          <6> QED
            BY <5>1, <6>1 DEF Write, Enqueue
        <5>2. CASE Delete(k)
          <6>1. Op(k, Absent) \in OpType
            BY BlockFacts DEF Op, OpType
          <6> QED
            BY <5>2, <6>1 DEF Delete, Enqueue
        <5> QED
          BY <3>1, <5>1, <5>2
      <4>2. Len(queue') = Len(queue) + 1
        BY <1>0, <4>1, OneMore
      <4> QED
        BY <1>0, <2>3, <4>2
    <3>2. ASSUME NEW from \in Keys, NEW to \in Keys, Rename(from, to) PROVE KeptAt(n)'
      <4> DEFINE m == Len(queue) + 1
      <4>1. PICK i \in Nat : i = m
        BY <1>0
      <4>2. Len(queue') = i + 1 /\ KeptAt(i)'
        BY <2>1, <3>2, <4>1, KeptHalfWay
      <4>3. n = i
        BY <1>0, <2>3, <4>1, <4>2
      <4> QED
        BY <4>2, <4>3
    <3> QED
      BY <1>2, <3>1, <3>2 DEF Calls
  <2> QED
    BY <1>0, <2>2, <2>3
<1>3. ASSUME NEW i \in 1..MaxOps, Turn(i), OpfsCreate(queue[i]) PROVE KeptAt(n)'
  <2>1. /\ UNCHANGED <<mirror, queue, lostPut, landed>> /\ Len(queue) \in Nat \ {0}
        /\ \A k \in Keys : disk'[k] # disk[k] => k = queue[1].key /\ disk[k] = Absent
    BY <1>3, HoldsCreate
  <2> SUFFICES ASSUME NEW k \in Keys, mirror[k] # Absent,
                      mirror[k] \in landed \/ \E m \in 1..n : queue[m].value = mirror[k]
               PROVE  \E j \in Keys : Holds(disk', queue, n, j, mirror[k])
    BY <2>1 DEF KeptAt
  <2>2. KeptAt(n)
    BY <1>0, <2>1 DEF NothingLost, Kept
  <2>3. PICK j \in Keys : Holds(disk, queue, n, j, mirror[k])
    BY <2>2 DEF KeptAt
  <2>4. disk'[j] = disk[j] \/ \E m \in 1..n : queue[m].key = j
    <3>1. CASE n = 0
      BY <2>1, <2>3, <3>1 DEF Holds
    <3>2. CASE n # 0
      BY <2>1, <3>2
    <3> QED
      BY <3>1, <3>2
  <2> QED
    BY <2>3, <2>4, HoldsDisk
<1>4. ASSUME NEW i \in 1..MaxOps, Settles(i) PROVE KeptAt(n)'
  <2>1. /\ mirror' = mirror /\ Len(queue') = Len(queue) - 1 /\ Len(queue) \in Nat \ {0}
        /\ ~lostPut /\ n + 1 \in 1..Len(queue)
        /\ \A m \in 1..Len(queue) - 1 : queue'[m] = queue[m + 1]
    BY <1>4, SettleFacts
  <2> SUFFICES ASSUME NEW k \in Keys, mirror[k] # Absent,
                      mirror[k] \in landed' \/ \E m \in 1..n : queue'[m].value = mirror[k]
               PROVE  \E j \in Keys : Holds(disk', queue', n, j, mirror[k])
    BY <2>1 DEF KeptAt
  <2>2. KeptAt(n + 1)
    BY <2>1 DEF NothingLost, Kept
  <2>3. mirror[k] \in landed \/ \E m \in 1..n + 1 : queue[m].value = mirror[k]
    <3>1. CASE mirror[k] \in landed'
      <4>1. landed' = landed \cup {queue[1].value} \/ landed' = landed
        BY <1>4, SettleFacts
      <4>2. 1 \in 1..n + 1
        OBVIOUS
      <4> QED
        BY <3>1, <4>1, <4>2
    <3>2. CASE \E m \in 1..n : queue'[m].value = mirror[k]
      <4>1. PICK m \in 1..n : queue'[m].value = mirror[k]
        BY <3>2
      <4>2. m + 1 \in 1..n + 1 /\ queue'[m] = queue[m + 1]
        BY <2>1, <4>1
      <4> QED
        BY <4>1, <4>2
    <3> QED
      BY <3>1, <3>2
  <2>4. PICK j \in Keys : Holds(disk, queue, n + 1, j, mirror[k])
    BY <2>2, <2>3 DEF KeptAt
  <2>5. Holds(disk', queue', (n + 1) - 1, j, mirror[k])
    BY <1>4, <2>1, <2>4, HoldsSettle
  <2> QED
    BY <2>4, <2>5, (n + 1) - 1 = n
<1>5. ASSUME NEW unread \in SUBSET Keys, Reload(unread) PROVE KeptAt(n)'
  <2>1. Len(queue') = 0
    BY <1>5, ReloadFacts
  <2> QED
    BY <2>1
<1> QED
  BY <1>1, <1>2, <1>3, <1>4, <1>5, StepCases

\* Running the queue out gives every key whose operations all worked the block
\* the mirror shows.
THEOREM DiskFollows == Spec => []DiskCatchesUp
<1>1. Init => CatchesUp
  BY CatchesUpInit
<1>2. Typed /\ CatchesUp => DiskCatchesUp
  BY HoldsReplayed DEF Typed, CatchesUp, Agrees, DiskCatchesUp
<1> QED
  BY <1>1, <1>2, TypedInit, TypedStep, FreshInit, FreshStep, CatchesUpStep, PTL DEF Spec

\* While no put was refused, a content that has reached the disk and that the
\* mirror still shows is on the disk at every moment, whatever was renamed.
THEOREM RenamesKeep == Spec => []RenameKeepsContent
<1>1. Init => NothingLost
  <2> SUFFICES ASSUME Init PROVE Shown /\ Kept
    BY DEF NothingLost
  <2>1. Shown /\ Len(queue) = 0
    BY CatchesUpInit, EmptySeq DEF Init
  <2>2. ASSUME NEW n \in 0..Len(queue) PROVE KeptAt(n)
    BY <2>1, <2>2, ShownKeeps
  <2> QED
    BY <2>1, <2>2 DEF Kept
<1>2. Typed /\ Fresh /\ NothingLost /\ [Next]_vars => NothingLost'
  <2>1. NothingLost => (~lostPut => Shown)
    BY DEF NothingLost
  <2> QED
    BY <2>1, ShownStep, KeptStep
<1>3. Typed /\ NothingLost => RenameKeepsContent
  <2> SUFFICES ASSUME Typed, NothingLost, ~lostPut, NEW k \in Keys, mirror[k] \in landed \ {Absent}
               PROVE  \E j \in Keys : disk[j] = mirror[k]
    BY DEF RenameKeepsContent
  <2>1. 0 \in 0..Len(queue)
    BY LenProperties DEF Typed, TypeOK
  <2>2. KeptAt(0)
    BY <2>1 DEF NothingLost, Kept
  <2>3. PICK j \in Keys : Holds(disk, queue, 0, j, mirror[k])
    BY <2>2 DEF KeptAt
  <2> QED
    BY <2>3 DEF Holds
<1> QED
  BY <1>1, <1>2, <1>3, TypedInit, TypedStep, FreshInit, FreshStep, PTL DEF Spec

=============================================================================
