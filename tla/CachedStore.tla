---------------------------- MODULE CachedStore ----------------------------
(***************************************************************************)
(* The write-back cache in front of OPFS and IndexedDB                     *)
(* (packages/host/src/blockstore).  The kernel reads and writes a mirror   *)
(* in memory; every write is queued, and the queue runs one asynchronous   *)
(* operation after another against the backing store.  flush() waits for   *)
(* what was queued when it was called.  A reload of the page loses the     *)
(* mirror, the queue and the flushes, and loads the mirror from disk.      *)
(*                                                                         *)
(* Everything here runs on the kernel worker's thread; between two tasks   *)
(* the microtasks run, so a flush whose writes have settled resumes before *)
(* the next operation settles.                                             *)
(***************************************************************************)
EXTENDS Naturals, Sequences

CONSTANTS
  Keys,        \* block keys: a file is the block of its path
  Flushes,     \* calls of flush()
  Backends,    \* the backing stores tried: a subset of {"opfs", "idb"}
  MaxOps,      \* bound: operations queued
  MaxReloads   \* bound: reloads of the page

ASSUME CachedStoreAssumption ==
  /\ Backends \subseteq {"opfs", "idb"}
  /\ MaxOps \in Nat /\ MaxReloads \in Nat

\* What a block holds: the content of one write, nothing at all, or no bytes.
Absent   == 0
Content  == 1..MaxOps
Empty    == MaxOps + 1
Block    == Content \cup {Absent, Empty}

VARIABLES
  backend,     \* which backing store this is
  mirror,      \* CachedStore.mirror
  disk,        \* the backing store's blocks
  queue,       \* the operations that pending still has to settle
  begun,       \* the first of them has created its file (OPFS)
  settled,     \* operations settled, or lost with their page
  writeError,  \* CachedStore.writeError: the operation it is from, 0 = undefined
  flush,       \* each call of flush(): where it is, what it waits for
  written,     \* contents made so far
  reloads,     \* reloads so far
  unreported,  \* history: rejected operations no flush has reported
  refused,     \* history: operations whose backend answered false
  lostKeys,    \* history: keys with a failed operation or an unread block
  lostPut,     \* history: a put has been refused since boot
  landed       \* history: contents that have been on disk

state   == <<mirror, disk, queue, begun, settled, writeError, flush>>
history == <<unreported, refused, lostKeys, lostPut, landed>>
vars    == <<backend, state, written, reloads, history>>

Issued == settled + Len(queue)
NoFlush == [at |-> "idle", upTo |-> 0]

TypeOK ==
  /\ backend \in Backends
  /\ mirror \in [Keys -> Block] /\ disk \in [Keys -> Block]
  /\ queue \in Seq([key: Keys, value: Block]) /\ begun \in BOOLEAN
  /\ settled \in 0..MaxOps /\ writeError \in 0..MaxOps
  /\ flush \in [Flushes -> [at: {"idle", "waiting", "ok", "failed"}, upTo: 0..MaxOps]]
  /\ written \in 0..MaxOps /\ reloads \in 0..MaxReloads
  /\ unreported \subseteq 1..MaxOps /\ refused \subseteq 1..MaxOps
  /\ lostKeys \subseteq Keys /\ lostPut \in BOOLEAN /\ landed \subseteq Block

Init ==
  /\ backend \in Backends
  /\ mirror = [k \in Keys |-> Absent] /\ disk = mirror
  /\ queue = <<>> /\ begun = FALSE /\ settled = 0 /\ writeError = 0
  /\ flush = [f \in Flushes |-> NoFlush]
  /\ written = 0 /\ reloads = 0
  /\ unreported = {} /\ refused = {} /\ lostKeys = {} /\ lostPut = FALSE /\ landed = {}

-----------------------------------------------------------------------------
(***************************************************************************)
(* The kernel's side: the imports put and delete, as the VFS calls them.   *)
(***************************************************************************)
Op(k, v) == [key |-> k, value |-> v]

\* The mirror changes at once; the backing store's turn is queued.
Enqueue(ops) ==
  /\ Issued + Len(ops) <= MaxOps
  /\ queue' = queue \o ops
  /\ UNCHANGED <<backend, disk, begun, settled, writeError, flush, reloads, history>>

\* Vfs::write of a plain path.
Write(k) ==
  /\ written < MaxOps
  /\ written' = written + 1
  /\ mirror' = [mirror EXCEPT ![k] = written + 1]
  /\ Enqueue(<<Op(k, written + 1)>>)

\* Vfs::delete: NotFound for a key the mirror lacks.  (The delete of the path's
\* time marker that follows is one more operation, on a key of its own.)
Delete(k) ==
  /\ mirror[k] # Absent
  /\ mirror' = [mirror EXCEPT ![k] = Absent]
  /\ Enqueue(<<Op(k, Absent)>>)
  /\ UNCHANGED written

MayRename(from, to) == mirror[from] # Absent /\ mirror[to] = Absent

\* Faulty: the old name goes before the new one is written.
Rename_DeleteFirst(from, to) ==
  /\ MayRename(from, to)
  /\ mirror' = [mirror EXCEPT ![from] = Absent, ![to] = mirror[from]]
  /\ Enqueue(<<Op(from, Absent), Op(to, mirror[from])>>)
  /\ UNCHANGED written

\* Vfs::rename of a plain file within one store.
Rename(from, to) ==
  /\ MayRename(from, to)
  /\ mirror' = [mirror EXCEPT ![from] = Absent, ![to] = mirror[from]]
  /\ Enqueue(<<Op(to, mirror[from]), Op(from, Absent)>>)
  /\ UNCHANGED written

-----------------------------------------------------------------------------
(***************************************************************************)
(* The backing store's side: the operation at the head of the queue.       *)
(***************************************************************************)
Ripe(f) == flush[f].at = "waiting" /\ flush[f].upTo <= settled

\* Faulty: every operation starts when it is queued, and any may end next.
Turn_Unchained(i) == i \in DOMAIN queue /\ \A f \in Flushes : ~Ripe(f)

\* Operation i of the queue may settle: they are chained.
Turn(i) == i = 1 /\ queue # <<>> /\ \A f \in Flushes : ~Ripe(f)

IsPut(op) == op.value # Absent

\* getFileHandle(create) makes an empty file; the bytes replace it at close().
OpfsCreate(op) ==
  /\ backend = "opfs" /\ IsPut(op) /\ ~begun
  /\ begun' = TRUE
  /\ disk' = [disk EXCEPT ![op.key] = IF @ = Absent THEN Empty ELSE @]
  /\ UNCHANGED <<backend, mirror, queue, settled, writeError, flush, written, reloads, history>>

\* Faulty: the chain stops at an operation that failed.
Settle_Stops(i) ==
  /\ queue' = SubSeq(queue, 1, i - 1) \o SubSeq(queue, i + 1, Len(queue))
  /\ settled' = IF unreported' = unreported THEN settled + 1 ELSE settled
  /\ begun' = FALSE
  /\ UNCHANGED <<backend, mirror, flush, written, reloads>>

\* The chain goes on whether the operation has succeeded or not.
Settle(i) ==
  /\ queue' = SubSeq(queue, 1, i - 1) \o SubSeq(queue, i + 1, Len(queue))
  /\ settled' = settled + 1
  /\ begun' = FALSE
  /\ UNCHANGED <<backend, mirror, flush, written, reloads>>

Land(i) ==
  /\ backend = "opfs" /\ IsPut(queue[i]) => begun
  /\ disk' = [disk EXCEPT ![queue[i].key] = queue[i].value]
  /\ landed' = landed \cup {queue[i].value}
  /\ UNCHANGED <<writeError, unreported, refused, lostKeys, lostPut>>
  /\ Settle(i)

\* Both backends catch what put throws, and OPFS what delete throws: the
\* operation resolves to false, which nobody looks at.
Refuse(i) ==
  /\ IsPut(queue[i]) \/ backend = "opfs"
  /\ refused' = refused \cup {settled + 1}
  /\ lostKeys' = lostKeys \cup {queue[i].key}
  /\ lostPut' = (lostPut \/ IsPut(queue[i]))
  /\ UNCHANGED <<disk, writeError, unreported, landed>>
  /\ Settle(i)

\* Faulty: a later error takes the place of the first.
Caught_Last == writeError' = settled + 1

\* Only the first error since the last flush is kept.
Caught == writeError' = IF writeError = 0 THEN settled + 1 ELSE writeError

\* IdbBlockstore.delete does not catch.
Reject(i) ==
  /\ ~IsPut(queue[i]) /\ backend = "idb"
  /\ Caught
  /\ unreported' = unreported \cup {settled + 1}
  /\ lostKeys' = lostKeys \cup {queue[i].key}
  /\ UNCHANGED <<disk, refused, lostPut, landed>>
  /\ Settle(i)

Backing == \E i \in 1..MaxOps :
  Turn(i) /\ (OpfsCreate(queue[i]) \/ Land(i) \/ Refuse(i) \/ Reject(i))

-----------------------------------------------------------------------------
(***************************************************************************)
(* flush() and reloads.                                                    *)
(***************************************************************************)
CallFlush(f) ==
  /\ flush[f].at = "idle"
  /\ flush' = [flush EXCEPT ![f] = [at |-> "waiting", upTo |-> Issued]]
  /\ UNCHANGED <<backend, mirror, disk, queue, begun, settled, writeError, written, reloads, history>>

ResumeFlush(f) ==
  /\ Ripe(f)
  /\ flush' = [flush EXCEPT ![f].at = IF writeError = 0 THEN "ok" ELSE "failed"]
  /\ writeError' = 0
  /\ unreported' = IF writeError = 0 THEN unreported ELSE {}
  /\ UNCHANGED <<backend, mirror, disk, queue, begun, settled, written, reloads,
                 refused, lostKeys, lostPut, landed>>

\* CachedStore.load.  A get that fails is caught by OPFS: the block is skipped.
Reload(unread) ==
  /\ reloads < MaxReloads
  /\ backend = "idb" => unread = {}
  /\ mirror' = [k \in Keys |-> IF k \in unread THEN Absent ELSE disk[k]]
  /\ queue' = <<>> /\ begun' = FALSE /\ settled' = Issued /\ writeError' = 0
  /\ flush' = [f \in Flushes |-> NoFlush]
  /\ reloads' = reloads + 1
  /\ unreported' = {} /\ refused' = {} /\ lostKeys' = unread /\ lostPut' = FALSE
  /\ UNCHANGED <<backend, disk, written, landed>>

Next ==
  \/ \E k \in Keys : Write(k) \/ Delete(k)
  \/ \E from, to \in Keys : Rename(from, to)
  \/ Backing
  \/ \E f \in Flushes : CallFlush(f) \/ ResumeFlush(f)
  \/ \E unread \in SUBSET Keys : Reload(unread)

\* The browser settles every operation and resumes every flush.
Spec ==
  /\ Init /\ [][Next]_vars
  /\ WF_vars(Backing)
  /\ \A f \in Flushes : WF_vars(ResumeFlush(f))

-----------------------------------------------------------------------------
(***************************************************************************)
(* Properties.                                                             *)
(***************************************************************************)

\* What key k will hold when the queue has run.
Replayed(k) ==
  LET ops == {i \in DOMAIN queue : queue[i].key = k}
  IN IF ops = {} THEN disk[k]
     ELSE queue[CHOOSE i \in ops : \A j \in ops : j <= i].value

\* The disk catches up with the mirror: whatever order the kernel wrote in,
\* running the queue out gives every key whose operations all worked the block
\* the mirror shows (enqueue chains the writes of one store).
DiskCatchesUp == \A k \in Keys \ lostKeys : Replayed(k) = mirror[k]

\* A rename never loses the file: while no put was refused, a content that
\* has reached the disk, and that the mirror still shows under some name, is on
\* the disk under some name, so a reload at any moment finds it (Vfs::rename
\* queues the put before the delete).
RenameKeepsContent ==
  ~lostPut =>
    \A k \in Keys : mirror[k] \in landed \ {Absent} => \E j \in Keys : disk[j] = mirror[k]

Resolves(f) == flush[f].at = "waiting" /\ flush'[f].at = "ok"
Throws(f)   == flush[f].at = "waiting" /\ flush'[f].at = "failed"

\* A flush reports a rejected write once, and reports the first: one that
\* resolves leaves no rejection behind that it waited for, and one that throws
\* has the earliest rejection no flush has thrown before.
RejectionReported ==
  [][\A f \in Flushes :
       /\ Resolves(f) => \A i \in unreported : i > flush[f].upTo
       /\ Throws(f) => writeError \in unreported /\ \A i \in unreported : writeError <= i]_vars

\* Every flush ends, whatever the writes it waits for do: the chain goes on
\* after a failure.  (A reload ends it too.)
FlushEnds == \A f \in Flushes : flush[f].at = "waiting" ~> flush[f].at # "waiting"

\* A caller relying on durability "sees the lost write instead of a false
\* success": a flush that resolves leaves no failed write behind, reported or not.
FlushDurable ==
  [][\A f \in Flushes : Resolves(f) => \A i \in unreported \cup refused : i > flush[f].upTo]_vars
=============================================================================
