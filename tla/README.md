# wasm_os in TLA+

wasm_os runs WebAssembly programs as processes in a browser: a small kernel
written in Rust (itself a wasm component) runs in one worker, every guest runs
in a worker of its own, and TypeScript in between carries system calls over
shared memory, keeps the byte stores, and draws the desktop.  These modules
model the parts where the order of things matters, check them with TLC on small
instances, and prove some of the results for every value of the constants.

## 1. Inventory

| part | source | state | operations | what is hard |
|---|---|---|---|---|
| system calls and process life | `crates/kernel/src/{kcore,syscall}.rs` | the tables below, surfaces, net responses | boot, spawn, exit, wait, kill, signals, fd calls, channels, shared memory, windows, input, network | every event must name who it wakes; teardown happens on five paths |
| process table | `types.rs` | state, wait reason, exit code, descriptors, capabilities, signals, stdin, input, channel ends | take_blocked_on, set_blocked, reap, open_fd, install_fd | a zombie keeps its wait reason and descriptors |
| pipes | `pipe.rs` | bytes, reader and writer counts | create, read, write, add, close, gc | counts are kept apart from the descriptors they count |
| message channels | `chan.rs` | rendezvous names, two inboxes, two open flags | open, send, recv, close, gc | stale names, one process on both ends |
| shared memory, surfaces | `shm.rs`, `types.rs` | owner, grants, bytes | create, grant, map, free_owned | ownership after death; quotas |
| scheduler | `sched.rs` | ready queues | enqueue, pick | queues grow; its choice reaches nobody |
| virtual file system | `vfs.rs` | mounts, flat keys with markers for directories, links, times | write, rename, mkdir, link ... | multi-key operations over a store that may fail |
| procfs, devfs | `procfs.rs`, `devfs.rs` | none of their own | formatting, byte sources | - |
| kernel worker (host) | `host/src/worker/kernel-worker.ts` | `procs`, `parked`, host waiters, terminal foreground stack, surface owners | driveSyscall, processWakeups, onProcExit, killProcess, spawn, handleSpawnRequest, handleNetRequest, commands | mirrors kernel state across the WIT boundary; side effects after the reply |
| syscall ring | `host/src/ring` | two counters, two lengths, two byte regions | call, nextRequest, complete | two threads, no lock, counters that wrap |
| block stores | `host/src/blockstore` | mirror, queue of writes, one error slot; the disk | load, get, put, delete, flush | failures come later, reloads lose the queue |
| terminal | `host/src/term/terminal.ts` | line buffer, mode, history, pending escape sequence | keystrokes, output, mode switches | input cut anywhere; foreground switches race exits |
| compositor, windows, session | `host/src/compositor` | windows, focus, surfaces, saved layout, input metrics | open, close, focus, save, restore, count | asynchronous restore; windows of dead processes; answers that come after a reset |
| boot, desktop, shell watcher | `host/src/{boot,index}.ts` | feature report, shell pid | boot, launch, respawn | polling and respawn interleave |
| process worker, WASI shim | `host/src/worker/{process-worker,wasi-shim,wasi-runtime}.ts` | guest memory | one ring call per WASI call | none of its own: one call at a time |
| emulator worker | `host/src/worker/emulator-worker.ts` | serial buffer, vendored CPU | run, flush | vendored |
| shell | `crates/sh/src/main.rs` | a pipeline's pids and fds, directory, status | parse, pipe, spawn, close, wait, cd, kill | holds ends it must close; a stage that was not started |
| editors | `crates/apps/{nano,editor}`, `crates/wasmobj` | lines, cursor, file, document object | keys, load, save | two views of one text; a save that fails; documents that are programs |
| system monitor, file manager | `crates/apps/{sysmon,filemanager}` | a listing, a selection | batches of clicks and keys | what was shown is old when the click arrives |
| Lisp console | `crates/apps/lisp` | input line, history, scopes, depth, output | edit, read, eval, print | a line that fails half way |
| guest library | `crates/wasmos-sys` | a buffer per call | one system call each | four buffers on the way of one reply, of four sizes |
| coreutils, paint, welcome, drawing | `crates/{coreutils,apps,wasmgfx}` | - | - | filters, and pixels |

**How they interact.**  A guest writes a request into its ring and sleeps.  The
pump of the kernel worker takes it and calls `service_syscall` in the kernel,
which returns a reply, or none ("parked"), and the pids it woke, a child to
start, a fetch to make, processes to kill.  The host completes the ring or
stashes the request under the pid, and drives the stashed requests of the woken
again, which may wake more.  A worker's exit message, a closed window, a
keystroke or the end of a fetch enters the same loop from the other side.  File
calls end in the byte stores, which answer from memory and write behind.  The
page's own thread has the terminal window, the compositor, the session and the
shell watcher; it and the kernel worker exchange messages, each in order, and so
each knows of the other what was true some messages ago.

**What must hold**, per part: no sleeper misses its wakeup and the kernel and
the host agree on who sleeps (kernel, host); counts equal descriptors (pipes);
an exit is recorded once and collected once (life cycle); authority only
shrinks on its way to a child, but for files (capabilities); ends, regions and responses belong to the living
(channels, memory, network); calls are served once and return their own answers
(ring); the disk ends where the mirror is, failures are reported, a rename loses
nothing (stores, VFS); keys reach the process in front and a dead shell is
replaced (terminal); a line the shell runs ends and leaves nothing behind
(shell); windows belong to live processes and the saved session is what is open
(compositor); an editor's buffer is a text, and what it calls saved is on disk;
a click hits what was shown; a reply that fits arrives whole.  PROJECT.json lists
the hazards behind these, each at its line, with the properties that watch it.

## 2. Modules

| module | models | state and actions |
|---|---|---|
| `PipeTable`, `ChannelTable` | `pipe.rs`, `chan.rs` | operators on one pipe, one channel |
| `ProcTable` | `types.rs`, the host's `parked` map and work queue | the process table; `Park`, `Reply`, `Wake`, `Nudge`, `Reap`: what a call does to sleepers |
| `Kernel` | `kcore.rs`, `syscall.rs`, `kernel-worker.ts` | one action per call and host event; `Spec` |
| `WaitService` | the promise of exit and wait | abstract specification with fairness |
| `KernelWaits` | Kernel implements WaitService | refinement mapping |
| `Ring` | `ring/guest.ts`, `ring/host.ts`, `pump`, `driveSyscall` | one action per access to the shared memory |
| `Rpc` | the promise of the ring | abstract specification with fairness |
| `CachedStore` | `blockstore/*.ts`, plain-file calls of `vfs.rs` | mirror, queue, disk, flushes, reloads |
| `Vfs` | `vfs.rs` | operators: the keys of a tree, what each call puts and deletes |
| `Files` | file and path calls of `syscall.rs`, the host's own of `kcore.rs`, boot and reloads | the keys of all stores, the open files; one action per call |
| `SystemTrees` | `procfs.rs`, `devfs.rs`, `sched.rs`, `fd_readdir`, `proc_list` | a process table and a directory that change, one guest's listing; the ready queues |
| `Terminal` | terminal parts of `kernel-worker.ts`, `boot.ts`, `index.ts` | both threads' copies of who is in front and in which mode, the two message queues, the shell watcher |
| `LineEditor` | `terminal.ts` | the line, the cursor, the history, the open escape sequence; one action per chunk |
| `Shell` | `sh/src/main.rs` | one line: parsed, wired with pipes, spawned, closed, waited for; the stages beside it |
| `Desktop` | `compositor/{window-manager,surface,session}.ts`, `index.ts` | windows, surfaces, restore and save, the two queues, processes |
| `Metrics` | `compositor/input.ts` | the account of every key, answers in any order, resets |
| `TextBuffer` | what an editor promises | abstract specification: a text and a place in it |
| `Nano`, `Editor` | `apps/{nano,editor}` | lines, cursor, window, file, document; implement `TextBuffer` |
| `Wasmobj` | `wasmobj` | operators: documents inside wasm programs, their two lengths and tiers |
| `SysMon`, `FileManager` | `apps/{sysmon,filemanager}` | a frame, a batch of input, a world that changes meanwhile |
| `GuestCalls` | `wasmos-sys`, `wasi-shim.ts`, the data calls of `kcore.rs`, `shm.rs` | the lengths of replies against the buffers they cross |
| `Lisp` | `apps/lisp` | input line and history; reader, evaluator and scopes as operators |
| `MCKernel`, `MCRing`, `MCFiles` | values of constants for TLC | |
| `MCHost` | `Ring` and `CachedStore`, one at a time | `which` says whose variables are in use |
| `Session` | `Terminal`, `LineEditor`, `Shell`, `Metrics` composed | `which` says whose variables are in use |
| `Programs` | `Desktop`, `Nano`, `Editor`, `SysMon`, `FileManager`, `GuestCalls`, `SystemTrees` composed | the same |
| `MCSession`, `MCDesktop` | values of constants for `Session` and `Programs`; `MCDesktop` adds `Lisp` | |
| `KernelProofs` | theorems about `Kernel` and `KernelWaits` | types and life cycle, wakeups, what the dead leave |
| `RingProofs`, `StoreProofs`, `FilesProofs` | theorems about `Ring`, `CachedStore`, `Files` | each extends what it is about |
| `SessionProofs` | theorems about `Terminal`, `Metrics` and `LineEditor` | extends `Session` |
| `EditorProofs`, `DesktopProofs` | theorems about `Desktop` and `Programs` | the first has the lemmas about texts, windows, documents and both editors; the second extends it and has the theorems |
| `DataLemmas` | lemmas on numbers, sequences and functions | extended by the two above and `SessionProofs` |

### How Kernel corresponds to the code

The kernel worker is one thread.  A step is one call serviced, one host event
taken, or one stashed call driven again, and between the steps of one turn
nothing else runs: `AtRest` (the work queue is empty and no spawn or exit is half
done) guards every fresh call and event.  `turn` holds what the host still has to
do: start the child a spawn announced, or finish an exit.  `queue` is
`processWakeups`' work list; the model drives its members in any order, which
contains the source's.  Names follow the source: `KPipe` is `k_pipe`,
`ReadParks` the branch of `fd_read` that sets `Blocked`, and so on.

- **Exit** has five ways in: the guest's `proc_exit`, a worker's exit message
  (`WorkerExit`), a closed window (`HostKill`), SIGKILL (`Kill9`), a child that
  cannot be started (`SpawnFailed`).  All go through `Release`, as in the source.
- **A zombie keeps** its descriptors, endpoints, wait reason and signals, as
  the source's does.  Only `Reap` (`Forget`) clears them.
- **ParentOf** is constantly `NoPid`: `spawn()` makes every entry with
  no parent and `set_parent` has no caller.  The branch for a known parent is kept.
- **Guests** may make any call, in any order, with arguments from small sets;
  they name pipes they hold a descriptor for.  One constant, `LateKill`, keeps
  guests from SIGKILLing a process that has exited, because what that does is a
  matter of its own (section 6).
- **Histories** note what the code gets wrong, for the properties to name: `torn` (who
  exited asleep in a fetch), `selfMet` (channels one process opened both ends of),
  `miscounted` (pipes a second teardown, or a descriptor number that has come round,
  took an end from).  No guard reads them.
- **File capabilities** are "files" (a subtree the host chose, `lib.rs:171`) and "root"
  (all rights to `/`, which `k_spawn` gives every child, `syscall.rs:1600`); what they
  allow of a path is in `Files`.
- **Close and renumber** are explored for pipe descriptors only: others
  own nothing shared.  Stdin never reaches end of file: `close_stdin` has no
  caller in the host.
- **Bytes** are a set of one or two values; lengths are what matters.  Exit codes,
  messages and names are small sets.  `Use` and the `Max` constants choose the
  calls of an instance and bound ids and queues; each bound is a guard.

### How Ring corresponds to the code

Each numbered comment of `RingClient.call` is a step or two: bytes, length,
snapshot, add, notify, wait, length, bytes.  On the other side `Poll`, `Wake` and
`Take` are `nextRequest`, the `Drive` actions `driveSyscall`, `CopyBytes` to
`NotifyGuest` `complete()`, `Redrive` the wakeup loop, and `TearDown` and
`Terminate` the end of `onProcExit`.  Length and bytes of a request are read in one
step: nothing separates them but the check that the length is in range.  The
counters wrap at `Wrap`; 2 is the harshest value, where one lap looks like none.
An answer of a call in `Oversized` does not fit the response region: `complete()`
throws, and the guest is never answered.

`late` says whose thread may be descheduled between the add and the notify of a
doorbell.  The source has a flaw there (section 6), so `RegionsExclusive` and the
refinement are stated for behaviours where nobody is; `NothingAfterTearDown` for all.

### How CachedStore corresponds to the code

An operation is a key and the block it leaves (`Absent` for a delete).  `Land`,
`Refuse` and `Reject` are the three ways it settles: done, resolved to `false`, or
rejected; OPFS `put` creates the empty file first (`OpfsCreate`).  OPFS catches
everything; IndexedDB catches in `put` only.  `flush` holds each call, with the
number of the last write queued before it.  Microtasks run between tasks, and a
flush resumes one tick after the write it waits for while the next write needs
several, so `Turn` waits for flushes that are ripe.  `Reload` loses everything but
the disk; an OPFS block whose `get` fails is skipped.  Time and link markers are
keys of their own and left out; so is the moment IndexedDB commits.

### How Vfs and Files correspond to the code

A path is a sequence of names; a key is a store, a class (file, `\x01d:`
marker, `\x01l:` marker) and a path.  An operation of `Vfs` is the list of puts
and deletes the source makes, in its order; a rename moves files before markers
and both in any order, as the stores list them.  `Files` applies the list in one
step, since the kernel is one thread, or has the page reload after a first part
of it (`ReloadAmid`): each store's queue keeps that order, and a rename or the
missing part of a mkdir_p is where it shows.  `After` is what a list leaves of a
tree: of each key its last operation counts.  tmpfs is lost, and boot makes its
directories again.  A call that fails writes nothing and is no action.  `EXCL`
only refuses.  `FdSeek` reaches any offset whatever it counts from.  Path
capabilities are one subtree (`Grant`), as the host gives them.  Left out: file
times and their keys, the version stamp, `/proc` and `/dev` under the file calls,
descriptors of directories (a prefix for names, nothing else).

### How the parts on the desktop correspond to the code

A step is one task of a thread's event loop: a message taken, a timer, a
keystroke, a click, an animation frame.  An `async` function is cut at its
`await`s, and what it read before one may be old after it: the watcher's poll in
`Terminal` and `restore()` in `Desktop` are cut so.  The kernel's side of these two
modules is what `Kernel` promises, reduced to pids and who is in front.

- **Terminal** has the program workers too: a program that ended is `returned`,
  then `exited`, then `gone`, since a worker posts its exit message some time after
  its last ring call.  Overlapping polls of the watcher are there (`Polls`), as
  `setInterval` does not wait for the last one.
- **LineEditor** takes chunks of any length up to `MaxChunk`; the keyboards of
  `MCSession` are the sets of characters which together are all the sequences the
  source knows (arrows, Home, End, Delete, SS3, the control keys).
  `processCookedInput`'s loop is `Turns`: as many turns as characters, of which those
  after the last character do nothing.
- **Shell** has three kinds of stages, one that copies, one that stops early, one
  that never stops, and stages that are not installed.  A file ends; the terminal never
  does: a first stage that reads it waits until the user types (`TypesTo`), who need not.
- **Nano** is cut at keys as `read_key` cuts the bytes.  **Editor**, **SysMon** and
  **FileManager** are cut at events of a batch, and draw after the batch.  In `SysMon`
  there are three listings to keep apart, as in the source: of the frame on the screen
  (`painted`), of which the user speaks; of the batch (`procs`), of which the program
  does; and the table itself, which goes on changing.
- **Wasmobj** has the layout of the source with small tiers.  A failed write leaves
  the file as it was, or a beginning of what was to be written.
- **GuestCalls** has the sizes of the source, and each payload is its length; a process
  table is the number of its entries and the length of one.
- **SystemTrees** has a directory's name for a pid, and the length of a name, as constants
  (`PidName`, `Bytes`): what matters is that two pids differ and that one name is longest.
- **Lisp** evaluates in one step, as the source does; `MaxDepth` is 4 for 128.

Definitions under a comment "Faulty:" are broken variants of the definition that
follows them (a wakeup forgotten, an entry kept).  No specification uses
them: replacing the definition by its variant shows that a property notices.

## 3. Runs

All runs allow the system to stop (`CHECK_DEADLOCK FALSE`): guests may all sleep or
exit, bounds run out, and a page may be idle.

| run | what it asks | bounds |
|---|---|---|
| `pipes` | wakeups, agreement of kernel and host, pipe counts, cascades drain, calls finish | init, a shell and the two stages of `a 2>&1 \| b`, one pipe of one byte: full, empty, ends held twice, closed in every order, and renumbered over |
| `waits` | capabilities, statuses, refinement of `WaitService` | a root and two children that wait, signal, kill and exit; SIGKILL of zombies allowed |
| `ipc` | wakeups, channel ends and names, responses, owners and grants | three guests and one channel, or two and two channels under one name, so that a name is used again and may meet itself; or two guests with one region and one surface, or with keystrokes and fetches that outlive their callers, windows closed over them included |
| `host` | regions, teardown, refinement of `Rpc`; disk catches up, renames, error reporting, flushes end | three calls, counters modulo 2, the third answer too long, either, both or none descheduled; two keys, four operations, two flushes, one reload, both backends |
| `files` | trees stay whole through rename, rmdir and reload; appends; the size bound | nine paths over three stores (`/h` persistent, `/u/m` mounted inside volatile `/u`), four calls, one descriptor, links at three paths, two hops, files of two bytes, and of three from the host |
| `session` | keys follow the foreground, the shell comes back, chunking, history, pipelines, metrics | five pids of which two are kept for new shells, two polls at once; five keyboards, four keys between resets, chunks of two, one line of history; three stages, two lines, pipes of one byte; three keys under two names |
| `desktop` | windows and session, editors, monitor and file manager, replies, trees, Lisp | two processes and two gestures, the last session empty or not; texts of three characters, files of four kinds, three tiers; four pids and batches of two; lengths on both sides of every buffer, tables of 1 to 2115 processes; three processes and three changes, buffers of one entry and of two; lines of two phrases of twelve, two lines |
| `killed_child`, `closed_fetch`, `late_kill`, `late_notify`, `lost_write` | statements of the docs the code does not keep: section 6 | |

Two techniques keep the runs few.  `ipc` uses a CONSTRAINT, `OneKind`: a behaviour is
followed as long as only one of channels, memory and devices is in use, since they share
the process table and nothing else.  `host`, `session` and `desktop` check components that
do not touch each other one at a time: `which` is chosen in `Init`, and the
variables of the others hold `Off` (in `host`, their first value).  Nothing is said
there of their combinations.  In `host`, `FirstOfItsKind` also takes keys and flushes in one
order while they are interchangeable, which leaves out renamed behaviours only; a
symmetry set would not be sound, for there are liveness properties.

Why the bounds are enough to be interesting: a lost wakeup takes a sleeper, a
waker and a third process that takes what the sleeper was woken for, so three
guests; pipes of one byte are full and empty all the time; a count goes wrong
with two holders of one end; a ring call is disturbed by the one before or after
it, so three calls have a first, a middle and a last; a store goes wrong with two
writes to one key, or a rename and a write, around a failure and a flush; a tree
goes wrong with two entries of different kinds in it (two calls), what moves or
removes it, and one more call; a foreground mistake takes the shell, a job, what
the job leaves, and a new shell with a job; an escape sequence has up to four
characters, and any cut of them is a chunk; a listing goes wrong with two rows and
one that goes away; the line and column of a text are confused with two lines.

**What the properties say.**  *NoLostWakeup*: a live process sleeps only in a call
that still could not finish, unless it is queued to be driven, and a process that
polls (`poll_oneoff` over `fd_ready`) is told the same as one that sleeps.
*ParkedAgrees*: `blocked_on` in the kernel and `parked` in the host name the same
sleepers.
*RefCounts*: a pipe's counts are the descriptors of live processes.  *TurnEnds*,
*CallsFinish*: the synchronous loop drains, and a read or write that can
finish does unless another was faster.  *ChannelsLive*: an open end is held by a
live process, and a name leads to a party that waits or to messages one left.
*NoAmplification*: of the rights to spawn, signal, reach the network, the screen and the
input a child has none its parent lacks, and none to spawn; files are excepted, for
there the code does give more (section 6).  *NetResponsesKept*: a response is kept for
the living, and for a process whose window was closed over its fetch (which `closed_fetch`
shows to be one case too many), whoever else ended it and whenever.  *StatusStable*, *OwnersLive*,
*AccessFollowsOwner*: see their comments in `Kernel`.  *ImplementsWaitService*:
every wait on a process that departs is answered, its status is handed out once.
*RegionsExclusive*: the server reads a request, and writes an answer, only while
the guest waits for that answer.  *NothingAfterTearDown*: no request is served or
answered after the teardown, however late the doorbell.  *ImplementsRpc*: each call
is served once and returns its own answer, and is served at all.
*RenameMovesTree*: the rename of a directory takes everything under it along and
touches nothing else.  *NoOrphans*: what rmdir removes had nothing in it, mounts
included.  *ReloadKeepsFiles*: a reload between any two writes of a rename finds
every content.  *AppendKeeps*: an append keeps what is there now.  *FilesBounded*:
no call of a guest makes a file longer than `MAX_FILE_SIZE` on any of the three ways to
grow one, though the host's `fs_write` knows no limit.
*DiskCatchesUp*, *RenameKeepsContent*, *RejectionReported*, *FlushEnds*: as named.

*TerminalFollows*: once the messages on their way are in, both threads have one
discipline; it is cooked when a shell or nobody is in front; the stack holds no torn-down
process; and the shell the page watches is the one that gets the keys.
*ShellComesBack*: behind an open window a live, bound shell comes back, whatever
ended the last.  *ChunkingInvisible*: the line is the same however the input is cut.
*HistoryKeepsDraft*: a walk up and down the history returns to the line being
typed.  *LineEnds*: a pipeline ends whatever its stages do, unless its first
waits for the terminal, for ever or again and again; its status is the last stage's, and no
end or process of it is left.  *WindowsFollow*: the active window is
on top, no window outlives its process, a closed app is dead or about to be, a
presented frame is about to be shown.  *SessionSaved*: after a save the file is the
windows that are open, except for changes made while restoring.  *CleanIsOnDisk*:
a buffer not marked modified is what its file opens as, and a document prints what
the editor shows.  *EditsText*: every step of an editor is a step of `TextBuffer`.
*ActsOnWhatIsShown*: a signal hits what the frame showed, selected or where the user
went, unless that process or one above it has left since (section 6); a launch hits the row
that was drawn, and an editor's caret is where the window shows it.  *RepliesWhole*: a
reply that fits its call's buffer arrives whole, regions and input records always do; of one
that does not fit nothing arrives, but the first entries of the process table; a listing of a
directory has every entry that was there throughout.  *ViewsAgree*: the four
parsers of `/proc` and `/dev` tell of one tree, queues and priorities agree.
*CountsAddUp*: each key is pending or counted once.  *LinesApart*: after a Lisp line,
also one that failed, depth is zero and no name is bound that was not defined outside
of every call; what is written reads back as it was.

**Fairness.**  Kernel: only `HostTurn` (drive the woken, finish an exit, start a
child) is weakly fair: it is synchronous code that has begun.  No guest and no
event is fair, so liveness says nothing of a guest that never calls.  Ring: both
threads run (weak fairness of each thread's next step; the operating system
schedules them), but an event that lets a stashed call finish may never come.
CachedStore: the browser settles every operation, well or not, and runs every
continuation.  Terminal: both event loops take their messages (`KernelReceive`,
`MainReceive`), the interval fires (`WatchTick`), and a worker that ended has its exit
message delivered; no program and no user is fair.  Shell: the shell goes on with the
line it has begun, and a stage that can read or write gets to; a kill or another
line need never come.  Nothing else on the desktop has fairness, or a liveness
property.

## 4. What is proved

Every theorem is about all behaviours of a specification, for every value of the
constants that the named `ASSUME`s admit.  Most invariants the runs check are not
inductive; each proof starts from one that is, and the sections say what it adds.

What a loop or a recursive function returns is proved too, for data of any size, though
the provers have no induction over data to offer: the library states it with an operator
as a parameter.  Two ways lead round that.  One is a least element: if a fact about
the first `n` members of a sequence fails for some `n`, it fails for a least one, and it
holds just before that (`LeastOf` of `DataLemmas`).  The other is a set of the `n` for which
the fact holds: it contains 0 and the successor of each member, so it is `Nat`.  Recursion
is therefore written as recursive functions in every module that is reasoned about
(`Turns`, `Kept`, `Split`, `Join`, `Displayed`).

### Kernel

`KernelProofs` begins with lemmas about the operators of pipes, channels and the
process table (what `Drain`, `Fill`, `Wake`, `Park`, `Reply`, `Nudge` return and
preserve) and proves **TypeCorrect**, `Spec => []TypeOK`: one lemma per action, then
`[Next]`, then PTL.  The type invariant is inductive as it stands.  Its content is
that counts never go below zero and ids found in descriptors, stashed requests and
names were allocated.

It then classifies every step by what becomes of a process (it is born, exits, is
forced out, is collected, or none of these), and proves from that an invariant `Lifecycle`: pids not yet given out are untouched, a
process that is being started is live, and a child's spawner is older than it.
The invariant is what makes the steps safe: a spawn hands capabilities to a pid
that nobody has used.  From it follow

- **StatusKept**: `Spec => StatusStable`,
- **AuthorityShrinks**: `Spec => []NoAmplification`,
- **MemoryFollowsOwner**: `Spec => [](OwnersLive /\ AccessFollowsOwner)`
  (**GrantsFollowOwner** is its second half).

Its second part is about sleeping and waking.  `NoLostWakeup` is
not inductive: it does not say why a process sleeps.  The invariant `Sleepers` does.
Each live process is awake, or woken and queued, or asleep on a reason that fits
both the stashed request and what the request lacks (`AsleepOn`); only what is
stashed is queued; a pipe holds no more than its capacity, so a full pipe has no
space and not less; and an end of a channel has one holder, so a message wakes the
one it is for.  One lemma per action says which reasons it wakes, and that what it
changes gives the sleepers of other reasons nothing.  From `Sleepers` follow

- **WakeupsKept**: `Spec => []NoLostWakeup`,
- **HalvesAgree**: `Spec => []ParkedAgrees`.

Its third part is about what the dead leave behind.

- **ResponsesCollected**: `Spec => []NetResponsesKept`, with windows closed at any point.
  `Leaving` says why: the dead whose net_request is still stashed are being forgotten and
  are not queued (`FetchEnds`), so nothing parks the dead on a response, and whoever is dead and
  waits for one is in `torn`.
- **WaitsKept**: the initial states of `Kernel` are initial states of `WaitService` and
  every step is a step of it or a stutter, but for one kind, which the statement names:
  `Uncollected`.  A zombie that was driven again before the host forgot it is `blocked`
  and no zombie for `reap()` (section 6), so a wait is answered and the status stays.
- **PeersReachable**: `Spec => []ChannelsLive`.  Channels that one process opened both ends of
  (`selfMet`) lost their first end, and `ChannelEndsHeld` leaves them out; what else
  that process does is included.
- **CountsKept**: `Spec => []((\A i \in PipeId \ miscounted : CountsMatch(i)) /\ (miscounted = {} => RefCounts))`.

None of these has an assumption besides those on the constants.
For the counts, every step adds one descriptor to the set of those the living have for
an end, takes one away, or takes those of one process away, and the finite-set lemmas of the library
turn that into counts.  Two things miscount a pipe, and the step that does puts it in
`miscounted`: SIGKILL of a zombie releases its descriptors twice (the run `late_kill`
shows what comes of it), and a `k_pipe` whose `next_fd`, a u32, has come round writes
over ends without closing them.  That nothing else does is what the theorem says; no run
reaches the second.

### Ring

`RingProofs` is for any number of calls, any width of the counters
and any choice of answers that do not fit:

- **TornIsSilent**: `RingSpec => NothingAfterTearDown`.  Inductive with one more
  fact, that a torn-down process has no answer under way.  It holds whoever is
  descheduled.
- **RingTypes**: `RingSpec => []RingTypeOK`.
- **RegionsApart**: `RingSpec => []RegionsExclusive`.  The invariant is not inductive; what
  makes it so is `Orderly`: until the teardown the guest and the server take turns
  (the server idles while the guest runs; while the guest waits the request is
  untaken, or taken, or stashed, or being answered, and only one of these), and the
  pair of doorbell counters says whose turn it is.
- **RingImplementsRpc**: the initial states of `Ring` are initial states of `Rpc` and every
  step is a step of `Rpc` or a stutter.  It needs `Told` as well, which ties the
  history to the protocol: calls before the current one have returned, calls after it
  are untouched, and the answer in the region is the current call's once it is out.

### Block stores

`StoreProofs` is for any keys, contents, number of writes, flushes and reloads, over
either backing store.

- **StoreTypes**: `Spec => []TypeOK`.
- **DiskFollows**: `Spec => []DiskCatchesUp`.  The invariant follows the disk the queue
  would leave (`Holds`), one operation after the other: what settles is the head of
  the queue, what a call appends is the last word on its key, and a key with a failed
  operation is counted out.
- **RejectionsReported**: `Spec => RejectionReported`, from an invariant on the error slot,
  which always holds the earliest rejection that no flush has thrown.
- **RenamesKeep**: `Spec => []RenameKeepsContent`.  While nothing was refused, a content
  that has been on the disk and that the mirror shows is on the disk after every
  prefix of the queue: the put of a rename is queued before the delete.

### Files

`FilesProofs` is for any set of names, paths, mounts, descriptors, file length limit
and number of calls.  It has what the operators return (`After`, `MakeDirs`,
`MoveTree`, `Below`, prefixes, what a store lists).  The invariant `FilesInv` says
that every key of the tree holds what its class says (a file not longer than the
limit, a link a path), that there are finitely many, and that descriptors are well
formed: enough to follow the length of a file through writes, resizes, moves and
boots.

- **NoFileTooLong**: `Spec => FilesBounded`: a step that is not the host's `fs_write` leaves
  no file longer than the limit but those that are as long as one was before.
- **AppendsKeep**: `Spec => AppendKeeps`.
- **NothingOrphaned**: `Spec => NoOrphans`.  It needs `MountAssumption`: in every directory above a
  mount point some mount point is an entry, so that a directory with something mounted
  below it is never empty.  The mounts that `boot()` makes are such; a mount point two
  names below one that is not listed would be orphaned by the code's `readdir`.
- **TreesMoveWhole**: `Spec => RenameMovesTree`, in any order the store lists the keys.  Why it
  holds: nothing exists under the name a rename moves to, so every key that it puts is
  new, and none is put twice.
- **ReloadsKeep**: `Spec => ReloadKeepsFiles`.  The argument is `Safe`: what a rename or a
  mkdir_p puts was not there before, and what it deletes it has put elsewhere in the
  same store first; so every prefix of its writes, the durable keys of what it leaves
  and the boot after it have every content there was.

### Session

`SessionProofs` is for any number of shells, programs, messages and overlapping
polls, for any keys and windows, for keyboards, chunks and histories of any size, and
for pipelines of any length.

- **KeysReach**: `TermSpec => []TerminalFollows`.  Most of that says what holds once the
  messages are in, so the invariant `TermInv` says it of every message on its way: the
  last mode message in the queue, or else the page's mode, is the kernel worker's
  (`ModeIs`); a shell the page asked for, or is about to be told of, is at the bottom of the stack
  (`Bottom`, `ShellIs`); a poll has at most one command or answer under way (`Polled`);
  the stack holds nobody twice and nobody who is gone.
- **KeysCounted**: `MetricsSpec => []CountsAddUp`, from the counts of the keys that are pending,
  by whether the kernel has taken them.
- **TypingIsOneChunk**: `Spec => []ChunkingInvisible`.  It rests on what the loop of
  `processCookedInput` does with a text cut in two: either every turn takes the same characters in both,
  or the first part ends inside an escape sequence, which the editor keeps (`pending`) and finds
  whole when the rest comes.  So the state after the chunks is the state after
  the one text since the last reset, which is what `Edited` says of every step.
- **HistoryReturns**: `Spec => []HistoryKeepsDraft`: as many steps down as
  were made up lead back to the draft, whatever the history, from `Sound`: a line
  that is shown from the history is the entry at its index, and the draft is kept meanwhile.
- **LinesLeaveNothing**: the two safety parts of `LineEnds`: at the prompt no end of a pipe is
  open anywhere, no stage runs or waits to be collected, and `$?` is the last stage's.
  `PipelineHolds` counts: the readers of pipe `i` are one if the shell holds that end and one if stage
  `i + 1` runs and reads it, and so for the writers (`CountedEnds`), for every
  path of a stage, also one that was not found or has a file in the pipe's
  place; and `Stands` says which ends the shell holds at each point of its loops.

### Desktop

`DesktopProofs` is for any apps, processes, windows and saved sessions.

- **WindowsKept**: `DeskSpec => []WindowsFollow`.  The order holds every window once and the
  active one last; what crosses between the threads is in `DeskInv`: a process's end is told once,
  its surface before it (`Told`), a process with a window is alive or its end is
  on its way (`Owned`), one that was closed is dead or its kill is (`Closing`), and a frame
  to be copied has an animation frame coming (`Behind`).
- **SessionKept**: `DeskSpec => []SessionSaved`.  `Kept`: a save is due, or was missed while
  restoring, or the last write on its way, or else the file, is of the windows as
  they are.

### Programs

`EditorProofs` and `DesktopProofs` are about `Programs`, where one program runs at a time.
The invariant, `ProgramsHold`, has one part for each.

- **CleanStays**: `ProgramsSpec => []CleanIsOnDisk`, for texts, windows and documents of any
  size.  `NanoHolds` and `EditorHolds` say that the cursor is in the text and the
  window follows it, that a document's two lengths agree, and that a text that is not
  marked is what the file opens as.  The lemmas are about cutting a text into lines and
  joining them (`Split` and `Join` undo each other where no line has a line feed), and about
  what a save leaves of a file: the text with its lengths, or a beginning of it.
- **EditorsEditText**: `ProgramsSpec => EditsText`, the refinement of `TextBuffer`, step by
  step.  A row and a column are a place in the joined text (`Offset`); each key's handler
  changes the lines by one character, one line feed or a line, and so the text by the
  step `TextBuffer` has for it.
- **ActsAsShown**: `ProgramsSpec => []ActsOnWhatIsShown`.  `MonAims`: the selected row is the
  process that the frame showed, if that is still listed and the rows the gesture went by
  are those of the frame (`steady`), so `refresh` may not go by the row.  A process that the
  frame does not show is younger than all it shows (`Later`): what starts moves no row above.
  `ManagerShows`: until the first event of a batch has been taken, the rows are those of
  the frame and the selection is in it.
- **RepliesArriveWhole**: `ProgramsSpec => []RepliesWhole`, with the sizes of the source and any
  lengths of messages, bodies, regions and process tables.  `GuestHolds`: nothing is written past the end of
  a region, and whole input records are queued.  For listings it is `ListHolds`:
  what is after the cookie was not given yet, unless an entry came, and what has been in the
  folder throughout is after it or was given, unless one went.  What makes that
  true of `/proc`, `/dev` and a plain folder alike is that each lists a selection of
  one sequence that never changes, in its order (`Picked`).
- **TreesViewsAgree**: `ProgramsSpec => []ViewsAgree`.  `TableHolds`: a process the host
  spawned is in the queue of its priority, once, and in no other, a guest's child is in none,
  and only pids that were given out are queued.  That `exists`, `is_dir`, `readdir` and `read` agree
  is true of every path in every such table (`TreesTell`).

Definitions that were rewritten for these proofs without a change of meaning: `Listing` of
`SysMon` picks the i-th pid by counting those below it, where it sorted, and `SystemTrees` filters with `Kept`, a recursive
function.  One proof did not go through because the model was wrong there:
in `FileManager` the branches of `activate` were a `CASE` whose guards overlapped for
the row that leads up, which a `CASE` leaves open; they are disjoint now, as the
source's early return makes them.

### Assumptions, and what is only model-checked

Assumptions: the named `ASSUME`s on the constants (`KernelAssumption` and those of
the tables; `RingAssumption`, `VfsAssumption`, `MountAssumption` and the others),
which TLC evaluates in every run.  Those of `Programs` say: windows have room and no letter
is one of the names of keys or stands for a line feed or a character that cannot be shown
(`ProgramsAssumption`); there is a largest tier, and a document an editor is started on has
two equal lengths and a window as long as its tier leaves room for
(`DocumentsAssumption`, as `mint` and `save` make them); pids have names of their own,
a folder has a name once and one of the names is the longest (`TreesAssumption`).
`SessionAssumption`: a line has a stage at least, as `split('|')` gives one.
No theorem assumes more.

Only model-checked: everything about liveness and fairness, since the prover has
none (`TurnEnds`, `CallsFinish`, `FlushEnds`, `ShellComesBack`, that a line ends in `LineEnds`, the
fairness of `Rpc` and `WaitService`); and `LinesApart`, since the evaluator of `Lisp` is a recursive operator, as the source's `eval`
is: a line may nest as deep as it likes, and what a recursive operator returns cannot be
reasoned about.

## 5. Not modelled, and why

- File times and the version stamp, clocks, accounting of memory and ticks: data.
- Wire protocol and generated glue: encodings.  The lengths that decide whether a
  reply arrives at all are in `GuestCalls`.
- Process worker and WASI shim: they turn one call into one ring call; what that
  means is in `Ring`, `GuestCalls`, and `Kernel`'s exit messages.
- Layout, drawing, themes, the taskbar, paint, welcome and the coreutils: pixels and
  filters, with no state that outlives a call.
- Host waiters (`spawn` from the page waits for an exit), the emulator's worker
  (vendored CPU), feature detection, and the commit of an IndexedDB transaction after
  its request has succeeded.
- The Lisp library beyond what calls, prints, lists or fails; strings and decimals.
- Combinations of the components that `session` and `desktop` check one at a time.

## 6. Where the code and its documentation part

Runs whose property states a sentence of the repository that fails:

- `killed_child`: SIGKILL removes a guest's child at once (no entry ever has a
  parent), and the real parent's wait finds nobody.
- `closed_fetch`: a window closed over a process asleep in a fetch leaves a zombie that
  still waits for it; the answer that comes then is kept in `net_responses`, which "doesn't
  retain dead pids" (`kcore.rs:355-356`).  Everybody else's is dropped
  (NetResponsesKept, checked by `ipc` and proved).
- `late_kill`: SIGKILL of a zombie runs its teardown again, and a pipe count
  that belongs to somebody else goes down.
- `late_notify`: adding to a doorbell and notifying are two steps, and nobody
  compares again after waking.  A guest descheduled in between has its request
  served twice.  The mirror image makes a guest return with the last answer.
- `lost_write`: backends turn failures into `false`, which the cache ignores, so
  flush resolves.  A rename then deletes the old name of a file whose
  new name was never written, which is why `RenameKeepsContent` is stated for
  pages where no put was refused.

Seen, with no run of their own.  In the kernel and the host: `k_spawn` gives every child
all rights to the whole file tree (`syscall.rs:1600`), while the comment above it says that
a process "cannot hand out authority it lacks" (`syscall.rs:1589-1591`, of the want bytes; the
next one, at 1597, does say that the child "inherits a broad FS grant").  A process the host
starts has at most read and write of one subtree (`lib.rs:171`), so any that may spawn
reaches all files through a child; NoAmplification excepts it by name; a window that is closed
over a process asleep in a pipe call whose other end it also holds: `proc_exit` wakes that very
call, which is driven again and makes the zombie `blocked` (`types.rs:657-661`), and
`reap()`, which looks for zombies (`types.rs:715`), never removes it, though
`syscall.rs:1764-1767` says so; a process that opens a name it waits under itself connects
to itself and its first end leaks (ChannelEndsHeld leaves such channels out); the host's launch of an unreadable image leaves a `Ready` entry
without a worker; `install_fd` saturates and `open_fd` wraps at the highest
descriptor, which lands on descriptors in use; two flushes that wait for one
rejected write share one error, and the second resolves; a host wait for a process
that was collected answers 0 (`kernel-worker.ts:565`); IndexedDB resolves before it
commits (`idb.ts:31`); the ready queues keep the dead, and never hold what a guest
spawned; `poll_oneoff` for the wrong direction of a stream polls for ever, though the
call itself would return at once.

In the file system: renaming a directory leaves the links in it behind (their
keys are reserved), renames of `/` succeed and move nothing, and a mount inside the
directory drops out of the listing of its parent; a tree renamed to above a mount
point is written to a store its new paths do not lead to (RenameMovesTree leaves
both out).  A link or a file can be made under a directory that does not exist, and a
link key does not imply one, although `vfs.rs:10-11` says any key does; so rmdir does
not see it.  `path_link` replaces an existing target; rmdir of a link or of a mount
point reports success and removes nothing.  `fd_write` makes a file again that was
unlinked or renamed meanwhile, `fd_pwrite` does not; a read beyond the end moves the
cursor back to it.  A child's redirected files are opened without looking at
capabilities.

In directory listings: `fd_readdir` stops before an entry that does not fit whole and
returns less than the buffer, which its comment (`syscall.rs`, at `fd_readdir`) takes
as a cause to call again, but a WASI libc takes a buffer that is not full as the end;
an entry longer than the buffer ends the listing; an entry that goes away between two
calls makes another be skipped (ListedWhole leaves both out).  `path_filestat_get` of a `/proc`
entry says NoEnt, though it is listed and opens.

In the terminal: raw mode stays on when a raw program exits over the ring and the
shell starts another job before the exit message; Files takes the keys from a shell
at its prompt (`kernel-worker.ts:529`); a `spawnByPath` that fails leaves a `Ready` entry,
and the watcher makes another every 1.5 s; closing the window, or two overlapping polls,
while a shell is being replaced leaves a shell that nobody watches (`index.ts:388`).

On the desktop: a minimized window stays active; maximize, minimize and restore lose
the old place; a launch that fails in `restore()` leaves `restoring` set, and no session is
saved until the next reload; the timer that the terminal window started may save over
the session file before `restore()` has launched anything (`index.ts:263`); an answer from
before `reset` of the metrics may settle a new key, since ids start again.

In the programs: a save of an unmodified nano buffer that fails does not mark it, and
leaving after a failed save loses it (`nano/src/main.rs:496`); a write truncates before
it fails; the editor drops characters that do not print when it loads, so when it
saves; both editors open an executable as text that is no longer its bytes; a batch in the file
manager goes on with rows that were not drawn yet; the monitor maps a click to a row of the
listing it makes when the batch arrives (`sysmon/src/main.rs:219`, then 232-233), not of the one
the user clicked on: if a process above has gone since, the click, and a K after it, hits
the next one; and a selected process that has gone hands its row to the next (59-61), which
a K pressed on the old frame then hits.  ActsOnWhatIsShown excepts just these, by what left.

In replies: a channel message of 16379 bytes and more is read as end of file
(`wasmos-sys`, `chan_recv`), one of 65531 stops the receiver's pump; a fetched body of
61435 to 65530 bytes is read as empty, a longer one stops the pump; more than 250 pending
signals are read as none.  So an empty message is not always "EOF (the peer closed and
the inbox drained)" (`wasmos-sys/src/lib.rs:489-490`).  `proc_list`, which "Returns every
process" (`wasmos-sys/src/lib.rs:405`), returns the entries that are whole in its 16 KiB, which is all
of them up to some 520 processes.  `RepliesWhole` says these things: whole if it fits, and
if not nothing, or, for the process table, the first entries.

In Lisp, where no property speaks of output and a panic is the end of the behaviour: what
a line displays before it fails is printed with a later line (`run`, `interp.rs:814`), though a
comment says the output is "drained by the REPL after each eval" (`interp.rs:608`); `(apply (list))`
panics and ends the program (`interp.rs:787`), though the REPL "is supposed to *report*
errors, not die" (`interp.rs:138-139`); `cond` evaluates a test that stands alone twice; recalling history
loses the line being typed.

## 7. Plan

Done: process table, pipes, channels, life cycle, memory and network ownership,
host loop, wait service, ring, block stores, file system, procfs and devfs, scheduler,
terminal, shell, compositor and session, input metrics, both editors, the system
monitor, the file manager, the Lisp console, replies; theorems on types, life
cycle, wakeups, waits, channels, pipe counts, the ring, the block stores, the file
system, the terminal, the metrics, windows and the saved session.

Also done: theorems about the line editor, both editors with their refinement of
`TextBuffer`, the monitor and the file manager, replies, listings, the process
trees and the queues.

Left, in this order:

1. An abstract file system (a map from paths to contents) that `Files` implements
   where the exclusions of section 6 hold, and file times.
2. `Terminal` over `Kernel` itself in place of its reduction, and `Shell` as a client.
3. `Lisp`'s evaluator as a recursive function of the form, so that `LinesApart` can be
   proved.
