---------------------------- MODULE SystemTrees ----------------------------
(***************************************************************************)
(* /proc and /dev, the directories the kernel makes up (procfs.rs,         *)
(* devfs.rs), a guest that lists them or an ordinary directory a buffer at *)
(* a time (fd_readdir), and the scheduler's queues behind the priorities   *)
(* they show (sched.rs).                                                   *)
(*                                                                         *)
(* Each of readdir, exists, is_dir and read takes a path apart for itself. *)
(* A directory entry is known by its position only, and /proc changes      *)
(* between two calls.  The guest's library is external: it asks again      *)
(* after the last entry it got, until it gets none.                        *)
(***************************************************************************)
EXTENDS Naturals, Sequences, FiniteSets, FiniteSetsExt

CONSTANTS
  PidName,     \* pid -> the name of its directory, the number in decimal
  Bytes,       \* name -> its length
  Names,       \* an ordinary directory's possible files, in order
  Buffers,     \* lengths of the guest's buffer
  Priorities,  \* what a process may be reniced to
  MaxPid,
  MaxChanges   \* what happens to processes and files

VARIABLES
  procs,       \* pid -> [state, pri, kind], the process table
  nextPid,
  ready,       \* priority -> the pids queued there; no empty queue is kept
  files,       \* the files in the ordinary directory
  listing,     \* the guest's listing: an open directory, and history
  changes

treeVars == <<procs, nextPid, ready, files, listing, changes>>

Nobody == <<>>                          \* None; only Directory can be empty
Entry(name, dir) == [name |-> name, dir |-> dir]
Named(names) == [i \in DOMAIN names |-> Entry(names[i], FALSE)]
Pids         == DOMAIN procs
PidOf(name)  == {p \in Pids : PidName[p] = name}

\* Those of s that are in S, in their order.
Kept(s, S) ==
  LET upTo[n \in 0..Len(s)] == IF n = 0 THEN <<>>
                               ELSE IF s[n] \in S THEN Append(upTo[n - 1], s[n]) ELSE upTo[n - 1]
  IN  upTo[Len(s)]

Globals   == <<"self", "mounts", "version">>
PerPid    == <<"status", "stat", "cmdline">>
Nodes     == <<"null", "zero", "full", "random", "urandom", "tty">>
Directory == <<"d">>
----------------------------------------------------------------------------
ProcExists(path) ==
  \/ Len(path) = 1
  \/ Len(path) = 2 /\ (path[2] \in Range(Globals) \/ PidOf(path[2]) # {})
  \/ Len(path) = 3 /\ PidOf(path[2]) # {} /\ path[3] \in Range(PerPid)
ProcIsDir(path) == Len(path) = 1 \/ (Len(path) = 2 /\ PidOf(path[2]) # {})
ProcReaddir(path) ==
  IF Len(path) = 1
  THEN LET order == Kept([p \in 1..MaxPid |-> p], Pids)
       IN  [i \in DOMAIN order |-> Entry(PidName[order[i]], TRUE)] \o Named(Globals)
  ELSE IF Len(path) = 2 /\ PidOf(path[2]) # {} THEN Named(PerPid) ELSE Nobody
\* The process a file tells of; its text is the entry's state and priority as of now.
ProcRead(path) ==
  CASE Len(path) = 2 /\ path[2] \in Range(Globals) -> {[of |-> path[2]]}
    [] Len(path) = 3 /\ path[3] \in Range(PerPid) ->
         {[state |-> procs[p].state, pri |-> procs[p].pri] : p \in PidOf(path[2])}
    [] OTHER -> {}

\* proc_list for ps and top: a state goes to the guest as a number.
States         == <<"new", "ready", "running", "blocked">>
Encoded(state) == Min({i \in DOMAIN States : States[i] = state} \cup {5}) - 1
Decoded(code)  == IF code < 4 THEN States[code + 1] ELSE "zombie"
ProcList == [p \in Pids |-> [state |-> Decoded(Encoded(procs[p].state)), pri |-> procs[p].pri]]

DevExists(path)  == Len(path) = 1 \/ (Len(path) = 2 /\ path[2] \in Range(Nodes))
DevIsDir(path)   == Len(path) = 1
DevReaddir(path) == IF Len(path) = 1 THEN Named(Nodes) ELSE Nobody
DevRead(path) ==
  IF Len(path) # 2 THEN {}
  ELSE CASE path[2] \in {"null", "tty"}       -> {"nothing"}
         [] path[2] \in {"zero", "full"}      -> {"zeroes"}
         [] path[2] \in {"random", "urandom"} -> {"random"}
         [] OTHER -> {}
ClassifyWrite(path) ==
  CASE Len(path) = 2 /\ path[2] = "full" -> "no space"
    [] Len(path) = 2 /\ path[2] = "tty"  -> "terminal"
    [] Len(path) = 2 /\ path[2] \in Range(Nodes) \ {"full", "tty"} -> "discard"
    [] OTHER -> "not a device"

Exists(path)  == IF path[1] = "proc" THEN ProcExists(path) ELSE DevExists(path)
IsDir(path)   == IF path[1] = "proc" THEN ProcIsDir(path) ELSE DevIsDir(path)
Readable(path) == IF path[1] = "proc" THEN ProcRead(path) ELSE DevRead(path)
Readdir(path) ==
  CASE path[1] = "proc" -> ProcReaddir(path)
    [] path[1] = "dev"  -> DevReaddir(path)
    [] OTHER -> Named(Kept(Names, files))
----------------------------------------------------------------------------
\* Ready queues: highest priority first, first in first out.
Enqueue(queues, p, pri) ==
  [l \in DOMAIN queues \cup {pri} |->
     IF l # pri THEN queues[l] ELSE IF l \in DOMAIN queues THEN Append(queues[l], p) ELSE <<p>>]
NonEmpty(queues) == Restrict(queues, {l \in DOMAIN queues : queues[l] # <<>>})
PickNext(queues) == NonEmpty([queues EXCEPT ![Max(DOMAIN queues)] = Tail(@)])
Queued(queues, p) == {l \in DOMAIN queues : p \in Range(queues[l])}
\* A bug: the old queue keeps the process.
Reprioritize_Twice(queues, p, pri) ==
  IF Queued(queues, p) # {} THEN Enqueue(queues, p, pri) ELSE queues
\* Nothing for a process that is not queued.
Reprioritize(queues, p, pri) ==
  LET others == NonEmpty([l \in DOMAIN queues |-> Kept(queues[l], Range(queues[l]) \ {p})])
  IN  IF Queued(queues, p) = {} THEN others ELSE Enqueue(others, p, pri)

Init_     == 10    \* init's priority; it is queued and picked in boot()
User      == 5     \* USER_PRIORITY, SPAWN_PRIORITY
Process(state, pri, kind) == [state |-> state, pri |-> pri, kind |-> kind]
Closed    == [at |-> Nobody]
Opened(path, buf) ==
  [at |-> path, buf |-> buf, cookie |-> 0, got |-> <<>>, ended |-> FALSE,
   lasting |-> Range(Readdir(path)), added |-> FALSE, removed |-> FALSE]

TreesInit ==
  /\ procs = [p \in {1} |-> Process("running", Init_, "init")] /\ nextPid = 2
  /\ ready = PickNext(Enqueue(<<>>, 1, Init_))
  /\ files = Range(Names) /\ listing = Closed /\ changes = 0

\* History: what has been in the open directory throughout, and whether it changed.
Watched ==
  /\ changes < MaxChanges /\ changes' = changes + 1
  /\ IF listing = Closed THEN UNCHANGED listing
     ELSE \E at \in {listing.at} :
            LET before == Range(Readdir(at))
                after  == Range(Readdir(at)')
            IN  listing' = [listing EXCEPT !.lasting = @ \cap after,
                                           !.added   = @ \/ after \ before # {},
                                           !.removed = @ \/ before \ after # {}]

Spawned(kind, state) ==
  /\ nextPid <= MaxPid /\ nextPid' = nextPid + 1
  /\ procs' = [p \in Pids \cup {nextPid} |->
                 IF p = nextPid THEN Process(state, User, kind) ELSE procs[p]]
  /\ UNCHANGED files
\* The host's; a guest's child is not queued, nor is the emulator.
Spawn         == Spawned("root", "ready") /\ ready' = Enqueue(ready, nextPid, User) /\ Watched
KSpawn        == Spawned("child", "ready") /\ UNCHANGED ready /\ Watched
SpawnEmulator == /\ Spawned("native", "running") /\ UNCHANGED ready /\ Watched
\* By its own exit a process stays as a zombie.  A kill removes one without a parent
\* at once.  Nothing takes the dead out of the queues.
Exit(p) ==
  /\ p # 1 /\ procs[p].state # "zombie"
  /\ procs' = [procs EXCEPT ![p].state = "zombie"]
  /\ UNCHANGED <<nextPid, ready, files>> /\ Watched
KillRoot(p) ==
  /\ p # 1 /\ procs[p].kind # "child" /\ procs' = Restrict(procs, Pids \ {p})
  /\ UNCHANGED <<nextPid, ready, files>> /\ Watched
Collect(p) ==
  /\ procs[p].state = "zombie" /\ procs[p].kind = "child" /\ procs' = Restrict(procs, Pids \ {p})
  /\ UNCHANGED <<nextPid, ready, files>> /\ Watched
\* By the process itself or by a holder of Signal.
SetPriority(p, pri) ==
  /\ procs' = [procs EXCEPT ![p].pri = pri] /\ ready' = Reprioritize(ready, p, pri)
  /\ UNCHANGED <<nextPid, files>> /\ Watched
Create(n) == /\ n \notin files /\ files' = files \cup {n}
             /\ UNCHANGED <<procs, nextPid, ready>> /\ Watched
Unlink(n) == /\ n \in files /\ files' = files \ {n}
             /\ UNCHANGED <<procs, nextPid, ready>> /\ Watched
----------------------------------------------------------------------------
\* O_DIRECTORY: whether there is such a directory is for fd_readdir to find out.
OpenDir(path, buf) ==
  /\ listing = Closed /\ listing' = Opened(path, buf)
  /\ UNCHANGED <<procs, nextPid, ready, files, changes>>

DirentSize(e) == 24 + Bytes[e.name]
AllNames == Range(Globals \o PerPid \o Nodes \o Names) \cup {PidName[p] : p \in 1..MaxPid}
Largest  == Max({DirentSize(Entry(n, FALSE)) : n \in AllNames})

\* From the cookie's position on, the entries that fit whole; the last one's d_next.
Chunk(entries, cookie, buf) ==
  LET rest == SubSeq(entries, cookie + 1, Len(entries))
      size[k \in 0..Len(rest)] == IF k = 0 THEN 0 ELSE size[k - 1] + DirentSize(rest[k])
      fit  == Max({k \in 0..Len(rest) : size[k] <= buf})
  IN  [entries |-> SubSeq(rest, 1, fit), next |-> cookie + fit]

FdReaddir ==
  /\ listing # Closed /\ ~listing.ended
  /\ LET chunk == Chunk(Readdir(listing.at), listing.cookie, listing.buf)
     IN  listing' = [listing EXCEPT !.got = @ \o chunk.entries, !.cookie = chunk.next,
                                    !.ended = chunk.entries = <<>>]
  /\ UNCHANGED <<procs, nextPid, ready, files, changes>>
CloseDir == /\ listing # Closed /\ listing.ended /\ listing' = Closed
            /\ UNCHANGED <<procs, nextPid, ready, files, changes>>

Folders == {<<"proc">>, <<"proc", "2">>, <<"dev">>, Directory}
TreesNext ==
  \/ Spawn \/ KSpawn \/ SpawnEmulator \/ FdReaddir \/ CloseDir
  \/ (\E p \in Pids : Exit(p) \/ KillRoot(p) \/ Collect(p) \/ \E pri \in Priorities : SetPriority(p, pri))
  \/ (\E n \in Range(Names) : Create(n) \/ Unlink(n))
  \/ (\E path \in Folders, buf \in Buffers : OpenDir(path, buf))
----------------------------------------------------------------------------
\* A finished listing has every entry that was there all along, once the buffer holds
\* the longest one and unless an entry went meanwhile (the rest then move up and one is
\* passed over); it has an entry twice only if one was added.
ListedWhole ==
  listing # Closed =>
    /\ listing.ended /\ listing.buf >= Largest /\ ~listing.removed =>
         listing.lasting \subseteq Range(listing.got)
    /\ ~listing.added => IsInjective(listing.got)

\* What is listed exists, is a directory if the listing says so, and can be read if
\* it is not; nothing else can be read, every node takes a write somewhere, and /proc
\* tells of a process what proc_list does.
TreePaths ==
  LET names == Range(Globals \o PerPid \o Nodes) \cup {PidName[p] : p \in 1..MaxPid}
  IN  {<<"proc">>, <<"dev">>} \cup ({"proc", "dev"} \X names)
      \cup ({"proc"} \X {PidName[p] : p \in 1..MaxPid} \X {"status", "stat", "cmdline", "self"})
TreesAgree ==
  \A path \in TreePaths :
    /\ Exists(path) <=> IsDir(path) \/ Readable(path) # {}
    /\ ~(IsDir(path) /\ Readable(path) # {})
    /\ IsDir(path) <=> Readdir(path) # Nobody
    /\ \A e \in Range(Readdir(path)) :
         Exists(Append(path, e.name)) /\ (e.dir <=> IsDir(Append(path, e.name)))
    /\ Len(path) = 3 => ProcRead(path) \subseteq {ProcList[p] : p \in PidOf(path[2])}
    /\ path[1] = "dev" => (ClassifyWrite(path) = "not a device" <=> Readable(path) = {})

\* A process the host launched is queued once, at the priority it has now; others never.
QueuedAtPriority ==
  /\ \A p \in Pids : Queued(ready, p) = IF procs[p].kind = "root" THEN {procs[p].pri} ELSE {}
  /\ \A p \in 1..(nextPid - 1) : Cardinality(Queued(ready, p)) <= 1
  /\ \A l \in DOMAIN ready : ready[l] # <<>> /\ IsInjective(ready[l])
=============================================================================
