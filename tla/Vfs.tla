-------------------------------- MODULE Vfs --------------------------------
(***************************************************************************)
(* The virtual file system (crates/kernel/src/vfs.rs): a tree laid over    *)
(* flat key-value stores.  A file is the key of its path; a directory made *)
(* by mkdir, and a symbolic link, are reserved keys of their own; any file *)
(* or directory key implies the directories above it.  A path belongs to   *)
(* the store of the longest mount point above it.                          *)
(*                                                                         *)
(* A store is a function from the keys it holds to their values; an        *)
(* operation is the list of puts and deletes it makes, in order.  File     *)
(* times, kept under keys of their own, are left out.                      *)
(***************************************************************************)
EXTENDS Naturals, SequencesExt

CONSTANTS
  Path,      \* the absolute paths in play: sequences of names, <<>> for "/"
  Mount,     \* mount point -> store
  MaxHops    \* links followed before giving up: 40 in the source

ASSUME VfsAssumption ==
  /\ Path \subseteq Seq(STRING)
  /\ DOMAIN Mount \subseteq Path /\ <<>> \in DOMAIN Mount
  /\ MaxHops \in Nat \ {0}

\* boot(): in every directory above a mount point some mount point is an entry,
\* as /usr/local is of /usr, and /home of /.
ASSUME MountAssumption ==
  \A m \in DOMAIN Mount : \A n \in 0..(Len(m) - 1) :
    \E o \in DOMAIN Mount : Len(o) = n + 1 /\ Front(o) = SubSeq(m, 1, n)

\* resolve()
Resolve(p) ==
  Mount[CHOOSE m \in DOMAIN Mount :
          /\ IsPrefix(m, p)
          /\ \A n \in DOMAIN Mount : IsPrefix(n, p) => Len(n) <= Len(m)]

Resolved   == [p \in Path |-> Resolve(p)]
StoreOf(p) == IF p \in Path THEN Resolved[p] ELSE Resolve(p)

Key(store, class, p) == [store |-> store, class |-> class, path |-> p]
FileKey(p) == Key(StoreOf(p), "file", p)
DirKey(p)  == Key(StoreOf(p), "dir", p)
LinkKey(p) == Key(StoreOf(p), "link", p)

Put(key, value) == [key |-> key, put |-> TRUE, value |-> value]
Del(key)        == [key |-> key, put |-> FALSE, value |-> <<>>]

\* The keys after puts and deletes made in this order: of each key the last one counts.
After(t, ws) ==
  LET touched == {ws[i].key : i \in DOMAIN ws}
      final   == [k \in touched |-> ws[Max({i \in DOMAIN ws : ws[i].key = k})]]
  IN  [k \in (DOMAIN t \ touched) \cup {j \in touched : final[j].put} |->
         IF k \in touched THEN final[k].value ELSE t[k]]

-----------------------------------------------------------------------------
IsLink(t, p) == LinkKey(p) \in DOMAIN t

\* A relative target starts at the directory the link is in.
Hop(t, p) ==
  IF ~IsLink(t, p) THEN p
  ELSE LET to == t[LinkKey(p)] IN IF to.absolute THEN to.path ELSE Front(p) \o to.path

\* followed_path(): the last component only, so many times.
Followed(t, p) ==
  LET at[n \in 0..(MaxHops - 1)] == IF n = 0 THEN p ELSE Hop(t, at[n - 1])
  IN  IF IsLink(t, p) THEN at[MaxHops - 1] ELSE p

Resolves(t, p) == ~IsLink(t, Followed(t, p))

\* The keys below p in p's own store.
Below(t, p, classes) ==
  {k \in DOMAIN t : k.store = StoreOf(p) /\ k.class \in classes /\ IsStrictPrefix(p, k.path)}

IsDir(t, p) ==
  LET q == Followed(t, p)
  IN  /\ Resolves(t, p)
      /\ q \in DOMAIN Mount \/ DirKey(q) \in DOMAIN t \/ Below(t, q, {"file", "dir"}) # {}

IsFile(t, p)   == Resolves(t, p) /\ FileKey(Followed(t, p)) \in DOMAIN t
Exists(t, p)   == IsLink(t, p) \/ IsFile(t, p) \/ IsDir(t, p)
Bytes(t, p)    == t[FileKey(Followed(t, p))]
Writable(t, p) == Resolves(t, p) /\ ~IsDir(t, Followed(t, p))

\* Faulty: only files are looked for.
Entries_FilesOnly(t, p) == {k.path[Len(p) + 1] : k \in Below(t, p, {"file"})}

\* readdir(): the names in a directory, mount points among them.
Entries(t, p) ==
  {k.path[Len(p) + 1] : k \in Below(t, p, {"file", "dir"})}
  \cup {Last(k.path) : k \in {j \in Below(t, p, {"link"}) : Len(j.path) = Len(p) + 1}}
  \cup {Last(m) : m \in {n \in DOMAIN Mount : n # <<>> /\ Front(n) = p}}

-----------------------------------------------------------------------------
WriteFile(t, p, bytes) == <<Put(FileKey(Followed(t, p)), bytes)>>

\* delete(): a link goes itself, not what it leads to.
Deletes(t, p) == <<Del(IF IsLink(t, p) THEN LinkKey(p) ELSE FileKey(p))>>

MakeDir(p) == <<Put(DirKey(p), <<>>)>>

RemoveDir(p) == <<Del(DirKey(p))>>

\* mkdir_p() of p: the missing directories down to it, or to a file in the way.
MakeNext(t, p, n, ws) ==
  LET q == SubSeq(p, 1, n)
  IN  IF IsDir(After(t, ws), q) \/ \E i \in 1..n : IsFile(t, SubSeq(p, 1, i))
      THEN ws ELSE Append(ws, Put(DirKey(q), <<>>))
MakeDirs(t, p) ==
  LET made[n \in 0..Len(p)] == IF n = 0 THEN <<>> ELSE MakeNext(t, p, n, made[n - 1])
  IN  made[Len(p)]

-----------------------------------------------------------------------------
\* rename(): the key of a path below from, once from has become to.
Moved(k, from, to) ==
  Key(StoreOf(to), k.class, to \o SubSeq(k.path, Len(from) + 1, Len(k.path)))

\* Faulty: the old key goes first.
MoveKey_DeleteFirst(t, k, from, to) == <<Del(k), Put(Moved(k, from, to), t[k])>>

MoveKey(t, k, from, to) == <<Put(Moved(k, from, to), t[k]), Del(k)>>

MoveOne(t, class, from, to) == MoveKey(t, Key(StoreOf(from), class, from), from, to)

\* Faulty: the directories below stay behind.
TreeKeys_Files(t, from) == SetToSeqs(Below(t, from, {"file"}))

\* The files in some order, then the directory keys; none below "/" itself.
TreeKeys(t, from) ==
  IF from = <<>> THEN {<<>>}
  ELSE {f \o d : f \in SetToSeqs(Below(t, from, {"file"})), d \in SetToSeqs(Below(t, from, {"dir"}))}

\* Each key's put and delete, one key after the other.
MoveKeys(t, keys, from, to) ==
  [i \in 1..2 * Len(keys) |-> MoveKey(t, keys[(i + 1) \div 2], from, to)[IF i % 2 = 1 THEN 1 ELSE 2]]

MoveTree(t, keys, from, to) ==
  MoveKeys(t, keys, from, to) \o <<Del(DirKey(from)), Put(DirKey(to), <<>>)>>
=============================================================================
