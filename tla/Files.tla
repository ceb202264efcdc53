------------------------------- MODULE Files -------------------------------
(***************************************************************************)
(* File calls over the virtual file system: the descriptors and path calls *)
(* of a guest (crates/kernel/src/syscall.rs), the host's own writes        *)
(* (kcore.rs), and reloads of the page.                                    *)
(*                                                                         *)
(* A call that fails changes nothing and is not an action; a guest's write *)
(* writes one byte, the host's a whole file.  The paths are none of        *)
(* /proc's or /dev's.  The kernel serves one call at a time.  What a call  *)
(* writes reaches the disk one key after the other; a reload finds some    *)
(* first part of what the last call wrote.  (CachedStore has the delays    *)
(* and failures behind that.)                                              *)
(***************************************************************************)
EXTENDS Vfs

CONSTANTS
  Grant,        \* the subtree the guest may read and write
  Fd,           \* descriptor numbers
  Opened,       \* the paths descriptors are opened on
  Linked,       \* the paths links are made at
  Target,       \* what symbolic links hold
  BootDirs,     \* what boot() makes, in order
  MaxFileSize,  \* MAX_FILE_SIZE
  HostFiles,    \* what the host writes: <<path, length>>
  MaxCalls      \* bound: calls made

ASSUME FilesAssumption ==
  /\ Grant \in Path /\ Opened \subseteq Path /\ Linked \subseteq Path
  /\ Target \subseteq [absolute: BOOLEAN, path: Seq(STRING)]
  /\ BootDirs \in Seq(Path)
  /\ MaxFileSize \in Nat \ {0} /\ HostFiles \subseteq Path \X Nat /\ MaxCalls \in Nat

VARIABLES
  tree,    \* the keys of all stores
  fds,     \* the guest's open files: Descriptor, and the APPEND flag
  calls,   \* calls made so far
  last     \* history: the last call, for the properties

vars == <<tree, fds, calls, last>>

Other        == [op |-> "other", at |-> <<>>, to |-> <<>>]
Did(op, p, q) == [op |-> op, at |-> p, to |-> q]

Boot(t) ==
  LET up[n \in 0..Len(BootDirs)] ==
        IF n = 0 THEN t ELSE After(up[n - 1], MakeDirs(up[n - 1], BootDirs[n]))
  IN  up[Len(BootDirs)]

Init ==
  /\ tree = Boot(<<>>)
  /\ fds = <<>>
  /\ calls = 0 /\ last = Other

More       == calls < MaxCalls
Call(what) == More /\ calls' = calls + 1 /\ last' = what
Issue(ws)  == tree' = After(tree, ws)

\* FsPath { subtree: "/" or "/home", rights: RW }, whole names only.
Allowed(p) == IsPrefix(Grant, p)

-----------------------------------------------------------------------------
(***************************************************************************)
(* Opening.  EXCL only refuses an open that another one makes.             *)
(***************************************************************************)
Rights == {{"read"}, {"write"}, {"read", "write"}}

Descriptor(p, offset, rights, append) ==
  [path |-> p, offset |-> offset, rights |-> rights, append |-> append]

Install(f, d) == f \notin DOMAIN fds /\ fds' = [g \in DOMAIN fds \cup {f} |-> IF g = f THEN d ELSE fds[g]]

OpenExisting(f, p, rights, append) ==
  /\ Call(Other)
  /\ Allowed(p) /\ IsFile(tree, p)
  /\ Install(f, Descriptor(p, 0, rights, append))
  /\ UNCHANGED tree

\* CREAT of a path without a file, or TRUNC of one with.
OpenEmpty(f, p, rights, append) ==
  /\ Call(Other)
  /\ Allowed(p) /\ Writable(tree, p)
  /\ Install(f, Descriptor(p, 0, rights, append))
  /\ Issue(WriteFile(tree, p, <<>>))

\* A child's redirections: < > >>.  A file that cannot be written is opened all the same.
Redirect(f, p, mode) ==
  /\ Call(Other)
  /\ LET end == IF mode = ">>" /\ IsFile(tree, p) THEN Len(Bytes(tree, p)) ELSE 0
     IN  Install(f, Descriptor(p, end, IF mode = "<" THEN {"read"} ELSE {"read", "write"}, FALSE))
  /\ IF mode = ">" /\ Writable(tree, p) THEN Issue(WriteFile(tree, p, <<>>)) ELSE UNCHANGED tree

FdClose(f) ==
  /\ Call(Other)
  /\ fds' = Restrict(fds, DOMAIN fds \ {f})
  /\ UNCHANGED tree

-----------------------------------------------------------------------------
(***************************************************************************)
(* Calls on an open file.                                                  *)
(***************************************************************************)
Held(p) == IF IsFile(tree, p) THEN Bytes(tree, p) ELSE <<>>

Resized(bytes, n) == [i \in 1..n |-> IF i <= Len(bytes) THEN bytes[i] ELSE 0]

\* A byte written at an offset, zeroes before it if the file is shorter.
Overwritten(bytes, offset) ==
  LET all == Resized(bytes, Max({Len(bytes), offset + 1}))
  IN  [i \in DOMAIN all |-> IF i = offset + 1 THEN 1 ELSE all[i]]

\* Faulty: the bound is on what is written, not on where it ends.
Fits_Length(end) == 1 <= MaxFileSize

Fits(end) == end <= MaxFileSize

\* Faulty: the cursor counts also for a descriptor that appends.
WriteFrom_Cursor(d) == d.offset

WriteFrom(d) == IF d.append THEN Len(Held(d.path)) ELSE d.offset

FdWrite(f) ==
  LET d == fds[f]  from == WriteFrom(d)
  IN  /\ Call(Did(IF d.append THEN "append" ELSE "other", d.path, <<>>))
      /\ "write" \in d.rights /\ Fits(from + 1) /\ Writable(tree, d.path)
      /\ Issue(WriteFile(tree, d.path, Overwritten(Held(d.path), from)))
      /\ fds' = [fds EXCEPT ![f].offset = from + 1]

FdPwrite(f, offset) ==
  LET d == fds[f]
  IN  /\ Call(Other)
      /\ "write" \in d.rights /\ Fits(offset + 1)
      /\ IsFile(tree, d.path) /\ Writable(tree, d.path)
      /\ Issue(WriteFile(tree, d.path, Overwritten(Held(d.path), offset)))
      /\ UNCHANGED fds

FdFilestatSetSize(f, size) ==
  LET d == fds[f]
  IN  /\ Call(Other)
      /\ "write" \in d.rights /\ Fits(size)
      /\ IsFile(tree, d.path) /\ Writable(tree, d.path)
      /\ Issue(WriteFile(tree, d.path, Resized(Held(d.path), size)))
      /\ UNCHANGED fds

\* Beyond the end it reads nothing, and leaves the cursor at the end.
FdRead(f, len) ==
  LET d == fds[f]
  IN  /\ Call(Other)
      /\ "read" \in d.rights /\ IsFile(tree, d.path)
      /\ fds' = [fds EXCEPT ![f].offset = Min({d.offset + len, Len(Held(d.path))})]
      /\ UNCHANGED tree

\* From the start, the cursor or the end: any offset there is, or one beyond.
FdSeek(f, offset) ==
  /\ Call(Other)
  /\ fds' = [fds EXCEPT ![f].offset = offset]
  /\ UNCHANGED tree

FdFdstatSetFlags(f, append) ==
  /\ Call(Other)
  /\ fds' = [fds EXCEPT ![f].append = append]
  /\ UNCHANGED tree

FdFdstatSetRights(f, rights) ==
  /\ Call(Other)
  /\ rights \subseteq fds[f].rights
  /\ fds' = [fds EXCEPT ![f].rights = rights]
  /\ UNCHANGED tree

-----------------------------------------------------------------------------
(***************************************************************************)
(* Calls on paths.                                                         *)
(***************************************************************************)
PathCreateDirectory(p) ==
  /\ Call(Other)
  /\ Allowed(p) /\ ~Exists(tree, p)
  /\ Issue(MakeDir(p))
  /\ UNCHANGED fds

PathRemoveDirectory(p) ==
  /\ Call(Did("rmdir", p, <<>>))
  /\ Allowed(p) /\ IsDir(tree, p) /\ Entries(tree, Followed(tree, p)) = {}
  /\ Issue(RemoveDir(p))
  /\ UNCHANGED fds

PathUnlinkFile(p) ==
  /\ Call(Other)
  /\ Allowed(p) /\ (IsLink(tree, p) \/ FileKey(p) \in DOMAIN tree)
  /\ Issue(Deletes(tree, p))
  /\ UNCHANGED fds

\* Nothing asks whether the link's own directory exists.
PathSymlink(target, p) ==
  /\ Call(Other)
  /\ Allowed(p) /\ ~Exists(tree, p)
  /\ Issue(<<Put(LinkKey(p), target)>>)
  /\ UNCHANGED fds

\* A copy.  A file at q is replaced.
PathLink(p, q) ==
  /\ Call(Other)
  /\ Allowed(p) /\ Allowed(q)
  /\ IsFile(tree, p) /\ ~IsDir(tree, p) /\ Writable(tree, q)
  /\ Issue(WriteFile(tree, q, Bytes(tree, p)))
  /\ UNCHANGED fds

\* rename(): what it writes, as one of several orders; nothing if refused.
Renames(p, q) ==
  IF ~Allowed(p) \/ ~Allowed(q) \/ StoreOf(p) # StoreOf(q) \/ Exists(tree, q) THEN {}
  ELSE IF IsLink(tree, p) THEN {MoveOne(tree, "link", p, q)}
  ELSE IF IsFile(tree, p) THEN {MoveOne(tree, "file", p, q)}
  ELSE IF IsDir(tree, p) THEN {MoveTree(tree, keys, p, q) : keys \in TreeKeys(tree, p)}
  ELSE {}

PathRename(p, q) ==
  /\ Call(Did(IF IsLink(tree, p) \/ IsFile(tree, p) THEN "other" ELSE "rename", p, q))
  /\ \E ws \in Renames(p, q) : Issue(ws)
  /\ UNCHANGED fds

-----------------------------------------------------------------------------
(***************************************************************************)
(* The host: its own calls, and a reload.                                  *)
(***************************************************************************)
\* Nothing asks how long the file is: MAX_FILE_SIZE binds guests.
FsWrite(p, n) ==
  /\ Call(Did("host", p, <<>>))
  /\ Writable(tree, p)
  /\ Issue(WriteFile(tree, p, [i \in 1..n |-> 1]))
  /\ UNCHANGED fds

FsDelete(p) ==
  /\ Call(Other)
  /\ IsLink(tree, p) \/ FileKey(p) \in DOMAIN tree
  /\ Issue(Deletes(tree, p))
  /\ UNCHANGED fds

FsMkdirp(p) ==
  /\ Call(Other)
  /\ MakeDirs(tree, p) # <<>>
  /\ Issue(MakeDirs(tree, p))
  /\ UNCHANGED fds

Durable(t) == Restrict(t, {k \in DOMAIN t : k.store # "tmpfs"})

\* The page again, after so many of some writes.
Restarted(ws, n) == Boot(Durable(After(tree, SubSeq(ws, 1, n))))

Reload ==
  /\ Call(Did("reload", <<>>, <<>>))
  /\ tree' = Restarted(<<>>, 0)
  /\ fds' = <<>>

\* In the middle of what a call writes.
ReloadAmid(ws) ==
  /\ Call(Did("reload", <<>>, <<>>))
  /\ \E n \in 1..(Len(ws) - 1) : tree' = Restarted(ws, n)
  /\ fds' = <<>>

-----------------------------------------------------------------------------
FdCall == More /\ \E f \in DOMAIN fds :
  \/ FdClose(f)
  \/ FdWrite(f)
  \/ \E n \in 0..MaxFileSize :
       FdPwrite(f, n) \/ FdFilestatSetSize(f, n) \/ FdSeek(f, n)
  \/ \E len \in 1..MaxFileSize : FdRead(f, len)
  \/ \E append \in BOOLEAN : FdFdstatSetFlags(f, append)
  \/ \E rights \in Rights : FdFdstatSetRights(f, rights)

Open == More /\ \E f \in Fd, p \in Opened :
  \/ \E rights \in Rights, append \in BOOLEAN :
       OpenExisting(f, p, rights, append) \/ OpenEmpty(f, p, rights, append)
  \/ \E mode \in {"<", ">", ">>"} : Redirect(f, p, mode)

PathCall == More /\ \E p \in Path :
  \/ PathCreateDirectory(p) \/ PathRemoveDirectory(p) \/ PathUnlinkFile(p)
  \/ (\E w \in HostFiles : w[1] = p /\ FsWrite(p, w[2]))
  \/ FsDelete(p) \/ FsMkdirp(p)
  \/ ReloadAmid(MakeDirs(tree, p))
  \/ \E q \in Path :
       PathRename(p, q) \/ \E ws \in Renames(p, q) : ReloadAmid(ws)

LinkCall == More /\ \E p \in Linked :
  \/ \E target \in Target : PathSymlink(target, p)
  \/ \E q \in Path : PathLink(q, p)

Next == FdCall \/ Open \/ PathCall \/ LinkCall \/ Reload

Spec == Init /\ [][Next]_vars

-----------------------------------------------------------------------------
(***************************************************************************)
(* Properties.                                                             *)
(***************************************************************************)
Tree == {"file", "dir"}

\* A directory that rmdir() has removed had nothing in it: no file or directory
\* is left under its name, not a mounted one either.  (A link to a directory
\* is left out: rmdir() looks at what it leads to.)
NoOrphans == [][
  last'.op = "rmdir" /\ ~IsLink(tree, last'.at) =>
    /\ Below(tree', last'.at, Tree) = {}
    /\ \A m \in DOMAIN Mount : ~IsStrictPrefix(last'.at, m)]_vars

\* The rename of a directory takes every file and directory under it along,
\* with its content, leaves none of them behind, and touches nothing else.
\* (Not of "/", which takes nothing along, nor to above a mount point.)
RenameMovesTree == [][
  /\ last'.op = "rename" /\ last'.at # <<>>
  /\ \A m \in DOMAIN Mount : ~IsStrictPrefix(last'.to, m)
  => /\ \A k \in Below(tree, last'.at, Tree) :
          LET new == Moved(k, last'.at, last'.to)
          IN  new \in DOMAIN tree' /\ tree'[new] = tree[k] /\ new.store = StoreOf(new.path)
     /\ \A k \in Below(tree', last'.at, Tree) : IsPrefix(last'.to, k.path)
     /\ \A k \in DOMAIN tree :
          ~IsPrefix(last'.at, k.path) => k \in DOMAIN tree' /\ tree'[k] = tree[k]]_vars

Contents(t) == {t[k] : k \in {j \in DOMAIN t : j.class = "file"}}

\* A reload between two calls, or between two writes of a rename or of a
\* mkdir_p, finds every content the disk had before the call.
ReloadKeepsFiles == [][
  last'.op = "reload" => Contents(Durable(tree)) \subseteq Contents(tree')]_vars

\* A write through a descriptor that appends keeps all there was in the file,
\* whoever has changed the file since, and adds to it.
AppendKeeps == [][
  last'.op = "append" => IsStrictPrefix(Held(last'.at), Bytes(tree', last'.at))]_vars

\* No call of a guest makes a file longer than MAX_FILE_SIZE, wherever it writes:
\* what is longer than that is as long as the host made it.
FilesBounded == [][
  last'.op # "host" =>
    \A bytes \in Contents(tree') :
      Len(bytes) > MaxFileSize => \E old \in Contents(tree) : Len(old) = Len(bytes)]_vars
=============================================================================
