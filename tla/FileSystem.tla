----------------------------- MODULE FileSystem -----------------------------
(***************************************************************************)
(* Inodes, blocks, directories and path names (kernel/fs.c) and the system *)
(* calls on them (kernel/sysfile.c, kernel/file.c): open, mkdir, mknod,    *)
(* link, unlink, chdir, write and close, run by several processes at once. *)
(*                                                                         *)
(* A step is what a process does between two waits for the sleep-lock of   *)
(* an inode, or one critical section of itable.lock.  Every call runs in a *)
(* transaction.  Log shows that a power failure takes the disk back to the *)
(* last moment without a call in progress, so it is enough to crash there. *)
(*                                                                         *)
(* disk is what the blocks of the file system hold; ref, valid, lock and   *)
(* mem are the fields of the inode table, by inode number.                 *)
(***************************************************************************)
EXTENDS Integers, Sequences, FiniteSets, FiniteSetsExt

CONSTANTS
  Procs,      \* processes
  NINODES,    \* sb.ninodes: inodes 1 .. NINODES - 1
  NBLOCKS,    \* data blocks 1 .. NBLOCKS
  NDIRECT, NINDIRECT,
  Names,      \* file names other than "." and ".."
  Paths,      \* path names, as sequences of elements
  Workloads,  \* bound: calls, of the kinds ops, by the processes procs
  MaxCrashes  \* bound: power failures

ASSUME FsAssumption ==
  /\ NINODES \in Nat \ {0, 1} /\ NBLOCKS \in Nat \ {0}
  /\ NDIRECT \in Nat \ {0} /\ NINDIRECT \in Nat

None == 0
ROOTINO == 1
Inums == 1 .. NINODES - 1
Blks == 1 .. NBLOCKS
Elems == Names \cup {".."}

VARIABLES
  disk,      \* inode: the dinodes; ents: directory contents; ind: indirect blocks; used: bitmap
  ref, valid, lock, mem,   \* itable.inode
  cwd,       \* p->cwd
  ofile,     \* the inode of p's open file, or None: NOFILE is 1
  call,      \* what p is doing: see Call
  calls, crashes,
  panicked,  \* the argument of panic(), or ""
  removed,   \* directories that were unlinked and are not yet freed
  lost,      \* lost[i]: entries for i that were in a directory when it was freed
  orphans,   \* inodes that lost their last user without links and without being freed
  work       \* the workload of this behaviour

ghosts == <<removed, lost, orphans, work>>
itable == <<ref, valid, lock, mem>>
vars == <<disk, itable, cwd, ofile, call, calls, crashes, panicked, ghosts>>

\* The contents of a dinode: type, nlink and addrs; size is in addrs and ents.
NoAddrs == [a \in 0 .. NDIRECT |-> None]
Node(t, n, a) == [type |-> t, nlink |-> n, addrs |-> a]
FreeNode == Node("none", 0, NoAddrs)
NoEnts == [e \in Elems |-> None]
NoInd == [j \in 0 .. NINDIRECT - 1 |-> None]

\* A process is at pc in the call op; path is the rest of the path name, dp and
\* ip are the code's variables, and todo the calls of iunlock and iput that come
\* before pc.
Call(pc, op, path, dp, ip, todo) ==
  [pc |-> pc, op |-> op, path |-> path, dp |-> dp, ip |-> ip, todo |-> todo]
User == Call("user", "none", <<>>, None, None, <<>>)

\* mkfs: the root directory in block 1, nothing else.  Every process is in it.
Init ==
  /\ disk = [inode |-> [i \in Inums |-> IF i = ROOTINO
                          THEN Node("dir", 1, [NoAddrs EXCEPT ![0] = 1]) ELSE FreeNode],
             ents |-> [i \in Inums |-> IF i = ROOTINO
                          THEN [NoEnts EXCEPT ![".."] = ROOTINO] ELSE NoEnts],
             ind |-> [b \in Blks |-> NoInd],
             used |-> {1}]
  /\ ref = [i \in Inums |-> IF i = ROOTINO THEN Cardinality(Procs) ELSE 0]
  /\ valid = [i \in Inums |-> FALSE]
  /\ lock = [i \in Inums |-> None]
  /\ mem = [i \in Inums |-> FreeNode]
  /\ cwd = [p \in Procs |-> ROOTINO]
  /\ ofile = [p \in Procs |-> None]
  /\ call = [p \in Procs |-> User]
  /\ calls = 0 /\ crashes = 0 /\ panicked = ""
  /\ removed = {} /\ lost = [i \in Inums |-> 0] /\ orphans = {}
  /\ work \in Workloads

-----------------------------------------------------------------------------
(* Blocks: functions from a disk d to a disk, and a result.                *)

\* balloc: the first free block, zeroed; 0 if there is none.
balloc(d) ==
  LET free == Blks \ d.used
      b == Min(free)
  IN  IF free = {} THEN [d |-> d, b |-> None]
      ELSE [d |-> [d EXCEPT !.used = @ \cup {b}, !.ind[b] = NoInd], b |-> b]

\* bfree, of every block of a set.
bfree(d, bs) == [d EXCEPT !.used = @ \ bs]

\* bmap of a direct block, with z from balloc.
DirectBlock(a, bn, z) == [d |-> z.d, a |-> [a EXCEPT ![bn] = z.b], b |-> z.b]

\* bmap of block j of indirect block ib, with z from balloc: the indirect block
\* stays allocated when the data block cannot be.
DataBlock(a, ib, j, z) ==
  [d |-> IF z.b = None THEN z.d ELSE [z.d EXCEPT !.ind[ib][j] = z.b],
   a |-> [a EXCEPT ![NDIRECT] = ib], b |-> z.b]

\* bmap beyond the direct blocks, with x the indirect block, found or allocated.
IndirectBlock(a, j, x) ==
  IF x.b = None THEN [d |-> x.d, a |-> a, b |-> None]
  ELSE IF x.d.ind[x.b][j] # None
  THEN [d |-> x.d, a |-> [a EXCEPT ![NDIRECT] = x.b], b |-> x.d.ind[x.b][j]]
  ELSE DataBlock(a, x.b, j, balloc(x.d))

\* bmap: block bn of the file with addresses a, allocated if need be.
bmap(d, a, bn) ==
  IF bn >= NDIRECT
  THEN IndirectBlock(a, bn - NDIRECT,
                     IF a[NDIRECT] = None THEN balloc(d) ELSE [d |-> d, b |-> a[NDIRECT]])
  ELSE IF a[bn] # None THEN [d |-> d, a |-> a, b |-> a[bn]]
  ELSE DirectBlock(a, bn, balloc(d))

\* The blocks of a file with addresses a: what itrunc frees, the indirect block
\* included.
BlocksOf(d, a) ==
  ({a[k] : k \in 0 .. NDIRECT}
   \cup (IF a[NDIRECT] = None THEN {} ELSE {d.ind[a[NDIRECT]][j] : j \in 0 .. NINDIRECT - 1}))
  \ {None}

\* Blocks that readi can reach: the size of the file, in blocks.
Size(d, a) ==
  Cardinality({k \in 0 .. NDIRECT - 1 : a[k] # None})
  + (IF a[NDIRECT] = None THEN 0
     ELSE Cardinality({j \in 0 .. NINDIRECT - 1 : d.ind[a[NDIRECT]][j] # None}))

\* iupdate: the dinode of i becomes n.
iupdate(d, i, n) == [d EXCEPT !.inode[i] = n]

\* Mutant: itrunc forgets the indirect block itself.
trunc_direct(d, i, n) ==
  LET n1 == [n EXCEPT !.addrs = NoAddrs]
  IN  [d |-> iupdate([bfree(d, BlocksOf(d, n.addrs) \ {n.addrs[NDIRECT]})
                        EXCEPT !.ents[i] = NoEnts], i, n1),
       n |-> n1]

\* itrunc of inode i, whose copy in memory is n, with its iupdate.
itrunc(d, i, n) ==
  LET n1 == [n EXCEPT !.addrs = NoAddrs]
  IN  [d |-> iupdate([bfree(d, BlocksOf(d, n.addrs)) EXCEPT !.ents[i] = NoEnts], i, n1),
       n |-> n1]

\* writei of block bn of i, with its iupdate; ok unless the disk is full.
Wrote(i, n, m) == [d |-> iupdate(m.d, i, [n EXCEPT !.addrs = m.a]),
                   n |-> [n EXCEPT !.addrs = m.a], ok |-> m.b # None]
writei(d, i, n, bn) == Wrote(i, n, bmap(d, n.addrs, bn))

\* dirlink: a new entry.  The names of a directory fit in its first block.
Entered(i, name, inum, w) == IF w.ok THEN [w EXCEPT !.d.ents[i][name] = inum] ELSE w
dirlink(d, i, n, name, inum) ==
  IF d.ents[i][name] # None THEN [d |-> d, n |-> n, ok |-> FALSE]
  ELSE Entered(i, name, inum, writei(d, i, n, 0))

isdirempty(d, i) == \A e \in Names : d.ents[i][e] = None

-----------------------------------------------------------------------------
(* Inodes in memory.                                                       *)

\* iget of i: a new entry of the table is not valid.  With as many entries as
\* inodes the table is never full (see the README for NINODE).
iget(i) ==
  /\ ref' = [ref EXCEPT ![i] = @ + 1]
  /\ valid' = [valid EXCEPT ![i] = @ /\ ref[i] > 0]

\* What ilock makes of the copy of i: it is read from the disk unless valid.
Loaded(i) == IF valid[i] THEN mem[i] ELSE disk.inode[i]

Goto(p, c) == call' = [call EXCEPT ![p] = c]
At(p, pc) == call[p].pc = pc /\ call[p].todo = <<>>
Put(i) == <<"iput", i>>
Unlock(i) == <<"iunlock", i>>

\* p gets the lock of its inode ip, which is not free: ilock returns.
ilock(p) == lock[call[p].ip] = None /\ Loaded(call[p].ip).type # "none"

\* The call has failed or is done, after todo.
End(p, todo) == Goto(p, Call("end", call[p].op, <<>>, None, None, todo))

-----------------------------------------------------------------------------
(* iunlock and iput: the first of todo.                                    *)

Todo(p, what) == call[p].todo # <<>> /\ Head(call[p].todo)[1] = what
Inode(p) == Head(call[p].todo)[2]
Pop(p) == call' = [call EXCEPT ![p].todo = Tail(@)]
Then(p, what) == call' = [call EXCEPT ![p].todo[1] = <<what, Inode(p)>>]

iunlock(p) ==
  /\ Todo(p, "iunlock")
  /\ lock' = [lock EXCEPT ![Inode(p)] = None]
  /\ Pop(p)
  /\ UNCHANGED <<disk, ref, valid, mem, cwd, ofile, calls, crashes, panicked, ghosts>>

\* The last reference to an inode without links: iput will free it.
LastRef(i) == ref[i] = 1 /\ valid[i] /\ mem[i].nlink = 0

\* iput under itable.lock: take the lock of an inode to free, or drop a reference.
iput(p) ==
  /\ Todo(p, "iput")
  /\ LET i == Inode(p)
     IN  IF LastRef(i)
         THEN /\ lock[i] = None
              /\ lock' = [lock EXCEPT ![i] = p]
              /\ Then(p, "free")
              /\ UNCHANGED ref
         ELSE /\ ref' = [ref EXCEPT ![i] = @ - 1]
              /\ Pop(p)
              /\ UNCHANGED lock
  /\ UNCHANGED <<disk, valid, mem, cwd, ofile, calls, crashes, panicked, ghosts>>

\* itrunc, ip->type = 0, iupdate: from here ialloc may take the inode.
iput_free(p) ==
  /\ Todo(p, "free")
  /\ LET i == Inode(p)
         t == itrunc(disk, i, mem[i])
         n == [t.n EXCEPT !.type = "none"]
     IN  /\ disk' = iupdate(t.d, i, n)
         /\ mem' = [mem EXCEPT ![i] = n]
         /\ removed' = removed \ {i}
         /\ orphans' = orphans \ {i}
         /\ lost' = [j \in Inums |->
              IF j = i THEN 0
              ELSE lost[j] + Cardinality({e \in Names : disk.ents[i][e] = j})]
  /\ Then(p, "freed")
  /\ UNCHANGED <<ref, valid, lock, cwd, ofile, calls, crashes, panicked, work>>

\* ip->valid = 0, releasesleep.
iput_freed(p) ==
  /\ Todo(p, "freed")
  /\ valid' = [valid EXCEPT ![Inode(p)] = FALSE]
  /\ lock' = [lock EXCEPT ![Inode(p)] = None]
  /\ Then(p, "unref")
  /\ UNCHANGED <<disk, ref, mem, cwd, ofile, calls, crashes, panicked, ghosts>>

\* acquire itable.lock again, ip->ref--.
iput_unref(p) ==
  LET i == Inode(p)
  IN  /\ Todo(p, "unref")
      /\ ref' = [ref EXCEPT ![i] = @ - 1]
      /\ Pop(p)
      /\ orphans' = IF ref[i] = 1 /\ disk.inode[i].type # "none" /\ disk.inode[i].nlink = 0
                    THEN orphans \cup {i} ELSE orphans
      /\ UNCHANGED <<disk, valid, lock, mem, cwd, ofile, calls, crashes, panicked,
                     removed, lost, work>>

-----------------------------------------------------------------------------
(* namex, and the system calls.                                            *)

\* Calls whose (first) path is resolved by nameiparent.
ParentOps == {"create", "mkdir", "mknod", "unlink", "link2"}

\* begin_op and the start of namex: from the root or from the current directory.
start(p) ==
  /\ At(p, "user") /\ p \in work.procs /\ calls < work.calls
  /\ calls' = calls + 1
  /\ \E op \in work.ops \ {"write", "close"}, path \in Paths, from \in {ROOTINO, cwd[p]} :
       /\ iget(from)
       /\ Goto(p, Call("walk", op, path, None, from, <<>>))
  /\ UNCHANGED <<disk, lock, mem, cwd, ofile, crashes, panicked, ghosts>>

\* nameiparent or namei of the call of p fails, with ip still to be put; sys_link
\* then takes its link back.
walk_fails(p, todo) ==
  IF call[p].op = "link2"
  THEN Goto(p, Call("bad", "link", <<>>, None, call[p].dp, todo))
  ELSE End(p, todo)

\* One element of the path: ilock, dirlookup with its iget, iunlock; then iput.
namex(p) ==
  LET c == call[p]
      i == c.ip
      last == c.op \in ParentOps /\ Len(c.path) = 1
      next == disk.ents[i][c.path[1]]
      isdir == Loaded(i).type = "dir"
  IN  /\ At(p, "walk") /\ c.path # <<>> /\ ilock(p)
      /\ mem' = [mem EXCEPT ![i] = Loaded(i)]
      /\ \/ /\ ~isdir \/ (~last /\ next = None)
            /\ walk_fails(p, <<Put(i)>>)
            /\ valid' = [valid EXCEPT ![i] = TRUE]
            /\ UNCHANGED ref
         \/ /\ isdir /\ last
            /\ Goto(p, [c EXCEPT !.pc = "parent"])
            /\ valid' = [valid EXCEPT ![i] = TRUE]
            /\ UNCHANGED ref
         \/ /\ isdir /\ ~last /\ next # None
            /\ ref' = [ref EXCEPT ![next] = @ + 1]
            /\ valid' = [valid EXCEPT ![i] = TRUE, ![next] = @ /\ ref[next] > 0]
            /\ Goto(p, [c EXCEPT !.path = Tail(@), !.ip = next, !.todo = <<Put(i)>>])
      /\ UNCHANGED <<disk, lock, cwd, ofile, calls, crashes, panicked, ghosts>>

\* The path is used up: namei has its inode, nameiparent fails.
namex_end(p) ==
  LET c == call[p]
  IN  /\ At(p, "walk") /\ c.path = <<>>
      /\ IF c.op \in ParentOps THEN walk_fails(p, <<Put(c.ip)>>)
         ELSE Goto(p, [c EXCEPT !.pc = "found"])
      /\ UNCHANGED <<disk, itable, cwd, ofile, calls, crashes, panicked, ghosts>>

\* The rest of sys_open, with ip locked by p: filealloc, fdalloc, O_TRUNC and
\* iunlock.  n is the copy of ip.
opened(p, ip, n, trunc) ==
  LET t == itrunc(disk, ip, n)
  IN  /\ valid' = [valid EXCEPT ![ip] = TRUE]
      /\ lock' = [lock EXCEPT ![ip] = None]
      /\ IF ofile[p] # None
         THEN End(p, <<Put(ip)>>) /\ mem' = [mem EXCEPT ![ip] = n] /\ UNCHANGED <<disk, ofile>>
         ELSE /\ ofile' = [ofile EXCEPT ![p] = ip]
              /\ IF trunc /\ n.type = "file"
                 THEN disk' = t.d /\ mem' = [mem EXCEPT ![ip] = t.n]
                 ELSE mem' = [mem EXCEPT ![ip] = n] /\ UNCHANGED disk
              /\ End(p, <<>>)
      /\ UNCHANGED <<ref, cwd, calls, crashes, panicked, ghosts>>

\* Mutant: ip is unlocked and not put.
refused_kept(p, ip, n) ==
  /\ valid' = [valid EXCEPT ![ip] = TRUE]
  /\ mem' = [mem EXCEPT ![ip] = n]
  /\ End(p, <<>>)
  /\ UNCHANGED <<disk, ref, lock, cwd, ofile, calls, crashes, panicked, ghosts>>

\* ip is locked, found wanting, unlocked and put.
refused(p, ip, n) ==
  /\ valid' = [valid EXCEPT ![ip] = TRUE]
  /\ mem' = [mem EXCEPT ![ip] = n]
  /\ End(p, <<Put(ip)>>)
  /\ UNCHANGED <<disk, ref, lock, cwd, ofile, calls, crashes, panicked, ghosts>>

\* sys_open without O_CREATE, from ilock: "open" is O_RDONLY, "trunc" O_RDWR | O_TRUNC.
sys_open(p) ==
  LET c == call[p]
      n == Loaded(c.ip)
      wrong == n.type = "dir" /\ c.op = "trunc"
  IN  /\ At(p, "found") /\ c.op \in {"open", "trunc"} /\ ilock(p)
      /\ \/ wrong /\ refused(p, c.ip, n)
         \/ ~wrong /\ opened(p, c.ip, n, c.op = "trunc")

\* sys_chdir from ilock; p->cwd is p's own.
sys_chdir(p) ==
  LET c == call[p]
      n == Loaded(c.ip)
  IN  /\ At(p, "found") /\ c.op = "chdir" /\ ilock(p)
      /\ \/ n.type # "dir" /\ refused(p, c.ip, n)
         \/ /\ n.type = "dir"
            /\ valid' = [valid EXCEPT ![c.ip] = TRUE]
            /\ mem' = [mem EXCEPT ![c.ip] = n]
            /\ cwd' = [cwd EXCEPT ![p] = c.ip]
            /\ End(p, <<Put(cwd[p])>>)
            /\ UNCHANGED <<disk, ref, lock, ofile, calls, crashes, panicked, ghosts>>

\* The copy of ip becomes n, in memory and on the disk d.
Update(d, ip, n) ==
  /\ disk' = iupdate(d, ip, n)
  /\ mem' = [mem EXCEPT ![ip] = n]

\* Mutant: the new link is not counted.
link_uncounted(p) ==
  LET c == call[p]
      n == Loaded(c.ip)
  IN  /\ At(p, "found") /\ c.op = "link" /\ ilock(p)
      /\ \/ n.type = "dir" /\ refused(p, c.ip, n)
         \/ /\ n.type # "dir"
            /\ Update(disk, c.ip, n)
            /\ \E new \in Paths, from \in {ROOTINO, cwd[p]} :
                 /\ ref' = [ref EXCEPT ![from] = @ + 1]
                 /\ valid' = [valid EXCEPT ![c.ip] = TRUE, ![from] = @ /\ ref[from] > 0]
                 /\ Goto(p, Call("walk", "link2", new, c.ip, from, <<>>))
            /\ UNCHANGED <<lock, cwd, ofile, calls, crashes, panicked, ghosts>>

\* sys_link from ilock(ip): the new link is counted before it is made; then
\* nameiparent(new) starts.
sys_link(p) ==
  LET c == call[p]
      n == Loaded(c.ip)
  IN  /\ At(p, "found") /\ c.op = "link" /\ ilock(p)
      /\ \/ n.type = "dir" /\ refused(p, c.ip, n)
         \/ /\ n.type # "dir"
            /\ Update(disk, c.ip, [n EXCEPT !.nlink = @ + 1])
            /\ \E new \in Paths, from \in {ROOTINO, cwd[p]} :
                 /\ ref' = [ref EXCEPT ![from] = @ + 1]
                 /\ valid' = [valid EXCEPT ![c.ip] = TRUE, ![from] = @ /\ ref[from] > 0]
                 /\ Goto(p, Call("walk", "link2", new, c.ip, from, <<>>))
            /\ UNCHANGED <<lock, cwd, ofile, calls, crashes, panicked, ghosts>>

\* sys_link from ilock(dp); c.dp is the inode to be linked.
link_new(p) ==
  LET c == call[p]
      dp == c.ip
  IN  /\ At(p, "parent") /\ c.op = "link2" /\ ilock(p)
      /\ \E l \in {dirlink(disk, dp, Loaded(dp), c.path[1], c.dp)} :
           /\ disk' = l.d
           /\ mem' = [mem EXCEPT ![dp] = l.n]
           /\ IF l.ok THEN End(p, <<Put(dp), Put(c.dp)>>) ELSE walk_fails(p, <<Put(dp)>>)
      /\ valid' = [valid EXCEPT ![dp] = TRUE]
      /\ UNCHANGED <<ref, lock, cwd, ofile, calls, crashes, panicked, ghosts>>

\* Mutant: a link that failed stays counted.
link_bad_counted(p) ==
  /\ At(p, "bad") /\ ilock(p)
  /\ End(p, <<Put(call[p].ip)>>)
  /\ UNCHANGED <<disk, itable, cwd, ofile, calls, crashes, panicked, ghosts>>

\* sys_link at bad.
link_bad(p) ==
  LET ip == call[p].ip
      n == Loaded(ip)
  IN  /\ At(p, "bad") /\ ilock(p)
      /\ Update(disk, ip, [n EXCEPT !.nlink = @ - 1])
      /\ valid' = [valid EXCEPT ![ip] = TRUE]
      /\ End(p, <<Put(ip)>>)
      /\ UNCHANGED <<ref, lock, cwd, ofile, calls, crashes, panicked, ghosts>>

\* sys_unlink from ilock(dp): dirlookup; dp stays locked while p waits for ip.
sys_unlink(p) ==
  LET c == call[p]
      dp == c.ip
      ip == disk.ents[dp][c.path[1]]
  IN  /\ At(p, "parent") /\ c.op = "unlink" /\ ilock(p)
      /\ mem' = [mem EXCEPT ![dp] = Loaded(dp)]
      /\ IF c.path[1] = ".." \/ ip = None
         THEN /\ valid' = [valid EXCEPT ![dp] = TRUE]
              /\ End(p, <<Put(dp)>>)
              /\ UNCHANGED <<ref, lock>>
         ELSE /\ lock' = [lock EXCEPT ![dp] = p]
              /\ ref' = [ref EXCEPT ![ip] = @ + 1]
              /\ valid' = [valid EXCEPT ![dp] = TRUE, ![ip] = @ /\ ref[ip] > 0]
              /\ Goto(p, [c EXCEPT !.pc = "victim", !.dp = dp, !.ip = ip])
      /\ UNCHANGED <<disk, cwd, ofile, calls, crashes, panicked, ghosts>>

\* sys_unlink from ilock(ip).  ip is locked until after iunlockput(dp), so that
\* nobody sees whether its nlink falls before that or, as in the code, after.
unlink_victim(p) ==
  LET c == call[p]
      dp == c.dp
      ip == c.ip
      n == Loaded(ip)
      isdir == n.type = "dir"
      dn == IF isdir THEN [mem[dp] EXCEPT !.nlink = @ - 1] ELSE mem[dp]
  IN  /\ At(p, "victim") /\ ilock(p) /\ n.nlink > 0
      /\ \/ /\ isdir /\ ~isdirempty(disk, ip)
            /\ valid' = [valid EXCEPT ![ip] = TRUE]
            /\ mem' = [mem EXCEPT ![ip] = n]
            /\ End(p, <<Put(ip), Unlock(dp), Put(dp)>>)
            /\ UNCHANGED <<disk, ref, lock, cwd, ofile, calls, crashes, panicked, ghosts>>
         \/ /\ isdir => isdirempty(disk, ip)
            /\ disk' = iupdate(iupdate([disk EXCEPT !.ents[dp][c.path[1]] = None], dp, dn),
                               ip, [n EXCEPT !.nlink = @ - 1])
            /\ mem' = [mem EXCEPT ![dp] = dn, ![ip] = [n EXCEPT !.nlink = @ - 1]]
            /\ lock' = [lock EXCEPT ![ip] = p]
            /\ valid' = [valid EXCEPT ![ip] = TRUE]
            /\ removed' = IF isdir THEN removed \cup {ip} ELSE removed
            /\ End(p, <<Unlock(dp), Put(dp), Unlock(ip), Put(ip)>>)
            /\ UNCHANGED <<ref, cwd, ofile, calls, crashes, panicked, lost, orphans, work>>

\* The type that create is called with.
TypeOf(op) == CASE op = "mkdir" -> "dir" [] op = "mknod" -> "dev" [] OTHER -> "file"

\* Free inodes.  ialloc locks one block of inodes at a time and takes the first
\* free one it meets; others free and take inodes meanwhile.
ialloc_free == {i \in Inums : disk.inode[i].type = "none"}

\* create from ilock(dp): the name exists, or ialloc and its iget with dp locked.
create(p) ==
  LET c == call[p]
      dp == c.ip
      old == disk.ents[dp][c.path[1]]
  IN  /\ At(p, "parent") /\ c.op \in {"create", "mkdir", "mknod"} /\ ilock(p)
      /\ mem' = [mem EXCEPT ![dp] = Loaded(dp)]
      /\ \/ /\ old # None
            /\ ref' = [ref EXCEPT ![old] = @ + 1]
            /\ valid' = [valid EXCEPT ![dp] = TRUE, ![old] = @ /\ ref[old] > 0]
            /\ Goto(p, [c EXCEPT !.pc = "exists", !.ip = old, !.todo = <<Put(dp)>>])
            /\ UNCHANGED <<disk, lock>>
         \/ /\ old = None /\ ialloc_free = {}
            /\ valid' = [valid EXCEPT ![dp] = TRUE]
            /\ End(p, <<Put(dp)>>)
            /\ UNCHANGED <<disk, ref, lock>>
         \/ /\ old = None
            /\ \E ip \in ialloc_free :
                 /\ disk' = iupdate(disk, ip, Node(TypeOf(c.op), 0, NoAddrs))
                 /\ ref' = [ref EXCEPT ![ip] = @ + 1]
                 /\ valid' = [valid EXCEPT ![dp] = TRUE, ![ip] = @ /\ ref[ip] > 0]
                 /\ Goto(p, [c EXCEPT !.pc = "new", !.dp = dp, !.ip = ip])
            /\ lock' = [lock EXCEPT ![dp] = p]
      /\ UNCHANGED <<cwd, ofile, calls, crashes, panicked, ghosts>>

\* create when the name exists, from ilock(ip).
create_exists(p) ==
  LET c == call[p]
      n == Loaded(c.ip)
  IN  /\ At(p, "exists") /\ ilock(p)
      /\ \/ c.op = "create" /\ n.type \in {"file", "dev"} /\ opened(p, c.ip, n, FALSE)
         \/ (c.op # "create" \/ n.type = "dir") /\ refused(p, c.ip, n)

\* Mutant: ".." of a new directory is entered like ".".
OwnEntries_self(d, dp, ip, n) ==
  IF n.type = "dir" THEN dirlink(iupdate(d, ip, n), ip, n, "..", ip)
  ELSE [d |-> iupdate(d, ip, n), n |-> n, ok |-> TRUE]

\* create from ilock(ip): nlink = 1, and the entries of a new directory.
OwnEntries(d, dp, ip, n) ==
  IF n.type = "dir" THEN dirlink(iupdate(d, ip, n), ip, n, "..", dp)
  ELSE [d |-> iupdate(d, ip, n), n |-> n, ok |-> TRUE]

\* The end of create: ".." is counted in the parent; at fail, nlink = 0.
Outcome(dp, ip, own, l) ==
  LET dn == IF own.n.type = "dir" THEN [l.n EXCEPT !.nlink = @ + 1] ELSE l.n
      n0 == [own.n EXCEPT !.nlink = 0]
  IN  IF l.ok THEN [ok |-> TRUE, d |-> iupdate(l.d, dp, dn), dn |-> dn, n |-> own.n]
      ELSE [ok |-> FALSE, d |-> iupdate(l.d, ip, n0), dn |-> l.n, n |-> n0]

ParentEntry(dp, dn, ip, name, own) ==
  Outcome(dp, ip, own, IF own.ok THEN dirlink(own.d, dp, dn, name, ip)
                       ELSE [d |-> own.d, n |-> dn, ok |-> FALSE])

Created(d, dp, dn, ip, n, name) ==
  ParentEntry(dp, dn, ip, name, OwnEntries(d, dp, ip, [n EXCEPT !.nlink = 1]))

\* create from ilock(ip) of a new inode; ip stays locked for sys_open.
create_new(p) ==
  LET c == call[p]
      unlockput(i) == <<Unlock(i), Put(i)>>
  IN  /\ At(p, "new") /\ ilock(p)
      /\ \E r \in {Created(disk, c.dp, mem[c.dp], c.ip, Loaded(c.ip), c.path[1])} :
           /\ disk' = r.d
           /\ mem' = [mem EXCEPT ![c.dp] = r.dn, ![c.ip] = r.n]
           /\ IF ~r.ok THEN End(p, unlockput(c.ip) \o unlockput(c.dp))
              ELSE IF c.op = "create"
              THEN Goto(p, [c EXCEPT !.pc = "created", !.todo = unlockput(c.dp)])
              ELSE End(p, unlockput(c.dp) \o unlockput(c.ip))
      /\ valid' = [valid EXCEPT ![c.ip] = TRUE]
      /\ lock' = [lock EXCEPT ![c.ip] = p]
      /\ UNCHANGED <<ref, cwd, ofile, calls, crashes, panicked, ghosts>>

\* sys_open with the inode that create made and locked.
create_open(p) == At(p, "created") /\ opened(p, call[p].ip, mem[call[p].ip], FALSE)

\* filewrite of one block of p's open file, at an offset within it; a directory
\* is not writable and a device has no blocks.
sys_write(p) ==
  LET i == ofile[p]
      n == Loaded(i)
  IN  /\ "write" \in work.ops /\ At(p, "user") /\ p \in work.procs /\ calls < work.calls
      /\ i # None /\ n.type = "file" /\ lock[i] = None
      /\ \E bn \in 0 .. NDIRECT + NINDIRECT - 1 : \E w \in {writei(disk, i, n, bn)} :
           /\ bn <= Size(disk, n.addrs)
           /\ disk' = w.d
           /\ mem' = [mem EXCEPT ![i] = w.n]
      /\ valid' = [valid EXCEPT ![i] = TRUE]
      /\ calls' = calls + 1
      /\ UNCHANGED <<ref, lock, cwd, ofile, call, crashes, panicked, ghosts>>

\* sys_close: the last reference to the file, so fileclose puts the inode.
sys_close(p) ==
  /\ "close" \in work.ops /\ At(p, "user") /\ p \in work.procs /\ calls < work.calls /\ ofile[p] # None
  /\ calls' = calls + 1
  /\ ofile' = [ofile EXCEPT ![p] = None]
  /\ End(p, <<Put(ofile[p])>>)
  /\ UNCHANGED <<disk, itable, cwd, crashes, panicked, ghosts>>

\* ilock panics on a free inode, wherever it is called, and sys_unlink on an inode
\* without links.
panic(p) ==
  LET c == call[p]
      n == Loaded(c.ip)
      nolink == c.pc = "victim" /\ n.nlink < 1
  IN  /\ c.todo = <<>> /\ (c.pc = "walk" => c.path # <<>>)
      /\ c.pc \in {"walk", "found", "parent", "bad", "victim", "exists", "new"}
      /\ lock[c.ip] = None /\ (n.type = "none" \/ nolink)
      /\ panicked' = IF n.type = "none" THEN "ilock: no type" ELSE "unlink: nlink < 1"
      /\ UNCHANGED <<disk, itable, cwd, ofile, call, calls, crashes, ghosts>>

end_op(p) ==
  /\ At(p, "end")
  /\ Goto(p, User)
  /\ UNCHANGED <<disk, itable, cwd, ofile, calls, crashes, panicked, ghosts>>

\* Power failure: memory is lost; every process starts again in the root.
Quiet == \A p \in Procs : At(p, "user")

crash ==
  /\ Quiet /\ panicked = "" /\ crashes < MaxCrashes
  /\ crashes' = crashes + 1
  /\ ref' = [i \in Inums |-> IF i = ROOTINO THEN Cardinality(Procs) ELSE 0]
  /\ valid' = [i \in Inums |-> FALSE]
  /\ cwd' = [p \in Procs |-> ROOTINO]
  /\ ofile' = [p \in Procs |-> None]
  /\ orphans' = orphans \cup {i \in Inums : disk.inode[i].type # "none" /\ disk.inode[i].nlink = 0}
  /\ UNCHANGED <<disk, lock, mem, call, calls, panicked, removed, lost, work>>

step(p) ==
  /\ panicked = ""
  /\ \/ start(p) \/ namex(p) \/ namex_end(p)
     \/ sys_open(p) \/ sys_chdir(p) \/ sys_link(p) \/ link_new(p) \/ link_bad(p)
     \/ sys_unlink(p) \/ unlink_victim(p)
     \/ create(p) \/ create_exists(p) \/ create_new(p) \/ create_open(p)
     \/ sys_write(p) \/ sys_close(p) \/ end_op(p) \/ panic(p)
     \/ iunlock(p) \/ iput(p) \/ iput_free(p) \/ iput_freed(p) \/ iput_unref(p)

\* Nothing is left to do; any other state without a step is a deadlock.
idle == (panicked # "" \/ (Quiet /\ calls = work.calls)) /\ UNCHANGED vars

Next == (\E p \in Procs : step(p)) \/ crash \/ idle
Spec == Init /\ [][Next]_vars

-----------------------------------------------------------------------------
(* Properties.                                                             *)

Allocated == {i \in Inums : disk.inode[i].type # "none"}
Dirs == {i \in Inums : disk.inode[i].type = "dir"}

\* No name is left dangling: an entry of a directory names an allocated inode,
\* whatever calls are in progress (iput frees an inode only when sys_unlink has
\* removed its last name).  The one exception is ".." of a directory that was
\* itself removed: nothing keeps its parent, and on it alone the kernel panics.
NamesResolve ==
  /\ \A d \in Dirs, e \in Elems :
       disk.ents[d][e] # None /\ (e = ".." => d \notin removed)
         => disk.ents[d][e] \in Allocated
  /\ panicked # "" => panicked = "ilock: no type" /\ removed # {}

\* The link count of an inode is the number of its names, and for a directory of
\* the ".." of its subdirectories, when no call is in progress: calls that fail
\* half way (no block, no inode, name exists) leave no link counted or missing.
\* Names in a removed directory that is freed are lost without being uncounted.
\* An inode without links is still in use, or was left by a power failure, or by
\* an iput that had freed it and dropped its reference only after another process
\* had reused and unlinked it.
LinkCounts ==
  Quiet =>
    \A i \in Allocated :
      /\ disk.inode[i].nlink =
        (IF i = ROOTINO THEN 1 ELSE 0)
        + Cardinality({<<d, e>> \in Dirs \X Names : disk.ents[d][e] = i})
        + Cardinality({d \in Dirs \ (removed \cup {ROOTINO}) : disk.ents[d][".."] = i})
        + lost[i]
      /\ disk.inode[i].nlink = 0 =>
           i \in orphans \cup {cwd[p] : p \in Procs} \cup {ofile[p] : p \in Procs}

\* The bitmap marks exactly the blocks of the allocated inodes, and no block has
\* two owners or two places in a file (balloc, bmap, itrunc, iput).
BlocksExact ==
  LET own(i) == BlocksOf(disk, disk.inode[i].addrs)
  IN  /\ disk.used = UNION {own(i) : i \in Allocated}
      /\ \A i, j \in Allocated : i # j => own(i) \cap own(j) = {}

\* "If that was the last reference and the inode has no links to it, free the
\* inode (and its content) on disk" (iput).
UnlinkedIsFreed ==
  Quiet /\ crashes = 0 =>
    \A i \in Allocated : disk.inode[i].nlink = 0 =>
      i \in {cwd[p] : p \in Procs} \cup {ofile[p] : p \in Procs}

\* References are neither leaked nor dropped twice on any path of any call, and
\* "ip->ref == 1 means no other process can have ip locked, so this
\* acquiresleep() won't block (or deadlock)" (iput): it would sleep with
\* itable.lock held.
RefsExact ==
  /\ Quiet => \A i \in Inums :
       ref[i] = Cardinality({p \in Procs : cwd[p] = i}) + Cardinality({p \in Procs : ofile[p] = i})
  /\ \A p \in Procs : Todo(p, "iput") /\ LastRef(Inode(p)) => lock[Inode(p)] = None

\* Every directory that was not removed has exactly one name, and it is in the
\* directory that its ".." names: link, unlink and create never make two parents,
\* and never leave ".." to a directory that lost the name.
Tree ==
  \A d \in Dirs \ (removed \cup {ROOTINO}) :
    Quiet =>
      /\ Cardinality({<<q, e>> \in Dirs \X Names : disk.ents[q][e] = d}) = 1
      /\ \E e \in Names : disk.ents[disk.ents[d][".."]][e] = d
=============================================================================
