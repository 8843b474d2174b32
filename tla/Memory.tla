------------------------------- MODULE Memory -------------------------------
(***************************************************************************)
(* Physical pages (kernel/kalloc.c), page tables (kernel/vm.c) and the     *)
(* calls that build, copy, resize, replace and free the memory of a        *)
(* process: fork, wait, sbrk (kernel/proc.c) and exec (kernel/exec.c).     *)
(*                                                                         *)
(* A page table belongs to one process, so that only the list of free      *)
(* pages is shared: what others do shows in kalloc failing, at any of its  *)
(* calls.  A call is one step.  A page table has two levels here, the root *)
(* and its tables; Sv39 has a third, which walk and freewalk treat alike.  *)
(* Sizes are in half pages, so that they need not be page-aligned.         *)
(***************************************************************************)
EXTENDS Integers, Sequences, FiniteSets, FiniteSetsExt

CONSTANTS
  NPROC,
  Memories,   \* numbers of physical pages to start with
  ROOT,       \* entries of the root table and
  FAN,        \* of the others (512 in the code)
  Programs,   \* programs to exec: whether an ELF file, and its segments
  Amounts,    \* arguments of sbrk
  MAXUINT,    \* 2^64 in the code
  MaxCalls    \* bound: system calls

ASSUME MemoryAssumption ==
  /\ NPROC \in Nat \ {0} /\ FAN \in Nat \ {0, 1} /\ ROOT \in Nat \ {0}
  \* Boot has the pages it needs, and memory runs out before addresses do.
  /\ \A n \in Memories : n \in 5 .. ROOT * FAN + ROOT - 1

None == 0
Procs == 1 .. NPROC
Vpns == 0 .. ROOT * FAN - 1
TRAMPOLINE == ROOT * FAN - 1
TRAPFRAME == ROOT * FAN - 2
Kernel == -1      \* the page of the trampoline code, not in the allocator
PGSIZE == 2
PGROUNDUP(sz) == ((sz + PGSIZE - 1) \div PGSIZE) * PGSIZE
Pages(sz) == PGROUNDUP(sz) \div PGSIZE

\* What a page holds: zeros, what kalloc and kfree fill in, a segment of a
\* program, or what a process stored.
Zero == "zero"
Junk == "junk"
Text == "text"
Stored == "stored"

VARIABLES
  mem,       \* free: the free list; data: what is in the pages
  proc,      \* the trapframe, page table and size of a process
  pipes,     \* pages that hold pipes
  calls,
  last,      \* the last call: its name, the process, whether it succeeded
  panicked,
  npages     \* the memory of the machine

vars == <<mem, proc, pipes, calls, last, panicked, npages>>

NoPte == [pa |-> None, user |-> FALSE]
NoTable == [root |-> None, dir |-> [i \in 0 .. ROOT - 1 |-> None], pte |-> [v \in Vpns |-> NoPte]]
Unused == [trapframe |-> None, pt |-> NoTable, sz |-> 0]

-----------------------------------------------------------------------------
(* kalloc.c.  The order of the free list is left out.                      *)

kalloc(m) ==
  IF m.free = {} THEN [m |-> m, pa |-> None]
  ELSE [m |-> [m EXCEPT !.free = @ \ {Min(m.free)}, !.data[Min(m.free)] = Junk],
        pa |-> Min(m.free)]

kfree(m, pages) ==
  [free |-> m.free \cup pages,
   data |-> [a \in DOMAIN m.data |-> IF a \in pages THEN Junk ELSE m.data[a]]]

-----------------------------------------------------------------------------
(* vm.c.  s is the memory m and the page table pt that an operation works  *)
(* on; ok is its result, bad the argument of panic, and sz what is returned.*)

Work(m, pt) == [m |-> m, pt |-> pt, ok |-> TRUE, bad |-> "", sz |-> 0]
Fail(s) == [s EXCEPT !.ok = FALSE]
Panic(s, why) == [s EXCEPT !.ok = FALSE, !.bad = IF @ = "" THEN why ELSE @]

\* walk with alloc: the table for page v is allocated if need be.
NewTable(s, i, k) ==
  IF k.pa = None THEN Fail(s) ELSE [s EXCEPT !.m = k.m, !.pt.dir[i] = k.pa]
walk(s, v) ==
  IF s.pt.dir[v \div FAN] # None THEN s ELSE NewTable(s, v \div FAN, kalloc(s.m))

\* mappages of one page.
Enter(s, v, pte) ==
  IF ~s.ok THEN s
  ELSE IF s.pt.pte[v] # NoPte THEN Panic(s, "mappages: remap")
  ELSE [s EXCEPT !.pt.pte[v] = pte]
mappages(s, v, pa, user) == Enter(walk(s, v), v, [pa |-> pa, user |-> user])

\* uvmunmap of n pages from v, which must be mapped.
uvmunmap(s, v, n, do_free) ==
  LET vs == v .. v + n - 1
  IN  IF \E x \in vs : s.pt.pte[x] = NoPte THEN Panic(s, "uvmunmap: not mapped")
      ELSE [s EXCEPT !.m = IF do_free THEN kfree(@, {s.pt.pte[x].pa : x \in vs}) ELSE @,
                     !.pt.pte = [x \in Vpns |-> IF x \in vs THEN NoPte ELSE @[x]]]

\* uvmcreate
Created(m, k) == IF k.pa = None THEN Fail(Work(m, NoTable)) ELSE Work(k.m, [NoTable EXCEPT !.root = k.pa])
uvmcreate(m) == Created(m, kalloc(m))

\* Mutant: a page is unmapped although part of it is still in use.
dealloc_down(s, oldsz, newsz) ==
  IF newsz >= oldsz THEN [s EXCEPT !.sz = oldsz]
  ELSE [uvmunmap(s, newsz \div PGSIZE, Pages(oldsz) - newsz \div PGSIZE, TRUE) EXCEPT !.sz = newsz]

uvmdealloc(s, oldsz, newsz) ==
  IF newsz >= oldsz THEN [s EXCEPT !.sz = oldsz]
  ELSE [uvmunmap(s, Pages(newsz), Pages(oldsz) - Pages(newsz), TRUE) EXCEPT !.sz = newsz]

\* Mutant: the pages allocated before the failure are kept.
Undo_not(t, v, oldsz) == Fail(t)

\* The end of uvmalloc on failure at page v, with t the state to clean up.
Undo(t, v, oldsz) == Fail(uvmdealloc([t EXCEPT !.ok = TRUE], v * PGSIZE, oldsz))

\* The page pa was allocated for v and mapped, or not, giving t.
Grown(t, v, pa, oldsz) ==
  IF t.ok THEN t ELSE IF t.bad # "" THEN t ELSE Undo([t EXCEPT !.m = kfree(@, {pa})], v, oldsz)

\* uvmalloc: pages v .. upto, zeroed, one after the other; oldsz is page-aligned.
GrowBy(s, v, k, oldsz) ==
  IF k.pa = None THEN Undo(s, v, oldsz)
  ELSE Grown(mappages([s EXCEPT !.m = [k.m EXCEPT !.data[k.pa] = Zero]], v, k.pa, TRUE),
             v, k.pa, oldsz)

RECURSIVE Grow(_, _, _, _)
Grow(s, v, upto, oldsz) ==
  IF v > upto \/ ~s.ok THEN s ELSE Grow(GrowBy(s, v, kalloc(s.m), oldsz), v + 1, upto, oldsz)

\* uvmalloc; ok is FALSE when it returns 0.
Sized(t, newsz) == [t EXCEPT !.sz = IF t.ok THEN newsz ELSE 0, !.ok = @ /\ newsz > 0]
uvmalloc(s, oldsz, newsz) ==
  IF newsz < oldsz THEN [s EXCEPT !.sz = oldsz]
  ELSE Sized(Grow(s, Pages(oldsz), Pages(newsz) - 1, PGROUNDUP(oldsz)), newsz)

\* freewalk: the tables and the root.
freewalk(s) ==
  IF s.bad # "" THEN s
  ELSE IF \E v \in Vpns : s.pt.pte[v] # NoPte THEN Panic(s, "freewalk: leaf")
  ELSE [s EXCEPT !.m = kfree(@, ({s.pt.dir[i] : i \in 0 .. ROOT - 1} \cup {s.pt.root}) \ {None}),
                 !.pt = NoTable]

uvmfree(s, sz) == freewalk(uvmunmap(s, 0, Pages(sz), TRUE))

\* uvmcopy: page v of old into the new page table of s.
Copied(t, v, pa) ==
  IF t.ok \/ t.bad # "" THEN t ELSE Fail(uvmunmap([t EXCEPT !.m = kfree(@, {pa}), !.ok = TRUE], 0, v, TRUE))

\* Mutant: the page is shared.
CopyPage_shared(s, old, v, k) == mappages(s, v, old.pte[v].pa, old.pte[v].user)

CopyPage(s, old, v, k) ==
  IF k.pa = None THEN Fail(uvmunmap(s, 0, v, TRUE))
  ELSE Copied(mappages([s EXCEPT !.m = [k.m EXCEPT !.data[k.pa] = k.m.data[old.pte[v].pa]]],
                       v, k.pa, old.pte[v].user), v, k.pa)

RECURSIVE CopyFrom(_, _, _, _)
CopyFrom(s, old, v, sz) ==
  IF v * PGSIZE >= sz \/ ~s.ok THEN s
  ELSE IF old.pte[v] = NoPte THEN Panic(s, "uvmcopy: page not present")
  ELSE CopyFrom(CopyPage(s, old, v, kalloc(s.m)), old, v + 1, sz)
uvmcopy(s, old, sz) == CopyFrom(s, old, 0, sz)

\* walkaddr: the page at v, if users may use it.
walkaddr(pt, v) == IF v \in Vpns /\ pt.pte[v].user THEN pt.pte[v].pa ELSE None

-----------------------------------------------------------------------------
(* proc.c                                                                  *)

\* proc_pagetable: trampoline and trapframe; nothing is kept on failure.
WithTrapframe(s) ==
  IF s.ok THEN s ELSE Fail(uvmfree(uvmunmap([s EXCEPT !.ok = TRUE], TRAMPOLINE, 1, FALSE), 0))
WithTrampoline(s, trapframe) ==
  IF s.ok THEN WithTrapframe(mappages(s, TRAPFRAME, trapframe, FALSE))
  ELSE Fail(uvmfree([s EXCEPT !.ok = TRUE], 0))
WithRoot(s, trapframe) ==
  IF s.ok THEN WithTrampoline(mappages(s, TRAMPOLINE, Kernel, FALSE), trapframe) ELSE s
proc_pagetable(m, trapframe) == WithRoot(uvmcreate(m), trapframe)

proc_freepagetable(s, sz) ==
  uvmfree(uvmunmap(uvmunmap([s EXCEPT !.ok = TRUE], TRAMPOLINE, 1, FALSE), TRAPFRAME, 1, FALSE), sz)

\* allocproc, with tf from kalloc: the trapframe, then the page table.
HaveTable(s, tf) == IF s.ok THEN s ELSE [s EXCEPT !.m = kfree(@, {tf})]
allocproc(m, tf) ==
  IF tf.pa = None THEN Fail(Work(m, NoTable)) ELSE HaveTable(proc_pagetable(tf.m, tf.pa), tf.pa)

\* freeproc of a process with trapframe tf, page table s.pt and size sz.
freeproc(s, tf, sz) == proc_freepagetable([s EXCEPT !.m = kfree(@, {tf})], sz)

\* Mutant: freeproc after a failed copy does not free the page table.
fork_failed_leaky(s, tf) == Fail([s EXCEPT !.m = kfree(@, {tf})])

\* fork when uvmcopy fails: np->sz is still 0.
fork_failed(s, tf) == Fail(freeproc(s, tf, 0))

Forked(s, tf) == IF s.ok \/ s.bad # "" THEN s ELSE fork_failed(s, tf)
ForkTo(s, tf, p) == IF s.ok THEN Forked(uvmcopy(s, proc[p].pt, proc[p].sz), tf) ELSE s
ForkOf(p) == ForkTo(allocproc(mem, kalloc(mem)), kalloc(mem).pa, p)

-----------------------------------------------------------------------------
(* exec.c.  The size so far is s.sz.  A segment has an address, the sizes  *)
(* it takes in memory and in the file, and whether the file holds it all.  *)

SegmentOk(seg) ==
  /\ seg.memsz >= seg.filesz
  /\ (seg.vaddr + seg.memsz) % MAXUINT >= seg.vaddr
  /\ seg.vaddr % PGSIZE = 0

loadseg(s, seg) ==
  LET vs == seg.vaddr \div PGSIZE .. (seg.vaddr \div PGSIZE) + Pages(seg.filesz) - 1
      pas == {walkaddr(s.pt, v) : v \in vs}
  IN  IF None \in pas THEN Panic(s, "loadseg: address should exist")
      ELSE IF ~seg.complete THEN Fail(s)
      ELSE [s EXCEPT !.m.data = [a \in DOMAIN @ |-> IF a \in pas THEN Text ELSE @[a]]]

\* s is what uvmalloc made of a process of size sz.
Loaded(s, sz, seg) == IF s.ok THEN loadseg(s, seg) ELSE [s EXCEPT !.sz = sz]

LoadSegment(s, seg) ==
  IF SegmentOk(seg) THEN Loaded(uvmalloc(s, s.sz, seg.vaddr + seg.memsz), s.sz, seg) ELSE Fail(s)

RECURSIVE Load(_, _)
Load(s, segs) ==
  IF segs = <<>> \/ ~s.ok THEN s ELSE Load(LoadSegment(s, Head(segs)), Tail(segs))

\* uvmclear of the guard page, and the arguments on the stack above it.
Pushed(s, fit) ==
  IF fit THEN [s EXCEPT !.m.data[s.pt.pte[s.sz \div PGSIZE - 1].pa] = Stored] ELSE Fail(s)
WithGuard(s, sz, fit) ==
  IF s.ok THEN Pushed([s EXCEPT !.pt.pte[s.sz \div PGSIZE - 2].user = FALSE], fit)
  ELSE [s EXCEPT !.sz = sz]
WithStack(s, sz, fit) ==
  IF s.ok THEN WithGuard(uvmalloc(s, sz, sz + 2 * PGSIZE), sz, fit) ELSE s

Bad(s) == Fail(proc_freepagetable(s, s.sz))

Image(s) == IF s.ok \/ s.bad # "" THEN s ELSE Bad(s)

\* The new page table, or none if exec fails.
Build(s, prog, fit) ==
  IF ~s.ok THEN s
  ELSE LET l == Load(s, prog.segs) IN Image(WithStack(l, PGROUNDUP(l.sz), fit))
ImageOf(p, prog, fit) ==
  IF prog.elf THEN Build(proc_pagetable(mem, proc[p].trapframe), prog, fit)
  ELSE Fail(Work(mem, NoTable))

-----------------------------------------------------------------------------
(* System calls                                                            *)

\* p runs: it has not been freed, and has a page to fetch instructions from.
Runs(p) == walkaddr(proc[p].pt, 0) # None

Call(op, p, ok) ==
  /\ panicked = "" /\ calls < MaxCalls
  /\ calls' = calls + 1
  /\ last' = [op |-> op, proc |-> p, ok |-> ok]
  /\ UNCHANGED npages

\* fork, as far as memory goes.
fork(p) ==
  /\ Runs(p)
  /\ LET np == Min({q \in Procs : proc[q] = Unused})
     IN  IF \A q \in Procs : proc[q] # Unused
         THEN Call("fork", p, FALSE) /\ UNCHANGED <<mem, proc, panicked>>
         ELSE \E s \in {ForkOf(p)} :
                /\ Call("fork", p, s.ok)
                /\ mem' = s.m /\ panicked' = s.bad
                /\ proc' = IF s.ok
                           THEN [proc EXCEPT ![np] = [trapframe |-> kalloc(mem).pa, pt |-> s.pt,
                                                      sz |-> proc[p].sz]]
                           ELSE proc
  /\ UNCHANGED pipes

\* p, which has exited or been killed, is freed by wait.
wait(p) ==
  /\ p # 1 /\ proc[p] # Unused
  /\ \E s \in {freeproc(Work(mem, proc[p].pt), proc[p].trapframe, proc[p].sz)} :
       /\ Call("wait", p, TRUE)
       /\ mem' = s.m /\ panicked' = s.bad
  /\ proc' = [proc EXCEPT ![p] = Unused]
  /\ UNCHANGED pipes

\* sys_sbrk and growproc.
Resized(p, n) ==
  LET s == Work(mem, proc[p].pt)
      sz == proc[p].sz
  IN  IF n > 0 THEN uvmalloc(s, sz, sz + n) ELSE uvmdealloc(s, sz, (sz + n) % MAXUINT)
growproc(p, n) ==
  /\ Runs(p)
  /\ \E s \in {Resized(p, n)} :
       /\ Call("sbrk", p, s.ok)
       /\ mem' = s.m /\ panicked' = s.bad
       /\ proc' = [proc EXCEPT ![p].pt = s.pt, ![p].sz = IF s.ok THEN s.sz ELSE @]
  /\ UNCHANGED pipes

\* exec; fit is whether the arguments fit in a page.
exec(p, prog, fit) ==
  /\ Runs(p)
  /\ \E s \in {ImageOf(p, prog, fit)} :
       /\ Call("exec", p, s.ok)
       /\ IF s.ok
          THEN \E old \in {proc_freepagetable(Work(s.m, proc[p].pt), proc[p].sz)} :
                 /\ mem' = old.m /\ panicked' = old.bad
                 /\ proc' = [proc EXCEPT ![p].pt = s.pt, ![p].sz = s.sz]
          ELSE mem' = s.m /\ panicked' = s.bad /\ UNCHANGED proc
  /\ UNCHANGED pipes

\* A call that copies data out to n pages from v: the pages before the first
\* that users may not use are written.
copyout(p, v, n) ==
  /\ Runs(p)
  /\ LET written == {x \in v .. v + n - 1 : \A y \in v .. x : walkaddr(proc[p].pt, y) # None}
         pas == {walkaddr(proc[p].pt, x) : x \in written}
     IN  /\ Call("copyout", p, Cardinality(written) = n)
         /\ mem' = [mem EXCEPT !.data = [a \in DOMAIN @ |-> IF a \in pas THEN Stored ELSE @[a]]]
  /\ UNCHANGED <<proc, pipes, panicked>>

\* pipealloc and pipeclose take and return a page.
pipealloc(p) ==
  /\ Runs(p)
  /\ \E k \in {kalloc(mem)} :
       /\ Call("pipealloc", p, k.pa # None)
       /\ mem' = k.m
       /\ pipes' = pipes \cup ({k.pa} \ {None})
  /\ UNCHANGED <<proc, panicked>>

pipeclose(p) ==
  /\ Runs(p)
  /\ \E pi \in pipes :
       /\ Call("pipeclose", p, TRUE)
       /\ mem' = kfree(mem, {pi})
       /\ pipes' = pipes \ {pi}
  /\ UNCHANGED <<proc, panicked>>

\* kinit and userinit, with s from allocproc and k from kalloc in uvmfirst.
Booted(n) == [free |-> 1 .. n, data |-> [a \in 1 .. n |-> Junk]]
uvmfirst(s, k) ==
  mappages([s EXCEPT !.m = [k.m EXCEPT !.data[k.pa] = Text]], 0, k.pa, TRUE)
userinit(s, tf) ==
  /\ mem = s.m
  /\ proc = [q \in Procs |-> IF q = 1 THEN [trapframe |-> tf, pt |-> s.pt, sz |-> PGSIZE] ELSE Unused]
FirstTable(n) == allocproc(Booted(n), kalloc(Booted(n)))

Init ==
  /\ npages \in Memories
  /\ userinit(uvmfirst(FirstTable(npages), kalloc(FirstTable(npages).m)), kalloc(Booted(npages)).pa)
  /\ pipes = {}
  /\ calls = 0
  /\ last = [op |-> "boot", proc |-> 1, ok |-> TRUE]
  /\ panicked = ""

\* Nothing to do, or no process that can: one that gave up the page it ran in
\* faults and exits.
idle ==
  /\ panicked # "" \/ calls = MaxCalls \/ \A p \in Procs : ~Runs(p)
  /\ UNCHANGED vars

step(p) ==
  \/ fork(p)
  \/ wait(p)
  \/ \E n \in Amounts : growproc(p, n)
  \/ \E prog \in Programs, fit \in BOOLEAN : exec(p, prog, fit)
  \/ \E v \in 0 .. FAN : copyout(p, v, 2)
  \/ pipealloc(p)
  \/ pipeclose(p)

Next == (\E p \in Procs : step(p)) \/ idle

Spec == Init /\ [][Next]_vars

-----------------------------------------------------------------------------
(* Properties                                                              *)

Frames(p) == {v \in Vpns \ {TRAPFRAME, TRAMPOLINE} : proc[p].pt.pte[v] # NoPte}

\* The pages of p, each with the place it is used in.
Used(p) ==
  ({<<"user", p, v, proc[p].pt.pte[v].pa>> : v \in Frames(p)}
     \cup {<<"dir", p, i, proc[p].pt.dir[i]>> : i \in 0 .. ROOT - 1}
     \cup {<<"root", p, 0, proc[p].pt.root>>, <<"trapframe", p, 0, proc[p].trapframe>>})
AllUsed ==
  {u \in UNION {Used(p) : p \in Procs} : u[4] # None}
    \cup {<<"pipe", 0, 0, a>> : a \in pipes} \cup {<<"free", 0, 0, a>> : a \in mem.free}

\* Every page of memory is in exactly one place: the free list, a page table,
\* the memory of one process, a trapframe or a pipe (kalloc.c, vm.c), whatever
\* call failed at whatever kalloc.
PagesConserved ==
  /\ {u[4] : u \in AllUsed} = 1 .. npages
  /\ Cardinality(AllUsed) = npages

\* A process maps exactly the pages below its size, rounded up, besides its
\* own trapframe and the trampoline: what uvmfree and uvmcopy rely on (vm.c).
SizeMatchesMapping ==
  \A p \in Procs : proc[p] # Unused =>
    /\ Frames(p) = 0 .. Pages(proc[p].sz) - 1
    /\ proc[p].pt.pte[TRAPFRAME] = [pa |-> proc[p].trapframe, user |-> FALSE]
    /\ proc[p].pt.pte[TRAMPOLINE] = [pa |-> Kernel, user |-> FALSE]

\* What p can see: page table entries and the contents of its pages.
View(p) == [v \in Frames(p) |-> <<proc[p].pt.pte[v], mem.data[proc[p].pt.pte[v].pa]>>]
Tables == UNION {{proc[p].pt.dir[i] : i \in 0 .. ROOT - 1} : p \in Procs} \ {None}

\* A fork, exec or sbrk that fails leaves the memory and the size of every
\* process as they were, and takes no page but for a page table that stays
\* with its process (the error paths of uvmalloc, uvmcopy, exec and fork).  It
\* never fails by a panic of vm.c (remap, not mapped, leaf, not present) or of
\* loadseg, whatever the argument of sbrk and the file given to exec.
FailsCleanly ==
  [][ /\ panicked' = ""
      /\ last'.op \in {"fork", "exec", "sbrk"} /\ ~last'.ok =>
           /\ \A p \in Procs : View(p)' = View(p) /\ proc'[p].sz = proc[p].sz
           /\ (mem.free \cup Tables)' = mem.free \cup Tables
           /\ (last'.op # "sbrk" => mem'.free = mem.free) ]_vars

\* The process np is new, with the size, data and rights of p, the guard page of
\* its stack included (uvmcopy).
CopyOf(np, p) ==
  /\ proc[np] = Unused
  /\ proc'[np].sz = proc[p].sz
  /\ Frames(np)' = Frames(p)
  /\ \A v \in Frames(p) : /\ View(np)'[v][2] = View(p)[v][2]
                          /\ View(np)'[v][1].user = View(p)[v][1].user

\* A call of p changes nothing that another process, there before and after,
\* can see in its memory, and gives nobody the data of others: fork copies pages
\* and shares none, and memory that sbrk adds is zero, although kalloc returns
\* pages with what others had in them (uvmcopy, uvmalloc).
Isolated ==
  [][ \A p \in Procs : last'.proc = p =>
        /\ \A q \in Procs \ {p} : proc[q] # Unused => View(q)' = View(q)
        /\ last'.op = "fork" /\ last'.ok => \E np \in Procs : CopyOf(np, p)
        /\ last'.op = "sbrk" => \A v \in Frames(p)' \ Frames(p) : View(p)'[v][2] = Zero ]_vars
=============================================================================
