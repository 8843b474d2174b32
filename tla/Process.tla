------------------------------ MODULE Process -------------------------------
(***************************************************************************)
(* Processes (kernel/proc.c: fork, exit, wait, kill, sleep, wakeup), their *)
(* open files (kernel/file.c, the calls on descriptors of                  *)
(* kernel/sysfile.c) and pipes (kernel/pipe.c).                            *)
(*                                                                         *)
(* A step is a critical section of one lock.  wait_lock and the lock of a  *)
(* pipe are variables because a process asks killed(), under its own lock, *)
(* while it holds them: a kill may fall between that question and sleep(). *)
(* sleep() takes p->lock before it lets go of the condition's lock and     *)
(* wakeup() takes it too, so going to sleep is one step.  Which of the     *)
(* processes that are ready runs next, on which CPU, is left open.         *)
(***************************************************************************)
EXTENDS Integers, FiniteSets, FiniteSetsExt

CONSTANTS
  NPROC, NFILE, NOFILE, NPIPE,
  PIPESIZE,
  WRAP,       \* the counters of a pipe are modulo WRAP (2^32 in the code)
  Workloads   \* bound: calls, of the kinds ops, with reads and writes of sizes bytes

ASSUME ProcessAssumption ==
  /\ NPROC \in Nat \ {0, 1}
  /\ PIPESIZE \in Nat \ {0} /\ WRAP \in Nat \ {0}
  /\ WRAP % PIPESIZE = 0 /\ WRAP > PIPESIZE

None == 0
Procs == 1 .. NPROC
initproc == 1
Fds == 1 .. NOFILE
Files == 1 .. NFILE
Pipes == 1 .. NPIPE

VARIABLES
  state,     \* p->state: "unused", "used", "zombie", or "live" for the other three
  chan,      \* what p sleeps on, or NoChan
  parent, killed,
  ofile,     \* p->ofile
  file,      \* ftable.file
  pipe,      \* the pages that hold pipes
  call,      \* what p is doing in the kernel: see Call
  wait_lock, \* its holder
  cut,       \* pipes whose readers a killed writer did not wake
  calls, work

vars == <<state, chan, parent, killed, ofile, file, pipe, call, wait_lock, cut, calls, work>>
procvars == <<state, chan, parent, killed>>
filevars == <<ofile, file, pipe, cut>>

NoChan == <<"none", 0>>
NoFile == [ref |-> 0, pipe |-> None, writable |-> FALSE]
NoPipe == [alloc |-> FALSE, readopen |-> FALSE, writeopen |-> FALSE, nread |-> 0, nwrite |-> 0,
           data |-> [k \in 0 .. PIPESIZE - 1 |-> 0], lock |-> None]

\* p is at pc; obj is the pipe or child concerned, n the bytes still to be
\* written, dirty whether bytes were written since the last wakeup, wr the end
\* of the pipe that is closed, and back where p continues.
Call(pc, obj, n, wr, back) ==
  [pc |-> pc, obj |-> obj, n |-> n, dirty |-> FALSE, wr |-> wr, back |-> back]
At(pc) == Call(pc, None, 0, FALSE, "user")
User == At("user")

\* init waits for its child, the shell.
Init ==
  /\ state = [p \in Procs |-> IF p \in {initproc, 2} THEN "live" ELSE "unused"]
  /\ chan = [p \in Procs |-> NoChan]
  /\ parent = [p \in Procs |-> IF p = 2 THEN initproc ELSE None]
  /\ killed = [p \in Procs |-> FALSE]
  /\ ofile = [p \in Procs |-> [k \in Fds |-> None]]
  /\ file = [f \in Files |-> NoFile]
  /\ pipe = [i \in Pipes |-> NoPipe]
  /\ call = [p \in Procs |-> IF p = initproc THEN At("wait") ELSE User]
  /\ wait_lock = None /\ cut = {}
  /\ calls = 0 /\ work \in Workloads

Ready(p) == state[p] = "live" /\ chan[p] = NoChan
Goto(p, c) == call' = [call EXCEPT ![p] = c]
Return(p) == Goto(p, IF p = initproc THEN At("wait") ELSE User)

\* A system call of p begins.  usertrap first asks killed(p), and then p exits.
Syscall(p, op) ==
  /\ Ready(p) /\ call[p].pc = "user" /\ ~killed[p]
  /\ op \in work.ops /\ calls < work.calls
  /\ calls' = calls + 1

\* chan after wakeup(c), from chan after f.
Wakeup(f, c) == [p \in Procs |-> IF f[p] = c THEN NoChan ELSE f[p]]

-----------------------------------------------------------------------------
(* fork, exit, wait, kill.                                                 *)

\* fork up to release(&np->lock): allocproc, and a reference for every file.
\* Memory does not run out here (see Memory).
fork(p) ==
  LET free == {q \in Procs : state[q] = "unused"}
      np == Min(free)
  IN  /\ Syscall(p, "fork")
      /\ \/ /\ free = {} /\ UNCHANGED <<state, ofile, file, call>>
         \/ /\ free # {}
            /\ state' = [state EXCEPT ![np] = "used"]
            /\ ofile' = [ofile EXCEPT ![np] = ofile[p]]
            /\ file' = [f \in Files |->
                 [file[f] EXCEPT !.ref = @ + Cardinality({k \in Fds : ofile[p][k] = f})]]
            /\ Goto(p, Call("fork", np, 0, FALSE, "user"))
      /\ UNCHANGED <<chan, parent, killed, pipe, cut, wait_lock, work>>

\* np->parent = p, under wait_lock.
fork_parent(p) ==
  /\ Ready(p) /\ call[p].pc = "fork" /\ wait_lock = None
  /\ parent' = [parent EXCEPT ![call[p].obj] = p]
  /\ call' = [call EXCEPT ![p].pc = "forked"]
  /\ UNCHANGED <<state, chan, killed, filevars, wait_lock, calls, work>>

\* np->state = RUNNABLE; the child starts in user space.
fork_runnable(p) ==
  LET np == call[p].obj
  IN  /\ Ready(p) /\ call[p].pc = "forked"
      /\ state' = [state EXCEPT ![np] = "live"]
      /\ call' = [call EXCEPT ![p] = User, ![np] = User]
      /\ UNCHANGED <<chan, parent, killed, filevars, wait_lock, calls, work>>

\* exit, from the system call or because usertrap found p killed.
exit(p) ==
  /\ Ready(p) /\ call[p].pc = "user" /\ p # initproc
  /\ Goto(p, At("exit"))
  /\ UNCHANGED <<procvars, filevars, wait_lock, calls, work>>

\* Mutant: exit gives the children to init without waking it.
exit_zombie_silent(p) ==
  /\ Ready(p) /\ call[p].pc = "exit" /\ ofile[p] = [k \in Fds |-> None]
  /\ wait_lock = None
  /\ parent' = [q \in Procs |-> IF parent[q] = p THEN initproc ELSE parent[q]]
  /\ chan' = Wakeup(chan, <<"wait", parent[p]>>)
  /\ state' = [state EXCEPT ![p] = "zombie"]
  /\ UNCHANGED <<killed, filevars, call, wait_lock, calls, work>>

\* Mutant: exit does not give the children to init.
exit_zombie_keeps(p) ==
  /\ Ready(p) /\ call[p].pc = "exit" /\ ofile[p] = [k \in Fds |-> None]
  /\ wait_lock = None
  /\ chan' = Wakeup(chan, <<"wait", parent[p]>>)
  /\ state' = [state EXCEPT ![p] = "zombie"]
  /\ UNCHANGED <<parent, killed, filevars, call, wait_lock, calls, work>>

\* The rest of exit, under wait_lock, with the files closed: reparent, wakeup of
\* the parent, ZOMBIE.
exit_zombie(p) ==
  LET kids == {q \in Procs : parent[q] = p}
      c1 == IF kids = {} THEN chan ELSE Wakeup(chan, <<"wait", initproc>>)
  IN  /\ Ready(p) /\ call[p].pc = "exit" /\ ofile[p] = [k \in Fds |-> None]
      /\ wait_lock = None
      /\ parent' = [q \in Procs |-> IF q \in kids THEN initproc ELSE parent[q]]
      /\ chan' = Wakeup(c1, <<"wait", parent[p]>>)
      /\ state' = [state EXCEPT ![p] = "zombie"]
      /\ UNCHANGED <<killed, filevars, call, wait_lock, calls, work>>

sys_wait(p) ==
  /\ Syscall(p, "wait")
  /\ Goto(p, At("wait"))
  /\ UNCHANGED <<procvars, filevars, wait_lock, work>>

Kids(p) == {q \in Procs : parent[q] = p}
Zombies(p) == {q \in Kids(p) : state[q] = "zombie"}

\* freeproc, of the zombie that wait found; the files are closed already.
freeproc(q) ==
  /\ state' = [state EXCEPT ![q] = "unused"]
  /\ parent' = [parent EXCEPT ![q] = None]
  /\ killed' = [killed EXCEPT ![q] = FALSE]

\* One scan of wait, under wait_lock: reap a child, give up, or go on to sleep.
wait(p) ==
  /\ Ready(p) /\ call[p].pc = "wait" /\ wait_lock = None
  /\ \/ /\ Zombies(p) # {}
        /\ freeproc(Min(Zombies(p)))
        /\ call' = [call EXCEPT ![Min(Zombies(p))] = User,
                                ![p] = IF p = initproc THEN At("wait") ELSE User]
        /\ UNCHANGED <<chan, wait_lock>>
     \/ /\ Zombies(p) = {} /\ (Kids(p) = {} \/ killed[p]) /\ p # initproc
        /\ Return(p)
        /\ UNCHANGED <<procvars, wait_lock>>
     \/ /\ Zombies(p) = {} /\ Kids(p) # {} /\ ~killed[p]
        /\ wait_lock' = p
        /\ Goto(p, At("wait_sleep"))
        /\ UNCHANGED procvars
  /\ UNCHANGED <<filevars, calls, work>>

\* sleep(p, &wait_lock)
wait_sleep(p) ==
  /\ Ready(p) /\ call[p].pc = "wait_sleep"
  /\ chan' = [chan EXCEPT ![p] = <<"wait", p>>]
  /\ wait_lock' = None
  /\ Goto(p, At("wait"))
  /\ UNCHANGED <<state, parent, killed, filevars, calls, work>>

\* kill, of a process in the table other than init.
kill(p) ==
  /\ Syscall(p, "kill")
  /\ \E q \in Procs \ {initproc} :
       /\ state[q] # "unused"
       /\ killed' = [killed EXCEPT ![q] = TRUE]
       /\ chan' = [chan EXCEPT ![q] = NoChan]
  /\ UNCHANGED <<state, parent, filevars, call, wait_lock, work>>

-----------------------------------------------------------------------------
(* Descriptors and files.                                                  *)

FreeFds(p) == {k \in Fds : ofile[p][k] = None}

\* sys_pipe: pipealloc and two descriptors, or nothing: what was allocated is
\* given back when a file, a page or a descriptor is missing.
sys_pipe(p) ==
  LET ff == {f \in Files : file[f].ref = 0}
      rf == Min(ff)
      wf == Min(ff \ {rf})
      pp == {i \in Pipes : ~pipe[i].alloc}
      pi == Min(pp)
      fd0 == Min(FreeFds(p))
      fd1 == Min(FreeFds(p) \ {fd0})
  IN  /\ Syscall(p, "pipe")
      /\ IF Cardinality(ff) >= 2 /\ pp # {} /\ Cardinality(FreeFds(p)) >= 2
         THEN /\ pipe' = [pipe EXCEPT ![pi] =
                            [NoPipe EXCEPT !.alloc = TRUE, !.readopen = TRUE, !.writeopen = TRUE]]
              /\ file' = [file EXCEPT ![rf] = [ref |-> 1, pipe |-> pi, writable |-> FALSE],
                                      ![wf] = [ref |-> 1, pipe |-> pi, writable |-> TRUE]]
              /\ ofile' = [ofile EXCEPT ![p] = [@ EXCEPT ![fd0] = rf, ![fd1] = wf]]
         ELSE UNCHANGED <<pipe, file, ofile>>
      /\ UNCHANGED <<procvars, call, cut, wait_lock, work>>

\* sys_dup: fdalloc, filedup.
sys_dup(p) ==
  /\ Syscall(p, "dup")
  /\ \E k \in Fds :
       /\ ofile[p][k] # None
       /\ IF FreeFds(p) = {} THEN UNCHANGED <<ofile, file>>
          ELSE /\ ofile' = [ofile EXCEPT ![p][Min(FreeFds(p))] = ofile[p][k]]
               /\ file' = [file EXCEPT ![ofile[p][k]].ref = @ + 1]
  /\ UNCHANGED <<procvars, pipe, call, cut, wait_lock, work>>

\* Mutant: every fileclose closes the end of the pipe.
fileclose_any(p, k, back) ==
  LET f == ofile[p][k]
      last == file[f].ref = 1
  IN  /\ ofile' = [ofile EXCEPT ![p][k] = None]
      /\ file' = [file EXCEPT ![f] = IF last THEN NoFile ELSE [@ EXCEPT !.ref = @ - 1]]
      /\ Goto(p, Call("pipeclose", file[f].pipe, 0, file[f].writable, back))
      /\ UNCHANGED <<procvars, pipe, cut, wait_lock, work>>

\* fileclose of descriptor k under ftable.lock; when it was the last reference,
\* pipeclose follows, with a copy of the file.
fileclose(p, k, back) ==
  LET f == ofile[p][k]
      last == file[f].ref = 1
  IN  /\ ofile' = [ofile EXCEPT ![p][k] = None]
      /\ file' = [file EXCEPT ![f] = IF last THEN NoFile ELSE [@ EXCEPT !.ref = @ - 1]]
      /\ IF last THEN Goto(p, Call("pipeclose", file[f].pipe, 0, file[f].writable, back))
         ELSE Goto(p, At(back))
      /\ UNCHANGED <<procvars, pipe, cut, wait_lock, work>>

sys_close(p) ==
  \E k \in Fds : ofile[p][k] # None /\ Syscall(p, "close") /\ fileclose(p, k, "user")

\* exit closes the open files one by one.
exit_close(p) ==
  LET open == {k \in Fds : ofile[p][k] # None}
  IN  /\ Ready(p) /\ call[p].pc = "exit" /\ open # {}
      /\ fileclose(p, Min(open), "exit")
      /\ UNCHANGED calls

-----------------------------------------------------------------------------
(* Pipes.                                                                  *)

Has(p, i) == pipe[i].lock \in {None, p}

\* Mutant: pipeclose wakes nobody.
pipeclose_silent(p) ==
  LET c == call[p]
      i == c.obj
      pi == IF c.wr THEN [pipe[i] EXCEPT !.writeopen = FALSE] ELSE [pipe[i] EXCEPT !.readopen = FALSE]
  IN  /\ Ready(p) /\ c.pc = "pipeclose" /\ pipe[i].lock = None
      /\ pipe' = [pipe EXCEPT ![i] = IF ~pi.readopen /\ ~pi.writeopen THEN NoPipe ELSE pi]
      /\ cut' = IF c.wr THEN cut \ {i} ELSE cut
      /\ Goto(p, At(c.back))
      /\ UNCHANGED <<procvars, ofile, file, wait_lock, calls, work>>

\* pipeclose: the other end is woken; the page is freed with the second end.
pipeclose(p) ==
  LET c == call[p]
      i == c.obj
      pi == IF c.wr THEN [pipe[i] EXCEPT !.writeopen = FALSE] ELSE [pipe[i] EXCEPT !.readopen = FALSE]
  IN  /\ Ready(p) /\ c.pc = "pipeclose" /\ pipe[i].lock = None
      /\ chan' = Wakeup(chan, <<IF c.wr THEN "nread" ELSE "nwrite", i>>)
      /\ pipe' = [pipe EXCEPT ![i] = IF ~pi.readopen /\ ~pi.writeopen THEN NoPipe ELSE pi]
      /\ cut' = IF c.wr THEN cut \ {i} ELSE cut
      /\ Goto(p, At(c.back))
      /\ UNCHANGED <<state, parent, killed, ofile, file, wait_lock, calls, work>>

\* filewrite of n bytes to a pipe.
sys_write(p) ==
  \E k \in Fds, n \in work.sizes :
    /\ ofile[p][k] # None /\ file[ofile[p][k]].writable
    /\ Syscall(p, "write")
    /\ Goto(p, Call("write", file[ofile[p][k]].pipe, n, FALSE, "user"))
    /\ UNCHANGED <<procvars, filevars, wait_lock, work>>

\* fileread of a pipe.
sys_read(p) ==
  \E k \in Fds, n \in work.sizes :
    /\ ofile[p][k] # None /\ ~file[ofile[p][k]].writable
    /\ Syscall(p, "read")
    /\ Goto(p, Call("read", file[ofile[p][k]].pipe, n, FALSE, "user"))
    /\ UNCHANGED <<procvars, filevars, wait_lock, work>>

\* Mutant: the buffer is taken to be full one byte too late.
Full_late(pi) == pi.nwrite = (pi.nread + PIPESIZE + 1) % WRAP

Full(pi) == pi.nwrite = (pi.nread + PIPESIZE) % WRAP

\* One turn of the loop of pipewrite, with the lock of the pipe.
pipewrite(p) ==
  LET c == call[p]
      i == c.obj
      pi == pipe[i]
  IN  /\ Ready(p) /\ c.pc = "write" /\ Has(p, i)
      /\ \/ /\ c.n = 0                                   \* return n
            /\ chan' = Wakeup(chan, <<"nread", i>>)
            /\ pipe' = [pipe EXCEPT ![i].lock = None]
            /\ cut' = cut \ {i}
            /\ Return(p)
         \/ /\ c.n > 0 /\ (~pi.readopen \/ killed[p])    \* return -1
            /\ pipe' = [pipe EXCEPT ![i].lock = None]
            /\ cut' = IF c.dirty THEN cut \cup {i} ELSE cut
            /\ Return(p)
            /\ UNCHANGED chan
         \/ /\ c.n > 0 /\ pi.readopen /\ ~killed[p] /\ Full(pi)
            /\ chan' = Wakeup(chan, <<"nread", i>>)
            /\ pipe' = [pipe EXCEPT ![i].lock = p]
            /\ cut' = cut \ {i}
            /\ Goto(p, [c EXCEPT !.pc = "write_sleep", !.dirty = FALSE])
         \/ /\ c.n > 0 /\ pi.readopen /\ ~killed[p] /\ ~Full(pi)
            /\ pipe' = [pipe EXCEPT ![i].data[pi.nwrite % PIPESIZE] = pi.nwrite,
                                    ![i].nwrite = (@ + 1) % WRAP, ![i].lock = p]
            /\ Goto(p, [c EXCEPT !.n = @ - 1, !.dirty = TRUE])
            /\ UNCHANGED <<chan, cut>>
      /\ UNCHANGED <<state, parent, killed, ofile, file, wait_lock, calls, work>>

\* sleep(&pi->nwrite, &pi->lock) or sleep(&pi->nread, &pi->lock)
pipe_sleep(p) ==
  LET c == call[p]
  IN  /\ Ready(p) /\ c.pc \in {"write_sleep", "read_sleep"}
      /\ chan' = [chan EXCEPT ![p] = <<IF c.pc = "write_sleep" THEN "nwrite" ELSE "nread", c.obj>>]
      /\ pipe' = [pipe EXCEPT ![c.obj].lock = None]
      /\ Goto(p, [c EXCEPT !.pc = IF c.pc = "write_sleep" THEN "write" ELSE "read"])
      /\ UNCHANGED <<state, parent, killed, ofile, file, cut, wait_lock, calls, work>>

\* piperead: give up, go on to sleep, or take up to n bytes.
piperead(p) ==
  LET c == call[p]
      i == c.obj
      pi == pipe[i]
      m == Min({c.n, (pi.nwrite - pi.nread) % WRAP})
      empty == pi.nread = pi.nwrite /\ pi.writeopen
  IN  /\ Ready(p) /\ c.pc = "read" /\ pi.lock = None
      /\ \/ /\ empty /\ killed[p]
            /\ Return(p)
            /\ UNCHANGED <<chan, pipe>>
         \/ /\ empty /\ ~killed[p]
            /\ pipe' = [pipe EXCEPT ![i].lock = p]
            /\ Goto(p, [c EXCEPT !.pc = "read_sleep"])
            /\ UNCHANGED chan
         \/ /\ ~empty
            /\ pipe' = [pipe EXCEPT ![i].nread = (@ + m) % WRAP]
            /\ chan' = Wakeup(chan, <<"nwrite", i>>)
            /\ Return(p)
      /\ UNCHANGED <<state, parent, killed, ofile, file, cut, wait_lock, calls, work>>

step(p) ==
  \/ fork(p) \/ fork_parent(p) \/ fork_runnable(p)
  \/ exit(p) \/ exit_close(p) \/ exit_zombie(p)
  \/ sys_wait(p) \/ wait(p) \/ wait_sleep(p) \/ kill(p)
  \/ sys_pipe(p) \/ sys_dup(p) \/ sys_close(p) \/ pipeclose(p)
  \/ sys_write(p) \/ pipewrite(p) \/ sys_read(p) \/ piperead(p) \/ pipe_sleep(p)

\* Every process is gone or asleep (init may have no child left to wait for).
\* Any other state without a step is a deadlock of the kernel.
idle ==
  /\ \A p \in Procs : state[p] = "live" =>
       chan[p] # NoChan \/ (p = initproc /\ call[p].pc = "wait" /\ Kids(p) = {})
  /\ UNCHANGED vars

Next == (\E p \in Procs : step(p)) \/ idle
Spec == Init /\ [][Next]_vars

-----------------------------------------------------------------------------
(* Properties.                                                             *)

\* Nobody sleeps through what they wait for: a parent asleep in wait() has a child
\* and none that is a zombie, however exit(), reparent() and kill() interleave
\* ("helps ensure that wakeups of wait()ing parents are not lost", wait_lock).
NoLostParent ==
  \A p \in Procs : chan[p] = <<"wait", p>> => Kids(p) # {} /\ Zombies(p) = {}

\* A process asleep in pipewrite has no room and a reader; one asleep in piperead
\* has nothing to read and a writer, unless a writer is at work, or was killed
\* between two bytes and returned without a wakeup.
NoLostPipeWakeup ==
  \A p \in Procs, i \in Pipes :
    /\ chan[p] = <<"nwrite", i>> => Full(pipe[i]) /\ pipe[i].readopen
    /\ chan[p] = <<"nread", i>> =>
         /\ pipe[i].writeopen
         /\ pipe[i].nread = pipe[i].nwrite \/ pipe[i].lock # None \/ i \in cut

\* The parent of a process is alive: exit() leaves no child behind that only a
\* dead slot, or the next process in it, would wait for.
ParentAlive ==
  \A p \in Procs : parent[p] # None => state[parent[p]] = "live"

\* An end of a pipe is open exactly as long as a file refers to it, or its last
\* fileclose has yet to close it; a pipe with an open end is not freed.  And the
\* files that count are those with descriptors: ref is their number, through
\* fork, dup, exit and a pipe() that fails half way.
PipeLifetime ==
  /\ \A f \in Files :
       file[f].ref = Cardinality({d \in Procs \X Fds : ofile[d[1]][d[2]] = f})
  /\ \A i \in Pipes, w \in BOOLEAN :
    LET open == IF w THEN pipe[i].writeopen ELSE pipe[i].readopen
        users == {f \in Files : file[f].ref > 0 /\ file[f].pipe = i /\ file[f].writable = w}
        closing == {p \in Procs : call[p].pc = "pipeclose" /\ call[p].obj = i /\ call[p].wr = w}
    IN  /\ open <=> Cardinality(users) + Cardinality(closing) = 1
        /\ open => pipe[i].alloc

\* What is read is what was written, in order, with the counters wrapping: the
\* bytes from nread to nwrite are in the buffer.
PipeFifo ==
  \A i \in Pipes :
    LET n == (pipe[i].nwrite - pipe[i].nread) % WRAP
    IN  /\ n <= PIPESIZE
        /\ \A k \in 0 .. n - 1 :
             LET at == (pipe[i].nread + k) % WRAP IN pipe[i].data[at % PIPESIZE] = at
=============================================================================
