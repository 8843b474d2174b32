---------------------------- MODULE ProcessProofs ----------------------------
(***************************************************************************)
(* For any number of processes, files and pipes: the parent of a process   *)
(* is alive, and a parent asleep in wait() has a child and no zombie.      *)
(*                                                                         *)
(* The invariant says besides that init stays in wait(), that a child      *)
(* being made belongs to one fork and has no parent before fork_parent,    *)
(* and that a parent between its last scan and sleep() has wait_lock, so   *)
(* that what it saw is still so.                                           *)
(***************************************************************************)
EXTENDS Process, TLAPS, WellFoundedInduction

Pcs == {"user", "fork", "forked", "exit", "wait", "wait_sleep", "pipeclose",
        "write", "write_sleep", "read", "read_sleep"}

IsCall(c) ==
  /\ c = [pc |-> c.pc, obj |-> c.obj, n |-> c.n, dirty |-> c.dirty, wr |-> c.wr, back |-> c.back]
  /\ c.pc \in Pcs /\ c.back \in {"user", "exit"}

\* Types, as far as processes need them.
ProcTypes ==
  /\ state \in [Procs -> {"unused", "used", "live", "zombie"}]
  /\ parent \in [Procs -> 0 .. NPROC]
  /\ chan = [p \in Procs |-> chan[p]]
  /\ call = [p \in Procs |-> call[p]] /\ \A p \in Procs : IsCall(call[p])

\* init only waits.
InitWaits == state[initproc] = "live" /\ call[initproc].pc \in {"wait", "wait_sleep"}

Forking(p) == call[p].pc \in {"fork", "forked"}

\* The child of a fork under way; a free slot.
ForkInv ==
  /\ \A p \in Procs : Forking(p) => call[p].obj \in Procs /\ state[call[p].obj] = "used"
  /\ \A p, q \in Procs : Forking(p) /\ Forking(q) /\ call[p].obj = call[q].obj => p = q
  /\ \A p \in Procs : call[p].pc = "fork" => parent[call[p].obj] = None
  /\ \A p \in Procs : state[p] = "unused" => parent[p] = None

\* Between the scan of wait() and sleep(), wait_lock is held.
WaitInv ==
  \A p \in Procs : call[p].pc = "wait_sleep" =>
    wait_lock = p /\ Kids(p) # {} /\ Zombies(p) = {}

IInv == ProcTypes /\ InitWaits /\ ForkInv /\ WaitInv /\ ParentAlive /\ NoLostParent

-----------------------------------------------------------------------------

\* The first slot of a kind is a slot of that kind.
LEMMA MinIn ==
  ASSUME NEW S \in SUBSET Procs, S # {}
  PROVE  Min(S) \in S
<1> DEFINE R == {ss \in Nat \X Nat : ss[1] < ss[2]}
<1>1. S \in SUBSET Nat
  BY ProcessAssumption DEF Procs
<1>0. IsWellFoundedOn(R, Nat)
  BY NatLessThanWellFounded DEF OpToRel
<1>2. PICK x \in S : \A y \in S : ~(<<y, x>> \in R)
  <2> HIDE DEF R
  <2> QED
    BY <1>1, <1>0, WFMin
<1>3. ASSUME NEW y \in S PROVE x <= y
  <2>1. x \in Nat /\ y \in Nat
    BY <1>1
  <2>2. <<y, x>> \in Nat \X Nat /\ <<y, x>> \notin R
    BY <2>1, <1>2
  <2>3. ~(y < x)
    BY <2>2
  <2> QED
    BY <2>1, <2>3
<1> QED
  BY <1>2, <1>3 DEF Min

\* The initial state.
LEMMA InitIInv == Init => IInv
<1> SUFFICES ASSUME Init PROVE IInv
  OBVIOUS
<1> USE ProcessAssumption
<1>1. initproc \in Procs /\ 2 \in Procs
  BY DEF initproc, Procs
<1>2. ProcTypes
  <2>1. state \in [Procs -> {"unused", "used", "live", "zombie"}] /\ parent \in [Procs -> 0 .. NPROC]
    BY DEF Init, initproc, None
  <2>2. chan = [p \in Procs |-> chan[p]] /\ call = [p \in Procs |-> call[p]]
    BY DEF Init
  <2>3. \A p \in Procs : call[p] \in {At("wait"), At("user")}
    BY DEF Init, User
  <2>4. IsCall(At("wait")) /\ IsCall(At("user"))
    BY DEF IsCall, Pcs, At, Call
  <2> QED
    BY <2>1, <2>2, <2>3, <2>4 DEF ProcTypes
<1>3. InitWaits
  BY <1>1 DEF Init, InitWaits, At, Call
<1>4. \A p \in Procs : call[p].pc \in {"user", "wait"}
  BY DEF Init, At, User, Call
<1>5. ForkInv
  BY <1>4 DEF Init, ForkInv, Forking, initproc, None
<1>6. WaitInv
  BY <1>4 DEF WaitInv
<1>7. ParentAlive
  BY <1>1 DEF Init, ParentAlive, initproc, None
<1>8. NoLostParent
  BY DEF Init, NoLostParent, NoChan
<1> QED
  BY <1>2, <1>3, <1>5, <1>6, <1>7, <1>8 DEF IInv

-----------------------------------------------------------------------------
(* Steps that leave the family alone.                                      *)

\* p is at user level or in a call on files and pipes; it may wake processes, and
\* goes to sleep on nothing but a pipe.
Minor(p) ==
  /\ state' = state /\ parent' = parent /\ wait_lock' = wait_lock
  /\ chan' = [q \in Procs |-> chan'[q]]
  /\ \A q \in Procs : chan'[q] = chan[q] \/ chan'[q] # <<"wait", q>>
  /\ call[p].pc \notin {"fork", "forked", "wait", "wait_sleep"}
  /\ call'[p].pc \notin {"fork", "forked", "wait_sleep"}
  /\ IsCall(call'[p])
  /\ call' = [call EXCEPT ![p] = call'[p]]

LEMMA MinorKeeps ==
  ASSUME NEW p \in Procs, IInv, Minor(p)
  PROVE  IInv'
<1> USE DEF IInv, Minor
<1>0. initproc \in Procs /\ p # initproc
  BY ProcessAssumption DEF InitWaits, initproc, Procs
<1>1. \A q \in Procs : q # p => call'[q] = call[q]
  BY DEF ProcTypes
<1>2. ProcTypes'
  BY <1>1 DEF ProcTypes
<1>3. InitWaits'
  BY <1>0, <1>1 DEF InitWaits
<1>4. ForkInv'
  BY <1>1 DEF ForkInv, Forking
<1>5. \A q \in Procs : Kids(q)' = Kids(q) /\ Zombies(q)' = Zombies(q)
  BY DEF Kids, Zombies
<1>6. WaitInv'
  BY <1>1, <1>5 DEF WaitInv
<1>7. ParentAlive'
  BY DEF ParentAlive
<1>8. NoLostParent'
  BY <1>5 DEF NoLostParent
<1> QED
  BY <1>2, <1>3, <1>4, <1>6, <1>7, <1>8

\* The calls on files and pipes are such steps.
LEMMA FilesMinor ==
  ASSUME NEW p \in Procs, IInv,
         \/ exit(p) \/ exit_close(p) \/ sys_wait(p) \/ kill(p) \/ sys_pipe(p) \/ sys_dup(p)
         \/ sys_close(p) \/ sys_write(p) \/ sys_read(p)
  PROVE  Minor(p)
<1> USE DEF Syscall, Goto, procvars
<1>0. ProcTypes
  BY DEF IInv
<1>a. \A pc \in {"user", "exit", "wait"} : IsCall(At(pc)) /\ At(pc).pc = pc
  BY DEF IsCall, At, Call, Pcs
<1>b. \A i, n, w : \A back \in {"user", "exit"} : \A pc \in {"pipeclose", "write", "read"} :
        IsCall(Call(pc, i, n, w, back)) /\ Call(pc, i, n, w, back).pc = pc
  BY DEF IsCall, Call, Pcs
<1>1. CASE exit(p)
  BY <1>0, <1>1, <1>a DEF exit, Minor, ProcTypes
<1>2. CASE sys_wait(p)
  BY <1>0, <1>2, <1>a DEF sys_wait, Minor, ProcTypes
<1>3. CASE kill(p)
  <2>1. PICK q \in Procs : chan' = [chan EXCEPT ![q] = NoChan]
    BY <1>3 DEF kill
  <2> QED
    BY <1>0, <1>3, <2>1 DEF kill, Minor, ProcTypes, NoChan
<1>4. CASE sys_pipe(p)
  BY <1>0, <1>4 DEF sys_pipe, Minor, ProcTypes
<1>5. CASE sys_dup(p)
  BY <1>0, <1>5 DEF sys_dup, Minor, ProcTypes
<1>6. ASSUME NEW k, NEW back \in {"user", "exit"}, fileclose(p, k, back),
             call[p].pc \in {"user", "exit"}
      PROVE  Minor(p)
  <2>1. PICK c : call' = [call EXCEPT ![p] = c] /\ IsCall(c) /\ c.pc \in {"pipeclose", "user", "exit"}
    BY <1>6, <1>a, <1>b DEF fileclose
  <2> QED
    BY <1>0, <1>6, <2>1 DEF fileclose, Minor, ProcTypes
<1>7. CASE exit_close(p)
  BY <1>6, <1>7 DEF exit_close
<1>8. CASE sys_close(p)
  BY <1>6, <1>8 DEF sys_close
<1>9. CASE sys_write(p)
  <2>0. PICK i, n : call' = [call EXCEPT ![p] = Call("write", i, n, FALSE, "user")]
    BY <1>9 DEF sys_write
  <2>1. PICK c : call' = [call EXCEPT ![p] = c] /\ IsCall(c) /\ c.pc = "write"
    BY <1>b, <2>0
  <2> QED
    BY <1>0, <1>9, <2>1 DEF sys_write, Minor, ProcTypes
<1>10. CASE sys_read(p)
  <2>0. PICK i, n : call' = [call EXCEPT ![p] = Call("read", i, n, FALSE, "user")]
    BY <1>10 DEF sys_read
  <2>1. PICK c : call' = [call EXCEPT ![p] = c] /\ IsCall(c) /\ c.pc = "read"
    BY <1>b, <2>0
  <2> QED
    BY <1>0, <1>10, <2>1 DEF sys_read, Minor, ProcTypes
<1> QED
  BY <1>1, <1>2, <1>3, <1>4, <1>5, <1>7, <1>8, <1>9, <1>10

\* A call with another field is a call.
LEMMA CallExcept ==
  ASSUME NEW c, IsCall(c), NEW v
  PROVE  /\ IsCall([c EXCEPT !.dirty = v]) /\ [c EXCEPT !.dirty = v].pc = c.pc
         /\ IsCall([c EXCEPT !.n = v]) /\ [c EXCEPT !.n = v].pc = c.pc
         /\ v \in Pcs => IsCall([c EXCEPT !.pc = v]) /\ [c EXCEPT !.pc = v].pc = v
<1>1. IsCall([c EXCEPT !.dirty = v]) /\ [c EXCEPT !.dirty = v].pc = c.pc
  BY DEF IsCall
<1>2. IsCall([c EXCEPT !.n = v]) /\ [c EXCEPT !.n = v].pc = c.pc
  BY DEF IsCall
<1>3. v \in Pcs => IsCall([c EXCEPT !.pc = v]) /\ [c EXCEPT !.pc = v].pc = v
  BY DEF IsCall
<1> QED
  BY <1>1, <1>2, <1>3

\* So are the steps of a pipe: its channels are not those of wait().
LEMMA PipesMinor ==
  ASSUME NEW p \in Procs, IInv,
         pipeclose(p) \/ pipewrite(p) \/ piperead(p) \/ pipe_sleep(p)
  PROVE  Minor(p)
<1>0. ProcTypes /\ IsCall(call[p])
  BY DEF IInv, ProcTypes
<1>a. \A pc \in {"user", "exit", "wait"} : IsCall(At(pc)) /\ At(pc).pc = pc
  BY DEF IsCall, At, Call, Pcs
<1>b. ASSUME NEW c
      PROVE  LET f == Wakeup(chan, c)
             IN  f = [q \in Procs |-> f[q]] /\ \A q \in Procs : f[q] = chan[q] \/ f[q] # <<"wait", q>>
  BY DEF Wakeup, NoChan
<1>c. ASSUME Return(p)
      PROVE  \E c : call' = [call EXCEPT ![p] = c] /\ IsCall(c) /\ c.pc \in {"user", "wait"}
  BY <1>a, <1>c DEF Return, Goto, User
<1>d. ASSUME NEW c, call' = [call EXCEPT ![p] = c], IsCall(c),
             c.pc \notin {"fork", "forked", "wait_sleep"}
      PROVE  /\ call'[p].pc \notin {"fork", "forked", "wait_sleep"}
             /\ IsCall(call'[p]) /\ call' = [call EXCEPT ![p] = call'[p]]
  BY <1>0, <1>d DEF ProcTypes
<1>e. chan = [q \in Procs |-> chan[q]]
  BY <1>0 DEF ProcTypes
<1>f. \A pc \in Pcs : IsCall([call[p] EXCEPT !.pc = pc]) /\ [call[p] EXCEPT !.pc = pc].pc = pc
  BY <1>0 DEF IsCall
<1>1. CASE pipeclose(p)
  <2>1. call[p].back \in {"user", "exit"}
    BY <1>0 DEF IsCall
  <2>2. call' = [call EXCEPT ![p] = At(call[p].back)]
    BY <1>1 DEF pipeclose, Goto
  <2> QED
    BY <1>1, <1>a, <1>b, <1>d, <2>1, <2>2 DEF pipeclose, Minor
<1>2. CASE pipewrite(p)
  <2>1. PICK c : call' = [call EXCEPT ![p] = c] /\ IsCall(c) /\ c.pc \in {"user", "wait", "write", "write_sleep"}
    <3>1. CASE Return(p)
      BY <1>c, <3>1
    <3>2. CASE Goto(p, [call[p] EXCEPT !.pc = "write_sleep", !.dirty = FALSE])
      <4> DEFINE c == [call[p] EXCEPT !.pc = "write_sleep", !.dirty = FALSE]
      <4>1. IsCall([call[p] EXCEPT !.pc = "write_sleep"]) /\ [call[p] EXCEPT !.pc = "write_sleep"].pc = "write_sleep"
        BY <1>0, CallExcept DEF Pcs
      <4>2. IsCall([[call[p] EXCEPT !.pc = "write_sleep"] EXCEPT !.dirty = FALSE])
            /\ [[call[p] EXCEPT !.pc = "write_sleep"] EXCEPT !.dirty = FALSE].pc = "write_sleep"
        BY <4>1, CallExcept, Zenon
      <4>3. c = [[call[p] EXCEPT !.pc = "write_sleep"] EXCEPT !.dirty = FALSE]
        BY Zenon
      <4> QED
        <5> HIDE DEF c
        <5> QED
          BY <3>2, <4>2, <4>3, Zenon DEF Goto
    <3>3. CASE call[p].pc = "write" /\ Goto(p, [call[p] EXCEPT !.n = @ - 1, !.dirty = TRUE])
      <4> DEFINE c == [call[p] EXCEPT !.n = @ - 1, !.dirty = TRUE]
      <4>1. IsCall([call[p] EXCEPT !.n = @ - 1]) /\ [call[p] EXCEPT !.n = @ - 1].pc = "write"
        BY <1>0, <3>3, CallExcept
      <4>2. IsCall([[call[p] EXCEPT !.n = @ - 1] EXCEPT !.dirty = TRUE])
            /\ [[call[p] EXCEPT !.n = @ - 1] EXCEPT !.dirty = TRUE].pc = "write"
        BY <4>1, CallExcept, Zenon
      <4>3. c = [[call[p] EXCEPT !.n = @ - 1] EXCEPT !.dirty = TRUE]
        BY Zenon
      <4> QED
        <5> HIDE DEF c
        <5> QED
          BY <3>3, <4>2, <4>3, Zenon DEF Goto
    <3> QED
      BY <1>2, <3>1, <3>2, <3>3 DEF pipewrite
  <2>2. chan' = chan \/ \E ch : chan' = Wakeup(chan, ch)
    BY <1>2 DEF pipewrite
  <2>3. chan' = [q \in Procs |-> chan'[q]] /\ \A q \in Procs : chan'[q] = chan[q] \/ chan'[q] # <<"wait", q>>
    BY <1>b, <1>e, <2>2
  <2> QED
    BY <1>2, <1>d, <2>1, <2>3 DEF pipewrite, Minor
<1>3. CASE piperead(p)
  <2>1. PICK c : call' = [call EXCEPT ![p] = c] /\ IsCall(c) /\ c.pc \in {"user", "wait", "read_sleep"}
    <3>1. CASE Return(p)
      BY <1>c, <3>1
    <3>2. CASE Goto(p, [call[p] EXCEPT !.pc = "read_sleep"])
      BY <1>f, <3>2 DEF Goto, Pcs
    <3> QED
      BY <1>3, <3>1, <3>2 DEF piperead
  <2>2. chan' = chan \/ \E ch : chan' = Wakeup(chan, ch)
    BY <1>3 DEF piperead
  <2>3. chan' = [q \in Procs |-> chan'[q]] /\ \A q \in Procs : chan'[q] = chan[q] \/ chan'[q] # <<"wait", q>>
    BY <1>b, <1>e, <2>2
  <2> QED
    BY <1>3, <1>d, <2>1, <2>3 DEF piperead, Minor
<1>4. CASE pipe_sleep(p)
  <2>0. PICK pc \in {"write", "read"} : call' = [call EXCEPT ![p] = [call[p] EXCEPT !.pc = pc]]
    BY <1>4 DEF pipe_sleep, Goto
  <2>1. PICK c : call' = [call EXCEPT ![p] = c] /\ IsCall(c) /\ c.pc \in {"write", "read"}
    BY <1>f, <2>0 DEF Pcs
  <2>2. PICK s \in {"nwrite", "nread"} : chan' = [chan EXCEPT ![p] = <<s, call[p].obj>>]
    BY <1>4 DEF pipe_sleep
  <2>3. chan' = [q \in Procs |-> chan'[q]] /\ \A q \in Procs : chan'[q] = chan[q] \/ chan'[q] # <<"wait", q>>
    BY <1>e, <2>2
  <2> QED
    BY <1>4, <1>d, <2>1, <2>3 DEF pipe_sleep, Minor
<1> QED
  BY <1>1, <1>2, <1>3, <1>4

-----------------------------------------------------------------------------
(* Steps of fork, exit and wait.                                           *)

\* fork takes a slot that nobody has.
LEMMA ForkKeeps ==
  ASSUME NEW p \in Procs, IInv, fork(p)
  PROVE  IInv'
<1> USE DEF IInv
<1>0. initproc \in Procs /\ p # initproc /\ call[p].pc = "user"
  BY ProcessAssumption DEF InitWaits, initproc, Procs, fork, Syscall
<1>a. CASE {q \in Procs : state[q] = "unused"} = {}
  <2>1. Minor(p)
    BY <1>0, <1>a DEF fork, Minor, ProcTypes
  <2> QED
    BY <2>1, MinorKeeps
<1>b. CASE {q \in Procs : state[q] = "unused"} # {}
  <2> DEFINE np == Min({q \in Procs : state[q] = "unused"})
             c == Call("fork", np, 0, FALSE, "user")
  <2>0. np \in Procs /\ state[np] = "unused"
    BY <1>b, MinIn
  <2>a. IsCall(c) /\ c.pc = "fork" /\ c.obj = np
    BY DEF IsCall, Call, Pcs
  <2>1. /\ state' = [state EXCEPT ![np] = "used"]
        /\ call' = [call EXCEPT ![p] = c]
        /\ chan' = chan /\ parent' = parent /\ wait_lock' = wait_lock
    BY <1>b DEF fork, Goto
  <2> HIDE DEF np, c
  <2>2. ProcTypes'
    BY <2>0, <2>1, <2>a DEF ProcTypes
  <2>3. InitWaits'
    BY <1>0, <2>0, <2>1 DEF InitWaits, ProcTypes
  <2>4. ForkInv'
    BY <1>0, <2>0, <2>1, <2>a DEF ForkInv, Forking, ProcTypes
  <2>5. \A q \in Procs : Kids(q)' = Kids(q) /\ Zombies(q)' = Zombies(q)
    BY <2>0, <2>1 DEF Kids, Zombies, ProcTypes
  <2>6. WaitInv'
    BY <2>1, <2>5, <2>a DEF WaitInv, ProcTypes
  <2>7. ParentAlive'
    BY <2>0, <2>1 DEF ParentAlive, ProcTypes, Procs, None
  <2>8. NoLostParent'
    BY <2>1, <2>5 DEF NoLostParent
  <2> QED
    BY <2>2, <2>3, <2>4, <2>6, <2>7, <2>8
<1> QED
  BY <1>a, <1>b

\* The child gets its parent while nobody is between a scan and sleep().
LEMMA ForkParentKeeps ==
  ASSUME NEW p \in Procs, IInv, fork_parent(p)
  PROVE  IInv'
<1> USE DEF IInv
<1> DEFINE np == call[p].obj
           c == [call[p] EXCEPT !.pc = "forked"]
<1>0. initproc \in Procs /\ p # initproc /\ call[p].pc = "fork" /\ wait_lock = None
  BY ProcessAssumption DEF InitWaits, initproc, Procs, fork_parent
<1>a. np \in Procs /\ state[np] = "used" /\ parent[np] = None
  BY <1>0 DEF ForkInv, Forking
<1>b. IsCall(c) /\ c.pc = "forked"
  BY CallExcept DEF ProcTypes, Pcs
<1>c. c.obj = np
  BY DEF ProcTypes, IsCall
<1>1. /\ call' = [call EXCEPT ![p] = c]
      /\ parent' = [parent EXCEPT ![np] = p]
      /\ state' = state /\ chan' = chan /\ wait_lock' = wait_lock
  BY DEF fork_parent
<1>d. state[p] = "live" /\ None \notin Procs /\ p \in 0 .. NPROC
  BY DEF fork_parent, Ready, None, Procs
<1> HIDE DEF np, c
<1>e. \A q \in Procs : q # p => call'[q] = call[q]
  BY <1>1 DEF ProcTypes
<1>f. call'[p] = c
  BY <1>1 DEF ProcTypes
<1>g. \A q \in Procs : q # np => parent'[q] = parent[q]
  BY <1>1 DEF ProcTypes
<1>h. parent'[np] = p
  BY <1>1, <1>a DEF ProcTypes
<1>2. ProcTypes'
  BY <1>1, <1>a, <1>b, <1>d DEF ProcTypes
<1>3. InitWaits'
  BY <1>0, <1>1, <1>e DEF InitWaits
<1>4. ForkInv'
  <2>1. \A q \in Procs : Forking(q)' => Forking(q) /\ call'[q].obj = call[q].obj
    BY <1>0, <1>b, <1>c, <1>e, <1>f DEF Forking, np
  <2>2. \A q \in Procs : call'[q].pc = "fork" => q # p /\ call[q].pc = "fork" /\ call[q].obj # np
    BY <1>0, <1>b, <1>e, <1>f DEF ForkInv, Forking, np
  <2> QED
    BY <1>1, <1>a, <1>g, <1>h, <2>1, <2>2 DEF ForkInv, Forking
<1>5. \A q \in Procs : q # p => Kids(q)' = Kids(q) /\ Zombies(q)' = Zombies(q)
  BY <1>1, <1>a, <1>d, <1>g, <1>h DEF Kids, Zombies
<1>6. WaitInv'
  BY <1>0, <1>b, <1>d, <1>e, <1>f DEF WaitInv
<1>7. ParentAlive'
  BY <1>1, <1>d, <1>g, <1>h DEF ParentAlive
<1>8. NoLostParent'
  BY <1>1, <1>5 DEF NoLostParent, fork_parent, Ready, NoChan
<1> QED
  BY <1>2, <1>3, <1>4, <1>6, <1>7, <1>8

\* The child becomes runnable.
LEMMA ForkRunnableKeeps ==
  ASSUME NEW p \in Procs, IInv, fork_runnable(p)
  PROVE  IInv'
<1> USE DEF IInv
<1> DEFINE np == call[p].obj
<1>0. initproc \in Procs /\ p # initproc /\ call[p].pc = "forked"
  BY ProcessAssumption DEF InitWaits, initproc, Procs, fork_runnable
<1>a. np \in Procs /\ state[np] = "used"
  BY <1>0 DEF ForkInv, Forking
<1>b. IsCall(User) /\ User.pc = "user"
  BY DEF IsCall, User, At, Call, Pcs
<1>1. /\ call' = [call EXCEPT ![p] = User, ![np] = User]
      /\ state' = [state EXCEPT ![np] = "live"]
      /\ parent' = parent /\ chan' = chan /\ wait_lock' = wait_lock
  BY DEF fork_runnable
<1> HIDE DEF np
<1>c. \A q \in Procs : call'[q] = IF q \in {p, np} THEN User ELSE call[q]
  BY <1>1, <1>a DEF ProcTypes
<1>2. ProcTypes'
  BY <1>1, <1>a, <1>b, <1>c DEF ProcTypes
<1>3. InitWaits'
  BY <1>0, <1>1, <1>a, <1>c DEF InitWaits, ProcTypes
<1>4. ForkInv'
  <2>1. \A q \in Procs : Forking(q)' => Forking(q) /\ call'[q] = call[q] /\ q # p
    BY <1>b, <1>c DEF Forking
  <2>2. \A q \in Procs : Forking(q)' => call[q].obj # np
    BY <1>0, <2>1 DEF ForkInv, Forking, np
  <2> QED
    BY <1>1, <1>a, <1>b, <1>c, <2>1, <2>2 DEF ForkInv, Forking, ProcTypes
<1>5. \A q \in Procs : Kids(q)' = Kids(q) /\ Zombies(q)' = Zombies(q)
  BY <1>1, <1>a DEF Kids, Zombies, ProcTypes
<1>6. WaitInv'
  BY <1>1, <1>5, <1>b, <1>c DEF WaitInv
<1>7. ParentAlive'
  BY <1>1, <1>a DEF ParentAlive, ProcTypes
<1>8. NoLostParent'
  BY <1>1, <1>5 DEF NoLostParent
<1> QED
  BY <1>2, <1>3, <1>4, <1>6, <1>7, <1>8

\* exit gives its children to init, and wakes init and its own parent.
LEMMA ExitKeeps ==
  ASSUME NEW p \in Procs, IInv, exit_zombie(p)
  PROVE  IInv'
<1> USE DEF IInv
<1> DEFINE kids == {q \in Procs : parent[q] = p}
           c1 == IF kids = {} THEN chan ELSE Wakeup(chan, <<"wait", initproc>>)
<1>0. initproc \in Procs /\ p # initproc /\ call[p].pc = "exit" /\ wait_lock = None
  BY ProcessAssumption DEF InitWaits, initproc, Procs, exit_zombie
<1>a. state[p] = "live" /\ chan[p] = NoChan /\ None \notin Procs /\ initproc \in 0 .. NPROC
  BY <1>0 DEF exit_zombie, Ready, None, Procs
<1>1. /\ parent' = [q \in Procs |-> IF q \in kids THEN initproc ELSE parent[q]]
      /\ chan' = Wakeup(c1, <<"wait", parent[p]>>)
      /\ state' = [state EXCEPT ![p] = "zombie"]
      /\ call' = call /\ wait_lock' = wait_lock
  BY DEF exit_zombie
<1>b. \A q \in Procs : parent'[q] = IF parent[q] = p THEN initproc ELSE parent[q]
  BY <1>1
<1>c. \A q \in Procs : state'[q] = IF q = p THEN "zombie" ELSE state[q]
  BY <1>1 DEF ProcTypes
<1>2. ProcTypes'
  <2>1. state' \in [Procs -> {"unused", "used", "live", "zombie"}]
    BY <1>1 DEF ProcTypes
  <2>2. parent' \in [Procs -> 0 .. NPROC]
    BY <1>1, <1>a DEF ProcTypes
  <2>3. chan' = [q \in Procs |-> chan'[q]]
    BY <1>1 DEF Wakeup
  <2> QED
    BY <1>1, <2>1, <2>2, <2>3 DEF ProcTypes
<1>3. InitWaits'
  BY <1>0, <1>1, <1>c DEF InitWaits
<1>4. ForkInv'
  BY <1>1, <1>a, <1>b, <1>c DEF ForkInv, Forking
<1>5. WaitInv'
  BY <1>0, <1>1, <1>a DEF WaitInv
<1>6. ParentAlive'
  <2>1. \A q \in Procs : parent[q] # None => parent[q] \in Procs
    BY DEF ProcTypes, Procs, None
  <2> QED
    BY <1>0, <1>b, <1>c, <2>1 DEF ParentAlive, InitWaits
<1>7. NoLostParent'
  <2> SUFFICES ASSUME NEW r \in Procs, chan'[r] = <<"wait", r>>
               PROVE  Kids(r)' # {} /\ Zombies(r)' = {}
    BY DEF NoLostParent
  <2>1. c1[r] = <<"wait", r>> /\ r # parent[p]
    BY <1>1 DEF Wakeup, NoChan
  <2>2. chan[r] = <<"wait", r>> /\ (kids # {} => r # initproc)
    BY <2>1 DEF Wakeup, NoChan
  <2>3. r # p
    BY <1>a, <2>2 DEF NoChan
  <2>4. Kids(r)' = Kids(r)
    BY <1>b, <2>2, <2>3 DEF Kids
  <2>5. Kids(r) # {} /\ Zombies(r) = {}
    BY <2>2 DEF NoLostParent
  <2>6. Zombies(r)' = {}
    BY <1>c, <2>1, <2>4, <2>5 DEF Zombies, Kids
  <2> QED
    BY <2>4, <2>5, <2>6
<1> QED
  BY <1>2, <1>3, <1>4, <1>5, <1>6, <1>7

\* wait: the child that is reaped is nobody's parent, and what is seen before
\* sleep() is remembered with wait_lock.
LEMMA WaitKeeps ==
  ASSUME NEW p \in Procs, IInv, wait(p)
  PROVE  IInv'
<1> USE DEF IInv
<1>0. initproc \in Procs /\ call[p].pc = "wait" /\ wait_lock = None
  BY ProcessAssumption DEF initproc, Procs, wait
<1>a. state[p] = "live" /\ chan[p] = NoChan /\ None \notin Procs /\ None \in 0 .. NPROC
  BY ProcessAssumption DEF wait, Ready, None, Procs
<1>b. \A pc \in {"user", "wait", "wait_sleep"} : IsCall(At(pc)) /\ At(pc).pc = pc
  BY DEF IsCall, At, Call, Pcs
<1>1. CASE /\ Zombies(p) # {}
           /\ freeproc(Min(Zombies(p)))
           /\ call' = [call EXCEPT ![Min(Zombies(p))] = User,
                                   ![p] = IF p = initproc THEN At("wait") ELSE User]
           /\ UNCHANGED <<chan, wait_lock>>
  <2> DEFINE z == Min(Zombies(p))
             c == IF p = initproc THEN At("wait") ELSE User
  <2>0. z \in Procs /\ parent[z] = p /\ state[z] = "zombie" /\ z # p
    BY <1>1, <1>a, MinIn DEF Zombies, Kids
  <2>1. /\ state' = [state EXCEPT ![z] = "unused"]
        /\ parent' = [parent EXCEPT ![z] = None]
        /\ call' = [call EXCEPT ![z] = User, ![p] = c]
        /\ chan' = chan /\ wait_lock' = wait_lock
    BY <1>1 DEF freeproc
  <2>a. IsCall(c) /\ c.pc \in {"user", "wait"} /\ (p = initproc => c.pc = "wait")
    BY <1>b DEF User
  <2>b. IsCall(User) /\ User.pc = "user"
    BY <1>b DEF User
  <2> HIDE DEF z, c
  <2>c. \A q \in Procs : call'[q] = IF q = p THEN c ELSE IF q = z THEN User ELSE call[q]
    BY <2>0, <2>1 DEF ProcTypes
  <2>d. \A q \in Procs : /\ state'[q] = IF q = z THEN "unused" ELSE state[q]
                         /\ parent'[q] = IF q = z THEN None ELSE parent[q]
    BY <2>0, <2>1 DEF ProcTypes
  <2>2. ProcTypes'
    BY <1>a, <2>1, <2>a, <2>b, <2>c DEF ProcTypes
  <2>3. InitWaits'
    BY <1>0, <2>0, <2>a, <2>c, <2>d DEF InitWaits
  <2>4. ForkInv'
    <3>1. \A q \in Procs : Forking(q)' => Forking(q) /\ call'[q] = call[q]
      BY <2>a, <2>b, <2>c DEF Forking
    <3>2. \A q \in Procs : call'[q].pc = "fork" => call[q].pc = "fork" /\ call'[q] = call[q]
      BY <2>a, <2>b, <2>c
    <3> QED
      BY <2>0, <2>d, <3>1, <3>2 DEF ForkInv, Forking
  <2>5. WaitInv'
    BY <1>0, <1>a, <2>a, <2>b, <2>c DEF WaitInv
  <2>6. ParentAlive'
    <3>1. \A q \in Procs : parent[q] # None => parent[q] \in Procs
      BY DEF ProcTypes, Procs, None
    <3> QED
      BY <2>0, <2>d, <3>1 DEF ParentAlive
  <2>7. \A q \in Procs : q # p => Kids(q)' = Kids(q) /\ Zombies(q)' = Zombies(q)
    BY <1>a, <2>0, <2>d DEF Kids, Zombies
  <2>8. NoLostParent'
    BY <1>a, <2>1, <2>7 DEF NoLostParent, NoChan
  <2> QED
    BY <2>2, <2>3, <2>4, <2>5, <2>6, <2>8
<1>2. CASE /\ p # initproc /\ Return(p)
           /\ UNCHANGED <<procvars, wait_lock>>
  <2>1. call' = [call EXCEPT ![p] = User]
    BY <1>2 DEF Return, Goto
  <2>2. state' = state /\ parent' = parent /\ chan' = chan /\ wait_lock' = wait_lock
    BY <1>2 DEF procvars
  <2>a. IsCall(User) /\ User.pc = "user"
    BY <1>b DEF User
  <2>b. \A q \in Procs : call'[q] = IF q = p THEN User ELSE call[q]
    BY <2>1 DEF ProcTypes
  <2>3. \A q \in Procs : Kids(q)' = Kids(q) /\ Zombies(q)' = Zombies(q)
    BY <2>2 DEF Kids, Zombies
  <2>4. ProcTypes' /\ InitWaits'
    BY <1>2, <2>1, <2>2, <2>a, <2>b DEF ProcTypes, InitWaits, initproc
  <2>5. ForkInv' /\ WaitInv'
    BY <2>2, <2>3, <2>a, <2>b DEF ForkInv, Forking, WaitInv
  <2>6. ParentAlive' /\ NoLostParent'
    BY <2>2, <2>3 DEF ParentAlive, NoLostParent
  <2> QED
    BY <2>4, <2>5, <2>6
<1>3. CASE /\ Zombies(p) = {} /\ Kids(p) # {}
           /\ wait_lock' = p
           /\ Goto(p, At("wait_sleep"))
           /\ UNCHANGED procvars
  <2>1. call' = [call EXCEPT ![p] = At("wait_sleep")]
    BY <1>3 DEF Goto
  <2>2. state' = state /\ parent' = parent /\ chan' = chan
    BY <1>3 DEF procvars
  <2>b. \A q \in Procs : call'[q] = IF q = p THEN At("wait_sleep") ELSE call[q]
    BY <2>1 DEF ProcTypes
  <2>3. \A q \in Procs : Kids(q)' = Kids(q) /\ Zombies(q)' = Zombies(q)
    BY <2>2 DEF Kids, Zombies
  <2>4. ProcTypes' /\ InitWaits'
    BY <1>0, <1>b, <2>1, <2>2, <2>b DEF ProcTypes, InitWaits
  <2>5. ForkInv'
    BY <1>b, <2>2, <2>b DEF ForkInv, Forking
  <2>6. WaitInv'
    BY <1>0, <1>3, <1>a, <2>3, <2>b DEF WaitInv
  <2>7. ParentAlive' /\ NoLostParent'
    BY <2>2, <2>3 DEF ParentAlive, NoLostParent
  <2> QED
    BY <2>4, <2>5, <2>6, <2>7
<1> QED
  BY <1>1, <1>2, <1>3 DEF wait

\* sleep() of wait(): what was seen under wait_lock is still so.
LEMMA WaitSleepKeeps ==
  ASSUME NEW p \in Procs, IInv, wait_sleep(p)
  PROVE  IInv'
<1> USE DEF IInv
<1>0. call[p].pc = "wait_sleep"
  BY DEF wait_sleep
<1>a. IsCall(At("wait")) /\ At("wait").pc = "wait"
  BY DEF IsCall, At, Call, Pcs
<1>1. /\ call' = [call EXCEPT ![p] = At("wait")]
      /\ chan' = [chan EXCEPT ![p] = <<"wait", p>>]
      /\ state' = state /\ parent' = parent
  BY DEF wait_sleep, Goto
<1>b. \A q \in Procs : call'[q] = IF q = p THEN At("wait") ELSE call[q]
  BY <1>1 DEF ProcTypes
<1>c. \A q \in Procs : chan'[q] = IF q = p THEN <<"wait", p>> ELSE chan[q]
  BY <1>1 DEF ProcTypes
<1>2. \A q \in Procs : Kids(q)' = Kids(q) /\ Zombies(q)' = Zombies(q)
  BY <1>1 DEF Kids, Zombies
<1>3. ProcTypes'
  BY <1>1, <1>a, <1>b DEF ProcTypes
<1>4. InitWaits'
  BY <1>1, <1>a, <1>b, ProcessAssumption DEF InitWaits, initproc, Procs
<1>5. ForkInv'
  BY <1>1, <1>a, <1>b DEF ForkInv, Forking
<1>6. WaitInv'
  BY <1>0, <1>a, <1>b DEF WaitInv
<1>7. ParentAlive'
  BY <1>1 DEF ParentAlive
<1>8. NoLostParent'
  BY <1>0, <1>2, <1>c DEF NoLostParent, WaitInv
<1> QED
  BY <1>3, <1>4, <1>5, <1>6, <1>7, <1>8

-----------------------------------------------------------------------------

\* Every step keeps the invariant.
LEMMA StepKeeps == IInv /\ [Next]_vars => IInv'
<1> SUFFICES ASSUME IInv, [Next]_vars PROVE IInv'
  OBVIOUS
<1>1. ASSUME NEW p \in Procs, step(p) PROVE IInv'
  BY <1>1, FilesMinor, PipesMinor, MinorKeeps, ForkKeeps, ForkParentKeeps, ForkRunnableKeeps,
     ExitKeeps, WaitKeeps, WaitSleepKeeps DEF step
<1>2. CASE UNCHANGED vars
  BY <1>2 DEF vars, IInv, ProcTypes, InitWaits, ForkInv, Forking, WaitInv, ParentAlive,
     NoLostParent, Kids, Zombies
<1> QED
  BY <1>1, <1>2 DEF Next, idle

LEMMA Invariant == Spec => []IInv
<1> QED
  BY InitIInv, StepKeeps, PTL DEF Spec

\* The parent of every process in the table is alive, whatever the number of
\* processes and however fork, exit and wait interleave.
THEOREM ParentsLive == Spec => []ParentAlive
<1>1. IInv => ParentAlive
  BY DEF IInv
<1> QED
  BY <1>1, Invariant, PTL

\* No wakeup of a parent in wait() is lost, whatever the number of processes: one
\* that sleeps has a child, and none that it could reap.
THEOREM ParentsWoken == Spec => []NoLostParent
<1>1. IInv => NoLostParent
  BY DEF IInv
<1> QED
  BY <1>1, Invariant, PTL
=============================================================================
