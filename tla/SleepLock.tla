----------------------------- MODULE SleepLock ------------------------------
(***************************************************************************)
(* acquiresleep and releasesleep (kernel/sleeplock.c) on one lock, such as *)
(* raid_lock, with sleep, wakeup, kill and the scheduler of kernel/proc.c  *)
(* at the grain of the spinlocks: lk->lk, which protects the lock, and one *)
(* p->lock per process, which protects its state and channel.              *)
(*                                                                         *)
(* There are as many CPUs as processes; a step is what runs between two    *)
(* spinlock operations that another CPU could interfere with.              *)
(***************************************************************************)
EXTENDS Integers

CONSTANT N   \* processes, in the order of the proc table

ASSUME NAssumption == N \in Nat \ {0}

Procs == 1 .. N
None == 0

VARIABLES
  locked,  \* lk->locked
  pid,     \* lk->pid
  spin,    \* the process that holds lk->lk, or None
  plock,   \* plock[p]: p->lock is held
  state,   \* p->state
  chan,    \* whether p->chan is lk
  pc,      \* where each process is in the code
  todo     \* the processes the wakeup loop of releasesleep has still to visit

vars == <<locked, pid, spin, plock, state, chan, pc, todo>>

PCs == {"out", "test", "sleep1", "sleep2", "asleep", "woken", "again",
        "held", "wakeup"}

TypeOK ==
  /\ locked \in BOOLEAN
  /\ pid \in Procs \cup {None}
  /\ spin \in Procs \cup {None}
  /\ plock \in [Procs -> BOOLEAN]
  /\ state \in [Procs -> {"RUNNING", "SLEEPING", "RUNNABLE"}]
  /\ chan \in [Procs -> BOOLEAN]
  /\ pc \in [Procs -> PCs]
  /\ todo \in SUBSET Procs

\* initsleeplock
Init ==
  /\ locked = FALSE /\ pid = None /\ spin = None
  /\ plock = [p \in Procs |-> FALSE]
  /\ state = [p \in Procs |-> "RUNNING"]
  /\ chan = [p \in Procs |-> FALSE]
  /\ pc = [p \in Procs |-> "out"]
  /\ todo = {}

Goto(p, l) == pc' = [pc EXCEPT ![p] = l]

-----------------------------------------------------------------------------
\* acquiresleep: acquire(&lk->lk), at the start and at the end of sleep().
acquire_lk(p) ==
  /\ pc[p] \in {"out", "again"}
  /\ spin = None
  /\ spin' = p
  /\ Goto(p, "test")
  /\ UNCHANGED <<locked, pid, plock, state, chan, todo>>

\* The lock is free: take it and release(&lk->lk).
take(p) ==
  /\ pc[p] = "test"
  /\ ~locked
  /\ locked' = TRUE
  /\ pid' = p
  /\ spin' = None
  /\ Goto(p, "held")
  /\ UNCHANGED <<plock, state, chan, todo>>

\* Mutant: lk->lk is released before p->lock is taken.
sleep_acquire_late(p) ==
  /\ pc[p] = "test"
  /\ locked
  /\ spin' = None
  /\ Goto(p, "sleep1")
  /\ UNCHANGED <<locked, pid, plock, state, chan, todo>>

\* The lock is held: sleep(lk, &lk->lk) starts with acquire(&p->lock)...
sleep_acquire(p) ==
  /\ pc[p] = "test"
  /\ locked
  /\ ~plock[p]
  /\ plock' = [plock EXCEPT ![p] = TRUE]
  /\ Goto(p, "sleep1")
  /\ UNCHANGED <<locked, pid, spin, state, chan, todo>>

\* ... release(lk) ...
sleep_release(p) ==
  /\ pc[p] = "sleep1"
  /\ spin' = None
  /\ Goto(p, "sleep2")
  /\ UNCHANGED <<locked, pid, plock, state, chan, todo>>

\* ... set the channel and the state, and sched(): the scheduler releases p->lock.
sleep_sched(p) ==
  /\ pc[p] = "sleep2"
  /\ chan' = [chan EXCEPT ![p] = TRUE]
  /\ state' = [state EXCEPT ![p] = "SLEEPING"]
  /\ plock' = [plock EXCEPT ![p] = FALSE]
  /\ Goto(p, "asleep")
  /\ UNCHANGED <<locked, pid, spin, todo>>

\* scheduler: a CPU takes p->lock and switches to a RUNNABLE process.
scheduler(p) ==
  /\ pc[p] = "asleep"
  /\ ~plock[p]
  /\ state[p] = "RUNNABLE"
  /\ state' = [state EXCEPT ![p] = "RUNNING"]
  /\ plock' = [plock EXCEPT ![p] = TRUE]
  /\ Goto(p, "woken")
  /\ UNCHANGED <<locked, pid, spin, chan, todo>>

\* The end of sleep(): clear the channel, release(&p->lock).
sleep_tidy(p) ==
  /\ pc[p] = "woken"
  /\ chan' = [chan EXCEPT ![p] = FALSE]
  /\ plock' = [plock EXCEPT ![p] = FALSE]
  /\ Goto(p, "again")
  /\ UNCHANGED <<locked, pid, spin, state, todo>>

-----------------------------------------------------------------------------
\* The processes that wakeup() called by p goes through: all but myproc().
\* Mutant: no wakeup at all.
Others_none(p) == {}

Others(p) == Procs \ {p}

\* Mutant: lk->pid is not cleared.
release_lk_keeps_pid(p) ==
  /\ pc[p] = "held"
  /\ spin = None
  /\ spin' = p
  /\ locked' = FALSE
  /\ todo' = Others(p)
  /\ Goto(p, "wakeup")
  /\ UNCHANGED <<pid, plock, state, chan>>

\* releasesleep: acquire(&lk->lk), clear the lock and enter wakeup(lk).
release_lk(p) ==
  /\ pc[p] = "held"
  /\ spin = None
  /\ spin' = p
  /\ locked' = FALSE
  /\ pid' = None
  /\ todo' = Others(p)
  /\ Goto(p, "wakeup")
  /\ UNCHANGED <<plock, state, chan>>

\* wakeup: one process of the table, under its lock.
wakeup(p) ==
  /\ pc[p] = "wakeup"
  /\ \E q \in todo :
       /\ \A r \in todo : q <= r
       /\ ~plock[q]
       /\ state' = [state EXCEPT ![q] =
                      IF @ = "SLEEPING" /\ chan[q] THEN "RUNNABLE" ELSE @]
       /\ todo' = todo \ {q}
  /\ UNCHANGED <<locked, pid, spin, plock, chan, pc>>

\* release(&lk->lk) at the end of releasesleep.
release_done(p) ==
  /\ pc[p] = "wakeup"
  /\ todo = {}
  /\ spin' = None
  /\ Goto(p, "out")
  /\ UNCHANGED <<locked, pid, plock, state, chan, todo>>

\* kill: another process makes a sleeping one runnable, under its lock.
kill(p) ==
  /\ ~plock[p]
  /\ state[p] = "SLEEPING"
  /\ state' = [state EXCEPT ![p] = "RUNNABLE"]
  /\ UNCHANGED <<locked, pid, spin, plock, chan, pc, todo>>

Run(p) ==
  \/ acquire_lk(p) \/ take(p)
  \/ sleep_acquire(p) \/ sleep_release(p) \/ sleep_sched(p)
  \/ scheduler(p) \/ sleep_tidy(p)
  \/ release_lk(p) \/ wakeup(p) \/ release_done(p)

Next == \E p \in Procs : Run(p) \/ kill(p)

Spec == Init /\ [][Next]_vars

\* Every process runs on, and one that spins on a spinlock that is free again and
\* again gets it; nobody has to ask for the lock.
FairSpec == Spec /\ \A p \in Procs : SF_vars(pc[p] # "out" /\ Run(p))

-----------------------------------------------------------------------------
\* Between acquiresleep and releasesleep a process is the one the lock names,
\* and there is no other.
MutualExclusion ==
  \A p \in Procs : pc[p] = "held" => locked /\ pid = p

GoingToSleep(q) ==
  \/ pc[q] \in {"sleep1", "sleep2"}
  \/ pc[q] = "asleep" /\ state[q] = "SLEEPING"

\* A process that found the lock held and went to sleep, or is about to, is
\* still to be visited by wakeup if the lock has been released since.
NoLostWakeup ==
  \A q \in Procs : GoingToSleep(q) => locked \/ q \in todo

\* The promise of the lock, from the names it records.
Abstract == INSTANCE AbstractLock WITH holder <- pid
ImplementsLock == Abstract!Spec

\* A lock that some process waits for does not stay free.
FreeLockIsTaken ==
  (~locked /\ \E p \in Procs : pc[p] \notin {"out", "held", "wakeup"})
    ~> locked
=============================================================================
