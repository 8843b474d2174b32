-------------------------- MODULE SleepLockProofs ---------------------------
(***************************************************************************)
(* Proofs, for any number of processes, of the safety properties of        *)
(* SleepLock and of its refinement of AbstractLock.                        *)
(***************************************************************************)
EXTENDS SleepLock, TLAPS

\* What the spinlocks protect: lk->lk is held exactly in the places below, and
\* p->lock exactly inside sleep() (and by the scheduler on the way out of it).
SpinlocksHeld ==
  \A p \in Procs :
    /\ spin = p <=> pc[p] \in {"test", "sleep1", "wakeup"}
    /\ plock[p] <=> pc[p] \in {"sleep1", "sleep2", "woken"}

\* lk->locked and lk->pid name the process between acquire and release, and the
\* wakeup loop runs only while the lock is free.
HolderNamed ==
  /\ locked => pid \in Procs /\ pc[pid] = "held"
  /\ ~locked => pid = None
  /\ \A p \in Procs : pc[p] = "wakeup" => ~locked

\* p->chan is lk for exactly the processes that are inside sleep().
ChannelSet ==
  \A p \in Procs : chan[p] <=> pc[p] \in {"asleep", "woken"}

\* The inductive invariant.
Inv ==
  /\ TypeOK
  /\ SpinlocksHeld
  /\ HolderNamed
  /\ ChannelSet
  /\ MutualExclusion
  /\ NoLostWakeup

-----------------------------------------------------------------------------
\* initsleeplock establishes the invariant.
LEMMA InitInv == Init => Inv
<1> SUFFICES ASSUME Init PROVE Inv
  OBVIOUS
<1> USE NAssumption DEF Init, PCs, Procs, None
<1>1. TypeOK
  BY DEF TypeOK
<1>2. SpinlocksHeld
  BY DEF SpinlocksHeld
<1>3. HolderNamed
  BY DEF HolderNamed
<1>4. ChannelSet
  BY DEF ChannelSet
<1>5. MutualExclusion /\ NoLostWakeup
  BY DEF MutualExclusion, NoLostWakeup, GoingToSleep
<1> QED
  BY <1>1, <1>2, <1>3, <1>4, <1>5 DEF Inv

\* Every step between two spinlock operations preserves it.
LEMMA NextInv == Inv /\ [Next]_vars => Inv'
<1> SUFFICES ASSUME Inv, [Next]_vars PROVE Inv'
  OBVIOUS
<1> USE NAssumption
<1> USE DEF Inv, TypeOK, SpinlocksHeld, HolderNamed, ChannelSet,
            MutualExclusion, NoLostWakeup, GoingToSleep, PCs, Procs, None, Goto
<1>1. ASSUME NEW p \in Procs, acquire_lk(p) PROVE Inv'
  BY <1>1 DEF acquire_lk
<1>2. ASSUME NEW p \in Procs, take(p) PROVE Inv'
  BY <1>2 DEF take
<1>3. ASSUME NEW p \in Procs, sleep_acquire(p) PROVE Inv'
  BY <1>3 DEF sleep_acquire
<1>4. ASSUME NEW p \in Procs, sleep_release(p) PROVE Inv'
  BY <1>4 DEF sleep_release
<1>5. ASSUME NEW p \in Procs, sleep_sched(p) PROVE Inv'
  BY <1>5 DEF sleep_sched
<1>6. ASSUME NEW p \in Procs, scheduler(p) PROVE Inv'
  BY <1>6 DEF scheduler
<1>7. ASSUME NEW p \in Procs, sleep_tidy(p) PROVE Inv'
  BY <1>7 DEF sleep_tidy
<1>8. ASSUME NEW p \in Procs, release_lk(p) PROVE Inv'
  <2>1. TypeOK'
    BY <1>8 DEF release_lk, Others
  <2>2. SpinlocksHeld'
    BY <1>8 DEF release_lk, Others
  <2>3. HolderNamed'
    BY <1>8 DEF release_lk, Others
  <2>4. ChannelSet'
    BY <1>8 DEF release_lk, Others
  <2>5. MutualExclusion'
    BY <1>8 DEF release_lk, Others
  <2>6. NoLostWakeup'
    BY <1>8 DEF release_lk, Others
  <2> QED
    BY <2>1, <2>2, <2>3, <2>4, <2>5, <2>6
<1>9. ASSUME NEW p \in Procs, wakeup(p) PROVE Inv'
  BY <1>9 DEF wakeup
<1>10. ASSUME NEW p \in Procs, release_done(p) PROVE Inv'
  BY <1>10 DEF release_done
<1>11. ASSUME NEW p \in Procs, kill(p) PROVE Inv'
  BY <1>11 DEF kill
<1>12. CASE UNCHANGED vars
  BY <1>12 DEF vars
<1> QED
  BY <1>1, <1>2, <1>3, <1>4, <1>5, <1>6, <1>7, <1>8, <1>9, <1>10, <1>11, <1>12
     DEF Next, Run

\* The invariant holds of every behaviour.
LEMMA SpecInv == Spec => []Inv
  BY InitInv, NextInv, PTL DEF Spec

\* acquiresleep and releasesleep keep the lock, the spinlocks and the process
\* states in their ranges.
THEOREM TypeCorrect == Spec => []TypeOK
  BY SpecInv, PTL DEF Inv

\* Between acquiresleep and releasesleep a process is the only one there, however
\* many processes there are, are woken together or are killed.
THEOREM LockExcludes == Spec => []MutualExclusion
  BY SpecInv, PTL DEF Inv

\* sleep() and wakeup() lose no wakeup: a process that went to sleep on the held
\* lock is visited by the wakeup loop after the lock is released.
THEOREM WakeupNotLost == Spec => []NoLostWakeup
  BY SpecInv, PTL DEF Inv

-----------------------------------------------------------------------------
\* A step of the code takes the free lock for one process, lets its holder give
\* it up, or leaves its holder as it is.
LEMMA StepRefines == Inv /\ [Next]_vars => [Abstract!Next]_pid
<1> SUFFICES ASSUME Inv, [Next]_vars PROVE [Abstract!Next]_pid
  OBVIOUS
<1> USE DEF Abstract!Next, Abstract!Acquire, Abstract!Release
<1>1. ASSUME NEW p \in Procs, take(p) PROVE Abstract!Acquire(p)
  BY <1>1 DEF take, Inv, HolderNamed
<1>2. ASSUME NEW p \in Procs, release_lk(p) PROVE Abstract!Release(p)
  BY <1>2 DEF release_lk, Inv, MutualExclusion
<1>3. ASSUME NEW p \in Procs, Run(p) \/ kill(p), ~take(p), ~release_lk(p)
      PROVE pid' = pid
  BY <1>3 DEF Run, acquire_lk, sleep_acquire, sleep_release, sleep_sched,
     scheduler, sleep_tidy, wakeup, release_done, kill
<1>4. CASE UNCHANGED vars
  BY <1>4 DEF vars
<1> QED
  BY <1>1, <1>2, <1>3, <1>4 DEF Next

\* The sleep-lock of the kernel implements the lock of AbstractLock.
THEOREM LockRefinement == Spec => ImplementsLock
<1>1. Init => Abstract!Init
  BY DEF Init, Abstract!Init
<1> QED
  BY <1>1, SpecInv, StepRefines, PTL DEF Spec, ImplementsLock, Abstract!Spec
=============================================================================
