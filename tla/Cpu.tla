--------------------------------- MODULE Cpu ---------------------------------
(***************************************************************************)
(* CPUs that run processes: spinlocks that turn interrupts off             *)
(* (kernel/spinlock.c), the scheduler, sleep, wakeup, yield and kill       *)
(* (kernel/proc.c), interrupts and the clock (kernel/trap.c) and sys_sleep *)
(* (kernel/sysproc.c).                                                     *)
(*                                                                         *)
(* A thread is a process or the scheduler of a CPU.  It has a stack of     *)
(* frames, the first of which says where it is; an interrupt pushes a      *)
(* frame on the stack of the thread it interrupts.  A step goes from one   *)
(* acquire, release or switch of threads to the next.                      *)
(***************************************************************************)
EXTENDS Integers, Sequences, FiniteSets

CONSTANTS
  NCPU, NPROC,
  Scenarios,  \* what the processes do, a sequence of calls for each one;
              \* how many timer interrupts there are, and what is typed
  UINT        \* 2^32 in the code

ASSUME CpuAssumption ==
  NCPU \in Nat \ {0} /\ NPROC \in Nat \ {0} /\ UINT \in Nat \ {0}

Cpus == 1 .. NCPU
Procs == 1 .. NPROC
Scheduler(c) == -c
Threads == Procs \cup {Scheduler(c) : c \in Cpus}
\* Each process has a spinlock; tickslock, cons.lock and uart_tx_lock are the others.
tickslock == NPROC + 1
cons_lock == NPROC + 2
uart_tx_lock == NPROC + 3
Locks == 1 .. NPROC + 3
Free == 0

VARIABLES
  cpu,     \* noff, intena (struct cpu), and whether interrupts are on
  run,     \* the thread that a CPU runs
  lock,    \* the CPU that holds a spinlock
  proc,    \* state, chan, killed, and intena saved by sched
  stack,   \* the frames of a thread
  work,    \* the calls a process still makes
  ticks,
  timer    \* timer interrupts to come

cpuvars == <<cpu, run, lock, proc, stack, work, ticks, timer>>

-----------------------------------------------------------------------------
(* Frames                                                                  *)

\* pc: where it is; chan: what it sleeps on or wakes up; n, x: its locals.
Frame(pc, chan, n) == [pc |-> pc, chan |-> chan, n |-> n, x |-> 0]

Top(c) == Head(stack[run[c]])
At(c, pc) == Top(c).pc = pc
Become(c, frames) == stack' = [stack EXCEPT ![run[c]] = frames \o Tail(@)]
Jump(c, pc) == Become(c, <<[Top(c) EXCEPT !.pc = pc]>>)
Call(c, pc, f) == Become(c, <<f, [Top(c) EXCEPT !.pc = pc]>>)
Return(c) == Become(c, <<>>)

-----------------------------------------------------------------------------
(* spinlock.c                                                              *)

push_off(k) ==
  [noff |-> k.noff + 1, intena |-> IF k.noff = 0 THEN k.intr ELSE k.intena, intr |-> FALSE]

pop_off(k) ==
  [k EXCEPT !.noff = @ - 1, !.intr = IF k.noff = 1 /\ k.intena THEN TRUE ELSE @]

acquire(c, l) ==
  /\ lock[l] = Free
  /\ lock' = [lock EXCEPT ![l] = c]
  /\ cpu' = [cpu EXCEPT ![c] = push_off(@)]

release(c, l) ==
  /\ lock' = [lock EXCEPT ![l] = Free]
  /\ cpu' = [cpu EXCEPT ![c] = pop_off(@)]

-----------------------------------------------------------------------------
(* proc.c.  The place of the scheduler's scan in the table is left out: it *)
(* may reach any process next.                                             *)

\* The lock that guards what a process sleeps on.
LockOf(chan) == CASE chan = "cons.r" -> cons_lock
                  [] chan = "tx_r"   -> uart_tx_lock
                  [] chan = "ticks"  -> tickslock

scheduler_intr_on(c) ==
  /\ At(c, "scheduler") /\ ~cpu[c].intr
  /\ cpu' = [cpu EXCEPT ![c].intr = TRUE]
  /\ UNCHANGED <<run, lock, proc, stack, work, ticks, timer>>

\* Where the process that is switched to goes on, up to the release of its
\* lock: the end of sleep, yield or forkret, and what intena is then.
Resume(frames) ==
  CASE Head(frames).pc = "awake"   -> <<[Head(frames) EXCEPT !.pc = "relock"]>> \o Tail(frames)
    [] Head(frames).pc = "yielded" -> Tail(frames)
    [] OTHER                       -> <<[Head(frames) EXCEPT !.pc = "user"]>> \o Tail(frames)
Resumed(k, p) ==
  IF Head(stack[p]).pc = "forkret" THEN [k EXCEPT !.intr = TRUE]   \* usertrapret
  ELSE pop_off([push_off(k) EXCEPT !.intena = proc[p].intena])

SwitchTo(c, p) ==
  /\ proc[p].state = "RUNNABLE"
  /\ proc' = [proc EXCEPT ![p].state = "RUNNING", ![p].chan = ""]
  /\ run' = [run EXCEPT ![c] = p]
  /\ cpu' = [cpu EXCEPT ![c] = Resumed(@, p)]
  /\ stack' = [stack EXCEPT ![p] = Resume(@), ![Scheduler(c)] = <<Frame("switched", "", p)>>]

\* Mutant: without the lock of the process.
scheduler_unlocked(c) ==
  /\ At(c, "scheduler")
  /\ \E p \in Procs : SwitchTo(c, p)
  /\ UNCHANGED <<lock, work, ticks, timer>>

\* A process to run is found; its lock is taken here and released by the process.
scheduler(c) ==
  /\ At(c, "scheduler")
  /\ \E p \in Procs : lock[p] = Free /\ SwitchTo(c, p)
  /\ UNCHANGED <<lock, work, ticks, timer>>

\* It is done running for now.
scheduler_back(c) ==
  /\ At(c, "switched")
  /\ release(c, Top(c).n)
  /\ Jump(c, "scheduler")
  /\ UNCHANGED <<run, proc, work, ticks, timer>>

\* Mutant: intena is not saved with the thread.
sched_cpu(c, from, to) ==
  /\ At(c, from)
  /\ proc' = [proc EXCEPT ![run[c]].intena = FALSE]
  /\ run' = [run EXCEPT ![c] = Scheduler(c)]
  /\ Jump(c, to)
  /\ UNCHANGED <<cpu, lock, work, ticks, timer>>

sched(c, from, to) ==
  /\ At(c, from)
  /\ proc' = [proc EXCEPT ![run[c]].intena = cpu[c].intena]
  /\ run' = [run EXCEPT ![c] = Scheduler(c)]
  /\ Jump(c, to)
  /\ UNCHANGED <<cpu, lock, work, ticks, timer>>

yield(c) ==
  /\ At(c, "yield")
  /\ acquire(c, run[c])
  /\ proc' = [proc EXCEPT ![run[c]].state = "RUNNABLE"]
  /\ Jump(c, "yield_sched")
  /\ UNCHANGED <<run, work, ticks, timer>>

\* Mutant: lk is released before the lock of the process is taken.
sleep_late(c) ==
  LET p == run[c]
  IN  \/ /\ At(c, "sleep") /\ lock[LockOf(Top(c).chan)] = c
         /\ release(c, LockOf(Top(c).chan))
         /\ UNCHANGED <<proc, stack, run, work, ticks, timer>>
      \/ /\ At(c, "sleep") /\ lock[LockOf(Top(c).chan)] # c
         /\ acquire(c, p)
         /\ proc' = [proc EXCEPT ![p].state = "SLEEPING", ![p].chan = Top(c).chan]
         /\ Jump(c, "sleep_sched")
         /\ UNCHANGED <<run, work, ticks, timer>>

\* sleep: the lock of the process is taken before lk is released.
sleep(c) ==
  LET p == run[c]
  IN  /\ At(c, "sleep")
      /\ lock[p] = Free
      /\ lock' = [lock EXCEPT ![p] = c, ![LockOf(Top(c).chan)] = Free]
      /\ cpu' = [cpu EXCEPT ![c] = pop_off(push_off(@))]
      /\ proc' = [proc EXCEPT ![p].state = "SLEEPING", ![p].chan = Top(c).chan]
      /\ Jump(c, "sleep_sched")
      /\ UNCHANGED <<run, work, ticks, timer>>

sleep_end(c) ==
  /\ At(c, "relock")
  /\ acquire(c, LockOf(Top(c).chan))
  /\ Return(c)
  /\ UNCHANGED <<run, proc, work, ticks, timer>>

\* wakeup of process n; the next one, or the end, follows.
wakeup(c) ==
  LET p == Top(c).n
  IN  /\ At(c, "wakeup")
      /\ p # run[c] => lock[p] = Free
      /\ proc' = IF p # run[c] /\ proc[p].state = "SLEEPING" /\ proc[p].chan = Top(c).chan
                 THEN [proc EXCEPT ![p].state = "RUNNABLE"] ELSE proc
      /\ IF p = NPROC THEN Return(c) ELSE Become(c, <<[Top(c) EXCEPT !.n = p + 1]>>)
      /\ UNCHANGED <<cpu, run, lock, work, ticks, timer>>

\* kill of process n
kill(c) ==
  LET p == Top(c).n
  IN  /\ At(c, "kill")
      /\ lock[p] = Free
      /\ proc' = [proc EXCEPT ![p].killed = TRUE,
                              ![p].state = IF @ = "SLEEPING" THEN "RUNNABLE" ELSE @]
      /\ Return(c)
      /\ UNCHANGED <<cpu, run, lock, work, ticks, timer>>

\* exit, as far as scheduling goes.
exit(c) ==
  /\ At(c, "exit")
  /\ acquire(c, run[c])
  /\ proc' = [proc EXCEPT ![run[c]].state = "ZOMBIE"]
  /\ Jump(c, "exit_sched")
  /\ UNCHANGED <<run, work, ticks, timer>>

-----------------------------------------------------------------------------
(* trap.c and sysproc.c                                                    *)

\* usertrap: the next system call, or exit when killed or out of calls.
usertrap(c) ==
  LET p == run[c]
  IN  /\ At(c, "user")
      /\ lock[p] = Free
      /\ IF proc[p].killed \/ work[p] = <<>>
         THEN Jump(c, "exit") /\ UNCHANGED work
         ELSE /\ Call(c, "user", Head(work[p]))
              /\ work' = [work EXCEPT ![p] = Tail(@)]
      /\ UNCHANGED <<cpu, run, lock, proc, ticks, timer>>

\* An interrupt is taken: kernelvec or uservec, up to the device's handler.
interrupt(c, pc) ==
  /\ cpu[c].intr
  /\ cpu' = [cpu EXCEPT ![c].intr = FALSE]
  /\ stack' = [stack EXCEPT ![run[c]] = <<Frame(pc, "", 0)>> \o @]
  /\ UNCHANGED <<run, lock, proc, work, ticks>>

\* Only the first CPU counts ticks.
timer_interrupt(c) ==
  /\ timer > 0
  /\ interrupt(c, IF c = 1 THEN "clockintr" ELSE "trap_yield")
  /\ timer' = timer - 1

clockintr(c) ==
  /\ At(c, "clockintr")
  /\ acquire(c, tickslock)
  /\ ticks' = (ticks + 1) % UINT
  /\ Call(c, "clock_end", Frame("wakeup", "ticks", 1))
  /\ UNCHANGED <<run, proc, work, timer>>

\* After a timer interrupt, a process gives up its CPU.
Yields(c) ==
  IF run[c] \in Procs /\ proc[run[c]].state = "RUNNING"
  THEN Call(c, "trap_end", Frame("yield", "", 0)) ELSE Jump(c, "trap_end")

clockintr_end(c) ==
  /\ At(c, "clock_end")
  /\ release(c, tickslock)
  /\ Yields(c)
  /\ UNCHANGED <<run, proc, work, ticks, timer>>

trap_yield(c) ==
  /\ At(c, "trap_yield")
  /\ Yields(c)
  /\ UNCHANGED <<cpu, run, lock, proc, work, ticks, timer>>

\* The return from an interrupt, after which interrupts are on again.
trap_end(c) ==
  /\ At(c, "trap_end")
  /\ Return(c)
  /\ cpu' = [cpu EXCEPT ![c].intr = TRUE]
  /\ UNCHANGED <<run, lock, proc, work, ticks, timer>>

\* sys_sleep: n ticks from ticks0, in x.
sys_sleep(c) ==
  /\ At(c, "sys_sleep")
  /\ acquire(c, tickslock)
  /\ Become(c, <<[Top(c) EXCEPT !.pc = "sleeping", !.x = ticks]>>)
  /\ UNCHANGED <<run, proc, work, ticks, timer>>

Elapsed(f) == (ticks - f.x) % UINT >= f.n

sys_sleep_loop(c) ==
  /\ At(c, "sleeping")
  /\ IF Elapsed(Top(c)) \/ proc[run[c]].killed
     THEN release(c, tickslock) /\ Return(c)
     ELSE /\ Call(c, "sleeping", Frame("sleep", "ticks", 0))
          /\ UNCHANGED <<lock, cpu>>
  /\ UNCHANGED <<run, proc, work, ticks, timer>>

-----------------------------------------------------------------------------
CpuInit(scenario) ==
  /\ cpu = [c \in Cpus |-> [noff |-> 0, intena |-> FALSE, intr |-> FALSE]]
  /\ run = [c \in Cpus |-> Scheduler(c)]
  /\ lock = [l \in Locks |-> Free]
  /\ proc = [p \in Procs |-> [state |-> "RUNNABLE", chan |-> "", killed |-> FALSE, intena |-> FALSE]]
  /\ stack = [t \in Threads |-> <<Frame(IF t \in Procs THEN "forkret" ELSE "scheduler", "", 0)>>]
  /\ work = scenario.work
  /\ ticks = UINT - 1
  /\ timer = scenario.timer

CpuStep(c) ==
  \/ scheduler_intr_on(c) \/ scheduler(c) \/ scheduler_back(c)
  \/ sched(c, "sleep_sched", "awake") \/ sched(c, "yield_sched", "yielded")
  \/ sched(c, "exit_sched", "exited")
  \/ yield(c) \/ sleep(c) \/ sleep_end(c) \/ wakeup(c) \/ kill(c) \/ exit(c) \/ usertrap(c)
  \/ timer_interrupt(c) \/ clockintr(c) \/ clockintr_end(c) \/ trap_yield(c) \/ trap_end(c)
  \/ sys_sleep(c) \/ sys_sleep_loop(c)

-----------------------------------------------------------------------------
(* Properties                                                              *)

\* The frames of interrupts, wherever they are in a stack.
InHandler(t) ==
  \E i \in 1 .. Len(stack[t]) :
    stack[t][i].pc \in {"clockintr", "clock_end", "trap_yield", "trap_end",
                        "uartintr", "edit", "edited", "uart_tx_end"}

\* No two CPUs are on the stack of one thread, and a process that a CPU runs is
\* RUNNING or has its lock held by that CPU, on the way out or in (scheduler,
\* sched: the lock of a process is held across the switch).
OneStackPerCpu ==
  \A c \in Cpus :
    /\ \A d \in Cpus \ {c} : run[c] # run[d]
    /\ run[c] \in Procs => proc[run[c]].state = "RUNNING" \/ lock[run[c]] = c
    /\ \A p \in Procs : lock[p] = c => run[c] \in {p, Scheduler(c)}

\* noff counts the locks that a CPU holds, so that sched is called with the
\* lock of the process and no other, and interrupts off (the panics of sched).
LocksCounted ==
  \A c \in Cpus :
    /\ cpu[c].noff = Cardinality({l \in Locks : lock[l] = c})
    /\ cpu[c].noff > 0 => ~cpu[c].intr
    /\ Top(c).pc \in {"sleep_sched", "yield_sched", "exit_sched"} =>
         cpu[c].noff = 1 /\ lock[run[c]] = c

\* The code of a process runs with interrupts on whenever it holds no lock and
\* is not in a handler, and in a handler they are off: intena follows the
\* thread from CPU to CPU (sched).
InterruptsRestored ==
  \A c \in Cpus : run[c] \in Procs =>
    (cpu[c].intr <=> cpu[c].noff = 0 /\ ~InHandler(run[c]))

\* The lock that a thread is about to take, if any.
Wants(c) ==
  CASE Top(c).pc \in {"sleep", "yield", "exit", "user"} -> {run[c]}
    [] Top(c).pc = "wakeup" /\ Top(c).n # run[c] -> {Top(c).n}
    [] Top(c).pc = "relock" -> {LockOf(Top(c).chan)}
    [] Top(c).pc \in {"clockintr", "sys_sleep"} -> {tickslock}
    [] Top(c).pc = "uartintr" -> {cons_lock, uart_tx_lock}
    [] Top(c).pc = "consoleread" -> {cons_lock}
    [] Top(c).pc = "uartputc" -> {uart_tx_lock}
    [] OTHER -> {}

\* No CPU waits for a lock that it holds itself, whatever it interrupted (the
\* panic of acquire).
NoSelfDeadlock == \A c \in Cpus : \A l \in Wants(c) : lock[l] # c

\* Locks and interrupts agree on every CPU, whatever thread it switches to and
\* whatever it interrupts: push_off and pop_off count the locks, code without
\* one can be interrupted, and a handler never spins on a lock of its own CPU.
InterruptDiscipline == LocksCounted /\ InterruptsRestored /\ NoSelfDeadlock

\* A process that wakeup will reach.
BeingWoken(p) ==
  \E t \in Threads : \E i \in 1 .. Len(stack[t]) :
    /\ stack[t][i].pc = "wakeup" /\ stack[t][i].chan = proc[p].chan
    /\ stack[t][i].n <= p
=============================================================================
