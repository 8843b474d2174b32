----------------------------- MODULE VirtioDisk -----------------------------
(***************************************************************************)
(* kernel/virtio_disk.c for one disk: processes that call virtio_disk_rw,  *)
(* the descriptor table and the two rings they share with the device, the  *)
(* device, and the interrupt handler virtio_disk_intr.                     *)
(*                                                                         *)
(* vdisk_lock is held from the start of virtio_disk_rw to its sleep(), and *)
(* from the wakeup to its return, so each of these is one step; it is held *)
(* through virtio_disk_intr, which takes several because the device adds   *)
(* entries while the handler loops.  sleep() is atomic with the release of *)
(* the lock (module SleepLock has the details).                            *)
(* Every process transfers its own struct buf, as the sleep-lock of the    *)
(* buffer cache and raid_lock ensure.  A ring of NUM slots with two 16-bit *)
(* indices is the queue of the entries between the indices (NoRequestLost  *)
(* and DescriptorsConserved bound it, so that no slot is overwritten       *)
(* before it is read).                                                     *)
(***************************************************************************)
EXTENDS Integers, FiniteSets, Sequences

CONSTANTS
  Procs,    \* processes
  NUM,      \* descriptors, and entries of each ring
  Kills,    \* the sleep()s of virtio_disk_rw in which kill() finds processes
  NoBuf     \* a null struct buf *

ASSUME NumAssumption == NUM \in Nat /\ NUM >= 3
ASSUME ProcsAssumption == NoBuf \notin Procs
ASSUME KillsAssumption == Kills \subseteq {"sleep_free", "sleep_buf"}

Descs == 0 .. NUM - 1

VARIABLES
  free,      \* disk.free: the free descriptors
  next,      \* disk.desc[i].next, NUM when flags lacks VRING_DESC_F_NEXT
  buf,       \* disk.info[i].b: the process whose buffer it is, or NoBuf
  status,    \* disk.info[i].status
  avail,     \* the available ring, from where the device is to avail->idx
  inflight,  \* device: chain heads being processed
  used,      \* the used ring, from disk.used_idx to used->idx
  irq,       \* device: an interrupt is raised and not acknowledged
  intr,      \* virtio_disk_intr is running, with vdisk_lock
  bdisk,     \* b->disk of each process's buffer
  pc,        \* where each process is
  head,      \* idx[0] of each process's request
  panicked   \* the kernel has died in the driver

tables == <<free, next, buf, status>>
rings == <<avail, used>>
device == <<inflight, irq>>
vars == <<free, next, buf, status, avail, inflight, used, irq, intr, bdisk, pc,
          head, panicked>>

\* pc of a process: not in the driver; asleep on &disk.free[0] or woken from it;
\* asleep on its buffer or woken from it.
PCs == {"out", "sleep_free", "woken_free", "sleep_buf", "woken_buf"}

TypeOK ==
  /\ free \subseteq Descs
  /\ next \in [Descs -> 0 .. NUM]
  /\ buf \in [Descs -> Procs \cup {NoBuf}]
  /\ status \in [Descs -> {0, 255}]
  /\ avail \in Seq(Descs) /\ used \in Seq(Descs)
  /\ inflight \subseteq Descs
  /\ irq \in BOOLEAN /\ intr \in BOOLEAN
  /\ bdisk \in [Procs -> {0, 1}]
  /\ pc \in [Procs -> PCs]
  /\ head \in [Procs -> Descs]
  /\ panicked \in BOOLEAN

\* After virtio_disk_init: all descriptors free, the rings zeroed.
Init ==
  /\ free = Descs
  /\ next = [i \in Descs |-> 0]
  /\ buf = [i \in Descs |-> NoBuf]
  /\ status = [i \in Descs |-> 0]
  /\ avail = <<>> /\ used = <<>>
  /\ inflight = {} /\ irq = FALSE /\ intr = FALSE
  /\ bdisk = [p \in Procs |-> 0]
  /\ pc = [p \in Procs |-> "out"]
  /\ head = [p \in Procs |-> 0]
  /\ panicked = FALSE

-----------------------------------------------------------------------------
\* alloc_desc: the lowest free descriptor of F, as a set.
alloc_desc(F) == {i \in F : \A j \in F : i <= j}

\* Mutants: wakeup that wakes nobody; that does not look at the channel.
Wakeup_nobody(f, from, to) == f
Wakeup_any(f, from, to) ==
  [p \in Procs |-> CASE f[p] = from -> to
                     [] f[p] = "sleep_buf" -> "woken_buf"
                     [] OTHER -> f[p]]

\* wakeup(chan): the processes asleep at `from' become runnable.
Wakeup(f, from, to) == [p \in Procs |-> IF f[p] = from THEN to ELSE f[p]]

\* vdisk_lock is free and the kernel alive.
Running == ~panicked /\ ~intr

\* The processes that can call virtio_disk_rw or go round its allocation loop.
AtAlloc(p) == Running /\ pc[p] \in {"out", "woken_free"}

\* alloc3_desc succeeds; the chain is formatted and published; sleep(b).
rw_submit(p) ==
  /\ AtAlloc(p)
  /\ \E i \in alloc_desc(free) : \E j \in alloc_desc(free \ {i}) :
       \E k \in alloc_desc(free \ {i, j}) :
         /\ free' = free \ {i, j, k}
         /\ next' = [next EXCEPT ![i] = j, ![j] = k, ![k] = NUM]
         /\ buf' = [buf EXCEPT ![i] = p]
         /\ status' = [status EXCEPT ![i] = 255]
         /\ avail' = Append(avail, i)
         /\ head' = [head EXCEPT ![p] = i]
  /\ bdisk' = [bdisk EXCEPT ![p] = 1]
  /\ pc' = [pc EXCEPT ![p] = "sleep_buf"]
  /\ UNCHANGED <<used, device, intr, panicked>>

\* alloc3_desc fails: it frees the one or two descriptors it got, and each
\* free_desc wakes everyone asleep on free[0]; then sleep(&free[0]).
rw_wait(p) ==
  /\ AtAlloc(p)
  /\ Cardinality(free) < 3
  /\ pc' = [IF free = {} THEN pc ELSE Wakeup(pc, "sleep_free", "woken_free")
              EXCEPT ![p] = "sleep_free"]
  /\ UNCHANGED <<tables, rings, device, intr, bdisk, head, panicked>>

\* Mutant: one descriptor too few.
free_chain_short(i) == {i, next[i]}

\* free_chain: the descriptors from i along the NEXT flags.
free_chain(i) ==
  LET tail(S) == {next[j] : j \in S} \ {NUM}
  IN  {i} \cup tail({i}) \cup tail(tail({i}))

\* The rest of virtio_disk_rw after sleep(b) returns, whatever woke it.
rw_return(p) ==
  /\ Running
  /\ pc[p] = "woken_buf"
  /\ LET chain == free_chain(head[p]) IN
       /\ free' = free \cup chain
       /\ next' = [i \in Descs |-> IF i \in chain THEN 0 ELSE next[i]]
       /\ panicked' = (chain \cap free # {})          \* free_desc 2
  /\ buf' = [buf EXCEPT ![head[p]] = NoBuf]
  /\ pc' = [Wakeup(pc, "sleep_free", "woken_free") EXCEPT ![p] = "out"]
  /\ UNCHANGED <<status, rings, device, intr, bdisk, head>>

-----------------------------------------------------------------------------
\* virtio_disk_intr starts: it acknowledges the interrupt, so that the device
\* raises another for what it adds from now on.
intr_start ==
  /\ Running
  /\ irq
  /\ irq' = FALSE
  /\ intr' = TRUE
  /\ UNCHANGED <<tables, rings, inflight, bdisk, pc, head, panicked>>

\* Mutant: used_idx does not move.
Consumed_none(ring) == ring

\* disk.used_idx += 1
Consumed(ring) == Tail(ring)

\* One turn of its loop: the entry must have status 0 and a struct buf, which is
\* marked done and whose sleeper is woken.
intr_step ==
  /\ intr /\ ~panicked
  /\ used # <<>>
  /\ LET i == Head(used) IN
       IF status[i] # 0 \/ buf[i] = NoBuf
         THEN panicked' = TRUE /\ UNCHANGED <<used, bdisk, pc>>
         ELSE /\ bdisk' = [bdisk EXCEPT ![buf[i]] = 0]
              /\ pc' = [pc EXCEPT ![buf[i]] =
                          IF @ = "sleep_buf" THEN "woken_buf" ELSE @]
              /\ used' = Consumed(used)
              /\ UNCHANGED panicked
  /\ UNCHANGED <<tables, avail, device, intr, head>>

\* The loop has caught up with used->idx: release vdisk_lock.
intr_end ==
  /\ intr /\ ~panicked
  /\ used = <<>>
  /\ intr' = FALSE
  /\ UNCHANGED <<tables, rings, device, bdisk, pc, head, panicked>>

\* kill(): a process asleep anywhere becomes runnable.
kill(p) ==
  /\ ~panicked
  /\ pc[p] \in Kills
  /\ pc' = [pc EXCEPT ![p] = IF @ = "sleep_buf" THEN "woken_buf" ELSE "woken_free"]
  /\ UNCHANGED <<tables, rings, device, intr, bdisk, head, panicked>>

-----------------------------------------------------------------------------
\* The device takes the next chain of the available ring...
dev_take ==
  /\ ~panicked
  /\ avail # <<>>
  /\ inflight' = inflight \cup {Head(avail)}
  /\ avail' = Tail(avail)
  /\ UNCHANGED <<tables, used, irq, intr, bdisk, pc, head, panicked>>

\* ... and completes the chains it has in any order: it transfers the data,
\* writes the status byte, adds the head to the used ring and interrupts.
dev_complete(i) ==
  /\ ~panicked
  /\ i \in inflight
  /\ inflight' = inflight \ {i}
  /\ status' = [status EXCEPT ![i] = 0]
  /\ used' = Append(used, i)
  /\ irq' = TRUE
  /\ UNCHANGED <<free, next, buf, avail, intr, bdisk, pc, head, panicked>>

rw(p) == rw_submit(p) \/ rw_wait(p) \/ rw_return(p)
virtio_disk_intr == intr_start \/ intr_step \/ intr_end
Device == dev_take \/ \E i \in Descs : dev_complete(i)

Next ==
  \/ \E p \in Procs : rw(p) \/ kill(p)
  \/ virtio_disk_intr
  \/ Device

Spec == Init /\ [][Next]_vars

\* The scheduler runs every runnable process again and again, interrupts are
\* delivered, and the device finishes what it is given.  A process that spins on
\* vdisk_lock while the handler comes and goes gets the lock in the end (strong
\* fairness).  Nobody has to call virtio_disk_rw.
Fairness ==
  /\ \A p \in Procs : SF_vars(pc[p] # "out" /\ rw(p))
  /\ WF_vars(virtio_disk_intr)
  /\ WF_vars(dev_take)
  /\ \A i \in Descs : WF_vars(dev_complete(i))

FairSpec == Spec /\ Fairness

-----------------------------------------------------------------------------
\* Processes with a request of their own in the driver.
Active == {p \in Procs : pc[p] \in {"sleep_buf", "woken_buf"}}

Entries(ring) == {ring[k] : k \in 1 .. Len(ring)}

\* virtio_disk_rw goes on after sleep(b) only when virtio_disk_intr has marked
\* the request finished: without a loop on b->disk, the wakeup alone must say so.
ReturnsWhenFinished == \A p \in Procs : pc[p] = "woken_buf" => bdisk[p] = 0

\* Every descriptor is free or in exactly one chain of three that belongs to a
\* process in the driver: none leaks, none is in two requests.  And the chain of
\* a request that is not finished is in exactly one place, published, in the
\* device, or reported and not yet looked at, with nothing else there: the rings
\* never hold more entries than there are requests.
DescriptorsConserved ==
  LET Unfinished == {p \in Active : bdisk[p] = 1} IN
  /\ \A p \in Active :
       /\ Cardinality(free_chain(head[p])) = 3
       /\ free_chain(head[p]) \cap free = {}
       /\ \A q \in Active \ {p} : free_chain(head[p]) \cap free_chain(head[q]) = {}
  /\ Cardinality(free) + 3 * Cardinality(Active) = NUM
  /\ {head[p] : p \in Unfinished} = Entries(avail) \cup inflight \cup Entries(used)
  /\ Cardinality(Unfinished) = Len(avail) + Cardinality(inflight) + Len(used)

\* No process stays asleep on free[0] when there are descriptors for it.
NoForgottenWaiter ==
  \A p \in Procs : pc[p] = "sleep_free" => Cardinality(free) < 3

\* None of the panics of the driver is reached, nor a null b in the handler.
NeverPanics == ~panicked

\* Every request that was submitted returns to its caller.
RequestsReturn == \A p \in Procs : pc[p] = "sleep_buf" ~> pc[p] = "out"
=============================================================================
