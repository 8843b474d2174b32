-------------------------------- MODULE Log ---------------------------------
(***************************************************************************)
(* The file system's redo log (kernel/log.c) on top of the buffer cache:   *)
(* begin_op, log_write, end_op with the group commit, and recovery, with a *)
(* power failure between any two steps.  A disk write is atomic, block by  *)
(* block.                                                                  *)
(*                                                                         *)
(* Processes also read blocks outside any transaction (fileread, filestat  *)
(* and every ilock do), so the committing process is not alone in the      *)
(* cache.  A process is at pc[p]; "asleep" is sleep(&log, &log.lock), whose*)
(* atomicity is the subject of SleepLock.                                  *)
(***************************************************************************)
EXTENDS BufferCache

CONSTANTS
  Home,         \* block numbers outside the log
  LOGSIZE,      \* capacity begin_op counts on
  MAXOPBLOCKS,  \* blocks one system call may log
  logstart,     \* log.start: the header's block number
  nlog,         \* log.size: blocks of the on-disk log, header included
  MaxCalls,     \* bound: system calls
  MaxCrashes    \* bound: power failures

ASSUME LogAssumption ==
  /\ LOGSIZE \in Nat /\ MAXOPBLOCKS \in Nat /\ nlog \in Nat /\ logstart \in Nat \ {0}
  /\ Home \subseteq Nat \ {0}
  /\ Home \cap (logstart .. logstart + nlog - 1) = {}

VARIABLES
  lh,           \* log.lh.block[0 .. n-1]
  outstanding,  \* log.outstanding
  committing,   \* log.committing
  recovering,   \* initlog is still running
  tail,         \* the loop variable of write_log and install_trans
  left,         \* left[p]: blocks p's system call may still log
  pc,
  panicked,     \* the argument of panic(), or ""
  serial,       \* serial[p]: the number of p's system call, which it writes
  calls,        \* system calls so far
  crashes       \* power failures so far

logVars == <<lh, outstanding, committing, recovering, tail>>
vars == <<cacheVars, logVars, left, serial, pc, panicked, calls, crashes>>

boot == 1   \* initproc, in whose context forkret calls fsinit
Slot(t) == logstart + t + 1

Goto(p, l) == pc' = [pc EXCEPT ![p] = l]

\* The image mkfs makes, at the first boot.
Init ==
  /\ disk = [k \in Home \cup {Slot(t) : t \in 0 .. nlog - 2} |-> <<0>>] @@ (logstart :> <<>>)
  /\ cache = EmptyCache /\ hold = [p \in Procs |-> <<>>]
  /\ lh = <<>> /\ outstanding = 0 /\ committing = FALSE
  /\ recovering = TRUE /\ tail = 0
  /\ left = [p \in Procs |-> 0] /\ serial = [p \in Procs |-> 0]
  /\ pc = [p \in Procs |-> IF p = boot THEN "read_head" ELSE "off"]
  /\ panicked = "" /\ calls = 0 /\ crashes = 0

-----------------------------------------------------------------------------
(* bget as a step: p is about to lock the buffer, at l.                    *)

Get(p, k, l) ==
  /\ \/ bget(p, k) /\ Goto(p, l) /\ UNCHANGED panicked
     \/ bget_panics(k) /\ panicked' = "bget: no buffers" /\ UNCHANGED <<cacheVars, pc>>
  /\ UNCHANGED <<logVars, left, serial, calls, crashes>>

Lock(p, l) ==
  /\ bread(p)
  /\ Goto(p, l)
  /\ UNCHANGED <<logVars, left, panicked, serial, calls, crashes>>

-----------------------------------------------------------------------------
(* System calls.                                                           *)

\* A system call starts: it reads a block outside any transaction, or calls
\* begin_op.
start(p) ==
  /\ pc[p] = "out"
  /\ calls < MaxCalls /\ calls' = calls + 1
  /\ \E l \in {"read", "begin"} : Goto(p, l)
  /\ serial' = [serial EXCEPT ![p] = calls + 1]
  /\ UNCHANGED <<cacheVars, logVars, left, panicked, crashes>>

read_get(p) == pc[p] = "read" /\ \E k \in Home : Get(p, k, "read_lock")
read_lock(p) == pc[p] = "read_lock" /\ Lock(p, "brelse_read")

HasSpace == Len(lh) + (outstanding + 1) * MAXOPBLOCKS <= LOGSIZE

\* Mutant: begin_op does not wait for a commit in progress.
begin_during_commit(p) ==
  /\ pc[p] = "begin"
  /\ HasSpace
  /\ outstanding' = outstanding + 1
  /\ left' = [left EXCEPT ![p] = MAXOPBLOCKS]
  /\ Goto(p, "op")
  /\ UNCHANGED <<cacheVars, lh, committing, recovering, tail, panicked, serial, calls, crashes>>

\* begin_op goes through.
begin_op(p) ==
  /\ pc[p] = "begin"
  /\ ~committing /\ HasSpace
  /\ outstanding' = outstanding + 1
  /\ left' = [left EXCEPT ![p] = MAXOPBLOCKS]
  /\ Goto(p, "op")
  /\ UNCHANGED <<cacheVars, lh, committing, recovering, tail, panicked, serial, calls, crashes>>

\* begin_op sleeps for a commit, or for log space.
begin_op_sleep(p) ==
  /\ pc[p] = "begin"
  /\ committing \/ ~HasSpace
  /\ Goto(p, "asleep")
  /\ UNCHANGED <<cacheVars, logVars, left, panicked, serial, calls, crashes>>

\* wakeup(&log), on the program counters c.
wakeup_log(c) == [p \in Procs |-> IF c[p] = "asleep" THEN "begin" ELSE c[p]]

\* A block is read and changed inside a transaction.
op_get(p) ==
  /\ pc[p] = "op" /\ left[p] > 0
  /\ \E k \in Home : Get(p, k, "op_lock")
op_lock(p) == pc[p] = "op_lock" /\ Lock(p, "op_write")

\* The caller changes b->data and calls log_write(b).
log_write(p) ==
  /\ pc[p] = "op_write"
  /\ LET k == Last(hold[p])
     IN  IF Len(lh) >= LOGSIZE \/ Len(lh) >= nlog - 1
         THEN /\ panicked' = "too big a transaction"
              /\ UNCHANGED <<cacheVars, lh, left, pc>>
         ELSE /\ IF k \in Range(lh)
                 THEN cache' = Store(k, <<serial[p]>>) /\ UNCHANGED lh
                 ELSE cache' = bpin(Store(k, <<serial[p]>>), k) /\ lh' = Append(lh, k)
              /\ left' = [left EXCEPT ![p] = @ - 1]
              /\ Goto(p, "brelse_op")
              /\ UNCHANGED <<disk, hold, panicked>>
  /\ UNCHANGED <<outstanding, committing, recovering, tail, serial, calls, crashes>>

\* end_op up to the first release(&log.lock).
end_op(p) ==
  /\ pc[p] = "op"
  /\ outstanding' = outstanding - 1
  /\ IF committing
     THEN panicked' = "log.committing" /\ UNCHANGED <<committing, pc>>
     ELSE /\ committing' = (outstanding = 1)
          /\ pc' = IF outstanding = 1 THEN [pc EXCEPT ![p] = "commit"]
                   ELSE wakeup_log([pc EXCEPT ![p] = "out"])
          /\ UNCHANGED panicked
  /\ UNCHANGED <<cacheVars, lh, recovering, tail, left, serial, calls, crashes>>

-----------------------------------------------------------------------------
(* commit.                                                                 *)

\* commit() does nothing when no block was logged.
commit(p) ==
  /\ pc[p] = "commit"
  /\ tail' = 0
  /\ Goto(p, IF lh = <<>> THEN "committed" ELSE "write_log")
  /\ UNCHANGED <<cacheVars, lh, outstanding, committing, recovering, left, panicked, serial, calls, crashes>>

\* write_log: read the log block `to' and the cached block `from' ...
write_log_to(p) == pc[p] = "write_log" /\ tail < Len(lh) /\ Get(p, Slot(tail), "to_lock")
write_log_to_lock(p) == pc[p] = "to_lock" /\ Lock(p, "from")
write_log_from(p) == pc[p] = "from" /\ Get(p, lh[tail + 1], "from_lock")
write_log_from_lock(p) == pc[p] = "from_lock" /\ Lock(p, "log_copy")

\* ... copy, write the log block, and release `from' and then `to'.
write_log_copy(p) ==
  /\ pc[p] = "log_copy"
  /\ LET to == hold[p][1]
         from == hold[p][2]
     IN  /\ cache' = Store(to, cache[from].data)
         /\ bwrite(to, cache[from].data)
         /\ hold' = [hold EXCEPT ![p] = <<from, to>>]
  /\ Goto(p, "brelse_log")
  /\ UNCHANGED <<logVars, left, panicked, serial, calls, crashes>>

\* Mutant: the blocks are installed before the header is written.
write_log_then_install(p) ==
  /\ pc[p] = "write_log" /\ tail = Len(lh)
  /\ tail' = 0
  /\ Goto(p, "install_trans")
  /\ UNCHANGED <<cacheVars, lh, outstanding, committing, recovering, left, panicked, serial, calls, crashes>>

write_log_end(p) ==
  /\ pc[p] = "write_log" /\ tail = Len(lh)
  /\ tail' = 0
  /\ Goto(p, "write_head")
  /\ UNCHANGED <<cacheVars, lh, outstanding, committing, recovering, left, panicked, serial, calls, crashes>>

\* write_head: the header block gets the in-memory header; with n > 0 this is
\* the commit point, with n = 0 it erases the transaction.
write_head(p) == pc[p] = "write_head" /\ Get(p, logstart, "head_lock")
write_head_lock(p) == pc[p] = "head_lock" /\ Lock(p, "head_write")
write_head_bwrite(p) ==
  /\ pc[p] = "head_write"
  /\ cache' = Store(logstart, lh) /\ bwrite(logstart, lh)
  /\ Goto(p, "brelse_head")
  /\ UNCHANGED <<hold, logVars, left, panicked, serial, calls, crashes>>

\* install_trans: read the log block and the destination ...
install_log(p) == pc[p] = "install_trans" /\ tail < Len(lh) /\ Get(p, Slot(tail), "lbuf_lock")
install_log_lock(p) == pc[p] = "lbuf_lock" /\ Lock(p, "dst")
install_dst(p) == pc[p] = "dst" /\ Get(p, lh[tail + 1], "dbuf_lock")
install_dst_lock(p) == pc[p] = "dbuf_lock" /\ Lock(p, "install_copy")

\* ... copy, write the destination, unpin it unless this is recovery, and
\* release lbuf and then dbuf.
install_copy(p) ==
  /\ pc[p] = "install_copy"
  /\ LET lbuf == hold[p][1]
         dbuf == hold[p][2]
         stored == Store(dbuf, cache[lbuf].data)
     IN  /\ cache' = IF recovering THEN stored ELSE bunpin(stored, dbuf)
         /\ bwrite(dbuf, cache[lbuf].data)
  /\ Goto(p, "brelse_install")
  /\ UNCHANGED <<hold, logVars, left, panicked, serial, calls, crashes>>

\* Mutant: the header is cleared before the blocks are installed.
install_nothing(p) ==
  /\ pc[p] = "install_trans"
  /\ lh' = <<>>
  /\ Goto(p, "write_head")
  /\ UNCHANGED <<cacheVars, outstanding, committing, recovering, tail, left, panicked, serial, calls, crashes>>

\* The end of install_trans, and log.lh.n = 0 in commit and recover_from_log.
install_end(p) ==
  /\ pc[p] = "install_trans" /\ tail = Len(lh)
  /\ lh' = <<>>
  /\ Goto(p, "write_head")
  /\ UNCHANGED <<cacheVars, outstanding, committing, recovering, tail, left, panicked, serial, calls, crashes>>

\* Mutant: the wakeup at the end of end_op is forgotten.
committed_silently(p) ==
  /\ pc[p] = "committed" /\ ~recovering
  /\ committing' = FALSE
  /\ Goto(p, "out")
  /\ UNCHANGED <<cacheVars, lh, outstanding, recovering, tail, left, panicked, serial, calls, crashes>>

\* The end of end_op: log.committing = 0 and wakeup(&log).
committed(p) ==
  /\ pc[p] = "committed" /\ ~recovering
  /\ committing' = FALSE
  /\ pc' = wakeup_log([pc EXCEPT ![p] = "out"])
  /\ UNCHANGED <<cacheVars, lh, outstanding, recovering, tail, left, panicked, serial, calls, crashes>>

-----------------------------------------------------------------------------
(* initlog, and power failures.                                            *)

\* recover_from_log: read_head ...
read_head(p) == pc[p] = "read_head" /\ Get(p, logstart, "read_head_lock")
read_head_lock(p) ==
  /\ pc[p] = "read_head_lock"
  /\ bread(p)
  /\ lh' = Read(Last(hold[p]))
  /\ tail' = 0
  /\ Goto(p, "brelse_boot")
  /\ UNCHANGED <<outstanding, committing, recovering, left, panicked, serial, calls, crashes>>

\* ... install_trans(1) and write_head() as above; then the system runs.
recovered(p) ==
  /\ pc[p] = "committed" /\ recovering
  /\ recovering' = FALSE
  /\ pc' = [q \in Procs |-> "out"]
  /\ UNCHANGED <<cacheVars, lh, outstanding, committing, tail, left, panicked, serial, calls, crashes>>

\* Where a process goes after its last brelse at l.
After(l) ==
  CASE l = "brelse_read" -> "out"
    [] l = "brelse_op" -> "op"
    [] l = "brelse_log" -> "write_log"
    [] l = "brelse_head" -> IF lh = <<>> THEN "committed" ELSE "install_trans"
    [] l = "brelse_install" -> "install_trans"
    [] l = "brelse_boot" -> "install_trans"

Releasing == {"brelse_read", "brelse_op", "brelse_log", "brelse_head", "brelse_install",
              "brelse_boot"}

release_buffer(p) ==
  /\ pc[p] \in Releasing
  /\ \/ releasesleep(p) /\ UNCHANGED <<pc, tail>>
     \/ /\ brelse(p)
        /\ IF Len(hold[p]) > 1 THEN UNCHANGED <<pc, tail>>
           ELSE /\ Goto(p, After(pc[p]))
                /\ tail' = tail + (IF pc[p] \in {"brelse_log", "brelse_install"} THEN 1 ELSE 0)
  /\ UNCHANGED <<lh, outstanding, committing, recovering, left, panicked, serial, calls, crashes>>

\* Power failure: the disk is all that remains.  It also ends a panic.
crash ==
  /\ crashes < MaxCrashes
  /\ crashes' = crashes + 1
  /\ cache' = EmptyCache /\ hold' = [p \in Procs |-> <<>>]
  /\ lh' = <<>> /\ outstanding' = 0 /\ committing' = FALSE
  /\ recovering' = TRUE /\ tail' = 0
  /\ left' = [p \in Procs |-> 0] /\ serial' = [p \in Procs |-> 0]
  /\ pc' = [p \in Procs |-> IF p = boot THEN "read_head" ELSE "off"]
  /\ panicked' = ""
  /\ UNCHANGED <<disk, calls>>

-----------------------------------------------------------------------------
step(p) ==
  \/ start(p)
  \/ read_get(p) \/ read_lock(p)
  \/ begin_op(p) \/ begin_op_sleep(p)
  \/ op_get(p) \/ op_lock(p) \/ log_write(p) \/ end_op(p)
  \/ commit(p)
  \/ write_log_to(p) \/ write_log_to_lock(p) \/ write_log_from(p) \/ write_log_from_lock(p)
  \/ write_log_copy(p) \/ write_log_end(p)
  \/ write_head(p) \/ write_head_lock(p) \/ write_head_bwrite(p)
  \/ install_log(p) \/ install_log_lock(p) \/ install_dst(p) \/ install_dst_lock(p)
  \/ install_copy(p) \/ install_end(p)
  \/ committed(p)
  \/ read_head(p) \/ read_head_lock(p) \/ recovered(p)
  \/ release_buffer(p)

\* Nothing has to happen when every call has returned, or after a panic.
idle == (panicked # "" \/ \A p \in Procs : pc[p] = "out") /\ UNCHANGED vars

Next ==
  \/ panicked = "" /\ \E p \in Procs : step(p)
  \/ idle
  \/ crash

Spec == Init /\ [][Next]_vars

-----------------------------------------------------------------------------
(* Properties.                                                             *)

\* What recovery would make of the disk as it is now.
Durable ==
  LET head == disk[logstart]
  IN  [k \in Home |->
        IF k \in Range(head) THEN disk[Slot((CHOOSE j \in DOMAIN head : head[j] = k) - 1)]
        ELSE disk[k]]

\* The blocks as a process that reads them sees them.
Current ==
  IF recovering THEN Durable
  ELSE [k \in Home |->
         IF Cached(k) THEN Read(k) ELSE disk[k]]

T == INSTANCE Transactions WITH Data <- {<<n>> : n \in 0 .. MaxCalls}, current <- Current, durable <- Durable, active <- outstanding

\* The log implements atomic group transactions: whatever the power failures,
\* during commit and during recovery too, the disk after recovery is the one of
\* a moment when no system call was in progress.
ImplementsTransactions == T!Spec

\* When the last concurrent call has returned from end_op, everything it and
\* the others wrote survives a crash, and nothing stays pinned or logged.
ReturnedIsDurable ==
  outstanding = 0 /\ ~committing /\ ~recovering => Durable = Current /\ lh = <<>>

\* The reference counts are exact: a reference for each process that has the
\* buffer and one for a logged block that is not installed yet.  Too few would
\* let bget recycle a buffer in use, too many would lose it for ever.  So the
\* buffers that processes have stay theirs, and recycling loses no update.
Pinned(k) ==
  /\ ~recovering
  /\ \E j \in DOMAIN lh :
       /\ lh[j] = k
       /\ ~ \E p \in Procs :
              \/ pc[p] \in {"install_trans", "lbuf_lock", "dst", "dbuf_lock", "install_copy"} /\ j <= tail
              \/ pc[p] = "brelse_install" /\ j <= tail + 1
RefcntExact ==
  /\ \A k \in DOMAIN cache :
       cache[k].refcnt = Cardinality({p \in Procs : k \in Range(hold[p])})
                         + (IF Pinned(k) THEN 1 ELSE 0)
  /\ HeldStaysCached /\ RecyclableIsClean

\* A process asleep in begin_op has somebody to wake it: a call in progress or
\* a commit, whose end calls wakeup(&log).
SleeperHasWaker ==
  \A p \in Procs : pc[p] = "asleep" => outstanding > 0 \/ committing

\* The only panic is log_write's, and only when every block of the on-disk log
\* is used: end_op never finds a commit in progress, and the cache always has a
\* buffer to recycle.
PanicsOnlyWhenFull ==
  panicked # "" => panicked = "too big a transaction" /\ Len(lh) = nlog - 1
=============================================================================
