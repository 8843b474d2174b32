---------------------------- MODULE BufferCache -----------------------------
(***************************************************************************)
(* The buffer cache (kernel/bio.c) over one disk: bget with recycling,     *)
(* bread, bwrite, brelse, bpin and bunpin.  Each operator is one critical  *)
(* section of bcache.lock or one use of a buffer's sleep-lock; the module  *)
(* that extends this one says which process takes which step when.         *)
(*                                                                         *)
(* bget looks a block up and claims a buffer for it in one critical        *)
(* section, so a block has at most one buffer, and the state of the cache  *)
(* is a function from the cached blocks to their buffers.  Which of the    *)
(* unused buffers is recycled is left open: the code takes the least       *)
(* recently used one.  The contents of a block are a sequence of numbers,  *)
(* which is only copied.                                                   *)
(***************************************************************************)
EXTENDS Integers, Sequences, SequencesExt, FiniteSets, TLC

CONSTANTS
  Procs,      \* processes: 1 .. n
  NBUF        \* buffers

ASSUME CacheAssumption == NBUF \in Nat \ {0} /\ Procs \subseteq Nat \ {0}

None == 0

VARIABLES
  disk,    \* contents of every block on the disk
  cache,   \* the buffers, by the block they hold
  hold     \* hold[p]: blocks whose buffers p got from bget and has not released

cacheVars == <<disk, cache, hold>>

\* binit: no buffer holds a block.
EmptyCache == <<>>

Cached(k) == k \in DOMAIN cache
Unused == {k \in DOMAIN cache : cache[k].refcnt = 0}

\* The cache without the block j, and with a new buffer for k.
Without(j) == [k \in DOMAIN cache \ {j} |-> cache[k]]
Claim(c, k) == (k :> [valid |-> FALSE, refcnt |-> 1, lock |-> None, data |-> <<>>]) @@ c

-----------------------------------------------------------------------------
\* bget up to release(&bcache.lock): the buffer of block k, one that holds no
\* block yet, or a recycled one.
bget(p, k) ==
  /\ \/ Cached(k) /\ cache' = [cache EXCEPT ![k].refcnt = @ + 1]
     \/ ~Cached(k) /\ Cardinality(DOMAIN cache) < NBUF /\ cache' = Claim(cache, k)
     \/ /\ ~Cached(k) /\ Cardinality(DOMAIN cache) = NBUF
        /\ \E j \in Unused : cache' = Claim(Without(j), k)
  /\ hold' = [hold EXCEPT ![p] = Append(@, k)]
  /\ UNCHANGED disk

\* bget finds neither the block nor a free buffer: panic("bget: no buffers").
bget_panics(k) == ~Cached(k) /\ Cardinality(DOMAIN cache) = NBUF /\ Unused = {}

\* What bread finds in the buffer of k.
Read(k) == IF cache[k].valid THEN cache[k].data ELSE disk[k]

\* The end of bget and bread: acquiresleep, and read the disk unless valid.
bread(p) ==
  LET k == Last(hold[p])
  IN  /\ cache[k].lock = None
      /\ cache' = [cache EXCEPT ![k].lock = p, ![k].valid = TRUE, ![k].data = Read(k)]
      /\ UNCHANGED <<disk, hold>>

\* brelse: releasesleep ...
releasesleep(p) ==
  LET k == Head(hold[p])
  IN  /\ cache[k].lock = p
      /\ cache' = [cache EXCEPT ![k].lock = None]
      /\ UNCHANGED <<disk, hold>>

\* ... and, under bcache.lock, drop the reference.
brelse(p) ==
  LET k == Head(hold[p])
  IN  /\ cache[k].lock # p
      /\ cache' = [cache EXCEPT ![k].refcnt = @ - 1]
      /\ hold' = [hold EXCEPT ![p] = Tail(@)]
      /\ UNCHANGED disk

\* The cache after the caller stored d in the buffer of k.
Store(k, d) == [cache EXCEPT ![k].data = d]

\* Mutant: log_write does not pin the buffer.
not_pinned(c, k) == c

\* bpin and bunpin of the buffer of k, in the cache c.
bpin(c, k) == [c EXCEPT ![k].refcnt = @ + 1]
bunpin(c, k) == [c EXCEPT ![k].refcnt = @ - 1]

\* bwrite: virtio_disk_rw(VIRTIO0_ID, b, 1) with the contents d.
bwrite(k, d) == disk' = [disk EXCEPT ![k] = d]

-----------------------------------------------------------------------------
(* What the cache promises.                                                *)

\* A buffer that bget may recycle holds nothing the disk does not have: an
\* update that is not yet on the disk is never thrown away by recycling.
RecyclableIsClean ==
  \A k \in DOMAIN cache :
    cache[k].refcnt = 0 /\ cache[k].valid => cache[k].data = disk[k]

\* A buffer stays the block's from bget to brelse: nobody recycles it under a
\* process that has it, waits for its sleep-lock or sleeps with it locked.
HeldStaysCached ==
  /\ \A p \in Procs : Range(hold[p]) \subseteq DOMAIN cache
  /\ \A k \in DOMAIN cache :
       cache[k].lock # None => k \in Range(hold[cache[k].lock]) /\ cache[k].valid
=============================================================================
