-------------------------------- MODULE Raid --------------------------------
(***************************************************************************)
(* The RAID layer of kernel/raid.c: the system calls init_raid, read_raid, *)
(* write_raid, disk_fail_raid, disk_repaired_raid, info_raid and           *)
(* destroy_raid over an array of disks, with the in-memory metadata cache, *)
(* the raid_lock and power loss at any block write.                        *)
(*                                                                         *)
(* The code copies blocks and xors them bit by bit, so the model keeps one *)
(* bit of every block.  One step of a call is one write_block: the process *)
(* sleeps there, and there the machine can stop.  What a call does between *)
(* two block writes happens under raid_lock and is one step.               *)
(***************************************************************************)
EXTENDS RaidLayout

CONSTANTS
  Levels,      \* the values init_raid is called with
  UserBlocks,  \* the block numbers read_raid and write_raid are called with
  UserDisks,   \* the disk numbers disk_fail_raid, disk_repaired_raid get
  Faults,      \* which of "crash" and "loss" the environment performs
  PAGES,       \* free pages the kernel has left for parity buffers
  JunkMeta,    \* what a RAID0 data block in block 0 can decode to
  StackBits    \* values of the part of a metadata block that the code
               \* fills with uninitialised stack bytes

Bit == {0, 1}
Meta == [raid_type : RaidTypes \cup {RAID_NONE}, working : {0, 1}]

ASSUME LevelsAssumption == Levels \subseteq Nat
ASSUME UserAssumption == UserBlocks \subseteq Blkns /\ UserDisks \subseteq Disks
ASSUME FaultsAssumption == Faults \subseteq {"crash", "loss"}
ASSUME PagesAssumption == PAGES \in Nat
ASSUME JunkAssumption ==
  /\ JunkMeta \subseteq Meta
  /\ StackBits \subseteq Bit /\ StackBits # {}

VARIABLES
  meta,     \* durable: block 0 of each disk read as a struct raid_data
  data,     \* durable: data[d][b], the bit kept of block b of disk d
  cache,    \* raid_data_cache
  loaded,   \* raid_data_cache_loaded
  raid,     \* the global struct raid_data raid
  locked,   \* raid_lock is held
  job,      \* the call that holds the lock, between two of its block writes
  pages,    \* free pages
  acked,    \* history: last value whose write_raid returned 0, per block
  excused,  \* history: blocks the code gives up (see Crash, write_raid4_skipped)
  torn,     \* history: rows whose parity is not known to match
  blank     \* history: failed disks that lost their contents

disks == <<meta, data>>
memory == <<cache, loaded, raid, pages>>
history == <<acked, excused, torn, blank>>
vars == <<meta, data, cache, loaded, raid, locked, job, pages,
          acked, excused, torn, blank>>

-----------------------------------------------------------------------------
\* No write of the block has been acknowledged, or a later one is in doubt.
Unknown == 2

Idle == [op |-> "idle"]
Panic == [op |-> "panic"]

\* destroy_raidN writes zeroes; raid.working = -1 is stored in a uchar.
ZeroMeta == [raid_type |-> RAID_NONE, working |-> 0]
NotExists == 255
NoRaid == [raid_type |-> RAID_NONE, working |-> NotExists]

InitJobs == [op : {"init"}, level : RaidTypes, todo : SUBSET Disks]
WriteJobs == [op : {"write"}, blkn : Blkns, val : Bit, parity : Bit,
              todo : SUBSET Disks]
RepairJobs == [op : {"repair"}, diskn : Disks, blockn : 0 .. NUMBER_OF_BLOCKS]
DestroyJobs == [op : {"destroy"}, todo : SUBSET Disks]
Jobs == {Idle, Panic} \cup InitJobs \cup WriteJobs \cup RepairJobs \cup DestroyJobs

TypeOK ==
  /\ meta \in [Disks -> Meta]
  /\ data \in [Disks -> [Blocks -> Bit]]
  /\ cache \in [Disks -> Meta]
  /\ loaded \in BOOLEAN
  /\ raid \in [raid_type : RaidTypes \cup {RAID_NONE},
               working : {0, 1, NotExists}]
  /\ locked \in BOOLEAN
  /\ job \in Jobs
  /\ pages \in 0 .. PAGES
  /\ acked \in [Blkns -> Bit \cup {Unknown}]
  /\ excused \subseteq Blkns
  /\ torn \subseteq DataBlocks
  /\ blank \subseteq Disks

Init ==
  /\ meta = [d \in Disks |-> ZeroMeta]
  /\ data = [d \in Disks |-> [b \in Blocks |-> 0]]
  /\ cache = [d \in Disks |-> ZeroMeta]
  /\ loaded = FALSE
  /\ raid = ZeroMeta
  /\ locked = FALSE
  /\ job = Idle
  /\ pages = PAGES
  /\ acked = [k \in Blkns |-> Unknown]
  /\ excused = {}
  /\ torn = {}
  /\ blank = {}

-----------------------------------------------------------------------------
\* Definitions marked as mutants below change the one that follows them the way a
\* bug could; they show that the properties notice.

\* Mutant: a loop that never runs.
First_none(S) == {d \in S : \A e \in S : d < e}

\* The lowest numbered disk of S, as a set: where an ascending loop stops first.
First(S) == {d \in S : \A e \in S : d <= e}

Up(c) == {d \in Disks : c[d].working = 1}
Down(c) == {d \in Disks : c[d].working = 0}

Xor(x, y) == (x + y) % 2

\* calculate_parity over block b of all the disks in S.
XorOf(S, b) == Cardinality({d \in S : data[d][b] = 1}) % 2

\* raid_data_cache after load_raid_data_cache(), which never sets the flag.
load_raid_data_cache == IF loaded THEN cache ELSE meta

\* raid after check_raid().  The uchar raid.working never equals -1, so block 0
\* of disk 1 is read again unless a RAID is known to exist.
check_raid ==
  IF raid.working = 1 THEN raid
  ELSE IF meta[1].raid_type \in RaidTypes
    THEN [raid_type |-> meta[1].raid_type, working |-> 1]
    ELSE NoRaid

level == check_raid.raid_type

\* A disk's struct raid_data with the working flag cleared, or set.
Failed(m) == [m EXCEPT !.working = 0]
Repaired(m) == [m EXCEPT !.working = 1]

\* The blocks that level t stores on disk d in the rows R.
BlocksAt(t, d, R) ==
  {k \in Blkns : /\ t # RAID_NONE /\ InBounds(t, k)
                 /\ d \in Copies(t, k) /\ BlockOf(t, k) \in R}

-----------------------------------------------------------------------------
\* read_raidN: the disks whose xor is the block returned, {} for an error.
read_raid0(c, blkn) == IF c[1].working = 0 THEN {} ELSE {raid0_disk(blkn)}

read_raid1(c, blkn) == First(Up(c))

\* Mutants: the working flag is not looked at; the mirror is not tried.
read_raid01_unchecked(c, blkn) == {raid01_disk(blkn)}
read_raid01_no_mirror(c, blkn) == {raid01_disk(blkn)} \cap Up(c)

read_raid01(c, blkn) ==
  First({raid01_disk(blkn), raid01_disk(blkn) + 1} \cap Up(c))

recover_missing_block(c, disk_to_skip) ==
  IF Down(c) \subseteq {disk_to_skip} THEN Disks \ {disk_to_skip} ELSE {}

read_raid4(c, blkn) ==
  IF raid4_disk(blkn) \in Up(c) THEN {raid4_disk(blkn)}
  ELSE recover_missing_block(c, raid4_disk(blkn))

read_raid5(c, blkn) ==
  IF raid5_disk(blkn) \in Up(c) THEN {raid5_disk(blkn)}
  ELSE recover_missing_block(c, raid5_disk(blkn))

ReadFrom(t, c, blkn) ==
  IF t = RAID_NONE \/ ~InBounds(t, blkn) THEN {}
  ELSE CASE t = RAID0 -> read_raid0(c, blkn)
         [] t = RAID1 -> read_raid1(c, blkn)
         [] t = RAID0_1 -> read_raid01(c, blkn)
         [] t = RAID4 -> read_raid4(c, blkn)
         [] t = RAID5 -> read_raid5(c, blkn)

\* write_raidN: the disks written to, {} when the call returns without writing.
write_raid0(c, blkn) == IF c[1].working = 0 THEN {} ELSE {raid0_disk(blkn)}

write_raid1(c, blkn) == Up(c)

write_raid01(c, blkn) ==
  {raid01_disk(blkn), raid01_disk(blkn) + 1} \cap Up(c)

write_raid4(c, blkn) ==
  IF {raid4_disk(blkn), DISKS} \cap Down(c) = {}
    THEN {raid4_disk(blkn), DISKS} ELSE {}

write_raid5(c, blkn) ==
  {raid5_disk(blkn), parity_location(raid5_block(blkn))}

WriteTo(t, c, blkn) ==
  IF ~InBounds(t, blkn) THEN {}
  ELSE CASE t = RAID0 -> write_raid0(c, blkn)
         [] t = RAID1 -> write_raid1(c, blkn)
         [] t = RAID0_1 -> write_raid01(c, blkn)
         [] t = RAID4 -> write_raid4(c, blkn)
         [] t = RAID5 -> write_raid5(c, blkn)

\* disk_repaired_raidN: the disks whose xor is copied to diskn, {} for an error
\* or for a disk that needs no repair.
disk_repaired_raid0(c, diskn) == {}

disk_repaired_raid1(c, diskn) ==
  IF diskn \in Up(c) THEN {} ELSE First(Up(c))

disk_repaired_raid01(c, diskn) ==
  {IF diskn % 2 # 0 THEN diskn + 1 ELSE diskn - 1} \ Down(c)

disk_repaired_raid4(c, diskn) == recover_missing_block(c, diskn)

disk_repaired_raid5(c, diskn) ==
  IF diskn \in Up(c) THEN {} ELSE recover_missing_block(c, diskn)

\* disk_repaired_raid4 looks at the parity disk's flag before it loads the cache.
Prechecked(t, diskn) ==
  t = RAID4 => diskn = DISKS \/ cache[DISKS].working # 0

RepairFrom(t, c, diskn) ==
  CASE t = RAID0 -> disk_repaired_raid0(c, diskn)
    [] t = RAID1 -> disk_repaired_raid1(c, diskn)
    [] t = RAID0_1 -> disk_repaired_raid01(c, diskn)
    [] t = RAID4 -> disk_repaired_raid4(c, diskn)
    [] t = RAID5 -> disk_repaired_raid5(c, diskn)

\* disk_fail_raidN: the disk that is marked, {} when the call refuses.  RAID0 has
\* one flag for the array; the mirrors refuse to fail a disk twice.
disk_fail_raid0(c, diskn) == {1}
disk_fail_raid1(c, diskn) == {diskn} \ Down(c)
disk_fail_raid01(c, diskn) == {diskn} \ Down(c)
disk_fail_raid4(c, diskn) == {diskn}
disk_fail_raid5(c, diskn) == {diskn}

FailedBy(t, c, diskn) ==
  CASE t = RAID0 -> disk_fail_raid0(c, diskn)
    [] t = RAID1 -> disk_fail_raid1(c, diskn)
    [] t = RAID0_1 -> disk_fail_raid01(c, diskn)
    [] t = RAID4 -> disk_fail_raid4(c, diskn)
    [] t = RAID5 -> disk_fail_raid5(c, diskn)

\* destroy_raidN: the disks whose metadata block is zeroed.
destroy_raid0(c) == {1}
destroy_raid1(c) == Disks \ Down(c)
destroy_raid01(c) == {1, 2}
destroy_raid4(c) == Disks
destroy_raid5(c) == Disks

Destroyed(t, c) ==
  CASE t = RAID0 -> destroy_raid0(c)
    [] t = RAID1 -> destroy_raid1(c)
    [] t = RAID0_1 -> destroy_raid01(c)
    [] t = RAID4 -> destroy_raid4(c)
    [] t = RAID5 -> destroy_raid5(c)

-----------------------------------------------------------------------------
\* lock(), and check_raid() finding level t.
Enter(t) ==
  /\ ~locked
  /\ t = level
  /\ t # RAID_NONE
  /\ raid' = check_raid

\* The call goes to sleep in its first write_block; the call returns.
Start(j) == job' = j /\ locked' = TRUE
\* Mutant: a return without unlock().
Finish_locked == job' = Idle /\ UNCHANGED locked

Finish == job' = Idle /\ locked' = FALSE

\* write_block(d, 0, ...) of a struct raid_data; the rest of the block is
\* whatever the buffer on the stack holds.
PutMeta(d, m) ==
  /\ meta' = [meta EXCEPT ![d] = m]
  /\ \E z \in StackBits : data' = [data EXCEPT ![d][0] = z]

\* write_block(d, b, ...) of data.  Block 0 is data at RAID0 only.
PutData(d, b, v) ==
  /\ data' = [data EXCEPT ![d][b] = v]
  /\ IF b = 0 THEN \E m \in JunkMeta : meta' = [meta EXCEPT ![d] = m]
     ELSE UNCHANGED meta

\* The volume has new, unspecified contents.  No level initialises the parity
\* blocks: a row is consistent only if its blocks happen to be.
Forget ==
  /\ acked' = [k \in Blkns |-> Unknown]
  /\ excused' = {}
  /\ torn' = {b \in DataBlocks : XorOf(Disks, b) # 0}
  /\ blank' = {}

\* Every call but init_raid on an array without RAID: `return -1' after lock()
\* and check_raid(), with the lock still held.
call_without_raid ==
  /\ ~locked
  /\ level = RAID_NONE
  /\ raid' = check_raid
  /\ locked' = TRUE
  /\ UNCHANGED <<disks, cache, loaded, job, pages, history>>

init_raid(t) ==
  /\ ~locked
  /\ Supported(t)
  /\ Start([op |-> "init", level |-> t, todo |-> MetadataDisks(t)])
  /\ UNCHANGED <<disks, memory, history>>

init_raid_refused(t) ==
  /\ ~locked
  /\ ~Supported(t)
  /\ raid' = NoRaid
  /\ UNCHANGED <<disks, cache, loaded, locked, job, pages, history>>

\* One iteration of the loop of init_raidN, the end of init_raid after the last.
init_step ==
  /\ job.op = "init"
  /\ \E d \in First(job.todo) :
       LET m == [raid_type |-> job.level, working |-> 1] IN
       /\ PutMeta(d, m)
       /\ cache' = [cache EXCEPT ![d] = m]
       /\ IF job.todo = {d}
            THEN loaded' = TRUE /\ raid' = m /\ Finish
            ELSE /\ job' = [job EXCEPT !.todo = @ \ {d}]
                 /\ UNCHANGED <<loaded, raid, locked>>
  /\ Forget
  /\ UNCHANGED pages

\* read_raid: what it returns is ReadFrom; read_raid5 tests the bounds first.
read_raid(blkn) ==
  \E t \in RaidTypes :
    /\ Enter(t)
    /\ cache' = IF t = RAID5 /\ ~InBounds(t, blkn) THEN cache
                ELSE load_raid_data_cache
    /\ UNCHANGED <<disks, loaded, locked, job, pages, history>>

info_raid ==
  \E t \in RaidTypes :
    /\ Enter(t)
    /\ UNCHANGED <<disks, cache, loaded, locked, job, pages, history>>

\* raid_data_cache as the level's write_raidN leaves it.
CacheForWrite(t) == IF t = RAID5 THEN cache ELSE load_raid_data_cache

NeedsPage(t) == t \in ParityTypes

\* Mutant: the old data is not taken out of the parity.
NewParity_keeps_old(t, blkn, v) ==
  LET b == BlockOf(t, blkn)
  IN  IF t \in ParityTypes THEN Xor(XorOf({ParityDisk(t, b)}, b), v) ELSE 0

\* The parity block of read-modify-write: old parity, old data and new data.
NewParity(t, blkn, v) ==
  LET b == BlockOf(t, blkn)
  IN  IF t \in ParityTypes
        THEN Xor(XorOf({DiskOf(t, blkn), ParityDisk(t, b)}, b), v) ELSE 0

\* write_raid up to the first write_block.
write_raid(blkn, v) ==
  \E t \in RaidTypes :
    LET c == load_raid_data_cache
    IN  /\ Enter(t)
        /\ WriteTo(t, c, blkn) # {}
        /\ NeedsPage(t) => pages > 0
        /\ Start([op |-> "write", blkn |-> blkn, val |-> v,
                  parity |-> NewParity(t, blkn, v),
                  todo |-> WriteTo(t, c, blkn)])
        /\ cache' = CacheForWrite(t)
        /\ pages' = IF NeedsPage(t) THEN pages - 1 ELSE pages
        /\ acked' = [acked EXCEPT ![blkn] = Unknown]
        /\ UNCHANGED <<disks, loaded, excused, torn, blank>>

\* write_raid4 acknowledges a write it drops when the parity disk has failed.
Skipped(t, blkn) ==
  /\ t = RAID4
  /\ InBounds(t, blkn)
  /\ raid4_disk(blkn) \notin Down(load_raid_data_cache)
  /\ DISKS \in Down(load_raid_data_cache)

write_raid4_skipped(blkn, v) ==
  /\ Enter(RAID4)
  /\ Skipped(RAID4, blkn)
  /\ cache' = load_raid_data_cache
  /\ acked' = [acked EXCEPT ![blkn] = v]
  /\ excused' = excused \cup {blkn}
  /\ UNCHANGED <<disks, loaded, locked, job, pages, torn, blank>>

\* Every path of write_raid that returns an error.
write_raid_refused(blkn) ==
  \E t \in RaidTypes :
    /\ Enter(t)
    /\ \/ WriteTo(t, load_raid_data_cache, blkn) = {} /\ ~Skipped(t, blkn)
       \/ t = RAID5 /\ pages = 0
    /\ cache' = CacheForWrite(t)
    /\ UNCHANGED <<disks, loaded, locked, job, pages, history>>

\* write_raid4 and disk_repaired_raid4 use the page of kalloc() unchecked: with
\* none left they fault on address 0 and the kernel panics, lock held.
no_page_panic ==
  /\ Enter(RAID4)
  /\ pages = 0
  /\ \/ \E blkn \in UserBlocks : WriteTo(RAID4, load_raid_data_cache, blkn) # {}
     \/ \E diskn \in UserDisks : Prechecked(RAID4, diskn)
  /\ Start(Panic)
  /\ UNCHANGED <<disks, cache, loaded, pages, history>>

\* One write_block of write_raidN, data disk first and then ascending, and the
\* return of the call after the last.
write_step ==
  /\ job.op = "write"
  /\ LET t == raid.raid_type
         b == BlockOf(t, job.blkn)
         diskn == DiskOf(t, job.blkn)
         isParity(d) == t \in ParityTypes /\ d = ParityDisk(t, b)
         \* the row no longer tells what a lost diskn held
         hopeless == /\ t \in ParityTypes
                     /\ diskn \in Down(load_raid_data_cache)
                     /\ b \in torn \/ diskn \in blank
     IN  \E d \in IF diskn \in job.todo THEN {diskn} ELSE First(job.todo) :
           /\ PutData(d, b, IF isParity(d) THEN job.parity ELSE job.val)
           /\ IF job.todo = {d}
                THEN /\ Finish
                     /\ pages' = IF NeedsPage(t) THEN pages + 1 ELSE pages
                     /\ acked' = [acked EXCEPT ![job.blkn] = job.val]
                     /\ excused' = IF hopeless THEN excused \cup {job.blkn}
                                   ELSE excused \ {job.blkn}
                ELSE /\ job' = [job EXCEPT !.todo = @ \ {d}]
                     /\ UNCHANGED <<locked, pages, acked, excused>>
  /\ UNCHANGED <<cache, loaded, raid, torn, blank>>

-----------------------------------------------------------------------------
\* disk_fail_raid: clear the working flag in the cache, then on the disk.
\* disk_fail_raid0 does so in a cache it has not loaded.
disk_fail_raid(diskn) ==
  \E t \in RaidTypes :
    LET c == IF t = RAID0 THEN cache ELSE load_raid_data_cache
    IN  /\ Enter(t)
        /\ \E d \in FailedBy(t, c, diskn) :
             /\ cache' = [c EXCEPT ![d] = Failed(@)]
             /\ PutMeta(d, Failed(c[d]))
        /\ excused' = IF t \in ParityTypes
                        THEN excused \cup BlocksAt(t, diskn, torn) ELSE excused
        /\ UNCHANGED <<loaded, locked, job, pages, acked, torn, blank>>

disk_fail_raid_refused(diskn) ==
  \E t \in RaidTypes :
    /\ Enter(t)
    /\ FailedBy(t, load_raid_data_cache, diskn) = {}
    /\ cache' = load_raid_data_cache
    /\ UNCHANGED <<disks, loaded, locked, job, pages, history>>

\* Mutant: every level copies block 0 first.
FirstRepairedBlock_zero(t) == 0

\* The first block the loop of disk_repaired_raidN copies.
FirstRepairedBlock(t) == IF t = RAID0_1 THEN 0 ELSE 1

\* disk_repaired_raid up to the first write_block.
disk_repaired_raid(diskn) ==
  \E t \in RaidTypes :
    /\ Enter(t)
    /\ Prechecked(t, diskn)
    /\ RepairFrom(t, load_raid_data_cache, diskn) # {}
    /\ NeedsPage(t) => pages > 0
    /\ Start([op |-> "repair", diskn |-> diskn,
              blockn |-> FirstRepairedBlock(t)])
    /\ cache' = load_raid_data_cache
    /\ pages' = IF NeedsPage(t) THEN pages - 1 ELSE pages
    /\ UNCHANGED <<disks, loaded, history>>

\* Every path of disk_repaired_raid that returns without writing.  When
\* recover_missing_block fails (-3) the page for the parity is not freed.
disk_repaired_raid_refused(diskn) ==
  \E t \in RaidTypes :
    LET c == load_raid_data_cache
        allocates == \/ t = RAID4 /\ Prechecked(t, diskn)
                     \/ t = RAID5 /\ diskn \notin Up(c)
    IN  /\ Enter(t)
        /\ \/ ~Prechecked(t, diskn)
           \/ RepairFrom(t, c, diskn) = {} /\ (allocates => pages > 0)
           \/ t = RAID5 /\ pages = 0
        /\ cache' = IF t = RAID0 \/ ~Prechecked(t, diskn) THEN cache ELSE c
        /\ pages' = IF allocates /\ pages > 0 THEN pages - 1 ELSE pages
        /\ UNCHANGED <<disks, loaded, locked, job, history>>

\* One iteration of the loop of disk_repaired_raidN.  RAID01 starts at block 0
\* and so copies the partner's metadata first.
repair_step ==
  /\ job.op = "repair"
  /\ job.blockn < NUMBER_OF_BLOCKS
  /\ LET t == raid.raid_type
         b == job.blockn
         S == RepairFrom(t, cache, job.diskn)
     IN  /\ data' = [data EXCEPT ![job.diskn][b] = XorOf(S, b)]
         /\ IF b = 0 THEN \E d \in S : meta' = [meta EXCEPT ![job.diskn] = meta[d]]
            ELSE UNCHANGED meta
         /\ excused' = IF t \in ParityTypes
                         THEN excused \cup BlocksAt(t, job.diskn, torn \cap {b})
                         ELSE excused
         /\ torn' = torn \ {b}
  /\ job' = [job EXCEPT !.blockn = @ + 1]
  /\ UNCHANGED <<memory, locked, acked, blank>>

\* The end of disk_repaired_raidN: the disk is working, in the cache and then in
\* its metadata block.  Only disk_repaired_raid5 frees its page.
repair_done ==
  /\ job.op = "repair"
  /\ job.blockn = NUMBER_OF_BLOCKS
  /\ LET m == Repaired(cache[job.diskn]) IN
       /\ cache' = [cache EXCEPT ![job.diskn] = m]
       /\ PutMeta(job.diskn, m)
  /\ pages' = IF raid.raid_type = RAID5 THEN pages + 1 ELSE pages
  /\ blank' = blank \ {job.diskn}
  /\ Finish
  /\ UNCHANGED <<loaded, raid, acked, excused, torn>>

\* destroy_raid up to the first write_block; nothing to write is possible when
\* every disk of a RAID1 has failed.
destroy_raid ==
  \E t \in RaidTypes :
    LET c == IF t = RAID1 THEN load_raid_data_cache ELSE cache
        S == Destroyed(t, c)
    IN  /\ Enter(t)
        /\ S # {}
        /\ cache' = c
        /\ Start([op |-> "destroy", todo |-> S])
        /\ Forget
        /\ UNCHANGED <<disks, loaded, pages>>

destroy_raid_nothing ==
  /\ ~locked
  /\ level = RAID1
  /\ Destroyed(RAID1, load_raid_data_cache) = {}
  /\ cache' = load_raid_data_cache
  /\ raid' = NoRaid
  /\ Forget
  /\ UNCHANGED <<disks, loaded, locked, job, pages>>

\* One iteration of destroy_raidN, the end of destroy_raid after the last.
destroy_step ==
  /\ job.op = "destroy"
  /\ \E d \in First(job.todo) :
       /\ PutMeta(d, ZeroMeta)
       /\ cache' = IF raid.raid_type \in ParityTypes
                     THEN [cache EXCEPT ![d] = Failed(@)] ELSE cache
       /\ IF job.todo = {d}
            THEN raid' = NoRaid /\ Finish
            ELSE /\ job' = [job EXCEPT !.todo = @ \ {d}]
                 /\ UNCHANGED <<raid, locked>>
  /\ UNCHANGED <<loaded, pages, history>>

-----------------------------------------------------------------------------
\* The row whose data block is written and whose parity block is not yet.
HalfWritten ==
  IF /\ job.op = "write"
     /\ raid.raid_type \in ParityTypes
     /\ DiskOf(raid.raid_type, job.blkn) \notin job.todo
  THEN {BlockOf(raid.raid_type, job.blkn)} ELSE {}

\* The rows a RAID01 repair has still to copy to a disk whose metadata block
\* already says that it is working.
HalfRepaired ==
  IF /\ job.op = "repair"
     /\ raid.raid_type = RAID0_1
     /\ job.blockn > 0
     /\ job.diskn \in Down(cache)
  THEN job.blockn .. NUMBER_OF_BLOCKS - 1 ELSE {}

\* Power loss and reboot: the disks keep every completed write_block, the kernel
\* starts over.  A block write is atomic.
Crash ==
  /\ "crash" \in Faults
  /\ cache' = [d \in Disks |-> ZeroMeta]
  /\ loaded' = FALSE
  /\ raid' = ZeroMeta
  /\ pages' = PAGES
  /\ Finish
  /\ UNCHANGED disks
  /\ IF meta[1].raid_type # level THEN Forget
     ELSE /\ torn' = torn \cup HalfWritten
          /\ excused' =
               excused
               \cup (UNION {BlocksAt(level, d, HalfWritten) :
                              d \in Down(load_raid_data_cache)})
               \cup (IF HalfRepaired = {} THEN {}
                     ELSE BlocksAt(level, job.diskn, HalfRepaired))
          /\ UNCHANGED <<acked, blank>>

\* A failed disk is swapped or dies for good: its data blocks hold anything.
LoseMedium(d) ==
  /\ "loss" \in Faults
  /\ ~locked
  /\ level \in RaidTypes \ {RAID0}
  /\ d \in Down(load_raid_data_cache)
  /\ \E f \in [DataBlocks -> Bit] :
       data' = [data EXCEPT ![d] = [b \in Blocks |-> IF b = 0 THEN @[0] ELSE f[b]]]
  /\ blank' = blank \cup {d}
  /\ UNCHANGED <<meta, memory, locked, job, acked, excused, torn>>

Step == init_step \/ write_step \/ repair_step \/ repair_done \/ destroy_step

Next ==
  \/ call_without_raid
  \/ \E t \in Levels : init_raid(t) \/ init_raid_refused(t)
  \/ \E k \in UserBlocks : read_raid(k) \/ write_raid_refused(k)
  \/ \E k \in UserBlocks, v \in Bit : write_raid(k, v) \/ write_raid4_skipped(k, v)
  \/ info_raid
  \/ no_page_panic
  \/ \E d \in UserDisks : disk_fail_raid(d) \/ disk_fail_raid_refused(d)
  \/ \E d \in UserDisks : disk_repaired_raid(d) \/ disk_repaired_raid_refused(d)
  \/ destroy_raid
  \/ destroy_raid_nothing
  \/ Step
  \/ Crash
  \/ \E d \in Disks : LoseMedium(d)

Spec == Init /\ [][Next]_vars

\* A call that is in write_block goes on: the driver completes every request.
FairSpec == Spec /\ WF_vars(Step)

-----------------------------------------------------------------------------
\* What read_raid(k) would read now, were it called.
ReadNow(k) == ReadFrom(level, load_raid_data_cache, k)

\* For every block in S: when read_raid would return 0, it returns the value of
\* the last acknowledged write_raid of that block.
ReadsBack(S) ==
  ~locked =>
    \A k \in S :
      acked[k] # Unknown /\ ReadNow(k) # {} =>
        XorOf(ReadNow(k), BlockOf(level, k)) = acked[k]

\* read_raid returns what write_raid last stored across disk failures, repairs,
\* reboots, lost disks and changes of level; the blocks the code does give up
\* are those the actions above add to `excused', and no others.  At RAID1 there is
\* no exception, as long as one disk works.
Integrity == ReadsBack(IF level = RAID1 THEN Blkns ELSE Blkns \ excused)

\* The same with no exception: what the checks of javni_test.c expect.
AckedWritesReadBack == ReadsBack(Blkns)

\* At the parity levels every row the code has not torn xors to zero, so that
\* recover_missing_block is right whichever disk fails next.
ParityHolds ==
  ~locked /\ level \in ParityTypes /\ blank = {} =>
    \A b \in DataBlocks \ torn : XorOf(Disks, b) = 0

\* A failure is on the disk before anything relies on it, and a repair is on the
\* disk only after the data: a reboot at any moment finds every disk that the
\* cache says has failed still marked as failed.
FailedStaysFailedAtReboot ==
  job.op # "init" /\ level \in {RAID1, RAID4, RAID5} =>
    Down(load_raid_data_cache) \subseteq Down(meta)

\* With one failed disk every block that info_raid announces can still be read.
OneFailureReadable ==
  /\ ~locked
  /\ level \in RaidTypes \ {RAID0}
  /\ Cardinality(Disks \ Up(load_raid_data_cache)) <= 1
  => \A k \in 0 .. Capacity(level) - 1 : ReadNow(k) # {}

\* raid_lock is left held by a call that has returned only if there is no RAID.
StuckOnlyWithoutRaid == locked /\ job = Idle => level = RAID_NONE

\* raid_lock is free whenever no call is in progress.
LockReleased == job = Idle => ~locked

\* A call that has started to write returns (unless the kernel dies first).
CallsReturn == (job.op \notin {"idle", "panic"}) ~> (job.op = "idle")
=============================================================================
