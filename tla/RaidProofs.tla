----------------------------- MODULE RaidProofs -----------------------------
(***************************************************************************)
(* Proofs about Raid for any number and size of disks and any use.         *)
(***************************************************************************)
EXTENDS Raid, RaidLayoutProofs, FiniteSetTheorems

\* The xor of any blocks is a bit.
LEMMA XorBit ==
  ASSUME NEW S \in SUBSET Disks, NEW b
  PROVE  XorOf(S, b) \in Bit
<1> DEFINE T == {d \in S : data[d][b] = 1}
<1>1. IsFiniteSet(Disks)
  BY FS_Interval, DisksAssumption DEF Disks
<1>2. IsFiniteSet(T)
  BY <1>1, FS_Subset
<1>3. Cardinality(T) \in Nat
  BY <1>2, FS_CardinalityType
<1>4. Cardinality(T) % 2 \in {0, 1}
  BY <1>3
<1> QED
  BY <1>4 DEF XorOf, Bit

\* The parity that write_raid4 and write_raid5 compute is a block.
LEMMA ParityBit ==
  ASSUME NEW t \in RaidTypes, NEW k \in Nat, NEW v \in Bit
  PROVE  NewParity(t, k, v) \in Bit
<1>1. CASE t \in ParityTypes
  <2> DEFINE b == BlockOf(t, k)
  <2>1. {DiskOf(t, k), ParityDisk(t, b)} \in SUBSET Disks
    BY <1>1, PlaceExists, ParityBesideData
  <2>2. XorOf({DiskOf(t, k), ParityDisk(t, b)}, b) \in Bit
    BY <2>1, XorBit
  <2> QED
    BY <1>1, <2>2 DEF NewParity, Xor, Bit
<1>2. CASE t \notin ParityTypes
  BY <1>2 DEF NewParity, Bit
<1> QED
  BY <1>1, <1>2

\* Block numbers are natural numbers.
LEMMA BlknsNat == Blkns \subseteq Nat
<1>1. DISKS * NUMBER_OF_BLOCKS \in Nat
  BY DisksAssumption, BlocksAssumption
<1> QED
  BY <1>1 DEF Blkns

\* A job is what its op says.
LEMMA JobShape ==
  ASSUME job \in Jobs
  PROVE  /\ job.op = "idle" <=> job = Idle
         /\ job.op = "panic" <=> job = Panic
         /\ job.op = "init" <=> job \in InitJobs
         /\ job.op = "write" <=> job \in WriteJobs
         /\ job.op = "repair" <=> job \in RepairJobs
         /\ job.op = "destroy" <=> job \in DestroyJobs
<1>1. CASE job = Idle
  BY <1>1 DEF Idle, Panic, InitJobs, WriteJobs, RepairJobs, DestroyJobs
<1>2. CASE job = Panic
  BY <1>2 DEF Idle, Panic, InitJobs, WriteJobs, RepairJobs, DestroyJobs
<1>3. CASE job \in InitJobs
  BY <1>3 DEF Idle, Panic, InitJobs, WriteJobs, RepairJobs, DestroyJobs
<1>4. CASE job \in WriteJobs
  BY <1>4 DEF Idle, Panic, InitJobs, WriteJobs, RepairJobs, DestroyJobs
<1>5. CASE job \in RepairJobs
  BY <1>5 DEF Idle, Panic, InitJobs, WriteJobs, RepairJobs, DestroyJobs
<1>6. CASE job \in DestroyJobs
  BY <1>6 DEF Idle, Panic, InitJobs, WriteJobs, RepairJobs, DestroyJobs
<1> QED
  BY <1>1, <1>2, <1>3, <1>4, <1>5, <1>6 DEF Jobs

-----------------------------------------------------------------------------
\* The call in progress holds the lock, knows its level, stays in bounds and off
\* the metadata block of disk 1, and at the parity levels has taken a page; only
\* the repair of a RAID01 copies a metadata block.
JobFits ==
  /\ job # Idle => locked
  /\ job.op = "write" =>
       /\ raid.raid_type \in RaidTypes
       /\ InBounds(raid.raid_type, job.blkn)
       /\ BlockOf(raid.raid_type, job.blkn) = 0 => 1 \notin job.todo
       /\ NeedsPage(raid.raid_type) => pages < PAGES
  /\ job.op = "repair" =>
       /\ raid.raid_type \in RaidTypes
       /\ raid.raid_type = RAID5 => pages < PAGES
       /\ raid.raid_type # RAID0_1 => job.blockn # 0

\* Only an array with an even number of disks is ever a RAID01.
SupportedOnly ==
  /\ RAID0_1 \in {meta[1].raid_type, cache[1].raid_type, raid.raid_type} =>
       Supported(RAID0_1)
  /\ job.op = "init" => Supported(job.level)

\* The inductive invariant behind type correctness.
TypeInv == TypeOK /\ JobFits /\ StuckOnlyWithoutRaid

\* The ranges of what the calls look up first.
Global == [raid_type : RaidTypes \cup {RAID_NONE}, working : {0, 1, NotExists}]

\* check_raid and load_raid_data_cache return well-formed values.
LEMMA Lookups ==
  ASSUME TypeOK
  PROVE  /\ check_raid \in Global
         /\ level \in RaidTypes \cup {RAID_NONE}
         /\ load_raid_data_cache \in [Disks -> Meta]
         /\ 1 \in Disks
<1>1. 1 \in Disks
  BY DisksAssumption DEF Disks
<1>2. meta[1] \in Meta /\ raid \in Global
  BY <1>1 DEF TypeOK, Global
<1>3. check_raid \in Global
  BY <1>2 DEF check_raid, Global, NoRaid, NotExists, Meta
<1> QED
  BY <1>1, <1>3 DEF level, Global, load_raid_data_cache, TypeOK

\* Enter(t) records the level it found.
LEMMA Entered ==
  ASSUME TypeOK, NEW t, Enter(t)
  PROVE  /\ t \in RaidTypes /\ t = level /\ ~locked
         /\ raid' \in Global /\ raid'.raid_type = t
  BY Lookups DEF Enter, level, Global

\* A call that does not write, and leaves the lock as it was, keeps the invariant.
LEMMA QuietCall ==
  ASSUME TypeInv, ~locked, raid' \in Global, cache' \in [Disks -> Meta],
         pages' \in 0 .. PAGES, acked' \in [Blkns -> Bit \cup {Unknown}],
         excused' \subseteq Blkns,
         UNCHANGED <<disks, loaded, locked, job, torn, blank>>
  PROVE  TypeInv'
<1>1. job = Idle
  BY DEF TypeInv, JobFits
<1>2. TypeOK'
  BY DEF TypeInv, TypeOK, disks, Global
<1>3. JobFits'
  BY <1>1 DEF JobFits, Idle
<1>4. StuckOnlyWithoutRaid'
  BY DEF StuckOnlyWithoutRaid
<1> QED
  BY <1>2, <1>3, <1>4 DEF TypeInv

\* The calls that write no block keep the types.
LEMMA QuietCalls ==
  ASSUME TypeInv, NEW k \in Blkns, NEW v \in Bit, NEW d \in Disks,
         \/ read_raid(k) \/ info_raid \/ write_raid_refused(k)
         \/ write_raid4_skipped(k, v)
         \/ disk_fail_raid_refused(d) \/ disk_repaired_raid_refused(d)
  PROVE  TypeInv'
<1>1. TypeOK /\ load_raid_data_cache \in [Disks -> Meta]
  BY Lookups DEF TypeInv
<1>2. CASE read_raid(k)
  BY <1>1, <1>2, Entered, QuietCall DEF read_raid, TypeOK, history
<1>3. CASE info_raid
  BY <1>1, <1>3, Entered, QuietCall DEF info_raid, TypeOK, history
<1>4. CASE write_raid_refused(k)
  BY <1>1, <1>4, Entered, QuietCall DEF write_raid_refused, CacheForWrite, TypeOK, history
<1>5. CASE write_raid4_skipped(k, v)
  BY <1>1, <1>5, Entered, QuietCall DEF write_raid4_skipped, TypeOK
<1>6. CASE disk_fail_raid_refused(d)
  BY <1>1, <1>6, Entered, QuietCall DEF disk_fail_raid_refused, TypeOK, history
<1>7. CASE disk_repaired_raid_refused(d)
  BY <1>1, <1>7, Entered, QuietCall, PagesAssumption
     DEF disk_repaired_raid_refused, TypeOK, history
<1> QED
  BY <1>2, <1>3, <1>4, <1>5, <1>6, <1>7

\* Block writes keep the disks well typed.
LEMMA PutBit ==
  ASSUME data \in [Disks -> [Blocks -> Bit]], NEW d \in Disks, NEW b, NEW v \in Bit,
         data' = [data EXCEPT ![d][b] = v]
  PROVE  /\ data' \in [Disks -> [Blocks -> Bit]]
         /\ \A e \in Disks, c \in Blocks :
              data'[e][c] = IF e = d /\ c = b THEN v ELSE data[e][c]
<1>1. [data[d] EXCEPT ![b] = v] \in [Blocks -> Bit]
  OBVIOUS
<1>2. data' = [data EXCEPT ![d] = [data[d] EXCEPT ![b] = v]]
  OBVIOUS
<1> QED
  BY <1>1, <1>2

\* Writing a metadata block keeps the types of the disks.
LEMMA PutMetaTypes ==
  ASSUME TypeOK, NEW d \in Disks, NEW m \in Meta, PutMeta(d, m)
  PROVE  meta' \in [Disks -> Meta] /\ data' \in [Disks -> [Blocks -> Bit]]
<1>1. PICK z \in Bit : data' = [data EXCEPT ![d][0] = z]
  BY JunkAssumption DEF PutMeta
<1>2. data' \in [Disks -> [Blocks -> Bit]]
  BY <1>1, PutBit DEF TypeOK
<1> QED
  BY <1>2 DEF PutMeta, TypeOK

\* Writing a data block keeps the types of the disks, in block 0 of RAID0 too,
\* where it overwrites the metadata.
LEMMA PutDataTypes ==
  ASSUME TypeOK, NEW d \in Disks, NEW b, NEW v \in Bit, PutData(d, b, v)
  PROVE  meta' \in [Disks -> Meta] /\ data' \in [Disks -> [Blocks -> Bit]]
<1>1. data' \in [Disks -> [Blocks -> Bit]]
  BY PutBit DEF PutData, TypeOK
<1>2. meta' \in [Disks -> Meta]
  BY JunkAssumption DEF PutData, TypeOK
<1> QED
  BY <1>1, <1>2

\* A new, forgotten volume has well-typed history.
LEMMA ForgetTypes ==
  ASSUME Forget
  PROVE  /\ acked' \in [Blkns -> Bit \cup {Unknown}]
         /\ excused' \subseteq Blkns /\ torn' \subseteq DataBlocks
         /\ blank' \subseteq Disks
  BY DEF Forget

\* The calls that stop in their first write_block, or for ever.
LEMMA StartingCalls ==
  ASSUME TypeInv, NEW t, NEW k \in Blkns, NEW v \in Bit, NEW d \in Disks,
         \/ init_raid(t) \/ write_raid(k, v) \/ disk_repaired_raid(d)
         \/ destroy_raid \/ no_page_panic \/ call_without_raid
  PROVE  TypeInv'
<1>1. /\ TypeOK /\ load_raid_data_cache \in [Disks -> Meta]
      /\ check_raid \in Global
      /\ k \in Nat
  BY Lookups, BlknsNat DEF TypeInv
<1>2. CASE init_raid(t)
  <2>1. t \in RaidTypes /\ MetadataDisks(t) \in SUBSET Disks
    BY <1>2, DisksAssumption
       DEF init_raid, Supported, MetadataDisks, init_raid0, init_raid1,
           init_raid01, init_raid4, init_raid5, RaidTypes, Disks
  <2>2. job' \in InitJobs /\ job' # Idle /\ job'.op = "init" /\ locked'
    BY <1>2, <2>1 DEF init_raid, Start, InitJobs, Idle
  <2>3. TypeOK'
    BY <1>1, <1>2, <2>2 DEF init_raid, Start, TypeOK, Jobs, disks, memory, history
  <2> QED
    BY <2>2, <2>3 DEF TypeInv, JobFits, StuckOnlyWithoutRaid
<1>3. CASE write_raid(k, v)
  <2>1. PICK u \in RaidTypes :
          /\ Enter(u)
          /\ WriteTo(u, load_raid_data_cache, k) # {}
          /\ NeedsPage(u) => pages > 0
          /\ Start([op |-> "write", blkn |-> k, val |-> v,
                    parity |-> NewParity(u, k, v),
                    todo |-> WriteTo(u, load_raid_data_cache, k)])
          /\ cache' = CacheForWrite(u)
          /\ pages' = IF NeedsPage(u) THEN pages - 1 ELSE pages
          /\ acked' = [acked EXCEPT ![k] = Unknown]
          /\ UNCHANGED <<disks, loaded, excused, torn, blank>>
    BY <1>3 DEF write_raid
  <2>2. InBounds(u, k)
    BY <2>1 DEF WriteTo
  <2>3. WriteTo(u, load_raid_data_cache, k) \in SUBSET Disks
    <3>1. /\ raid0_disk(k) \in Disks /\ raid01_disk(k) \in Disks
          /\ raid01_disk(k) + 1 \in Disks
          /\ raid4_disk(k) \in Disks /\ DISKS \in Disks
          /\ raid5_disk(k) \in Disks
          /\ parity_location(raid5_block(k)) \in Disks
      <4>1. raid4_disk(k) \in Disks /\ DISKS \in Disks
        BY <1>1, Raid4Place, DisksAssumption DEF Disks
      <4> QED
        BY <1>1, <4>1, Raid0Place, Raid01Place, Raid5Place, ParityLocation
    <3> QED
      BY <3>1 DEF WriteTo, write_raid0, write_raid1, write_raid01, write_raid4,
         write_raid5, Up, RaidTypes, RAID0, RAID1, RAID0_1, RAID4, RAID5
  <2>8. BlockOf(u, k) = 0 => 1 \notin WriteTo(u, load_raid_data_cache, k)
    <3>1. CASE u = RAID0
      <4>1. WriteTo(u, load_raid_data_cache, k) \subseteq {DiskOf(u, k)}
        BY <3>1 DEF WriteTo, write_raid0, DiskOf, RAID0, RAID1, RAID0_1, RAID4, RAID5
      <4> QED
        BY <4>1, <1>1, PlaceExists
    <3>2. CASE u # RAID0
      BY <3>2, <1>1, PlaceExists
    <3> QED
      BY <3>1, <3>2
  <2>4. NewParity(u, k, v) \in Bit
    BY <1>1, ParityBit
  <2>5. /\ job' \in WriteJobs /\ job' # Idle /\ job'.op = "write" /\ job'.blkn = k
        /\ job'.todo = WriteTo(u, load_raid_data_cache, k) /\ locked'
    BY <1>1, <2>1, <2>3, <2>4 DEF Start, WriteJobs, Idle
  <2>6. raid' \in Global /\ raid'.raid_type = u
    BY <1>1, <2>1, Entered
  <2>7. TypeOK' /\ (NeedsPage(u) => pages' < PAGES)
    BY <1>1, <2>1, <2>5, <2>6, PagesAssumption
       DEF TypeOK, Jobs, CacheForWrite, disks, Global
  <2> QED
    BY <2>2, <2>5, <2>6, <2>7, <2>8 DEF TypeInv, JobFits, StuckOnlyWithoutRaid
<1>4. CASE disk_repaired_raid(d)
  <2>1. PICK u \in RaidTypes :
          /\ Enter(u)
          /\ NeedsPage(u) => pages > 0
          /\ Start([op |-> "repair", diskn |-> d,
                    blockn |-> FirstRepairedBlock(u)])
          /\ cache' = load_raid_data_cache
          /\ pages' = IF NeedsPage(u) THEN pages - 1 ELSE pages
          /\ UNCHANGED <<disks, loaded, history>>
    BY <1>4 DEF disk_repaired_raid
  <2>2. FirstRepairedBlock(u) \in 0 .. NUMBER_OF_BLOCKS
    BY BlocksAssumption DEF FirstRepairedBlock
  <2>3. /\ job' \in RepairJobs /\ job' # Idle /\ job'.op = "repair" /\ locked'
        /\ job'.blockn = FirstRepairedBlock(u)
    BY <1>1, <2>1, <2>2 DEF Start, RepairJobs, Idle
  <2>4. raid' \in Global /\ raid'.raid_type = u
    BY <1>1, <2>1, Entered
  <2>5. TypeOK' /\ (u = RAID5 => pages' < PAGES)
    BY <1>1, <2>1, <2>3, <2>4, PagesAssumption
       DEF TypeOK, Jobs, disks, history, Global, NeedsPage, ParityTypes
  <2> QED
    BY <2>3, <2>4, <2>5
       DEF TypeInv, JobFits, StuckOnlyWithoutRaid, FirstRepairedBlock
<1>5. CASE destroy_raid
  <2>1. PICK u \in RaidTypes :
          LET c == IF u = RAID1 THEN load_raid_data_cache ELSE cache IN
          /\ Enter(u)
          /\ cache' = c
          /\ Start([op |-> "destroy", todo |-> Destroyed(u, c)])
          /\ Forget
          /\ UNCHANGED <<disks, loaded, pages>>
    BY <1>5 DEF destroy_raid
  <2> DEFINE c == IF u = RAID1 THEN load_raid_data_cache ELSE cache
  <2>2. Destroyed(u, c) \in SUBSET Disks
    BY DisksAssumption DEF Destroyed, destroy_raid0, destroy_raid1, destroy_raid01,
       destroy_raid4, destroy_raid5, Disks, RaidTypes,
       RAID0, RAID1, RAID0_1, RAID4, RAID5
  <2>3. job' \in DestroyJobs /\ job' # Idle /\ job'.op = "destroy" /\ locked'
    BY <2>1, <2>2 DEF Start, DestroyJobs, Idle
  <2>4. raid' \in Global
    BY <1>1, <2>1, Entered
  <2>5. TypeOK'
    BY <1>1, <2>1, <2>3, <2>4, ForgetTypes DEF TypeOK, Jobs, disks, Global
  <2> QED
    BY <2>3, <2>5 DEF TypeInv, JobFits, StuckOnlyWithoutRaid
<1>6. CASE no_page_panic
  <2>1. job' = Panic /\ locked' /\ raid' \in Global
    BY <1>1, <1>6, Entered DEF no_page_panic, Start
  <2>2. TypeOK'
    BY <1>1, <1>6, <2>1 DEF no_page_panic, TypeOK, Jobs, disks, history, Global
  <2> QED
    BY <2>1, <2>2 DEF TypeInv, JobFits, StuckOnlyWithoutRaid, Panic, Idle
<1>7. CASE call_without_raid
  <2>1. job = Idle /\ job' = Idle
    BY <1>7 DEF call_without_raid, TypeInv, JobFits
  <2>2. TypeOK'
    BY <1>1, <1>7 DEF call_without_raid, TypeOK, disks, history, Global
  <2>3. level' = RAID_NONE
    BY <1>7 DEF call_without_raid, level, check_raid, disks, NoRaid, NotExists
  <2> QED
    BY <2>1, <2>2, <2>3 DEF TypeInv, JobFits, StuckOnlyWithoutRaid, Idle
<1> QED
  BY <1>2, <1>3, <1>4, <1>5, <1>6, <1>7

\* The calls that are done at once and write at most one metadata block.
LEMMA ShortCalls ==
  ASSUME TypeInv, NEW t, NEW d \in Disks,
         \/ init_raid_refused(t) \/ disk_fail_raid(d) \/ destroy_raid_nothing
  PROVE  TypeInv'
<1>1. /\ TypeOK /\ load_raid_data_cache \in [Disks -> Meta]
      /\ check_raid \in Global /\ NoRaid \in Global
  BY Lookups DEF TypeInv, Global, NoRaid, NotExists
<1>2. CASE init_raid_refused(t)
  BY <1>1, <1>2, QuietCall DEF init_raid_refused, TypeOK, history
<1>3. CASE disk_fail_raid(d)
  <2>1. PICK u \in RaidTypes :
          LET c == IF u = RAID0 THEN cache ELSE load_raid_data_cache IN
          /\ Enter(u)
          /\ \E e \in FailedBy(u, c, d) :
               /\ cache' = [c EXCEPT ![e] = Failed(@)]
               /\ PutMeta(e, Failed(c[e]))
          /\ excused' = IF u \in ParityTypes
                          THEN excused \cup BlocksAt(u, d, torn) ELSE excused
          /\ UNCHANGED <<loaded, locked, job, pages, acked, torn, blank>>
    BY <1>3 DEF disk_fail_raid
  <2> DEFINE c == IF u = RAID0 THEN cache ELSE load_raid_data_cache
  <2>2. c \in [Disks -> Meta]
    BY <1>1 DEF TypeOK
  <2> HIDE DEF c
  <2>3. PICK e \in FailedBy(u, c, d) :
          cache' = [c EXCEPT ![e] = Failed(@)] /\ PutMeta(e, Failed(c[e]))
    BY <2>1 DEF c
  <2>4. e \in Disks
    BY <1>1, DisksAssumption DEF FailedBy, disk_fail_raid0, disk_fail_raid1,
       disk_fail_raid01, disk_fail_raid4, disk_fail_raid5, Disks, RaidTypes,
       RAID0, RAID1, RAID0_1, RAID4, RAID5
  <2>5. Failed(c[e]) \in Meta
    BY <2>2, <2>4 DEF Failed, Meta
  <2>6. meta' \in [Disks -> Meta] /\ data' \in [Disks -> [Blocks -> Bit]]
    BY <1>1, <2>3, <2>4, <2>5, PutMetaTypes
  <2>7. raid' \in Global /\ ~locked /\ job = Idle
    BY <1>1, <2>1, Entered DEF TypeInv, JobFits
  <2>8. TypeOK'
    BY <1>1, <2>1, <2>2, <2>3, <2>5, <2>6, <2>7 DEF TypeOK, BlocksAt, Global
  <2> QED
    BY <2>1, <2>7, <2>8 DEF TypeInv, JobFits, StuckOnlyWithoutRaid, Idle
<1>4. CASE destroy_raid_nothing
  <2>1. TypeOK'
    BY <1>1, <1>4, ForgetTypes DEF destroy_raid_nothing, TypeOK, disks, Global
  <2> QED
    BY <1>4, <2>1 DEF destroy_raid_nothing, TypeInv, JobFits, StuckOnlyWithoutRaid, Idle
<1> QED
  BY <1>2, <1>3, <1>4

\* A repair reads from disks that exist.
LEMMA RepairSource ==
  ASSUME TypeInv, SupportedOnly, job.op = "repair"
  PROVE  RepairFrom(raid.raid_type, cache, job.diskn) \in SUBSET Disks
<1> DEFINE t == raid.raid_type
<1>1. t \in RaidTypes /\ job.diskn \in Disks
  BY JobShape DEF TypeInv, TypeOK, JobFits, RepairJobs
<1>2. t = RAID0_1 => disk_repaired_raid01(cache, job.diskn) \in SUBSET Disks
  <2> SUFFICES ASSUME t = RAID0_1
               PROVE  disk_repaired_raid01(cache, job.diskn) \in SUBSET Disks
    OBVIOUS
  <2>1. DISKS % 2 = 0
    BY DEF SupportedOnly, Supported, MetadataDisks, init_raid01,
       RAID0, RAID1, RAID0_1, RAID4, RAID5
  <2> QED
    BY <1>1, <2>1, DisksAssumption DEF disk_repaired_raid01, Disks
<1> HIDE DEF t
<1>3. RepairFrom(t, cache, job.diskn) \in SUBSET Disks
  BY <1>1, <1>2 DEF RepairFrom, disk_repaired_raid0, disk_repaired_raid1,
     disk_repaired_raid4, disk_repaired_raid5, recover_missing_block,
     First, Up, RaidTypes, RAID0, RAID1, RAID0_1, RAID4, RAID5
<1> QED
  BY <1>3 DEF t

\* One block write of a call in progress.
LEMMA Steps ==
  ASSUME TypeInv, SupportedOnly, Step
  PROVE  TypeInv'
<1>1. TypeOK /\ JobFits /\ load_raid_data_cache \in [Disks -> Meta]
  BY Lookups DEF TypeInv
<1>2. CASE init_step
  <2> DEFINE m == [raid_type |-> job.level, working |-> 1]
  <2>1. PICK d \in First(job.todo) :
          /\ PutMeta(d, m)
          /\ cache' = [cache EXCEPT ![d] = m]
          /\ IF job.todo = {d}
               THEN loaded' = TRUE /\ raid' = m /\ Finish
               ELSE /\ job' = [job EXCEPT !.todo = @ \ {d}]
                    /\ UNCHANGED <<loaded, raid, locked>>
    BY <1>2 DEF init_step
  <2>2. job \in InitJobs /\ locked
    BY <1>1, <1>2, JobShape DEF init_step, JobFits, TypeOK, InitJobs, Idle
  <2>3. m \in Meta /\ m \in Global
    BY <2>2 DEF InitJobs, Meta, Global
  <2>4. meta' \in [Disks -> Meta] /\ data' \in [Disks -> [Blocks -> Bit]]
    BY <1>1, <2>1, <2>2, <2>3, PutMetaTypes DEF First, InitJobs
  <2>5. /\ acked' \in [Blkns -> Bit \cup {Unknown}]
        /\ excused' \subseteq Blkns /\ torn' \subseteq DataBlocks
        /\ blank' \subseteq Disks /\ pages' = pages
    BY <1>2, ForgetTypes DEF init_step
  <2>6. CASE job.todo = {d}
    <3>1. TypeOK'
      BY <1>1, <2>1, <2>3, <2>4, <2>5, <2>6 DEF TypeOK, Finish, Jobs, Global
    <3> QED
      BY <2>1, <2>6, <3>1 DEF TypeInv, JobFits, StuckOnlyWithoutRaid, Finish, Idle
  <2>7. CASE job.todo # {d}
    <3>1. job' \in InitJobs /\ job'.op = "init" /\ job' # Idle
      BY <2>1, <2>2, <2>7 DEF InitJobs, Idle
    <3>2. TypeOK'
      BY <1>1, <2>1, <2>3, <2>4, <2>5, <2>7, <3>1 DEF TypeOK, Jobs
    <3> QED
      BY <2>1, <2>2, <2>7, <3>1, <3>2 DEF TypeInv, JobFits, StuckOnlyWithoutRaid
  <2> QED
    BY <2>6, <2>7
<1>3. CASE write_step
  <2> DEFINE t == raid.raid_type
             b == BlockOf(t, job.blkn)
             diskn == DiskOf(t, job.blkn)
  <2>1. PICK d \in IF diskn \in job.todo THEN {diskn} ELSE First(job.todo) :
          /\ \E v \in {job.parity, job.val} : PutData(d, b, v)
          /\ \/ /\ Finish
                /\ pages' = IF NeedsPage(t) THEN pages + 1 ELSE pages
                /\ acked' = [acked EXCEPT ![job.blkn] = job.val]
                /\ excused' \in {excused \cup {job.blkn}, excused \ {job.blkn}}
             \/ /\ job' = [job EXCEPT !.todo = @ \ {d}]
                /\ UNCHANGED <<locked, pages, acked, excused>>
    BY <1>3 DEF write_step
  <2>2. job \in WriteJobs /\ job.op = "write" /\ locked
    BY <1>1, <1>3, JobShape DEF write_step, JobFits, TypeOK, WriteJobs, Idle
  <2>3. /\ d \in Disks /\ job.blkn \in Blkns
        /\ job.parity \in Bit /\ job.val \in Bit /\ job.todo \in SUBSET Disks
    BY <2>1, <2>2 DEF WriteJobs, First
  <2>4. meta' \in [Disks -> Meta] /\ data' \in [Disks -> [Blocks -> Bit]]
    BY <1>1, <2>1, <2>3, PutDataTypes
  <2>5. UNCHANGED <<cache, loaded, raid, torn, blank>>
    BY <1>3 DEF write_step
  <2>6. ASSUME Finish,
               pages' = IF NeedsPage(t) THEN pages + 1 ELSE pages,
               acked' = [acked EXCEPT ![job.blkn] = job.val],
               excused' \in {excused \cup {job.blkn}, excused \ {job.blkn}}
        PROVE  TypeInv'
    <3>1. NeedsPage(t) => pages < PAGES
      BY <1>1, <2>2 DEF JobFits
    <3>2. pages' \in 0 .. PAGES
      BY <1>1, <2>6, <3>1, PagesAssumption DEF TypeOK
    <3>3. TypeOK'
      BY <1>1, <2>3, <2>4, <2>5, <2>6, <3>2 DEF TypeOK, Finish, Jobs
    <3> QED
      BY <2>6, <3>3 DEF TypeInv, JobFits, StuckOnlyWithoutRaid, Finish, Idle
  <2>7. ASSUME job' = [job EXCEPT !.todo = @ \ {d}],
               UNCHANGED <<locked, pages, acked, excused>>
        PROVE  TypeInv'
    <3>1. /\ job' \in WriteJobs /\ job'.op = "write" /\ job' # Idle
          /\ job'.blkn = job.blkn /\ job'.todo \subseteq job.todo
      BY <2>2, <2>7 DEF WriteJobs, Idle
    <3>2. TypeOK'
      BY <1>1, <2>4, <2>5, <2>7, <3>1 DEF TypeOK, Jobs
    <3> QED
      BY <1>1, <2>2, <2>5, <2>7, <3>1, <3>2 DEF TypeInv, JobFits, StuckOnlyWithoutRaid
  <2> QED
    BY <2>1, <2>6, <2>7
<1>4. CASE repair_step
  <2> DEFINE t == raid.raid_type
             S == RepairFrom(t, cache, job.diskn)
  <2>1. /\ job \in RepairJobs /\ job.op = "repair" /\ locked
        /\ job.diskn \in Disks /\ job.blockn \in Nat
        /\ job.blockn < NUMBER_OF_BLOCKS
    BY <1>1, <1>4, JobShape, BlocksAssumption
       DEF repair_step, JobFits, TypeOK, RepairJobs, Idle
  <2>2. S \in SUBSET Disks
    BY <2>1, RepairSource
  <2> HIDE DEF S, t
  <2>3. data' \in [Disks -> [Blocks -> Bit]]
    <3>1. XorOf(S, job.blockn) \in Bit
      BY <2>2, XorBit
    <3> QED
      BY <1>1, <1>4, <2>1, <3>1, PutBit DEF repair_step, TypeOK, S, t
  <2>4. meta' \in [Disks -> Meta]
    BY <1>1, <1>4, <2>2 DEF repair_step, TypeOK, S, t
  <2>5. /\ job' \in RepairJobs /\ job'.op = "repair" /\ job' # Idle
        /\ job'.blockn # 0
        /\ UNCHANGED <<memory, locked, acked, blank>>
    BY <1>4, <2>1, BlocksAssumption DEF repair_step, RepairJobs, Idle
  <2>6. excused' \subseteq Blkns /\ torn' \subseteq DataBlocks
    BY <1>1, <1>4 DEF repair_step, TypeOK, BlocksAt
  <2>7. TypeOK'
    BY <1>1, <2>3, <2>4, <2>5, <2>6 DEF TypeOK, memory, Jobs
  <2> QED
    BY <1>1, <2>1, <2>5, <2>7 DEF TypeInv, JobFits, StuckOnlyWithoutRaid, memory
<1>5. CASE repair_done
  <2>1. /\ job \in RepairJobs /\ job.op = "repair" /\ job.diskn \in Disks
    BY <1>1, <1>5, JobShape DEF repair_done, TypeOK, RepairJobs
  <2>2. Repaired(cache[job.diskn]) \in Meta
    <3>1. cache[job.diskn] \in Meta
      BY <1>1, <2>1 DEF TypeOK
    <3> QED
      BY <3>1 DEF Repaired, Meta
  <2>3. meta' \in [Disks -> Meta] /\ data' \in [Disks -> [Blocks -> Bit]]
    BY <1>1, <1>5, <2>1, <2>2, PutMetaTypes DEF repair_done
  <2>4. pages' \in 0 .. PAGES
    <3>1. pages \in 0 .. PAGES /\ (raid.raid_type = RAID5 => pages < PAGES)
      BY <1>1, <2>1 DEF TypeOK, JobFits
    <3>2. pages' = IF raid.raid_type = RAID5 THEN pages + 1 ELSE pages
      BY <1>5 DEF repair_done
    <3> QED
      BY <3>1, <3>2, PagesAssumption
  <2>5. TypeOK'
    BY <1>1, <1>5, <2>1, <2>2, <2>3, <2>4 DEF repair_done, TypeOK, Finish, Jobs
  <2> QED
    BY <1>5, <2>5 DEF repair_done, TypeInv, JobFits, StuckOnlyWithoutRaid, Finish, Idle
<1>6. CASE destroy_step
  <2>1. /\ job \in DestroyJobs /\ job.op = "destroy" /\ job.todo \in SUBSET Disks
        /\ locked
    BY <1>1, <1>6, JobShape DEF destroy_step, TypeOK, DestroyJobs, JobFits, Idle
  <2>2. PICK d \in First(job.todo) :
          /\ PutMeta(d, ZeroMeta)
          /\ cache' = IF raid.raid_type \in ParityTypes
                        THEN [cache EXCEPT ![d] = Failed(@)] ELSE cache
          /\ IF job.todo = {d}
               THEN raid' = NoRaid /\ Finish
               ELSE /\ job' = [job EXCEPT !.todo = @ \ {d}]
                    /\ UNCHANGED <<raid, locked>>
    BY <1>6 DEF destroy_step
  <2>3. d \in Disks /\ ZeroMeta \in Meta /\ NoRaid \in Global
    BY <2>1, <2>2 DEF First, ZeroMeta, NoRaid, Meta, Global
  <2>4. meta' \in [Disks -> Meta] /\ data' \in [Disks -> [Blocks -> Bit]]
    BY <1>1, <2>2, <2>3, PutMetaTypes
  <2>5. cache' \in [Disks -> Meta]
    BY <1>1, <2>2, <2>3 DEF TypeOK, Failed, Meta
  <2>6. UNCHANGED <<loaded, pages, history>>
    BY <1>6 DEF destroy_step
  <2>7. CASE job.todo = {d}
    <3>1. TypeOK'
      BY <1>1, <2>2, <2>3, <2>4, <2>5, <2>6, <2>7
         DEF TypeOK, Finish, Jobs, Global, history
    <3> QED
      BY <2>2, <2>7, <3>1 DEF TypeInv, JobFits, StuckOnlyWithoutRaid, Finish, Idle
  <2>8. CASE job.todo # {d}
    <3>1. job' \in DestroyJobs /\ job'.op = "destroy" /\ job' # Idle
      BY <2>1, <2>2, <2>8 DEF DestroyJobs, Idle
    <3>2. TypeOK'
      BY <1>1, <2>2, <2>4, <2>5, <2>6, <2>8, <3>1 DEF TypeOK, Jobs, history
    <3> QED
      BY <2>1, <2>2, <2>8, <3>1, <3>2 DEF TypeInv, JobFits, StuckOnlyWithoutRaid
  <2> QED
    BY <2>7, <2>8
<1> QED
  BY <1>2, <1>3, <1>4, <1>5, <1>6 DEF Step

\* Power loss, and a disk whose medium is replaced.
LEMMA Environment ==
  ASSUME TypeInv, NEW d \in Disks, Crash \/ LoseMedium(d)
  PROVE  TypeInv'
<1>1. TypeOK /\ JobFits /\ load_raid_data_cache \in [Disks -> Meta]
  BY Lookups DEF TypeInv
<1>2. CASE Crash
  <2>1. HalfWritten \subseteq DataBlocks
    <3> SUFFICES ASSUME job.op = "write", raid.raid_type \in ParityTypes
                 PROVE  BlockOf(raid.raid_type, job.blkn) \in DataBlocks
      BY DEF HalfWritten
    <3>1. job.blkn \in Nat /\ raid.raid_type \in RaidTypes
      <4>1. job \in WriteJobs
        BY <1>1, JobShape DEF TypeOK
      <4> QED
        BY <1>1, <4>1, BlknsNat DEF JobFits, WriteJobs
    <3>2. InBounds(raid.raid_type, job.blkn)
      BY <1>1 DEF JobFits
    <3> QED
      BY <3>1, <3>2, PlaceExists DEF ParityTypes, Blocks, DataBlocks, RAID0, RAID4, RAID5
  <2>2. /\ acked' \in [Blkns -> Bit \cup {Unknown}]
        /\ excused' \subseteq Blkns /\ torn' \subseteq DataBlocks
        /\ blank' \subseteq Disks
    <3>1. CASE Forget
      BY <3>1, ForgetTypes
    <3>2. CASE ~Forget
      <4> DEFINE lost == UNION {BlocksAt(level, e, HalfWritten) :
                                   e \in Down(load_raid_data_cache)}
                 half == IF HalfRepaired = {} THEN {}
                         ELSE BlocksAt(level, job.diskn, HalfRepaired)
      <4>1. /\ torn' = torn \cup HalfWritten
            /\ excused' = excused \cup lost \cup half
            /\ UNCHANGED <<acked, blank>>
        BY <1>2, <3>2 DEF Crash
      <4>2. lost \subseteq Blkns /\ half \subseteq Blkns
        <5>1. \A t, e, R : BlocksAt(t, e, R) \subseteq Blkns
          BY DEF BlocksAt
        <5>2. lost \subseteq Blkns
          BY <5>1
        <5>3. half \subseteq Blkns
          BY <5>1
        <5> QED
          BY <5>2, <5>3
      <4> HIDE DEF lost, half
      <4> QED
        BY <1>1, <2>1, <4>1, <4>2 DEF TypeOK
    <3> QED
      BY <3>1, <3>2
  <2>3. TypeOK'
    <3>1. ZeroMeta \in Meta /\ ZeroMeta \in Global
      BY DEF ZeroMeta, Meta, Global
    <3>2. loaded' \in BOOLEAN /\ locked' \in BOOLEAN
      BY <1>2 DEF Crash, Finish
    <3>3. pages' \in 0 .. PAGES
      BY <1>2, PagesAssumption DEF Crash
    <3> QED
      BY <1>1, <1>2, <2>2, <3>1, <3>2, <3>3
         DEF Crash, TypeOK, Finish, Jobs, disks, Global
  <2> QED
    BY <1>2, <2>3 DEF Crash, TypeInv, JobFits, StuckOnlyWithoutRaid, Finish, Idle
<1>3. CASE LoseMedium(d)
  <2>1. PICK f \in [DataBlocks -> Bit] :
          data' = [data EXCEPT ![d] = [b \in Blocks |-> IF b = 0 THEN @[0] ELSE f[b]]]
    BY <1>3 DEF LoseMedium
  <2>2. [b \in Blocks |-> IF b = 0 THEN data[d][0] ELSE f[b]] \in [Blocks -> Bit]
    BY <1>1, BlocksAssumption DEF TypeOK, Blocks, DataBlocks
  <2>3. data' \in [Disks -> [Blocks -> Bit]]
    BY <1>1, <2>1, <2>2 DEF TypeOK
  <2>4. TypeOK'
    BY <1>1, <1>3, <2>3 DEF LoseMedium, TypeOK, memory
  <2> QED
    BY <1>1, <1>3, <2>4
       DEF LoseMedium, TypeInv, JobFits, StuckOnlyWithoutRaid, memory
<1> QED
  BY <1>2, <1>3

\* Boot on blank disks satisfies the inductive invariant.
LEMMA InitTyped == Init => TypeInv /\ SupportedOnly
<1> SUFFICES ASSUME Init PROVE TypeInv /\ SupportedOnly
  OBVIOUS
<1>1. ZeroMeta \in Meta /\ ZeroMeta \in Global /\ 1 \in Disks
  BY DisksAssumption DEF ZeroMeta, Meta, Global, Disks
<1>2. TypeOK
  <2>1. loaded \in BOOLEAN /\ locked \in BOOLEAN
    BY DEF Init
  <2>2. pages \in 0 .. PAGES
    BY PagesAssumption DEF Init
  <2> QED
    BY <1>1, <2>1, <2>2 DEF Init, TypeOK, Jobs, Global, Bit
<1> QED
  BY <1>1, <1>2 DEF Init, TypeInv, JobFits, StuckOnlyWithoutRaid, SupportedOnly,
     Idle, ZeroMeta, RAID0_1, RAID_NONE

\* Every step keeps the types: one step of the proof for each group of actions.
LEMMA NextTyped == TypeInv /\ SupportedOnly /\ [Next]_vars => TypeInv'
<1> SUFFICES ASSUME TypeInv, SupportedOnly, [Next]_vars PROVE TypeInv'
  OBVIOUS
<1>1. UserBlocks \subseteq Blkns /\ UserDisks \subseteq Disks
  BY UserAssumption
<1>2. 0 \in Bit /\ 1 \in Disks /\ 0 \in Blkns
  BY DisksAssumption, BlocksAssumption DEF Bit, Disks, Blkns
<1>3. CASE call_without_raid \/ no_page_panic \/ destroy_raid
  BY <1>2, <1>3, StartingCalls
<1>4. CASE destroy_raid_nothing
  BY <1>2, <1>4, ShortCalls
<1>5. CASE info_raid
  BY <1>2, <1>5, QuietCalls
<1>6. CASE \E t \in Levels : init_raid(t) \/ init_raid_refused(t)
  BY <1>2, <1>6, StartingCalls, ShortCalls
<1>7. CASE \E k \in UserBlocks : read_raid(k) \/ write_raid_refused(k)
  BY <1>1, <1>2, <1>7, QuietCalls
<1>8. CASE \E k \in UserBlocks, v \in Bit : write_raid(k, v) \/ write_raid4_skipped(k, v)
  BY <1>1, <1>2, <1>8, StartingCalls, QuietCalls
<1>9. CASE \E d \in UserDisks : disk_fail_raid(d) \/ disk_fail_raid_refused(d)
  BY <1>1, <1>2, <1>9, ShortCalls, QuietCalls
<1>10. CASE \E d \in UserDisks : disk_repaired_raid(d) \/ disk_repaired_raid_refused(d)
  BY <1>1, <1>2, <1>10, StartingCalls, QuietCalls
<1>11. CASE Step
  BY <1>11, Steps
<1>12. CASE Crash \/ \E d \in Disks : LoseMedium(d)
  BY <1>2, <1>12, Environment
<1>13. CASE UNCHANGED vars
  BY <1>13 DEF vars, TypeInv, TypeOK, JobFits, StuckOnlyWithoutRaid, level, check_raid
<1> QED
  BY <1>3, <1>4, <1>5, <1>6, <1>7, <1>8, <1>9, <1>10, <1>11, <1>12, <1>13 DEF Next

-----------------------------------------------------------------------------
\* A raid_type comes from init_raid, or from where there was one before: the
\* level the calls found, disk 1 or its entry in the cache.
LEMMA EnteredSupported ==
  ASSUME TypeOK, SupportedOnly
  PROVE  /\ check_raid.raid_type = RAID0_1 => Supported(RAID0_1)
         /\ load_raid_data_cache[1].raid_type = RAID0_1 => Supported(RAID0_1)
         /\ NoRaid.raid_type # RAID0_1 /\ ZeroMeta.raid_type # RAID0_1
<1>1. NoRaid.raid_type # RAID0_1 /\ ZeroMeta.raid_type # RAID0_1
  BY DEF NoRaid, ZeroMeta, RAID_NONE, RAID0_1
<1> QED
  BY <1>1 DEF SupportedOnly, check_raid, load_raid_data_cache

\* The calls up to their first block write: all but disk_fail_raid, which has
\* its only block write in the same step.
Call ==
  \/ call_without_raid \/ info_raid \/ no_page_panic
  \/ destroy_raid \/ destroy_raid_nothing
  \/ \E t \in Levels : init_raid(t) \/ init_raid_refused(t)
  \/ \E k \in UserBlocks : read_raid(k) \/ write_raid_refused(k)
  \/ \E k \in UserBlocks, v \in Bit : write_raid(k, v) \/ write_raid4_skipped(k, v)
  \/ \E d \in UserDisks : disk_fail_raid_refused(d)
  \/ \E d \in UserDisks : disk_repaired_raid(d) \/ disk_repaired_raid_refused(d)

\* What they leave alone, and where the new values come from.
CallFrame ==
  /\ ~locked /\ meta' = meta /\ loaded' = loaded
  /\ raid' \in {raid, check_raid, NoRaid}
  /\ cache' \in {cache, load_raid_data_cache}
  /\ \/ job' = job
     \/ job'.op = "panic"
     \/ /\ job'.op = "init"
        /\ Supported(job'.level)
        /\ job'.todo = MetadataDisks(job'.level)
     \/ job'.op # "init" /\ raid' = check_raid /\ level # RAID_NONE

\* Each call of raid.c up to its first block write stays within CallFrame.
LEMMA CallsFrame == Call => CallFrame
<1> SUFFICES ASSUME Call PROVE CallFrame
  OBVIOUS
<1> USE DEF CallFrame, Enter, Start, disks
<1>1. CASE call_without_raid
  BY <1>1 DEF call_without_raid
<1>2. CASE info_raid
  BY <1>2 DEF info_raid
<1>3. CASE no_page_panic
  BY <1>3 DEF no_page_panic, Panic
<1>4. CASE destroy_raid
  BY <1>4 DEF destroy_raid
<1>5. CASE destroy_raid_nothing
  BY <1>5 DEF destroy_raid_nothing
<1>6. ASSUME NEW t, init_raid(t) PROVE CallFrame
  BY <1>6 DEF init_raid, memory
<1>7. ASSUME NEW t, init_raid_refused(t) PROVE CallFrame
  BY <1>7 DEF init_raid_refused
<1>8. ASSUME NEW k, read_raid(k) PROVE CallFrame
  BY <1>8 DEF read_raid
<1>9. ASSUME NEW k, write_raid_refused(k) PROVE CallFrame
  BY <1>9 DEF write_raid_refused, CacheForWrite
<1>10. ASSUME NEW k, NEW v, write_raid(k, v) PROVE CallFrame
  BY <1>10 DEF write_raid, CacheForWrite
<1>11. ASSUME NEW k, NEW v, write_raid4_skipped(k, v) PROVE CallFrame
  BY <1>11 DEF write_raid4_skipped
<1>12. ASSUME NEW d, disk_fail_raid_refused(d) PROVE CallFrame
  BY <1>12 DEF disk_fail_raid_refused
<1>13. ASSUME NEW d, disk_repaired_raid(d) PROVE CallFrame
  BY <1>13 DEF disk_repaired_raid
<1>14. ASSUME NEW d, disk_repaired_raid_refused(d) PROVE CallFrame
  BY <1>14 DEF disk_repaired_raid_refused
<1> HIDE DEF CallFrame
<1> QED
  BY <1>1, <1>2, <1>3, <1>4, <1>5, <1>6, <1>7, <1>8, <1>9, <1>10, <1>11, <1>12,
     <1>13, <1>14 DEF Call

\* So none of them brings RAID01 to an odd number of disks.
LEMMA CallsSupported ==
  ASSUME TypeInv, SupportedOnly, Call
  PROVE  SupportedOnly'
<1>1. CallFrame
  BY CallsFrame
<1>2. job' = job \/ job'.op # "init" \/ Supported(job'.level)
  BY <1>1 DEF CallFrame
<1> QED
  BY <1>1, <1>2, EnteredSupported DEF CallFrame, TypeInv, SupportedOnly

\* What write_step does to the disks.
LEMMA WriteStepPlace ==
  ASSUME TypeInv, write_step
  PROVE  \E d \in job.todo : \E v : PutData(d, BlockOf(raid.raid_type, job.blkn), v)
<1> DEFINE diskn == DiskOf(raid.raid_type, job.blkn)
           D == IF diskn \in job.todo THEN {diskn} ELSE First(job.todo)
<1>1. \E d \in D : \E v : PutData(d, BlockOf(raid.raid_type, job.blkn), v)
  BY DEF write_step
<1>2. D \subseteq job.todo
  BY DEF First
<1> QED
  BY <1>1, <1>2

\* The metadata block of disk 1 is written by init, destroy and the repair and
\* failure of disk 1 only.
LEMMA WriteKeepsMeta ==
  ASSUME TypeInv, write_step
  PROVE  /\ meta'[1] = meta[1]
         /\ raid.raid_type # RAID0 => meta' = meta
         /\ UNCHANGED <<cache, loaded, raid>>
         /\ job' = Idle \/ (job'.op = "write" /\ job'.todo \subseteq job.todo)
<1>1. /\ job \in WriteJobs /\ job.op = "write"
      /\ raid.raid_type \in RaidTypes
      /\ BlockOf(raid.raid_type, job.blkn) = 0 => 1 \notin job.todo
      /\ meta \in [Disks -> Meta] /\ 1 \in Disks
  BY JobShape, Lookups DEF TypeInv, TypeOK, JobFits, write_step
<1>7. job.blkn \in Nat
  BY <1>1, BlknsNat DEF WriteJobs
<1>2. PICK d \in job.todo : \E v : PutData(d, BlockOf(raid.raid_type, job.blkn), v)
  BY WriteStepPlace
<1>3. meta'[1] = meta[1]
  BY <1>1, <1>2 DEF PutData
<1>4. raid.raid_type # RAID0 => meta' = meta
  BY <1>1, <1>2, <1>7, PlaceExists DEF PutData
<1>5. job' = Idle \/ \E e : job' = [job EXCEPT !.todo = @ \ {e}]
  BY DEF write_step, Finish
<1>6. job' = Idle \/ (job'.op = "write" /\ job'.todo \subseteq job.todo)
  BY <1>1, <1>5 DEF WriteJobs
<1> QED
  BY <1>3, <1>4, <1>6 DEF write_step

\* Nor does a block write of a call in progress.
LEMMA StepsSupported ==
  ASSUME TypeInv, SupportedOnly, Step
  PROVE  SupportedOnly'
<1>1. /\ TypeOK /\ 1 \in Disks /\ Idle.op = "idle"
      /\ ZeroMeta.raid_type # RAID0_1 /\ NoRaid.raid_type # RAID0_1
  BY Lookups, EnteredSupported DEF TypeInv, Idle
<1>2. CASE init_step
  <2> DEFINE m == [raid_type |-> job.level, working |-> 1]
  <2>1. PICK d \in First(job.todo) :
          /\ meta' = [meta EXCEPT ![d] = m]
          /\ cache' = [cache EXCEPT ![d] = m]
          /\ raid' \in {raid, m}
          /\ job' \in {Idle, [job EXCEPT !.todo = @ \ {d}]}
    BY <1>2 DEF init_step, PutMeta, Finish
  <2>2. job \in InitJobs /\ Supported(job.level)
    BY <1>1, <1>2, JobShape DEF init_step, SupportedOnly, TypeOK
  <2>3. job'.op = "init" => job'.level = job.level
    BY <1>1, <2>1, <2>2 DEF InitJobs
  <2>4. /\ meta'[1].raid_type \in {meta[1].raid_type, job.level}
        /\ cache'[1].raid_type \in {cache[1].raid_type, job.level}
        /\ raid'.raid_type \in {raid.raid_type, job.level}
    BY <1>1, <2>1 DEF TypeOK
  <2> QED
    BY <2>2, <2>3, <2>4 DEF SupportedOnly
<1>3. CASE write_step
  BY <1>1, <1>3, WriteKeepsMeta DEF SupportedOnly
<1>4. CASE repair_step
  <2>1. job' = [job EXCEPT !.blockn = @ + 1] /\ UNCHANGED <<cache, raid>>
        /\ job \in RepairJobs
    BY <1>1, <1>4, JobShape DEF repair_step, memory, TypeOK
  <2>2. job'.op = "repair"
    BY <2>1 DEF RepairJobs
  <2>3. CASE raid.raid_type = RAID0_1
    BY <2>1, <2>2, <2>3 DEF SupportedOnly
  <2>4. CASE raid.raid_type # RAID0_1
    <3>1. job.blockn # 0
      BY <1>4, <2>4 DEF repair_step, TypeInv, JobFits
    <3> QED
      BY <1>4, <2>1, <2>2, <3>1 DEF repair_step, SupportedOnly
  <2> QED
    BY <2>3, <2>4
<1>5. CASE repair_done
  <2>1. /\ meta' = [meta EXCEPT ![job.diskn] = Repaired(cache[job.diskn])]
        /\ cache' = [cache EXCEPT ![job.diskn] = Repaired(cache[job.diskn])]
        /\ raid' = raid /\ job' = Idle
    BY <1>5 DEF repair_done, PutMeta, Finish
  <2>2. /\ meta'[1].raid_type \in {meta[1].raid_type, cache[1].raid_type}
        /\ cache'[1].raid_type = cache[1].raid_type
    BY <1>1, <2>1 DEF TypeOK, Repaired, Meta
  <2> QED
    BY <1>1, <2>1, <2>2 DEF SupportedOnly
<1>6. CASE destroy_step
  <2>1. job \in DestroyJobs
    BY <1>1, <1>6, JobShape DEF destroy_step, TypeOK
  <2>2. PICK d \in First(job.todo) :
          /\ meta' = [meta EXCEPT ![d] = ZeroMeta]
          /\ cache' = cache \/ cache' = [cache EXCEPT ![d] = Failed(cache[d])]
          /\ raid' \in {raid, NoRaid}
          /\ job' \in {Idle, [job EXCEPT !.todo = @ \ {d}]}
    BY <1>6 DEF destroy_step, PutMeta, Finish
  <2>3. job'.op # "init"
    BY <1>1, <2>1, <2>2 DEF DestroyJobs
  <2>4. meta'[1].raid_type \in {meta[1].raid_type, ZeroMeta.raid_type}
    BY <1>1, <2>2 DEF TypeOK
  <2>5. cache'[1].raid_type = cache[1].raid_type
    <3>1. cache[1] \in Meta /\ Failed(cache[1]).raid_type = cache[1].raid_type
      BY <1>1 DEF TypeOK, Failed, Meta
    <3>2. cache'[1] \in {cache[1], Failed(cache[1])}
      BY <1>1, <2>2 DEF TypeOK
    <3> QED
      BY <3>1, <3>2
  <2> QED
    BY <1>1, <2>2, <2>3, <2>4, <2>5 DEF SupportedOnly
<1> QED
  BY <1>2, <1>3, <1>4, <1>5, <1>6 DEF Step

\* Nor does any step.
LEMMA NextSupported == TypeInv /\ SupportedOnly /\ [Next]_vars => SupportedOnly'
<1> SUFFICES ASSUME TypeInv, SupportedOnly, [Next]_vars PROVE SupportedOnly'
  OBVIOUS
<1>1. /\ TypeOK /\ 1 \in Disks /\ load_raid_data_cache \in [Disks -> Meta]
      /\ ZeroMeta.raid_type # RAID0_1
  BY Lookups, EnteredSupported DEF TypeInv
<1>2. ASSUME NEW d \in UserDisks, disk_fail_raid(d)
      PROVE  SupportedOnly'
  <2>1. PICK c \in {cache, load_raid_data_cache} :
          \E e : /\ meta' = [meta EXCEPT ![e] = Failed(c[e])]
                 /\ cache' = [c EXCEPT ![e] = Failed(c[e])]
                 /\ raid' = check_raid /\ job' = job
    BY <1>2 DEF disk_fail_raid, Enter, PutMeta
  <2>2. /\ meta'[1].raid_type \in {meta[1].raid_type, c[1].raid_type}
        /\ cache'[1].raid_type = c[1].raid_type
    BY <1>1, <2>1 DEF TypeOK, Failed, Meta
  <2> QED
    BY <1>1, <2>1, <2>2, EnteredSupported DEF SupportedOnly
<1>3. CASE Crash
  BY <1>1, <1>3 DEF Crash, Finish, disks, SupportedOnly, Idle
<1>4. ASSUME NEW d \in Disks, LoseMedium(d)
      PROVE  SupportedOnly'
  BY <1>4 DEF LoseMedium, memory, SupportedOnly
<1>5. CASE UNCHANGED vars
  BY <1>5 DEF vars, SupportedOnly
<1> QED
  BY <1>2, <1>3, <1>4, <1>5, StepsSupported, CallsSupported DEF Next, Call

-----------------------------------------------------------------------------
\* The inductive invariant holds in every reachable state.
LEMMA SpecTyped == Spec => [](TypeInv /\ SupportedOnly)
<1>1. Init => TypeInv /\ SupportedOnly
  BY InitTyped
<1>2. TypeInv /\ SupportedOnly /\ [Next]_vars => (TypeInv /\ SupportedOnly)'
  BY NextTyped, NextSupported
<1> QED
  BY <1>1, <1>2, PTL DEF Spec

\* The RAID layer of kernel/raid.c keeps its types: every disk and block number
\* it computes exists, the uchar flags stay in range, no parity page is freed
\* twice, for any number and size of disks and any sequence of calls.
THEOREM TypeCorrect == Spec => []TypeOK
<1>1. TypeInv => TypeOK
  BY DEF TypeInv
<1> QED
  BY <1>1, SpecTyped, PTL

\* Every return of a call in kernel/raid.c unlocks raid_lock, but for the calls
\* that find no RAID: a lock that is held with no call in progress means that.
THEOREM LockLeak == Spec => []StuckOnlyWithoutRaid
<1>1. TypeInv => StuckOnlyWithoutRaid
  BY DEF TypeInv
<1> QED
  BY <1>1, SpecTyped, PTL
=============================================================================
