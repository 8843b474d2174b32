-------------------------- MODULE RaidRebootProofs --------------------------
(***************************************************************************)
(* A reboot never forgets a failed disk: FailedStaysFailedAtReboot, for    *)
(* any number and size of disks and any use.                               *)
(***************************************************************************)
EXTENDS RaidProofs

\* While a call is between two of its block writes raid is the level it works at.
\* What init_raid has done so far is in the cache and on the disks.
CallKnows ==
  /\ raid.working = 1 => raid.raid_type \in RaidTypes
  /\ job.op \in {"write", "repair", "destroy"} => raid.working = 1
  /\ job.op = "init" =>
       \A d \in MetadataDisks(job.level) \ job.todo :
         /\ cache[d] = [raid_type |-> job.level, working |-> 1]
         /\ meta[d] = [raid_type |-> job.level, working |-> 1]

\* The cache in use describes the RAID that is on the disks.
CacheAgrees ==
  loaded /\ job.op # "init" =>
    /\ meta[1].raid_type \in {level, RAID_NONE}
    /\ level # RAID_NONE => cache[1].raid_type = level
    /\ level = RAID0_1 =>
         \A d \in Disks : /\ cache[d].raid_type = RAID0_1
                          /\ meta[d].raid_type \in {RAID0_1, RAID_NONE}
    /\ level \in {RAID1, RAID4, RAID5} => Down(cache) \subseteq Down(meta)

RebootInv == CallKnows /\ CacheAgrees

\* Looking the level up does not change it; forgetting it can only lose it.
LEMMA LevelKept ==
  ASSUME TypeOK, CallKnows
  PROVE  /\ level \in RaidTypes \cup {RAID_NONE}
         /\ raid.working = 1 => level = raid.raid_type
         /\ level # RAID_NONE => check_raid.working = 1
         /\ check_raid.working = 1 => check_raid.raid_type \in RaidTypes
         /\ meta' = meta /\ raid' \in {raid, check_raid} => level' = level
         /\ raid' = NoRaid /\ meta'[1] \in Meta => level' = meta'[1].raid_type
<1> USE DEF check_raid, level, NoRaid, NotExists, RAID_NONE, RaidTypes,
        RAID0, RAID1, RAID0_1, RAID4, RAID5
<1>1. level \in RaidTypes \cup {RAID_NONE} /\ meta[1] \in Meta
  BY Lookups DEF TypeOK
<1>2. raid.working = 1 => level = raid.raid_type
  OBVIOUS
<1>3. level # RAID_NONE => check_raid.working = 1
  OBVIOUS
<1>4. check_raid.working = 1 => check_raid.raid_type \in RaidTypes
  BY DEF CallKnows
<1>5. ASSUME meta' = meta, raid' \in {raid, check_raid}
      PROVE  level' = level
  BY <1>5
<1>6. ASSUME raid' = NoRaid, meta'[1] \in Meta
      PROVE  level' = meta'[1].raid_type
  BY <1>6 DEF Meta
<1> QED
  BY <1>1, <1>2, <1>3, <1>4, <1>5, <1>6

\* A call that writes nothing leaves the agreement as it found it.
LEMMA QuietAgrees ==
  ASSUME TypeOK, RebootInv, job.op # "init", loaded' = loaded, meta' = meta,
         loaded => cache' = cache, raid' \in {raid, check_raid, NoRaid}
  PROVE  CacheAgrees'
<1>1. CASE ~loaded
  BY <1>1 DEF CacheAgrees
<1>2. CASE loaded
  <2>1. level' \in {level, RAID_NONE} /\ meta[1].raid_type \in {level', RAID_NONE}
    BY <1>2, LevelKept, Lookups DEF RebootInv, CacheAgrees, TypeOK
  <2>2. cache' = cache /\ Down(cache)' = Down(cache) /\ Down(meta)' = Down(meta)
    BY <1>2 DEF Down
  <2> QED
    BY <1>2, <2>1, <2>2 DEF RebootInv, CacheAgrees, RAID_NONE, RAID0_1,
       RAID1, RAID4, RAID5
<1> QED
  BY <1>1, <1>2 DEF TypeOK

\* A call that has not written a block yet leaves the cache in agreement with the
\* disks: it loads the cache from them or leaves it alone.
LEMMA CallsAgree ==
  ASSUME TypeInv, RebootInv, Call
  PROVE  RebootInv'
<1>1. /\ meta' = meta
      /\ raid' \in {raid, check_raid, NoRaid}
      /\ cache' \in {cache, load_raid_data_cache}
  BY CallsFrame DEF CallFrame
<1>2. loaded' = loaded /\ ~locked
  BY CallsFrame DEF CallFrame
<1>3. \/ job' = job
      \/ job'.op = "panic"
      \/ job'.op = "init" /\ job'.todo = MetadataDisks(job'.level)
      \/ job'.op # "init" /\ raid' = check_raid /\ level # RAID_NONE
  BY CallsFrame DEF CallFrame
<1>4. TypeOK /\ job.op = "idle"
  BY <1>2 DEF TypeInv, JobFits, Idle
<1>5. CallKnows'
  <2>1. raid'.working = 1 => raid'.raid_type \in RaidTypes
    BY <1>1, <1>4, LevelKept DEF RebootInv, CallKnows, NoRaid, NotExists
  <2>2. job'.op \in {"write", "repair", "destroy"} => raid'.working = 1
    BY <1>3, <1>4, LevelKept DEF RebootInv
  <2>3. job'.op = "init" => MetadataDisks(job'.level) \ job'.todo = {}
    BY <1>3, <1>4
  <2> QED
    BY <2>1, <2>2, <2>3 DEF CallKnows
<1>6. CacheAgrees'
  <2>1. loaded => cache' = cache
    BY <1>1 DEF load_raid_data_cache
  <2> QED
    BY <1>1, <1>2, <1>4, <2>1, QuietAgrees
<1> QED
  BY <1>5, <1>6 DEF RebootInv

-----------------------------------------------------------------------------
\* Marking disk d the same way in the cache and on the disk, or zeroing its
\* metadata block, keeps the agreement while the level stays.
LEMMA MarkAgrees ==
  ASSUME TypeOK, TypeOK', CacheAgrees, NEW d \in Disks, job.op # "init",
         loaded' = loaded, level' \in {level, RAID_NONE},
         level' = RAID_NONE => meta'[1].raid_type = RAID_NONE,
         loaded => /\ \A e \in Disks \ {d} : cache'[e] = cache[e] /\ meta'[e] = meta[e]
                   /\ cache'[d].raid_type = cache[d].raid_type
                   /\ \/ meta'[d] = cache'[d]
                      \/ meta'[d] = ZeroMeta,
         level # RAID_NONE
  PROVE  CacheAgrees'
<1>1. CASE ~loaded
  BY <1>1 DEF CacheAgrees
<1>2. CASE loaded
  <2>1. /\ cache'[1].raid_type = cache[1].raid_type
        /\ meta'[1].raid_type \in {meta[1].raid_type, cache[1].raid_type, RAID_NONE}
    BY <1>2, Lookups DEF ZeroMeta
  <2>2. meta'[1].raid_type \in {level', RAID_NONE}
    BY <1>2, <2>1 DEF CacheAgrees
  <2>3. level' # RAID_NONE => cache'[1].raid_type = level'
    BY <1>2, <2>1 DEF CacheAgrees
  <2>4. level' = RAID0_1 =>
         \A e \in Disks : /\ cache'[e].raid_type = RAID0_1
                          /\ meta'[e].raid_type \in {RAID0_1, RAID_NONE}
    BY <1>2 DEF CacheAgrees, ZeroMeta, RAID_NONE, RAID0_1
  <2>5. level' \in {RAID1, RAID4, RAID5} => Down(cache)' \subseteq Down(meta)'
    BY <1>2 DEF CacheAgrees, Down, ZeroMeta, RAID_NONE, RAID1, RAID4, RAID5
  <2> QED
    BY <2>2, <2>3, <2>4, <2>5 DEF CacheAgrees
<1> QED
  BY <1>1, <1>2 DEF TypeOK

\* disk_fail_raid writes the mark to the disks that it sets in the cache.
LEMMA FailAgrees ==
  ASSUME TypeInv, RebootInv, TypeOK', NEW d \in Disks, disk_fail_raid(d)
  PROVE  RebootInv'
<1>1. PICK u \in RaidTypes :
        LET c == IF u = RAID0 THEN cache ELSE load_raid_data_cache IN
        /\ Enter(u)
        /\ \E e \in FailedBy(u, c, d) :
             /\ cache' = [c EXCEPT ![e] = Failed(@)]
             /\ PutMeta(e, Failed(c[e]))
        /\ UNCHANGED <<loaded, locked, job>>
  BY DEF disk_fail_raid
<1> DEFINE c == IF u = RAID0 THEN cache ELSE load_raid_data_cache
<1>2. PICK e \in FailedBy(u, c, d) :
        /\ cache' = [c EXCEPT ![e] = Failed(@)]
        /\ PutMeta(e, Failed(c[e]))
  BY <1>1
<1>3. e \in Disks
  BY DisksAssumption DEF FailedBy, disk_fail_raid0, disk_fail_raid1,
     disk_fail_raid01, disk_fail_raid4, disk_fail_raid5, Disks, RaidTypes,
     RAID0, RAID1, RAID0_1, RAID4, RAID5
<1>4. /\ TypeOK /\ job = Idle /\ job' = Idle /\ job.op = "idle" /\ level # RAID_NONE
      /\ raid' = check_raid /\ loaded' = loaded
      /\ loaded => c = cache
  BY <1>1 DEF Enter, TypeInv, JobFits, Idle, load_raid_data_cache
<1>5. c \in [Disks -> Meta]
  BY <1>4, Lookups DEF TypeOK
<1> HIDE DEF c
<1>6. /\ \A f \in Disks \ {e} : cache'[f] = c[f] /\ meta'[f] = meta[f]
      /\ cache'[e] = Failed(c[e]) /\ meta'[e] = Failed(c[e])
      /\ Failed(c[e]).raid_type = c[e].raid_type
  BY <1>2, <1>3, <1>4, <1>5 DEF PutMeta, TypeOK, Failed, Meta
<1>7. raid'.working = 1 /\ raid'.raid_type \in RaidTypes /\ level' = level
  <2>1. raid'.working = 1 /\ raid'.raid_type = level /\ level \in RaidTypes
    BY <1>4, LevelKept DEF RebootInv, level
  <2> QED
    BY <2>1 DEF level, check_raid
<1>8. CacheAgrees'
  BY <1>3, <1>4, <1>6, <1>7, MarkAgrees DEF RebootInv
<1>9. CallKnows'
  BY <1>4, <1>7 DEF CallKnows, Idle
<1> QED
  BY <1>8, <1>9 DEF RebootInv

\* The block writes of a call in progress keep the agreement.
LEMMA StepsAgree ==
  ASSUME TypeInv, SupportedOnly, RebootInv, TypeOK', Step
  PROVE  RebootInv'
<1>1. /\ TypeOK /\ JobFits /\ CallKnows /\ CacheAgrees /\ 1 \in Disks
      /\ Idle.op = "idle"
  BY Lookups DEF TypeInv, RebootInv, Idle
<1>2. CASE init_step
  <2> DEFINE m == [raid_type |-> job.level, working |-> 1]
  <2>1. PICK d \in First(job.todo) :
          /\ meta' = [meta EXCEPT ![d] = m]
          /\ cache' = [cache EXCEPT ![d] = m]
          /\ IF job.todo = {d}
               THEN loaded' = TRUE /\ raid' = m /\ job' = Idle
               ELSE /\ job' = [job EXCEPT !.todo = @ \ {d}]
                    /\ UNCHANGED <<loaded, raid>>
    BY <1>2 DEF init_step, PutMeta, Finish
  <2>2. /\ job \in InitJobs /\ job.op = "init" /\ job.level \in RaidTypes
        /\ job.todo \subseteq Disks /\ d \in Disks
    BY <1>1, <1>2, <2>1, JobShape DEF init_step, TypeOK, InitJobs, First
  <2>3. \A e \in Disks : /\ meta'[e] = IF e = d THEN m ELSE meta[e]
                         /\ cache'[e] = IF e = d THEN m ELSE cache[e]
    BY <1>1, <2>1 DEF TypeOK
  <2>4. MetadataDisks(job.level) \subseteq Disks
    BY <1>1 DEF MetadataDisks, init_raid0, init_raid1, init_raid01, init_raid4,
       init_raid5
  <2>5. \A e \in MetadataDisks(job.level) \ (job.todo \ {d}) :
          cache'[e] = m /\ meta'[e] = m
    BY <1>1, <2>2, <2>3, <2>4 DEF CallKnows
  <2>6. CASE job.todo = {d}
    <3>1. level' = job.level /\ job.level # RAID_NONE
      BY <2>1, <2>2, <2>6 DEF level, check_raid, RaidTypes, RAID_NONE,
         RAID0, RAID1, RAID0_1, RAID4, RAID5
    <3>2. /\ 1 \in MetadataDisks(job.level)
          /\ job.level # RAID0 => MetadataDisks(job.level) = Disks
      <4>1. Supported(job.level)
        BY <2>2 DEF SupportedOnly
      <4> QED
        BY <1>1, <2>2, <4>1 DEF Supported, MetadataDisks, init_raid0, init_raid1,
           init_raid01, init_raid4, init_raid5, RaidTypes,
           RAID0, RAID1, RAID0_1, RAID4, RAID5
    <3>3. \A e \in MetadataDisks(job.level) : cache'[e] = m /\ meta'[e] = m
      BY <2>5, <2>6
    <3>4. level' \in {RAID1, RAID4, RAID5} => Down(cache)' = {}
      BY <3>1, <3>2, <3>3 DEF Down, RAID0, RAID1, RAID4, RAID5
    <3>5. CacheAgrees'
      BY <3>1, <3>2, <3>3, <3>4 DEF CacheAgrees, RAID0, RAID0_1
    <3> QED
      BY <1>1, <2>1, <2>2, <2>6, <3>5 DEF RebootInv, CallKnows
  <2>7. CASE job.todo # {d}
    <3>1. job'.op = "init" /\ job'.level = job.level /\ job'.todo = job.todo \ {d}
      BY <2>1, <2>2, <2>7 DEF InitJobs
    <3> QED
      BY <1>1, <2>1, <2>5, <2>7, <3>1 DEF RebootInv, CallKnows, CacheAgrees
  <2> QED
    BY <2>6, <2>7
<1>3. CASE write_step
  <2>1. /\ job.op = "write" /\ raid.working = 1 /\ raid.raid_type \in RaidTypes
        /\ job'.op \in {"idle", "write"}
        /\ meta'[1] = meta[1] /\ (raid.raid_type # RAID0 => meta' = meta)
        /\ UNCHANGED <<cache, loaded, raid>>
    BY <1>1, <1>3, WriteKeepsMeta DEF write_step, CallKnows
  <2>2. level = raid.raid_type /\ level' = level
    BY <2>1 DEF level, check_raid
  <2>3. level # RAID0 => Down(meta)' = Down(meta) /\ Down(cache)' = Down(cache)
    BY <2>1, <2>2 DEF Down
  <2>4. CacheAgrees'
    BY <1>1, <2>1, <2>2, <2>3 DEF CacheAgrees, RAID0, RAID0_1, RAID1, RAID4, RAID5
  <2> QED
    BY <1>1, <2>1, <2>4 DEF RebootInv, CallKnows
<1>4. CASE repair_step
  <2> DEFINE S == RepairFrom(raid.raid_type, cache, job.diskn)
  <2>1. /\ job.op = "repair" /\ raid.working = 1 /\ raid.raid_type \in RaidTypes
        /\ job \in RepairJobs /\ job.diskn \in Disks
        /\ job.blockn = 0 => raid.raid_type = RAID0_1
        /\ S \subseteq Disks
    BY <1>1, <1>4, JobShape, RepairSource
       DEF repair_step, CallKnows, JobFits, TypeOK, RepairJobs
  <2>2. /\ UNCHANGED <<cache, loaded, raid>>
        /\ \/ meta' = meta
           \/ job.blockn = 0 /\ \E d \in S : meta' = [meta EXCEPT ![job.diskn] = meta[d]]
    BY <1>4 DEF repair_step, memory
  <2> HIDE DEF S
  <2>3. job'.op = "repair"
    BY <1>4, <2>1 DEF repair_step, RepairJobs
  <2>4. level = raid.raid_type /\ level' = level
    BY <2>1, <2>2 DEF level, check_raid
  <2>5. CASE meta' = meta
    <3>1. Down(meta)' = Down(meta) /\ Down(cache)' = Down(cache)
      BY <2>2, <2>5 DEF Down
    <3>2. CacheAgrees'
      BY <1>1, <2>1, <2>2, <2>4, <2>5, <3>1 DEF CacheAgrees
    <3> QED
      BY <1>1, <2>1, <2>2, <2>3, <3>2 DEF RebootInv, CallKnows
  <2>6. CASE meta' # meta
    <3>1. PICK d \in S : meta' = [meta EXCEPT ![job.diskn] = meta[d]]
      BY <2>2, <2>6
    <3>2. level = RAID0_1 /\ d \in Disks
      BY <2>1, <2>2, <2>4, <2>6
    <3>3. loaded => \A e \in Disks : meta'[e].raid_type \in {RAID0_1, RAID_NONE}
      BY <1>1, <2>1, <3>1, <3>2 DEF CacheAgrees, TypeOK
    <3>4. CacheAgrees'
      BY <1>1, <2>1, <2>2, <2>4, <3>2, <3>3
         DEF CacheAgrees, RAID0_1, RAID1, RAID4, RAID5
    <3> QED
      BY <1>1, <2>1, <2>2, <2>3, <3>4 DEF RebootInv, CallKnows
  <2> QED
    BY <2>5, <2>6
<1>5. CASE repair_done
  <2> DEFINE m == Repaired(cache[job.diskn])
  <2>1. /\ job.op = "repair" /\ raid.working = 1 /\ raid.raid_type \in RaidTypes
        /\ job.diskn \in Disks
    BY <1>1, <1>5, JobShape DEF repair_done, CallKnows, TypeOK, RepairJobs
  <2>2. /\ meta' = [meta EXCEPT ![job.diskn] = m]
        /\ cache' = [cache EXCEPT ![job.diskn] = m]
        /\ UNCHANGED <<raid, loaded>> /\ job' = Idle
    BY <1>5 DEF repair_done, PutMeta, Finish
  <2>3. level = raid.raid_type /\ level' = level /\ level # RAID_NONE
    BY <2>1, <2>2 DEF level, check_raid, RaidTypes, RAID_NONE,
       RAID0, RAID1, RAID0_1, RAID4, RAID5
  <2>4. /\ \A e \in Disks \ {job.diskn} : cache'[e] = cache[e] /\ meta'[e] = meta[e]
        /\ cache'[job.diskn] = m /\ meta'[job.diskn] = m
        /\ m.raid_type = cache[job.diskn].raid_type
    BY <1>1, <2>1, <2>2 DEF TypeOK, Repaired, Meta
  <2> HIDE DEF m
  <2>5. CacheAgrees'
    BY <1>1, <2>1, <2>2, <2>3, <2>4, MarkAgrees
  <2> QED
    BY <1>1, <2>1, <2>2, <2>5 DEF RebootInv, CallKnows
<1>6. CASE destroy_step
  <2>1. /\ job \in DestroyJobs /\ job.op = "destroy" /\ job.todo \subseteq Disks
        /\ raid.working = 1 /\ raid.raid_type \in RaidTypes
    BY <1>1, <1>6, JobShape DEF destroy_step, CallKnows, TypeOK, DestroyJobs
  <2>2. PICK d \in First(job.todo) :
          /\ meta' = [meta EXCEPT ![d] = ZeroMeta]
          /\ cache' = cache \/ cache' = [cache EXCEPT ![d] = Failed(cache[d])]
          /\ \/ raid' = NoRaid /\ job' = Idle
             \/ raid' = raid /\ job' = [job EXCEPT !.todo = @ \ {d}]
          /\ loaded' = loaded
    BY <1>6 DEF destroy_step, PutMeta, Finish
  <2>3. d \in Disks /\ job'.op \in {"idle", "destroy"}
    BY <1>1, <2>1, <2>2 DEF First, DestroyJobs
  <2>4. Failed(cache[d]).raid_type = cache[d].raid_type
    BY <1>1, <2>3 DEF Failed, TypeOK, Meta
  <2>5. /\ \A e \in Disks \ {d} : cache'[e] = cache[e] /\ meta'[e] = meta[e]
        /\ cache'[d] \in {cache[d], Failed(cache[d])} /\ meta'[d] = ZeroMeta
    BY <1>1, <2>2, <2>3 DEF TypeOK
  <2>6. level = raid.raid_type /\ level # RAID_NONE
    BY <2>1 DEF level, check_raid, RaidTypes, RAID_NONE,
       RAID0, RAID1, RAID0_1, RAID4, RAID5
  <2>7. meta'[1] \in Meta
    BY <1>1 DEF TypeOK
  <2>8. CASE ~loaded
    BY <1>1, <2>1, <2>2, <2>3, <2>8
       DEF RebootInv, CallKnows, CacheAgrees, NoRaid, NotExists
  <2>9. CASE loaded
    <3>1. /\ level' \in {level, RAID_NONE}
          /\ level' = RAID_NONE => meta'[1].raid_type = RAID_NONE
      <4>1. meta'[1].raid_type \in {level, RAID_NONE}
        BY <1>1, <2>1, <2>3, <2>5, <2>9 DEF CacheAgrees, ZeroMeta
      <4>2. CASE raid' = raid
        BY <2>1, <2>6, <4>2 DEF level, check_raid
      <4>3. CASE raid' = NoRaid
        BY <1>1, <2>7, <4>1, <4>3, LevelKept
      <4> QED
        BY <2>2, <4>2, <4>3
    <3>2. CacheAgrees'
      BY <1>1, <2>1, <2>2, <2>3, <2>4, <2>5, <2>6, <3>1, MarkAgrees
    <3> QED
      BY <1>1, <2>1, <2>2, <2>3, <3>2 DEF RebootInv, CallKnows, NoRaid, NotExists
  <2> QED
    BY <2>8, <2>9 DEF TypeOK
<1> QED
  BY <1>2, <1>3, <1>4, <1>5, <1>6 DEF Step

\* Every step keeps the agreement.
LEMMA NextAgrees ==
  TypeInv /\ SupportedOnly /\ RebootInv /\ [Next]_vars => RebootInv'
<1> SUFFICES ASSUME TypeInv, SupportedOnly, RebootInv, [Next]_vars
             PROVE  RebootInv'
  OBVIOUS
<1>1. TypeOK'
  BY NextTyped DEF TypeInv
<1>2. ASSUME NEW d \in UserDisks, disk_fail_raid(d)
      PROVE  RebootInv'
  BY <1>1, <1>2, FailAgrees, UserAssumption
<1>3. CASE Crash
  BY <1>3 DEF Crash, Finish, RebootInv, CallKnows, CacheAgrees, Idle, ZeroMeta
<1>4. ASSUME UNCHANGED <<meta, cache, loaded, raid, job>>
      PROVE  RebootInv'
  BY <1>4 DEF RebootInv, CallKnows, CacheAgrees, level, check_raid, Down
<1>5. CASE \E d \in Disks : LoseMedium(d)
  BY <1>4, <1>5 DEF LoseMedium, memory
<1>6. CASE UNCHANGED vars
  BY <1>4, <1>6 DEF vars
<1> QED
  BY <1>1, <1>2, <1>3, <1>5, <1>6, CallsAgree, StepsAgree DEF Next, Call

\* Cache and disks agree in every reachable state.
LEMMA SpecAgrees == Spec => []RebootInv
<1>1. Init => RebootInv
  BY DEF Init, RebootInv, CallKnows, CacheAgrees, ZeroMeta, Idle
<1>2. TypeInv /\ SupportedOnly /\ RebootInv /\ [Next]_vars => RebootInv'
  BY NextAgrees
<1> QED
  BY <1>1, <1>2, SpecTyped, PTL DEF Spec

\* raid.c marks a failed disk on the disk itself before any call relies on the
\* flag, and marks it repaired only after its data: whenever power fails at a
\* mirrored or parity level (RAID1, 4, 5), a disk that the kernel's cache knows to
\* have failed is still marked as failed for the kernel that boots next.
THEOREM FailuresSurviveReboot == Spec => []FailedStaysFailedAtReboot
<1>1. RebootInv => FailedStaysFailedAtReboot
  BY DEF RebootInv, CacheAgrees, FailedStaysFailedAtReboot, load_raid_data_cache
<1> QED
  BY <1>1, SpecAgrees, PTL
=============================================================================
