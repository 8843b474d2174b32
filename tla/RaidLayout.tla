----------------------------- MODULE RaidLayout -----------------------------
(***************************************************************************)
(* Where each RAID level of kernel/raid.c puts a logical block: the disk   *)
(* and block computed at the top of every read_raidN and write_raidN, the  *)
(* bounds test that follows, and the capacity info_raidN reports.          *)
(*                                                                         *)
(* Disks are numbered from 1 (VIRTIO_RAID_DISK_START) to DISKS             *)
(* (VIRTIO_RAID_DISK_END); block 0 of a disk holds its struct raid_data,   *)
(* except under RAID0, which keeps one on disk 1 only.                     *)
(***************************************************************************)
EXTENDS Integers, FiniteSets

CONSTANTS
  DISKS,             \* VIRTIO_RAID_DISK_END
  NUMBER_OF_BLOCKS   \* blocks of one disk, DISK_SIZE / BSIZE

\* RAID4 and RAID5 divide by DISKS - 1; a disk has a metadata and a data block.
ASSUME DisksAssumption == DISKS \in Nat /\ DISKS >= 2
ASSUME BlocksAssumption == NUMBER_OF_BLOCKS \in Nat /\ NUMBER_OF_BLOCKS >= 2

Disks == 1 .. DISKS
Blocks == 0 .. NUMBER_OF_BLOCKS - 1
DataBlocks == 1 .. NUMBER_OF_BLOCKS - 1

\* enum RAID_TYPE; the zeroed block of a destroyed or fresh disk is RAID_NONE.
RAID_NONE == 0
RAID0 == 1
RAID1 == 2
RAID0_1 == 3
RAID4 == 4
RAID5 == 5
RaidTypes == {RAID0, RAID1, RAID0_1, RAID4, RAID5}
ParityTypes == {RAID4, RAID5}

-----------------------------------------------------------------------------
\* Logical block numbers are taken from the naturals: only RAID1 tests for a
\* negative one.  The last number is out of bounds at every level.
Blkns == 0 .. DISKS * NUMBER_OF_BLOCKS

raid0_disk(blkn) == (blkn % DISKS) + 1

raid0_block(blkn) ==
  IF raid0_disk(blkn) = 1 THEN (blkn \div DISKS) + 1 ELSE blkn \div DISKS

raid1_block(blkn) == blkn + 1

logical_disks == DISKS \div 2
raid01_disk(blkn) == (blkn % logical_disks) * 2 + 1
raid01_block(blkn) == (blkn \div logical_disks) + 1

data_disks == DISKS - 1
raid4_disk(blkn) == (blkn % data_disks) + 1

raid4_block(blkn) == (blkn \div data_disks) + 1

stripe(blkn) == blkn \div data_disks
parity_location(blockn) == ((blockn - 1) % DISKS) + 1
raid5_block(blkn) == stripe(blkn) + 1

\* Mutant: `>' for `>='.
raid5_disk_off_by_one(blkn) ==
  LET diskn == (blkn % data_disks) + 1
  IN  IF diskn > parity_location(raid5_block(blkn)) THEN diskn + 1 ELSE diskn

raid5_disk(blkn) ==
  LET diskn == (blkn % data_disks) + 1
  IN  IF diskn >= parity_location(raid5_block(blkn)) THEN diskn + 1 ELSE diskn

-----------------------------------------------------------------------------
\* The dispatch on the level.  DiskOf is the first disk of a mirror.
DiskOf(level, blkn) ==
  CASE level = RAID0 -> raid0_disk(blkn)
    [] level = RAID1 -> 1
    [] level = RAID0_1 -> raid01_disk(blkn)
    [] level = RAID4 -> raid4_disk(blkn)
    [] level = RAID5 -> raid5_disk(blkn)

BlockOf(level, blkn) ==
  CASE level = RAID0 -> raid0_block(blkn)
    [] level = RAID1 -> raid1_block(blkn)
    [] level = RAID0_1 -> raid01_block(blkn)
    [] level = RAID4 -> raid4_block(blkn)
    [] level = RAID5 -> raid5_block(blkn)

ParityDisk(level, blockn) ==
  IF level = RAID4 THEN DISKS ELSE parity_location(blockn)

InBounds(level, blkn) == BlockOf(level, blkn) <= NUMBER_OF_BLOCKS - 1

\* All the disks that hold a copy of the block.
Copies(level, blkn) ==
  CASE level = RAID1 -> Disks
    [] level = RAID0_1 -> {raid01_disk(blkn), raid01_disk(blkn) + 1}
    [] OTHER -> {DiskOf(level, blkn)}

\* *blkn of info_raidN: how many blocks the volume is said to have.
info_raid0 == DISKS * NUMBER_OF_BLOCKS - 1
info_raid1 == NUMBER_OF_BLOCKS - 1

info_raid01 == logical_disks * (NUMBER_OF_BLOCKS - 1)
info_raid4 == (DISKS - 1) * (NUMBER_OF_BLOCKS - 1)
info_raid5 == (DISKS - 1) * (NUMBER_OF_BLOCKS - 1)

Capacity(level) ==
  CASE level = RAID0 -> info_raid0
    [] level = RAID1 -> info_raid1
    [] level = RAID0_1 -> info_raid01
    [] level = RAID4 -> info_raid4
    [] level = RAID5 -> info_raid5

\* init_raidN: the disks that get a metadata block, {} when the number of disks
\* does not suit the level.
init_raid0 == {1}
init_raid1 == IF DISKS > 1 THEN Disks ELSE {}
init_raid01 == IF DISKS % 2 = 0 /\ DISKS >= 4 THEN Disks ELSE {}
init_raid4 == IF DISKS >= 2 THEN Disks ELSE {}
init_raid5 == IF DISKS >= 1 THEN Disks ELSE {}

MetadataDisks(level) ==
  CASE level = RAID0 -> init_raid0
    [] level = RAID1 -> init_raid1
    [] level = RAID0_1 -> init_raid01
    [] level = RAID4 -> init_raid4
    [] level = RAID5 -> init_raid5
    [] OTHER -> {}

Supported(level) == MetadataDisks(level) # {}
=============================================================================
