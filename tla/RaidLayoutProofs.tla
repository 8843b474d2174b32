-------------------------- MODULE RaidLayoutProofs --------------------------
(***************************************************************************)
(* What the address arithmetic of RaidLayout guarantees, for any number of *)
(* disks and any size of disk: every block has a place of its own, beside  *)
(* the metadata and the parity, and info_raidN counts the blocks exactly.  *)
(***************************************************************************)
EXTENDS RaidLayout, TLAPS

\* Quotient and remainder determine the dividend.
LEMMA DivMod ==
  ASSUME NEW a \in Nat, NEW n \in Nat \ {0}
  PROVE  /\ a \div n \in Nat
         /\ a % n \in 0 .. n - 1
         /\ a = n * (a \div n) + (a % n)
  OBVIOUS

\* Quotient and remainder determine the number.
LEMMA DivModInjective ==
  ASSUME NEW a \in Nat, NEW b \in Nat, NEW n \in Nat \ {0},
         a \div n = b \div n, a % n = b % n
  PROVE  a = b
  BY DivMod

\* The bounds tests of raid.c compare a quotient; this turns them into a bound on
\* the block number.
LEMMA DivBound ==
  ASSUME NEW a \in Nat, NEW n \in Nat \ {0}, NEW m \in Nat
  PROVE  a \div n < m <=> a < n * m
  BY DivMod

\* The divisors of the layouts are not zero.
LEMMA Divisors ==
  /\ DISKS \in Nat \ {0}
  /\ data_disks \in Nat \ {0}
  /\ logical_disks \in Nat \ {0}
  /\ 2 * logical_disks <= DISKS
  BY DisksAssumption DEF data_disks, logical_disks

-----------------------------------------------------------------------------
\* Disk and block numbers of a logical block, level by level.
LEMMA Raid0Place ==
  ASSUME NEW k \in Nat
  PROVE  raid0_disk(k) \in Disks /\ raid0_block(k) \in Nat
  BY Divisors, DivMod, DisksAssumption DEF raid0_disk, raid0_block, Disks

\* RAID01: a pair of neighbouring disks, and never block 0 (raid.c keeps metadata
\* there).
LEMMA Raid01Place ==
  ASSUME NEW k \in Nat
  PROVE  /\ raid01_disk(k) \in Disks /\ raid01_disk(k) + 1 \in Disks
         /\ raid01_disk(k) = 2 * (k % logical_disks) + 1
         /\ raid01_block(k) \in Nat \ {0}
<1>1. k % logical_disks \in 0 .. logical_disks - 1 /\ k \div logical_disks \in Nat
  BY Divisors, DivMod
<1> QED
  BY <1>1, Divisors, DisksAssumption DEF raid01_disk, raid01_block, Disks

\* RAID4: a disk before the parity disk, and never block 0.
LEMMA Raid4Place ==
  ASSUME NEW k \in Nat
  PROVE  raid4_disk(k) \in 1 .. DISKS - 1 /\ raid4_block(k) \in Nat \ {0}
<1>1. k % data_disks \in 0 .. data_disks - 1 /\ k \div data_disks \in Nat
  BY Divisors, DivMod
<1> QED
  BY <1>1, DisksAssumption DEF raid4_disk, raid4_block, data_disks

\* RAID5: the rotation of the parity names a disk that exists.
LEMMA ParityLocation ==
  ASSUME NEW b \in Nat \ {0}
  PROVE  parity_location(b) \in Disks
<1>1. (b - 1) % DISKS \in 0 .. DISKS - 1
  BY Divisors, DivMod
<1> QED
  BY <1>1, DisksAssumption DEF parity_location, Disks

\* RAID5: a disk that exists and is not the parity disk of the row.
LEMMA Raid5Place ==
  ASSUME NEW k \in Nat
  PROVE  /\ raid5_block(k) \in Nat \ {0}
         /\ raid5_disk(k) \in Disks
         /\ raid5_disk(k) # parity_location(raid5_block(k))
<1>1. k % data_disks \in 0 .. data_disks - 1 /\ k \div data_disks \in Nat
  BY Divisors, DivMod
<1>2. raid5_block(k) \in Nat \ {0}
  BY <1>1 DEF raid5_block, stripe
<1>3. parity_location(raid5_block(k)) \in Disks
  BY <1>2, ParityLocation
<1> QED
  BY <1>1, <1>2, <1>3, DisksAssumption DEF raid5_disk, data_disks, Disks

\* Every level puts a block that is in bounds on an existing disk and block; at
\* the levels with a metadata block on every disk, never on that block.
LEMMA PlaceExists ==
  ASSUME NEW t \in RaidTypes, NEW k \in Nat
  PROVE  /\ DiskOf(t, k) \in Disks
         /\ BlockOf(t, k) \in Nat
         /\ InBounds(t, k) => BlockOf(t, k) \in Blocks
         /\ t # RAID0 => BlockOf(t, k) # 0
         /\ DiskOf(t, k) = 1 => BlockOf(t, k) # 0
<1>1. CASE t = RAID0
  BY <1>1, Raid0Place, Divisors, DivMod, BlocksAssumption
     DEF DiskOf, BlockOf, InBounds, Blocks, raid0_disk, raid0_block,
         RAID0, RAID1, RAID0_1, RAID4, RAID5
<1>2. CASE t = RAID1
  BY <1>2, BlocksAssumption, DisksAssumption
     DEF DiskOf, BlockOf, InBounds, Blocks, Disks, raid1_block, RAID0, RAID1, RAID0_1, RAID4, RAID5
<1>3. CASE t = RAID0_1
  BY <1>3, Raid01Place, BlocksAssumption
     DEF DiskOf, BlockOf, InBounds, Blocks, RAID0, RAID1, RAID0_1, RAID4, RAID5
<1>4. CASE t = RAID4
  BY <1>4, Raid4Place, BlocksAssumption, DisksAssumption
     DEF DiskOf, BlockOf, InBounds, Blocks, Disks, RAID0, RAID1, RAID0_1, RAID4, RAID5
<1>5. CASE t = RAID5
  BY <1>5, Raid5Place, BlocksAssumption
     DEF DiskOf, BlockOf, InBounds, Blocks, RAID0, RAID1, RAID0_1, RAID4, RAID5
<1> QED
  BY <1>1, <1>2, <1>3, <1>4, <1>5 DEF RaidTypes

\* The parity of a row is on a disk of its own.
LEMMA ParityBesideData ==
  ASSUME NEW t \in ParityTypes, NEW k \in Nat
  PROVE  /\ ParityDisk(t, BlockOf(t, k)) \in Disks
         /\ ParityDisk(t, BlockOf(t, k)) # DiskOf(t, k)
<1>1. CASE t = RAID4
  BY <1>1, Raid4Place, DisksAssumption
     DEF DiskOf, BlockOf, ParityDisk, Disks, RAID0, RAID1, RAID0_1, RAID4, RAID5
<1>2. CASE t = RAID5
  BY <1>2, Raid5Place, ParityLocation
     DEF DiskOf, BlockOf, ParityDisk, RAID0, RAID1, RAID0_1, RAID4, RAID5
<1> QED
  BY <1>1, <1>2 DEF ParityTypes

\* Copies, for the mirrors and for the others.
LEMMA CopiesExist ==
  ASSUME NEW t \in RaidTypes, NEW k \in Nat
  PROVE  /\ Copies(t, k) \subseteq Disks
         /\ DiskOf(t, k) \in Copies(t, k)
<1>1. CASE t = RAID1
  BY <1>1, DisksAssumption DEF Copies, DiskOf, Disks, RAID0, RAID1, RAID0_1, RAID4, RAID5
<1>2. CASE t = RAID0_1
  BY <1>2, Raid01Place DEF Copies, DiskOf, RAID0, RAID1, RAID0_1, RAID4, RAID5
<1>3. CASE t \notin {RAID1, RAID0_1}
  BY <1>3, PlaceExists DEF Copies
<1> QED
  BY <1>1, <1>2, <1>3

-----------------------------------------------------------------------------
\* The rotation of RAID5 skips the parity disk: in one row, the disk tells the
\* position in the stripe.
LEMMA Raid5Injective ==
  ASSUME NEW k \in Nat, NEW l \in Nat,
         raid5_block(k) = raid5_block(l), raid5_disk(k) = raid5_disk(l)
  PROVE  k = l
<1>1. /\ k % data_disks \in 0 .. data_disks - 1 /\ k \div data_disks \in Nat
      /\ l % data_disks \in 0 .. data_disks - 1 /\ l \div data_disks \in Nat
  BY Divisors, DivMod
<1>2. parity_location(raid5_block(k)) \in Disks
  BY Raid5Place, ParityLocation
<1>3. k % data_disks = l % data_disks
  BY <1>1, <1>2, DisksAssumption DEF raid5_disk, data_disks, Disks
<1>4. k \div data_disks = l \div data_disks
  BY <1>1 DEF raid5_block, stripe
<1> QED
  BY <1>3, <1>4, Divisors, DivModInjective

\* RAID0, and RAID4 after it: the place determines the logical block.
LEMMA Raid0Injective ==
  ASSUME NEW k \in Nat, NEW l \in Nat,
         raid0_block(k) = raid0_block(l), raid0_disk(k) = raid0_disk(l)
  PROVE  k = l
<1>1. /\ k % DISKS \in 0 .. DISKS - 1 /\ k \div DISKS \in Nat
      /\ l % DISKS \in 0 .. DISKS - 1 /\ l \div DISKS \in Nat
  BY Divisors, DivMod
<1>2. k % DISKS = l % DISKS /\ k \div DISKS = l \div DISKS
  BY <1>1 DEF raid0_disk, raid0_block
<1> QED
  BY <1>2, Divisors, DivModInjective

\* The same over the data disks of RAID4.
LEMMA Raid4Injective ==
  ASSUME NEW k \in Nat, NEW l \in Nat,
         raid4_block(k) = raid4_block(l), raid4_disk(k) = raid4_disk(l)
  PROVE  k = l
<1>1. /\ k % data_disks \in 0 .. data_disks - 1 /\ k \div data_disks \in Nat
      /\ l % data_disks \in 0 .. data_disks - 1 /\ l \div data_disks \in Nat
  BY Divisors, DivMod
<1>2. k % data_disks = l % data_disks /\ k \div data_disks = l \div data_disks
  BY <1>1 DEF raid4_disk, raid4_block
<1> QED
  BY <1>2, Divisors, DivModInjective

\* The mirrored pairs of RAID01 are disjoint.
LEMMA Raid01Injective ==
  ASSUME NEW k \in Nat, NEW l \in Nat, raid01_block(k) = raid01_block(l),
         \/ raid01_disk(k) \in {raid01_disk(l), raid01_disk(l) + 1}
         \/ raid01_disk(k) + 1 \in {raid01_disk(l), raid01_disk(l) + 1}
  PROVE  k = l
<1>1. /\ k % logical_disks \in 0 .. logical_disks - 1 /\ k \div logical_disks \in Nat
      /\ l % logical_disks \in 0 .. logical_disks - 1 /\ l \div logical_disks \in Nat
  BY Divisors, DivMod
<1>2. k % logical_disks = l % logical_disks
  <2> DEFINE x == k % logical_disks
             y == l % logical_disks
  <2>1. raid01_disk(k) = 2 * x + 1 /\ raid01_disk(l) = 2 * y + 1
    BY Raid01Place
  <2>2. x \in Nat /\ y \in Nat
    BY <1>1, Divisors
  <2> HIDE DEF x, y
  <2>3. x = y
    BY <2>1, <2>2
  <2> QED
    BY <2>3 DEF x, y
<1>3. k \div logical_disks = l \div logical_disks
  BY <1>1 DEF raid01_block
<1> QED
  BY <1>2, <1>3, Divisors, DivModInjective

\* Two logical blocks never share a physical block: the layouts of read_raidN and
\* write_raidN are injective, mirrors included.
THEOREM PlacesDistinct ==
  ASSUME NEW t \in RaidTypes, NEW k \in Nat, NEW l \in Nat,
         BlockOf(t, k) = BlockOf(t, l),
         Copies(t, k) \cap Copies(t, l) # {}
  PROVE  k = l
<1> USE DEF RAID0, RAID1, RAID0_1, RAID4, RAID5
<1>1. CASE t = RAID0
  BY <1>1, Raid0Injective DEF Copies, DiskOf, BlockOf
<1>2. CASE t = RAID1
  BY <1>2 DEF BlockOf, raid1_block
<1>3. CASE t = RAID0_1
  BY <1>3, Raid01Injective DEF Copies, BlockOf
<1>4. CASE t = RAID4
  BY <1>4, Raid4Injective DEF Copies, DiskOf, BlockOf
<1>5. CASE t = RAID5
  BY <1>5, Raid5Injective DEF Copies, DiskOf, BlockOf
<1> QED
  BY <1>1, <1>2, <1>3, <1>4, <1>5 DEF RaidTypes

\* At every level but RAID0 the blocks that write_raidN accepts are exactly those
\* that info_raidN announces.
THEOREM CapacityExact ==
  ASSUME NEW t \in RaidTypes \ {RAID0}, NEW k \in Nat
  PROVE  InBounds(t, k) <=> k < Capacity(t)
<1> USE DEF RAID0, RAID1, RAID0_1, RAID4, RAID5
<1> DEFINE m == NUMBER_OF_BLOCKS - 1
<1>1. m \in Nat
  BY BlocksAssumption
<1>2. CASE t = RAID1
  BY <1>2, BlocksAssumption DEF InBounds, BlockOf, Capacity, raid1_block, info_raid1
<1>3. CASE t = RAID0_1
  <2>1. k \div logical_disks < m <=> k < logical_disks * m
    BY <1>1, Divisors, DivBound
  <2>2. InBounds(t, k) <=> (k \div logical_disks) + 1 <= m
    BY <1>3 DEF InBounds, BlockOf, raid01_block
  <2>3. Capacity(t) = logical_disks * m
    BY <1>3 DEF Capacity, info_raid01
  <2> QED
    BY <2>1, <2>2, <2>3, <1>1, Divisors, DivMod
<1>4. CASE t \in {RAID4, RAID5}
  <2>1. k \div data_disks < m <=> k < data_disks * m
    BY <1>1, Divisors, DivBound
  <2>2. InBounds(t, k) <=> (k \div data_disks) + 1 <= m
    BY <1>4 DEF InBounds, BlockOf, raid4_block, raid5_block, stripe
  <2>3. Capacity(t) = data_disks * m
    BY <1>4 DEF Capacity, info_raid4, info_raid5, data_disks
  <2> QED
    BY <2>1, <2>2, <2>3, <1>1, Divisors, DivMod
<1> QED
  BY <1>2, <1>3, <1>4 DEF RaidTypes
=============================================================================
