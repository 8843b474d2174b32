--------------------------- MODULE RaidFillProofs ---------------------------
(***************************************************************************)
(* Proofs, for any number and size of disks, that filling a volume keeps   *)
(* every block and every metadata block in place.                          *)
(***************************************************************************)
EXTENDS RaidFill, RaidLayoutProofs

\* The ranges of the client's variables.
FillType ==
  /\ level \in RaidTypes
  /\ i \in Nat
  /\ use \in [Disks -> [Blocks -> Int]]

\* The inductive invariant.
Inv == FillType /\ WrittenBlocksKeepTheirPlaces /\ MetadataKept

\* A fresh volume has written nothing but its metadata blocks.
LEMMA InitInv == Init => Inv
<1> SUFFICES ASSUME Init PROVE Inv
  OBVIOUS
<1>1. FillType
  BY DEF Init, FillType, Free, Metadata
<1>2. WrittenBlocksKeepTheirPlaces
  BY DEF Init, WrittenBlocksKeepTheirPlaces
<1>3. MetadataKept
  <2> SUFFICES ASSUME NEW d \in MetadataDisks(level) PROVE use[d][0] = Metadata
    BY DEF MetadataKept
  <2>1. d \in Disks /\ 0 \in Blocks
    BY DisksAssumption, BlocksAssumption
       DEF MetadataDisks, init_raid0, init_raid1, init_raid01, init_raid4,
           init_raid5, Disks, Blocks
  <2> QED
    BY <2>1 DEF Init
<1> QED
  BY <1>1, <1>2, <1>3 DEF Inv

\* A write that is in bounds disturbs no earlier block and no metadata.
LEMMA WriteInv == Inv /\ write => Inv'
<1> SUFFICES ASSUME Inv, write PROVE Inv'
  OBVIOUS
<1> DEFINE b == BlockOf(level, i)
           parity == IF level \in ParityTypes THEN {ParityDisk(level, b)} ELSE {}
<1>1. /\ level \in RaidTypes /\ i \in Nat
      /\ use \in [Disks -> [Blocks -> Int]]
      /\ level' = level /\ i' = i + 1
  BY DEF Inv, FillType, write
<1>2. b \in Blocks /\ Copies(level, i) \subseteq Disks
  BY <1>1, PlaceExists, CopiesExist DEF write
<1>3. use' = [d \in Disks |->
                IF d \in parity THEN [use[d] EXCEPT ![b] = Parity]
                ELSE IF d \in Copies(level, i) THEN [use[d] EXCEPT ![b] = i]
                ELSE use[d]]
  BY DEF write
<1> HIDE DEF b, parity
<1>4. FillType'
  BY <1>1, <1>2, <1>3 DEF FillType, Parity
<1>5. \A d \in Disks, c \in Blocks \ {b} : use'[d][c] = use[d][c]
  BY <1>1, <1>2, <1>3
<1>6. WrittenBlocksKeepTheirPlaces'
  <2> SUFFICES ASSUME NEW k \in 0 .. i, InBounds(level, k),
                      NEW d \in Copies(level, k)
               PROVE  use'[d][BlockOf(level, k)] = k
    BY <1>1 DEF WrittenBlocksKeepTheirPlaces
  <2>1. k \in Nat /\ d \in Disks /\ BlockOf(level, k) \in Blocks
    BY <1>1, PlaceExists, CopiesExist
  <2>2. BlockOf(level, k) = b => d \notin parity
    BY <1>1, <2>1, ParityBesideData
       DEF b, parity, Copies, ParityTypes, RAID0, RAID1, RAID0_1, RAID4, RAID5
  <2>3. CASE k = i
    BY <1>1, <1>2, <1>3, <2>1, <2>2, <2>3 DEF b
  <2>4. CASE k # i
    <3>1. use[d][BlockOf(level, k)] = k
      BY <1>1, <2>4 DEF Inv, WrittenBlocksKeepTheirPlaces
    <3>2. BlockOf(level, k) = b => d \notin Copies(level, i)
      BY <1>1, <2>1, <2>4, PlacesDistinct DEF b
    <3> QED
      BY <1>1, <1>3, <1>5, <2>1, <2>2, <3>1, <3>2
  <2> QED
    BY <2>3, <2>4
<1>7. MetadataKept'
  <2> SUFFICES ASSUME NEW d \in MetadataDisks(level) PROVE use'[d][0] = Metadata
    BY <1>1 DEF MetadataKept
  <2>1. d \in Disks /\ 0 \in Blocks
    BY DisksAssumption, BlocksAssumption
       DEF MetadataDisks, init_raid0, init_raid1, init_raid01, init_raid4,
           init_raid5, Disks, Blocks
  <2>2. use[d][0] = Metadata
    BY DEF Inv, MetadataKept
  <2>3. b = 0 => d \notin parity /\ d \notin Copies(level, i)
    <3>1. CASE level = RAID0
      <4>1. d = 1 /\ Copies(level, i) = {DiskOf(level, i)} /\ parity = {}
        BY <3>1 DEF MetadataDisks, init_raid0, Copies, parity, ParityTypes,
           RAID0, RAID1, RAID0_1, RAID4, RAID5
      <4> QED
        BY <4>1, <1>1, PlaceExists DEF b
    <3>2. CASE level # RAID0
      BY <3>2, <1>1, PlaceExists DEF b
    <3> QED
      BY <3>1, <3>2
  <2>4. CASE b = 0
    BY <1>3, <2>1, <2>2, <2>3, <2>4
  <2>5. CASE b # 0
    BY <1>5, <2>1, <2>2, <2>5
  <2> QED
    BY <2>4, <2>5
<1> QED
  BY <1>4, <1>6, <1>7 DEF Inv

\* A write that is refused changes nothing.
LEMMA RefusedInv == Inv /\ write_refused => Inv'
<1> SUFFICES ASSUME Inv, write_refused PROVE Inv'
  OBVIOUS
<1>1. level' = level /\ use' = use /\ i' = i + 1 /\ i \in Nat /\ ~InBounds(level, i)
  BY DEF write_refused, Inv, FillType
<1>2. \A k \in 0 .. i : InBounds(level, k) => k \in 0 .. i - 1
  BY <1>1
<1> QED
  BY <1>1, <1>2 DEF Inv, FillType, WrittenBlocksKeepTheirPlaces, MetadataKept

\* The invariant holds of every behaviour.
LEMMA SpecInv == Spec => []Inv
<1>1. Inv /\ [Next]_vars => Inv'
  <2> SUFFICES ASSUME Inv, UNCHANGED vars PROVE Inv'
    BY WriteInv, RefusedInv DEF Next
  <2> QED
    BY DEF vars, Inv, FillType, WrittenBlocksKeepTheirPlaces, MetadataKept
<1> QED
  BY InitInv, <1>1, PTL DEF Spec

\* However many disks there are and however large they are, a volume filled
\* through write_raid still has every accepted block in all its places.
THEOREM BlocksKept == Spec => []WrittenBlocksKeepTheirPlaces
  BY SpecInv, PTL DEF Inv

\* write_raid never lays data or parity over a metadata block of the volume.
THEOREM MetadataSafe == Spec => []MetadataKept
  BY SpecInv, PTL DEF Inv
=============================================================================
