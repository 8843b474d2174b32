------------------------------ MODULE RaidFill ------------------------------
(***************************************************************************)
(* The client of user/javni_test.c on a healthy array: it initialises a    *)
(* level (RAID1 in the test, any level here), asks info_raid how many      *)
(* blocks the volume has and writes them all in order, ignoring what       *)
(* write_raid returns.  The state records what every physical block is     *)
(* used for, so that the address arithmetic of RaidLayout can be checked   *)
(* against its purpose.                                                    *)
(***************************************************************************)
EXTENDS RaidLayout

VARIABLES
  level,   \* the level passed to init_raid
  i,       \* loop counter of the client
  use      \* use[d][b]: what block b of disk d was last written as

vars == <<level, i, use>>

\* Values of use[d][b] besides the logical block numbers.
Free == -1
Metadata == -2
Parity == -3

Init ==
  /\ level \in {t \in RaidTypes : Supported(t)}
  /\ i = 0
  /\ use = [d \in Disks |-> [b \in Blocks |->
              IF b = 0 /\ d \in MetadataDisks(level) THEN Metadata ELSE Free]]

\* How many blocks the client writes.
blocks == IF 512 > Capacity(level) THEN Capacity(level) ELSE 512

\* One write_raid(i) that is in bounds: the block goes to all its copies and,
\* at the parity levels, the stripe's parity block is rewritten.
write ==
  LET b == BlockOf(level, i)
      parity == IF level \in ParityTypes THEN {ParityDisk(level, b)} ELSE {}
  IN  /\ i < blocks
      /\ InBounds(level, i)
      /\ use' = [d \in Disks |->
                   IF d \in parity THEN [use[d] EXCEPT ![b] = Parity]
                   ELSE IF d \in Copies(level, i) THEN [use[d] EXCEPT ![b] = i]
                   ELSE use[d]]
      /\ i' = i + 1
      /\ UNCHANGED level

\* One write_raid(i) that returns -1; the client goes on.
write_refused ==
  /\ i < blocks
  /\ ~InBounds(level, i)
  /\ i' = i + 1
  /\ UNCHANGED <<level, use>>

Next == write \/ write_refused

Spec == Init /\ [][Next]_vars

-----------------------------------------------------------------------------
\* Every block the client has written is still in all its places: no later
\* block, parity update or metadata block of the same volume is laid over it
\* (the index arithmetic of read_raidN/write_raidN is injective).
WrittenBlocksKeepTheirPlaces ==
  \A k \in 0 .. i - 1 :
    InBounds(level, k) =>
      \A d \in Copies(level, k) : use[d][BlockOf(level, k)] = k

\* The metadata block of a disk is never used for data or parity.
MetadataKept == \A d \in MetadataDisks(level) : use[d][0] = Metadata
=============================================================================
