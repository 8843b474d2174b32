------------------------------- MODULE MCRaid -------------------------------
(***************************************************************************)
(* Raid for TLC: sets of records that a configuration file cannot write.   *)
(***************************************************************************)
EXTENDS Raid

\* No RAID0 volume precedes the levels of the run.
NoJunk == {}

\* User data in block 0 of a RAID0 disk reads as no metadata or as metadata of a
\* working RAID5 disk.
SomeJunk == {ZeroMeta, [raid_type |-> RAID5, working |-> 1]}
=============================================================================
