---------------------------- MODULE Transactions ----------------------------
(***************************************************************************)
(* What the log promises to the file system: the writes of a group of      *)
(* concurrent system calls become durable together, when none of the calls *)
(* is in progress, and a crash takes the disk back to the last such point. *)
(***************************************************************************)
EXTENDS Integers

CONSTANTS Home, Data

VARIABLES
  current,   \* the blocks as the running system sees them
  durable,   \* the blocks as they will be after a crash
  active     \* system calls between begin_op and end_op

tvars == <<current, durable, active>>

Init ==
  /\ current \in [Home -> Data]
  /\ durable = current
  /\ active = 0

Begin == active' = active + 1 /\ UNCHANGED <<current, durable>>

Write(k, v) ==
  /\ active > 0
  /\ current' = [current EXCEPT ![k] = v]
  /\ UNCHANGED <<durable, active>>

End == active > 0 /\ active' = active - 1 /\ UNCHANGED <<current, durable>>

Commit == active = 0 /\ durable' = current /\ UNCHANGED <<current, active>>

Crash == current' = durable /\ active' = 0 /\ UNCHANGED durable

Next ==
  \/ Begin
  \/ \E k \in Home, v \in Data : Write(k, v)
  \/ End
  \/ Commit
  \/ Crash

Spec == Init /\ [][Next]_tvars
=============================================================================
