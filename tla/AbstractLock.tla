---------------------------- MODULE AbstractLock ----------------------------
(***************************************************************************)
(* What a sleep-lock promises its users: it has at most one holder, it is  *)
(* taken only when free and only its holder lets it go.                    *)
(***************************************************************************)
CONSTANTS Procs, None

VARIABLE holder   \* the process that holds the lock, or None

Init == holder = None

Acquire(p) == holder = None /\ holder' = p

Release(p) == holder = p /\ holder' = None

Next == \E p \in Procs : Acquire(p) \/ Release(p)

Spec == Init /\ [][Next]_holder
=============================================================================
