---------------------------- MODULE AbstractLock ----------------------------
(***************************************************************************)
(* What the state root promises its callers of a directory lock (the       *)
(* PlainDirectoryLock of state.rs and of state_windows.rs): a guard is     *)
(* handed out only while no other guard is alive.  A guard ends when it is *)
(* dropped or when its process dies.                                       *)
(***************************************************************************)
CONSTANT Process

VARIABLE holder  \* the processes whose guard is alive

\* Nobody holds the lock.
Init == holder = {}

\* try_acquire_plain_lock returns a guard.
Take(p) == holder = {} /\ holder' = {p}

\* The guard is dropped, or its process dies.
Free(p) == holder = {p} /\ holder' = {}

Next == \E p \in Process : Take(p) \/ Free(p)

Spec == Init /\ [][Next]_holder
=============================================================================
