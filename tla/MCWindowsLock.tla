---------------------------- MODULE MCWindowsLock ---------------------------
(* Instances of WindowsLock for TLC.                                       *)
EXTENDS WindowsLock

\* Either one contender is missing, or one directory is used up.
MCInit ==
    \/ LET p == CHOOSE p \in Contender : TRUE IN Starts(Contender \ {p}, {})
    \/ LET d == CHOOSE d \in Dir : TRUE IN Starts(Contender, {d})

MCSpec == MCInit /\ [][Next]_vars /\ Fairness
=============================================================================
