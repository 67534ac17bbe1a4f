---------------------------- MODULE MCCacheLease ----------------------------
(* Instances of CacheLease for TLC.                                        *)
EXTENDS CacheLease, TLC

CONSTANTS r, s  \* two that have died

\* What they can have left: nothing, or a directory with or without r's
\* owner.json, whole or not, and with or without the claim of s.
MCInit ==
    LET d == CHOOSE d \in Dir : TRUE IN
    /\ leaf \in {None, d}
    /\ made = IF leaf = None THEN {} ELSE {d}
    /\ gone = {}
    /\ owner \in [Dir -> {None, r}] /\ \A e \in Dir \ made : owner[e] = None
    /\ torn \in SUBSET {e \in Dir : owner[e] = r}
    /\ claim \in [Dir -> {None, s}] /\ \A e \in Dir \ made : claim[e] = None
    /\ age = [e \in Dir |-> 0]
    /\ still = FALSE
    /\ alive = Contender \ {r, s}
    /\ pc = [p \in Contender |-> IF p \in {r, s} THEN "dead" ELSE "idle"]
    /\ fd = [p \in Contender |-> None]
    /\ seen = [p \in Contender |-> NoView]

\* No claim of a live process is evicted ...
MCSpec == MCInit /\ [][Next /\ EvictsDead]_vars /\ Fairness

\* ... or anything goes.
MCRacySpec == MCInit /\ [][Next]_vars
=============================================================================
