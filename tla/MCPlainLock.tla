----------------------------- MODULE MCPlainLock -----------------------------
(* Instances of PlainLock for TLC.                                         *)
EXTENDS PlainLock, TLC

CONSTANT MaxCrashes  \* how many contenders may die

Symmetry == Permutations(Contender) \cup Permutations(Dir)

\* Bounds the crashes; every other counter is bounded by Dir.
FewCrashes == Cardinality(Contender \ alive) <= MaxCrashes
=============================================================================
