------------------------------ MODULE MCQuota ------------------------------
(* Instances of Quota for TLC.                                             *)
EXTENDS Quota, TLC

CONSTANTS a, b, c, p, q, r

\* Three credentials, a call of each.
ThreeKeys == (p :> a) @@ (q :> b) @@ (r :> c)

\* The call that has credential k.
CallOf(k) == CHOOSE call \in Call : KeyOf[call] = k

\* A permutation of the calls takes their credentials along.
Symmetry ==
    {f @@ [k \in Key |-> KeyOf[f[CallOf(k)]]] : f \in Permutations(Call)}
=============================================================================
