-------------------------- MODULE MCCredentialStore --------------------------
(* Instances of CredentialStore for TLC.                                   *)
EXTENDS CredentialStore, TLC

Symmetry == Permutations(Call) \cup Permutations(Secret) \cup Permutations(Category)
=============================================================================
