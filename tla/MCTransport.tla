----------------------------- MODULE MCTransport -----------------------------
(* Instances of Transport for TLC.                                         *)
EXTENDS Transport, TLC

CONSTANTS a, p, q

\* Two calls of one credential.
OneKey == (p :> a) @@ (q :> a)
=============================================================================
