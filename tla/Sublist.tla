------------------------------- MODULE Sublist ------------------------------
(***************************************************************************)
(* What a loop over a list keeps: the filter of remove_blocking in         *)
(* watchlist.rs, the pushes of the reducers of range.rs and composites.rs. *)
(* It is SelectSeq by the indices that are kept.                           *)
(***************************************************************************)
EXTENDS Naturals, FiniteSets, Sequences

\* How many of the indices kept come up to i.
Place(kept, i) == Cardinality({j \in kept : j <= i})

\* The items at the indices kept, in their order.
ItemsAt(s, kept) ==
    [p \in 1..Cardinality(kept) |-> s[CHOOSE i \in kept : Place(kept, i) = p]]
=============================================================================
