------------------------------ MODULE Composite -----------------------------
(***************************************************************************)
(* The calls of one client that fan out: client.rs, range, search_stocks,  *)
(* market_summary and watchlist_prices, up to the reducers of Completeness.*)
(* What a unit does is a query of CacheCoordination, of which only the     *)
(* outcome is kept.                                                        *)
(***************************************************************************)
EXTENDS Completeness

CONSTANTS
    CoDays,  \* bound: days of a range
    CoWidth  \* RANGE_CONCURRENCY

ASSUME CompositeConstants == CoDays \in Nat /\ CoWidth \in Nat \ {0}

VARIABLES
    coCall,      \* the call: its command and its units
    coPc,        \* "idle", "fanning" or "done"
    coUnit,      \* each unit: "waiting", "running", or its outcome
    coYielded,   \* outcomes collected so far: pairs of unit and outcome
    coCancelled, \* the call's token
    coExpired,   \* its deadline has passed
    coResult     \* what the caller gets

coVars == <<coCall, coPc, coUnit, coYielded, coCancelled, coExpired, coResult>>

CompositeInit ==
    /\ coCall \in RangeCalls(CoDays) \/ coCall \in ComponentCalls
    /\ coPc = "idle"
    /\ coUnit = [u \in ToSet(Fanout(coCall)) |-> "waiting"]
    /\ coYielded = <<>>
    /\ coCancelled \in BOOLEAN
    /\ coExpired = FALSE
    /\ coResult = [state |-> "none"]

-----------------------------------------------------------------------------
(* The fan-out                                                             *)

\* Validation is over; a cancelled call does not begin.
BeginCall ==
    /\ coPc = "idle"
    /\ IF coCancelled
       THEN coPc' = "done" /\ coResult' = CallError("cancelled")
       ELSE coPc' = "fanning" /\ UNCHANGED coResult
    /\ UNCHANGED <<coCall, coUnit, coYielded, coCancelled, coExpired>>

Waiting(u) == coUnit[u] = "waiting"

Ended(u) == coUnit[u] \notin {"waiting", "running"}

\* join_all starts every component; a range has at most CoWidth days that are
\* not collected, and an early day that is late holds up the others.
HasSlot ==
    IsRange(coCall) =>
        Cardinality({u \in ToSet(Fanout(coCall)) : ~Waiting(u)})
            - Len(coYielded) < CoWidth

\* The next unit begins: query_until looks at the token and the deadline.
StartUnit ==
    /\ coPc = "fanning" /\ HasSlot
    /\ \E i \in DOMAIN Fanout(coCall) :
          LET u == Fanout(coCall)[i]
          IN  /\ Waiting(u)
              /\ \A j \in 1..(i - 1) : ~Waiting(Fanout(coCall)[j])
              /\ coUnit' = [coUnit EXCEPT ![u] =
                               IF coCancelled THEN "cancelled"
                               ELSE IF coExpired THEN "timeout" ELSE "running"]
    /\ UNCHANGED <<coCall, coPc, coYielded, coCancelled, coExpired, coResult>>

\* A unit ends, in any order.
EndUnit(u) ==
    /\ coUnit[u] = "running"
    /\ \E outcome \in Found \cup {"internal", "approval", "local_state", "network"}
                      \cup (IF coCancelled THEN {"cancelled"} ELSE {})
                      \cup (IF coExpired THEN {"timeout"} ELSE {}) :
          coUnit' = [coUnit EXCEPT ![u] = outcome]
    /\ UNCHANGED <<coCall, coPc, coYielded, coCancelled, coExpired, coResult>>

\* Variant: outcomes are collected as they come.
NextToEnd(u) == \A i \in DOMAIN coYielded : coYielded[i].unit # u

\* buffered and join_all keep the order of the units.
NextInOrder(u) ==
    Len(coYielded) < Len(Fanout(coCall)) /\ u = Fanout(coCall)[Len(coYielded) + 1]

CollectUnit(u) ==
    /\ coPc = "fanning"
    /\ Ended(u) /\ NextInOrder(u)
    /\ coYielded' = Append(coYielded, [unit |-> u, outcome |-> coUnit[u]])
    /\ UNCHANGED <<coCall, coPc, coUnit, coCancelled, coExpired, coResult>>

\* All collected: the token is looked at once more, then they are reduced.
FinishCall ==
    /\ coPc = "fanning"
    /\ Len(coYielded) = Len(Fanout(coCall))
    /\ \E consistent \in BOOLEAN :
          coResult' = IF coCancelled THEN CallError("cancelled")
                      ELSE Reduced(coCall, coYielded, consistent)
    /\ coPc' = "done"
    /\ UNCHANGED <<coCall, coUnit, coYielded, coCancelled, coExpired>>

Cancel ==
    /\ coPc = "fanning" /\ ~coCancelled
    /\ coCancelled' = TRUE
    /\ UNCHANGED <<coCall, coPc, coUnit, coYielded, coExpired, coResult>>

Expire ==
    /\ coPc = "fanning" /\ ~coExpired
    /\ coExpired' = TRUE
    /\ UNCHANGED <<coCall, coPc, coUnit, coYielded, coCancelled, coResult>>

CompositeNext ==
    \/ BeginCall \/ StartUnit \/ FinishCall \/ Cancel \/ Expire
    \/ \E u \in DOMAIN coUnit : EndUnit(u) \/ CollectUnit(u)

CompositeSpec == CompositeInit /\ [][CompositeNext]_coVars

-----------------------------------------------------------------------------
(* Properties                                                              *)

HasResult == coPc = "done" /\ coResult.state # "error"

\* Whatever the order in which the units ended, and whenever the deadline or
\* the token came between, the result tells of each unit what became of it
\* and shows rows in the order of the units; an error of the whole call is
\* one that a unit met, and a cancelled call ends as cancelled.
ResultTellsEachOutcome ==
    /\ HasResult =>
          /\ ~coCancelled
          /\ coResult.succeeded \o coResult.failed \o coResult.skipped
                \in {s \in [1..Len(coCall.units) -> ToSet(coCall.units)] :
                        IsInjective(s)}
          /\ ToSet(coResult.failed) =
                {u \in DOMAIN coUnit : coUnit[u] \in {"timeout", "approval", "network"}}
          /\ \A i, j \in DOMAIN coResult.data :
                i < j => \E k, l \in DOMAIN coCall.units :
                            /\ k < l
                            /\ coCall.units[k] = coResult.data[i]
                            /\ coCall.units[l] = coResult.data[j]
    /\ coPc = "done" /\ coResult.state = "error" =>
          IF coCancelled THEN coResult.error = "cancelled"
          ELSE \E u \in DOMAIN coUnit : coUnit[u] = coResult.error

\* Partial data is never presented as complete: a complete result has an
\* answer of every unit, an adjusted history every session of the range with
\* the security in it, and market statistics both markets.
PartialIsNeverComplete ==
    HasResult =>
        /\ coResult.state = "complete" =>
              \A u \in DOMAIN coUnit : coUnit[u] \in Found
        /\ coResult.adjusted =>
              /\ \A u \in DOMAIN coUnit : coUnit[u] = "match"
              /\ coResult.data = Fanout(coCall)
        /\ coResult.stats =>
              \A u \in ToSet(Stocks) : coUnit[u] \in Found
=============================================================================
