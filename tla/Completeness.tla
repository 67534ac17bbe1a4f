----------------------------- MODULE Completeness ----------------------------
(***************************************************************************)
(* What a call that fans out answers, given what each of its units found:  *)
(* the reducers of range.rs, composites.rs and completeness.rs.  A unit is *)
(* a day of a range or a component of a composite command.                 *)
(*                                                                         *)
(* The outcome of a unit is what it found: "match" (rows, some of them     *)
(* wanted), "other" (rows, none wanted), "empty"; or the kind of its error.*)
(***************************************************************************)
EXTENDS Sublist, SequencesExt

\* The error kinds that the model tells apart, by COMPOSITE_PRIORITY.
COMPOSITE_PRIORITY ==
    <<"cancelled", "internal", "timeout", "approval", "local_state", "network">>

Found == {"match", "other", "empty"}

\* is_call_wide
CallWide == {"cancelled", "internal", "local_state"}

\* Market components in the order of the catalog.
Components(command) ==
    CASE command = "search" -> <<"kospi", "kosdaq">>
      [] command = "summary" ->
            <<"kospiIndex", "kosdaqIndex", "kospiStocks", "kosdaqStocks">>
      [] command = "prices" -> <<"kospi", "kosdaq", "konex">>

\* select_range: days in order, of which the closed ones are not requested.
RangeCalls(days) ==
    UNION {[command : {"range", "adjusted"}, units : {[i \in 1..n |-> i]},
            closed : SUBSET (1..n)] : n \in 1..days}

ComponentCalls ==
    {[command |-> c, units |-> Components(c), closed |-> {}] :
        c \in {"search", "summary", "prices"}}

IsRange(call) == call.command \in {"range", "adjusted"}

\* The units of the fan-out, in order.
Fanout(call) ==
    ItemsAt(call.units, {i \in DOMAIN call.units : call.units[i] \notin call.closed})

-----------------------------------------------------------------------------
(* Reducers                                                                *)

\* The units with an outcome in `kinds`, in the order collected.
Those(outcomes, kinds) ==
    ItemsAt([i \in DOMAIN outcomes |-> outcomes[i].unit],
            {i \in DOMAIN outcomes : outcomes[i].outcome \in kinds})

\* primary_error, primary_call_wide_error
Primary(kinds) ==
    COMPOSITE_PRIORITY[CHOOSE i \in DOMAIN COMPOSITE_PRIORITY :
        /\ COMPOSITE_PRIORITY[i] \in kinds
        /\ \A j \in 1..(i - 1) : COMPOSITE_PRIORITY[j] \notin kinds]

Kinds(outcomes) == {outcomes[i].outcome : i \in DOMAIN outcomes} \ Found

CallError(kind) == [state |-> "error", error |-> kind]

\* completeness::reduce; has_data is that there is something to show.
State(succeeded, failed, skipped, data) ==
    CASE failed = <<>> /\ data # <<>> -> "complete"
      [] failed = <<>> /\ data = <<>> -> "empty"
      [] failed # <<>> /\ succeeded = <<>> /\ skipped = <<>> -> "failed"
      [] OTHER -> "partial"

\* The outcomes come in the order of the units.
InOrder(call, outcomes) ==
    [i \in DOMAIN outcomes |-> outcomes[i].unit] = Fanout(call)

\* Variant: an adjusted history is made of what there is.
AdjustsAnything(range, outcomes) == TRUE

\* apply_adjustment: every requested day answered with rows, and all of them
\* hold the security.
MayAdjust(range, outcomes) ==
    /\ range.state = "complete"
    /\ \A i \in DOMAIN outcomes : outcomes[i].outcome = "match"

\* A range without a session is returned as it is, and so is one that failed;
\* adjust_stock_rows itself may find the rows inconsistent.
AdjustedRange(range, outcomes, consistent) ==
    IF range.state = "failed" \/ outcomes = <<>> THEN range
    ELSE IF MayAdjust(range, outcomes) /\ consistent
    THEN [range EXCEPT !.adjusted = TRUE]
    ELSE [range EXCEPT !.state = "failed", !.data = <<>>, !.error = "integrity"]

\* range::reduce: a day without rows is skipped, as a closed one.
RangeResult(call, outcomes, consistent) ==
    LET succeeded == Those(outcomes, {"match", "other"})
        closed == ItemsAt(call.units,
                          {i \in DOMAIN call.units : call.units[i] \in call.closed})
        skipped == closed \o Those(outcomes, {"empty"})
        failed == Those(outcomes, ToSet(COMPOSITE_PRIORITY))
        state == State(succeeded, failed, skipped, succeeded)
        range == [state |-> state,
                  succeeded |-> succeeded, failed |-> failed, skipped |-> skipped,
                  data |-> IF state = "failed" THEN <<>> ELSE succeeded,
                  adjusted |-> FALSE, stats |-> FALSE,
                  error |-> IF state = "failed" THEN Primary(Kinds(outcomes))
                            ELSE "none"]
    IN  IF call.command = "adjusted"
        THEN AdjustedRange(range, outcomes, consistent)
        ELSE range

Stocks == <<"kospiStocks", "kosdaqStocks">>

\* reduce_market_summary: of both markets or not at all.
StatsOfBoth(succeeded) == ToSet(Stocks) \subseteq ToSet(succeeded)

\* reduce_stock_search and reduce_watchlist_prices show what matches, the
\* summary whole indices and, of both stock components, the movers.
Shown(call, outcomes) ==
    LET succeeded == Those(outcomes, Found)
        whole == Those(outcomes, {"match", "other"})
    IN  IF call.command # "summary" THEN Those(outcomes, {"match"})
        ELSE ItemsAt(whole, {i \in DOMAIN whole :
                whole[i] \notin ToSet(Stocks) \/ StatsOfBoth(succeeded)})

\* finish
ComponentsResult(call, outcomes) ==
    LET succeeded == Those(outcomes, Found)
        failed == Those(outcomes, ToSet(COMPOSITE_PRIORITY))
        data == Shown(call, outcomes)
        state == State(succeeded, failed, <<>>, data)
    IN  [state |-> state,
         succeeded |-> succeeded, failed |-> failed, skipped |-> <<>>,
         data |-> data, adjusted |-> FALSE,
         stats |-> call.command = "summary" /\ StatsOfBoth(succeeded),
         error |-> IF state = "failed" THEN Primary(Kinds(outcomes)) ELSE "none"]

\* range::reduce, composites::partition: outcomes out of order are an internal
\* error, and an error of the whole call comes before any result.
Reduced(call, outcomes, consistent) ==
    IF ~InOrder(call, outcomes) THEN CallError("internal")
    ELSE IF Kinds(outcomes) \cap CallWide # {}
    THEN CallError(Primary(Kinds(outcomes) \cap CallWide))
    ELSE IF IsRange(call) THEN RangeResult(call, outcomes, consistent)
    ELSE ComponentsResult(call, outcomes)
=============================================================================
