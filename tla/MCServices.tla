------------------------------ MODULE MCServices -----------------------------
(***************************************************************************)
(* One run for the parts that share no state with each other: a behaviour  *)
(* is one of one of them, and the others stay as they began.               *)
(***************************************************************************)
EXTENDS Watchlist, CacheMaintenance, ReleaseCheck, Upgrade, PriceAdjustment,
        Composite, Command, Calendar, RequestLog, NodeBoundary

VARIABLE part

-----------------------------------------------------------------------------
(* Inputs                                                                  *)

\* Rows of one security: quotes that are in order, with every way in which a
\* row can be suspended or say how many shares there are, and one row of each
\* way of being wrong.
MCQuote(open, high, low, close) ==
    [open |-> open, high |-> high, low |-> low, close |-> close]

MCQuotes == {q \in [open : 0..2, high : 0..2, low : 0..2, close : 1..2] :
                ValidOhlc(q, FALSE)}

MCOdd(quote, traded, name, agrees) ==
    [quote |-> quote, reference |-> 1, traded |-> traded, shares |-> 1,
     name |-> name, agrees |-> agrees]

MCRow ==
    {r \in [quote : MCQuotes, reference : 1..2, traded : BOOLEAN,
            shares : {1, 2, PaNone}, name : {"n1"}, agrees : {TRUE}] :
        /\ r.traded # Suspended(r)
        /\ r.shares # IF Suspended(r) THEN 2 ELSE PaNone} \cup
    {MCOdd(MCQuote(1, 2, 1, 2), TRUE, "n2", TRUE),
     MCOdd(MCQuote(1, 2, 1, 2), TRUE, "n1", FALSE),
     MCOdd(MCQuote(0, 2, 1, 2), FALSE, "n1", TRUE),
     MCOdd(MCQuote(0, 0, 0, 1), TRUE, "n1", TRUE)}

\* A holiday of all years and one of the last, in years of five days.
MCLaw == [d \in {0, 1} |-> IF d = 0 THEN 0 ELSE 2]

\* Two days of one operation.
MCUnit == <<<<1, 1>>, <<1, 2>>>>

MCSymmetry == Permutations(MtJob)

-----------------------------------------------------------------------------
ServicesInit ==
    /\ part \in {"watchlist", "maintenance", "releases", "upgrade", "adjustment",
                 "composite", "command", "calendar", "log", "node"}
    /\ IF part = "watchlist" THEN TRUE ELSE wlFile = File("absent", <<>>)
    /\ WatchlistInit
    /\ IF part = "maintenance" THEN TRUE
       ELSE mtByHandle = FALSE /\ mtDisk = [path \in MtPath |-> MtNone]
    /\ MaintenanceInit
    /\ IF part = "releases" THEN TRUE ELSE rcDisk = Default
    /\ ReleaseCheckInit
    /\ IF part = "upgrade" THEN TRUE ELSE upRecords = FALSE
    /\ UpgradeInit
    /\ PriceAdjustmentInit
    /\ IF part = "composite" THEN TRUE
       ELSE coCall = [command |-> "range", units |-> <<1>>, closed |-> {}]
            /\ coCancelled = FALSE
    /\ CompositeInit
    /\ IF part = "command" THEN TRUE
       ELSE cmLine = [command |-> "local", flags |-> {}]
    /\ CommandInit
    /\ IF part = "calendar" THEN TRUE ELSE caOpen = {} /\ caCovered = {0}
    /\ CalendarInit
    /\ IF part = "log" THEN TRUE ELSE rlLog = <<>>
    /\ RequestLogInit
    /\ IF part = "node" THEN TRUE
       ELSE nbClient = "ready" /\ nbSignal = [c \in NbCall |-> "none"]
    /\ NodeInit

\* The variables of the parts, all but those of one.
Rest(p) ==
    /\ p # "watchlist" => UNCHANGED wlVars
    /\ p # "maintenance" => UNCHANGED mtVars
    /\ p # "releases" => UNCHANGED rcVars
    /\ p # "upgrade" => UNCHANGED upVars
    /\ p # "adjustment" => UNCHANGED paRows
    /\ p # "composite" => UNCHANGED coVars
    /\ p # "command" => UNCHANGED cmVars
    /\ p # "calendar" => UNCHANGED caVars
    /\ p # "log" => UNCHANGED rlVars
    /\ p # "node" => UNCHANGED nbVars
    /\ UNCHANGED part

ServicesNext ==
    \/ part = "watchlist" /\ WatchlistNext /\ Rest("watchlist")
    \/ part = "maintenance" /\ MaintenanceNext /\ Rest("maintenance")
    \/ part = "releases" /\ ReleaseCheckNext /\ Rest("releases")
    \/ part = "upgrade" /\ UpgradeNext /\ Rest("upgrade")
    \/ part = "adjustment" /\ PriceAdjustmentNext /\ Rest("adjustment")
    \/ part = "composite" /\ CompositeNext /\ Rest("composite")
    \/ part = "command" /\ CommandNext /\ Rest("command")
    \/ part = "calendar" /\ CalendarNext /\ Rest("calendar")
    \/ part = "log" /\ RequestLogNext /\ Rest("log")
    \/ part = "node" /\ NodeNext /\ Rest("node")

ServicesSpec ==
    ServicesInit /\ [][ServicesNext]_<<part, wlVars, mtVars, rcVars, upVars, paRows,
                                      coVars, cmVars, caVars, rlVars, nbVars>>
=============================================================================
