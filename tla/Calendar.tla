------------------------------ MODULE Calendar ------------------------------
(***************************************************************************)
(* Which days the exchange is open: calendar.rs.  The program carries a    *)
(* snapshot of the closures of some years, from which it selects the days  *)
(* of a range (select_range) and the last session (resolve_recent).  Of    *)
(* later years it knows fixed holidays only, of the others nothing.        *)
(*                                                                         *)
(* Days are numbers, a year has CaYearDays of them and a week CaWeek, of   *)
(* which the last is the weekend.                                          *)
(***************************************************************************)
EXTENDS Integers, FiniteSets

CONSTANTS
    CaYears,    \* bound: years 0 .. CaYears - 1
    CaYearDays, \* bound: days of a year
    CaWeek,     \* bound: days of a week
    CaLaw,      \* days of a year that are holidays, with the first such year
    CaReach,    \* how many days resolve_recent goes back
    CaNone      \* no answer

ASSUME CalendarConstants ==
    /\ CaYears \in Nat \ {0} /\ CaYearDays \in Nat \ {0}
    /\ CaWeek \in Nat \ {0} /\ CaReach \in Nat
    /\ \A d \in DOMAIN CaLaw : d \in 0..(CaYearDays - 1) /\ CaLaw[d] \in Nat

VARIABLES
    caOpen,    \* the days that the exchange is really open
    caCovered, \* the years of the snapshot, whose closures are those of caOpen
    caAnswer   \* what was asked and answered

caVars == <<caOpen, caCovered, caAnswer>>

CaDay == 0..(CaYears * CaYearDays - 1)

Year(day) == day \div CaYearDays

\* is_weekend
Weekend(day) == day % CaWeek = CaWeek - 1

Weekdays(year) == {d \in CaDay : Year(d) = year /\ ~Weekend(d)}

\* year_end_closure: the last day of the year that is no weekend.
YearEnd(year) == CHOOSE d \in Weekdays(year) : \A e \in Weekdays(year) : e <= d

\* Variant: the holidays of today have always been.
HolidayOfAnyYear(day) == day % CaYearDays \in DOMAIN CaLaw \/ day = YearEnd(Year(day))

\* fallback_closure, without its first condition
Holiday(day) ==
    \/ /\ day % CaYearDays \in DOMAIN CaLaw
       /\ Year(day) >= CaLaw[day % CaYearDays]
    \/ day = YearEnd(Year(day))

\* The exchange is closed at least on weekends and holidays.
ReallyClosed(day) ==
    \/ Weekend(day)
    \/ /\ day % CaYearDays \in DOMAIN CaLaw
       /\ Year(day) >= CaLaw[day % CaYearDays]
    \/ ~\E e \in CaDay : e > day /\ Year(e) = Year(day) /\ ~Weekend(e)

\* validate_snapshot: it covers some year.
CalendarInit ==
    /\ caOpen \in SUBSET {d \in CaDay : ~ReallyClosed(d)}
    /\ caCovered \in SUBSET (0..(CaYears - 1)) \ {{}}
    /\ caAnswer = CaNone

-----------------------------------------------------------------------------
(* Selection                                                               *)

\* classify
Status(day) ==
    CASE Weekend(day) -> "NonTrading"
      [] ~Weekend(day) /\ Year(day) \in caCovered ->
            IF day \in caOpen THEN "Trading" ELSE "NonTrading"
      [] OTHER ->
            IF Holiday(day) /\ \A y \in caCovered : Year(day) > y
            THEN "NonTrading" ELSE "Unknown"

\* selection: what is known of the days looked at.
About(days) ==
    [fallback |-> {Year(d) : d \in days} \ caCovered,
     unverified |-> {d \in days : Status(d) = "Unknown"}]

\* select_range: what is not known to be closed is asked for.
SelectRange ==
    \E from \in CaDay : \E to \in {d \in CaDay : from <= d} :
        caAnswer' = [kind |-> "range",
                     asked |-> from..to,
                     days |-> {d \in from..to : Status(d) # "NonTrading"},
                     skipped |-> {d \in from..to : Status(d) = "NonTrading"},
                     calendar |-> About(from..to)]

\* The days that resolve_recent goes back over, from yesterday.
DaysBack(today) == {d \in CaDay : today - CaReach <= d /\ d < today}

\* resolve_recent: back to a day that is known to be a session, of which the
\* callers in client.rs keep the date alone; without one an error.
ResolveRecent ==
    \E today \in CaDay :
        LET sessions == {d \in DaysBack(today) : Status(d) = "Trading"}
        IN  \/ \E d \in sessions :
                  /\ \A e \in sessions : e <= d
                  /\ caAnswer' = [kind |-> "recent", today |-> today, date |-> d]
            \/ /\ sessions = {}
               /\ caAnswer' = [kind |-> "CalendarInvalid", today |-> today]

CalendarNext ==
    /\ caAnswer = CaNone
    /\ SelectRange \/ ResolveRecent
    /\ UNCHANGED <<caOpen, caCovered>>

CalendarSpec == CalendarInit /\ [][CalendarNext]_caVars

-----------------------------------------------------------------------------
(* Properties                                                              *)

\* A range: no session is skipped, a day of it that is no session is told as
\* unverified, and then the coverage is told as partial.
RangeLosesNothing(answer) ==
    /\ answer.days \cup answer.skipped = answer.asked
    /\ answer.skipped \cap caOpen = {}
    /\ answer.days \ caOpen \subseteq answer.calendar.unverified
    /\ answer.calendar.unverified # {} => answer.calendar.fallback # {}

\* Sessions that are passed over are of years that the snapshot does not cover.
PassesOver(days) == \A d \in days \cap caOpen : Year(d) \notin caCovered

\* Whatever years the snapshot covers, no session of them is passed over and
\* none is made up: a range loses none of any year; the recent date is a session
\* within reach, with none of a covered year after it; and the error means that
\* there is none of a covered year within reach.
NoSessionIsGuessedAway ==
    caAnswer # CaNone =>
        /\ caAnswer.kind = "range" => RangeLosesNothing(caAnswer)
        /\ caAnswer.kind = "recent" =>
              /\ caAnswer.date \in DaysBack(caAnswer.today) \cap caOpen
              /\ PassesOver({d \in DaysBack(caAnswer.today) : d > caAnswer.date})
        /\ caAnswer.kind = "CalendarInvalid" => PassesOver(DaysBack(caAnswer.today))
=============================================================================
