----------------------------- MODULE RequestLog -----------------------------
(***************************************************************************)
(* The observations of one command: observation.rs, with the places that   *)
(* record them, in client.rs (query_until, range) and in transport.rs      *)
(* (execute_until).  The units of a command run at the same time and share *)
(* one buffer; the frontend takes it when the command has ended.  Whether  *)
(* a unit gets its quota, and what the provider says, is left open.        *)
(***************************************************************************)
EXTENDS Naturals, FiniteSets, Sequences, SequencesExt

CONSTANTS
    RlUnit,    \* units in order of operation and date
    RlRetries  \* CallOptions.retries

\* A command asks for something.
ASSUME RequestLogConstants ==
    RlUnit \in Seq(Nat \X Nat) /\ RlUnit # <<>> /\ RlRetries \in Nat

\* No two units are of one operation and date, and they are numbered in order.
ASSUME UnitsInOrder ==
    \A u, v \in DOMAIN RlUnit : u < v =>
        \/ RlUnit[u][1] < RlUnit[v][1]
        \/ RlUnit[u][1] = RlUnit[v][1] /\ RlUnit[u][2] < RlUnit[v][2]

VARIABLES
    rlPc,      \* of each unit: "query", "request", "attempt", "sending", "done"
    rlAttempt, \* of each unit: the attempt it is at, from 0
    rlLog,     \* the buffer
    rlTaken,   \* what the frontend took
    rlTold     \* history: of each unit, what it recorded

rlVars == <<rlPc, rlAttempt, rlLog, rlTaken, rlTold>>

RlIndex == DOMAIN RlUnit

\* A unit is an operation and a date.
Operation(u) == RlUnit[u][1]
Date(u) == RlUnit[u][2]

\* The units of a command that is no range; a range announces itself.
RequestLogInit ==
    /\ rlPc = [u \in RlIndex |-> "query"]
    /\ rlAttempt = [u \in RlIndex |-> 0]
    /\ rlLog \in {<<>>, <<[unit |-> 1, phase |-> "Range", attempt |-> 0]>>}
    /\ rlTaken = <<>>
    /\ rlTold = [u \in RlIndex |-> IF u = 1 THEN rlLog ELSE <<>>]

-----------------------------------------------------------------------------
(* Recording                                                               *)

\* ObservationBuffer::record
Tell(u, phase) ==
    LET said == [unit |-> u, phase |-> phase, attempt |-> rlAttempt[u] + 1]
    IN  /\ rlLog' = Append(rlLog, said)
        /\ rlTold' = [rlTold EXCEPT ![u] = Append(@, said)]

StepTo(u, label) == rlPc' = [rlPc EXCEPT ![u] = label]

\* query_until: unless it bypasses the cache a query says what it found there
\* or that it refreshes, and is done with a hit or, offline, without one.
QueryCache(u) ==
    /\ rlPc[u] = "query"
    /\ \/ Tell(u, "Cache") /\ StepTo(u, "request")
       \/ Tell(u, "Cache") /\ StepTo(u, "done")
       \/ StepTo(u, "request") /\ UNCHANGED <<rlLog, rlTold>>
    /\ UNCHANGED <<rlAttempt, rlTaken>>

\* Cancelled, out of time, without a credential or without quota.
GiveUp(u) ==
    /\ rlPc[u] \notin {"done"}
    /\ StepTo(u, "done")
    /\ UNCHANGED <<rlAttempt, rlLog, rlTaken, rlTold>>

BeginRequest(u) ==
    /\ rlPc[u] = "request"
    /\ Tell(u, "Request")
    /\ StepTo(u, "attempt")
    /\ UNCHANGED <<rlAttempt, rlTaken>>

ReserveUnit(u) ==
    /\ rlPc[u] = "attempt"
    /\ Tell(u, "Quota")
    /\ StepTo(u, "sending")
    /\ UNCHANGED <<rlAttempt, rlTaken>>

\* A status that is not retried, or no more.
Respond(u) ==
    /\ rlPc[u] = "sending"
    /\ Tell(u, "Response")
    /\ StepTo(u, "done")
    /\ UNCHANGED <<rlAttempt, rlTaken>>

RetryRequest(u) ==
    /\ rlPc[u] = "sending"
    /\ rlAttempt[u] < RlRetries
    /\ Tell(u, "Retry")
    /\ StepTo(u, "attempt")
    /\ rlAttempt' = [rlAttempt EXCEPT ![u] = @ + 1]
    /\ UNCHANGED rlTaken

-----------------------------------------------------------------------------
(* Taking                                                                  *)

\* ObservationPhase::order, with a number above all others for the last.
Order(said) ==
    CASE said.phase = "Range" -> 0
      [] said.phase = "Cache" -> 1
      [] said.phase = "Request" -> 2
      [] said.phase = "Quota" -> 10 + 2 * said.attempt
      [] said.phase = "Retry" -> 11 + 2 * said.attempt
      [] said.phase = "Response" -> 10 + 2 * (RlRetries + 3)

\* Variant: the days of a range are told together.
WithoutDate(a, b) ==
    \/ Operation(a.unit) < Operation(b.unit)
    \/ Operation(a.unit) = Operation(b.unit) /\ Order(a) < Order(b)

\* Observation::sort_key
SortsBefore(a, b) ==
    \/ Operation(a.unit) < Operation(b.unit)
    \/ /\ Operation(a.unit) = Operation(b.unit)
       /\ Date(a.unit) < Date(b.unit)
    \/ /\ Operation(a.unit) = Operation(b.unit)
       /\ Date(a.unit) = Date(b.unit)
       /\ Order(a) < Order(b)

\* A stable sort puts an entry where those before it end.
Sorted(log) ==
    LET place(i) == 1 + Cardinality({j \in DOMAIN log :
                            \/ SortsBefore(log[j], log[i])
                            \/ j < i /\ ~SortsBefore(log[i], log[j])})
    IN  [p \in DOMAIN log |-> log[CHOOSE i \in DOMAIN log : place(i) = p]]

\* ObservationBuffer::take
TakeLog ==
    /\ \A u \in RlIndex : rlPc[u] = "done"
    /\ rlLog # <<>>
    /\ rlTaken' = Sorted(rlLog)
    /\ rlLog' = <<>>
    /\ UNCHANGED <<rlPc, rlAttempt, rlTold>>

RequestLogNext ==
    \/ TakeLog
    \/ \E u \in RlIndex :
          \/ QueryCache(u) \/ GiveUp(u) \/ BeginRequest(u)
          \/ ReserveUnit(u) \/ Respond(u) \/ RetryRequest(u)

RequestLogSpec == RequestLogInit /\ [][RequestLogNext]_rlVars

-----------------------------------------------------------------------------
(* Properties                                                              *)

\* However the units interleaved, what the frontend takes tells of one unit
\* after the other, in order of operation and date, and of each unit what it
\* did in the order in which it did it.
TakenTellsUnitByUnit ==
    rlTaken # <<>> => rlTaken = FlattenSeq(rlTold)
=============================================================================
