------------------------------ MODULE Transport ------------------------------
(***************************************************************************)
(* The retry engine: transport.rs, RetryEngine::execute_until, the only    *)
(* way to the provider.  A call makes up to Retries + 1 attempts, reserves *)
(* one unit of the quota before each, and leaves its reservation behind on *)
(* the worker when it is cancelled or out of time.                         *)
(*                                                                         *)
(* Every action is an action of Quota with the caller's side added, or     *)
(* leaves the quota alone.                                                 *)
(***************************************************************************)
EXTENDS Quota

CONSTANT Retries  \* RequestOptions.retries, at most DEFAULT_RETRIES

ASSUME RetriesAssumption == Retries \in Nat

VARIABLES
    pc,       \* where the call is
    attempt,  \* the attempt it is at, from 0
    sent      \* history: the attempts sent, by key and the day reserved for

callVars == <<pc, attempt, sent>>
vars == <<quotaVars, callVars>>

TypeOK ==
    /\ QuotaTypeOK
    /\ pc \in [Call -> {"attempting", "reserving", "sending", "backing off",
                        "returned", "dead"}]
    /\ attempt \in [Call -> 0 .. Retries]
    /\ sent \in [Key -> [Day -> Nat]]

Init ==
    /\ QuotaInit
    /\ pc = [p \in Call |-> "attempting"]
    /\ attempt = [p \in Call |-> 0]
    /\ sent = [k \in Key |-> [d \in Day |-> 0]]

-----------------------------------------------------------------------------
Goto(p, label) == pc' = [pc EXCEPT ![p] = label]

\* The call returns, with rows or with an error; no property tells which.
Return(p) == Goto(p, "returned")

\* The top of the loop: stop, or capture the KST day and ask for a unit.
StopBefore(p) ==
    /\ pc[p] = "attempting"
    /\ p \in stopped
    /\ Return(p)
    /\ UNCHANGED <<quotaVars, attempt, sent>>

Reserve(p) ==
    /\ pc[p] = "attempting"
    /\ Request(p)
    /\ Goto(p, "reserving")
    /\ UNCHANGED <<attempt, sent>>

\* The select around the reservation: the worker is left to itself.
LeaveWorker(p) ==
    /\ pc[p] = "reserving"
    /\ p \in stopped
    /\ Return(p)
    /\ UNCHANGED <<quotaVars, attempt, sent>>

\* Variant: a rejected reservation is only a warning.
SendRegardless(p) ==
    /\ pc[p] = "reserving"
    /\ p \notin stopped
    /\ Collect(p)
    /\ Goto(p, "sending")
    /\ sent' = [sent EXCEPT ![KeyOf[p]][date[p]] = @ + 1]
    /\ UNCHANGED attempt

\* A unit is granted and the call goes on: the attempt is sent.
Send(p) ==
    /\ pc[p] = "reserving"
    /\ worker[p] = "granted"
    /\ p \notin stopped
    /\ Collect(p)
    /\ Goto(p, "sending")
    /\ sent' = [sent EXCEPT ![KeyOf[p]][date[p]] = @ + 1]
    /\ UNCHANGED attempt

\* Variant: a failure of the worker is not reported.
RejectExhausted(p) ==
    /\ pc[p] = "reserving"
    /\ worker[p] = "exhausted"
    /\ Collect(p)
    /\ Return(p)
    /\ UNCHANGED <<attempt, sent>>

\* No unit: the call returns without an attempt.
Reject(p) ==
    /\ pc[p] = "reserving"
    /\ worker[p] \in {"exhausted", "failed"}
    /\ Collect(p)
    /\ Return(p)
    /\ UNCHANGED <<attempt, sent>>

\* A 200 with its rows, an answer that cannot be decoded, a status or a
\* failure that is not retried, or cancellation seen after the answer.
Finished(p) ==
    /\ pc[p] = "sending"
    /\ Return(p)
    /\ UNCHANGED <<quotaVars, attempt, sent>>

\* A network failure, a timeout or a retryable status, with retries left.
Retryable(p) ==
    /\ pc[p] = "sending"
    /\ attempt[p] < Retries
    /\ Goto(p, "backing off")
    /\ UNCHANGED <<quotaVars, attempt, sent>>

\* wait_to_retry: a delay that does not fit the deadline is an error at once.
BackOff(p) ==
    /\ pc[p] = "backing off"
    /\ \/ /\ p \notin stopped
          /\ Goto(p, "attempting")
          /\ attempt' = [attempt EXCEPT ![p] = @ + 1]
       \/ /\ Return(p)
          /\ UNCHANGED attempt
    /\ UNCHANGED <<quotaVars, sent>>

-----------------------------------------------------------------------------
(* The worker, the clock and the user                                      *)

Worker(p) == Work(p) /\ UNCHANGED callVars

StopCall(p) == pc[p] # "returned" /\ Stop(p) /\ UNCHANGED callVars

Die(p) ==
    /\ Crash(p)
    /\ Goto(p, "dead")
    /\ UNCHANGED <<attempt, sent>>

Midnight == Tomorrow /\ UNCHANGED callVars

Caller(p) ==
    \/ StopBefore(p) \/ Reserve(p) \/ LeaveWorker(p) \/ Send(p) \/ Reject(p)
    \/ Finished(p) \/ Retryable(p) \/ BackOff(p)

Next ==
    \/ \E p \in Call : Caller(p) \/ Worker(p) \/ StopCall(p) \/ Die(p)
    \/ Midnight

Spec == Init /\ [][Next]_vars

\* Tasks and blocking workers are scheduled; the provider's answer or the
\* attempt's timeout comes; nobody has to cancel.
FairSpec ==
    /\ Spec
    /\ \A p \in Call : WF_vars(Caller(p)) /\ WF_vars(Worker(p))

-----------------------------------------------------------------------------
(* Properties                                                              *)

\* Every attempt that reached the wire was committed first, on the day it is
\* booked for, whatever crashes, cancellations and midnights happen.
AttemptsAreReserved ==
    \A k \in Key, d \in Day : sent[k][d] <= commits[k][d]

\* "A crash may overcount but must never undercount": today's count on disk
\* covers every attempt sent for today.
NeverUndercounts ==
    \A k \in Key : sent[k][today] <= CountOn(ledger, k, today)

\* A call backs off only with a retry left.
RetryLeft == \A p \in Call : pc[p] = "backing off" => attempt[p] < Retries

\* The units that are granted and not yet spent on an attempt.
Granted(k, d) ==
    {p \in Call : worker[p] = "granted" /\ KeyOf[p] = k /\ date[p] = d}

\* Why: a unit is spent once, on the attempt of the call that it was granted.
UnitsCoverAttempts ==
    \A k \in Key, d \in Day :
        sent[k][d] + Cardinality(Granted(k, d)) <= commits[k][d]

\* Every call returns, with or without rows, also when the holder of the
\* quota lock dies and when nobody cancels.
EveryCallReturns == \A p \in Call : <>(pc[p] \in {"returned", "dead"})
=============================================================================
