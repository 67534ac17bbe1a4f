---------------------------- MODULE NodeBoundary ----------------------------
(***************************************************************************)
(* The Node package: client-factory.js, where a call is validated, tied to *)
(* its AbortSignal and handed to the native binding, and krx-node, lib.rs, *)
(* where it is a future that the worker threads poll, behind a guard that  *)
(* keeps panics out of the output and turns them into an error.  What the  *)
(* SDK does with the call is left open, but for its first look at the      *)
(* token.                                                                  *)
(***************************************************************************)
EXTENDS Naturals, FiniteSets

CONSTANTS
    NbCall,   \* calls
    NbThread, \* threads that poll futures
    NbNone    \* no call

ASSUME NodeNone == NbNone \notin NbCall

VARIABLES
    nbClient,    \* NativeClientState: "ready" or "failed"
    nbPc,        \* of a call: "new", "tied", "pending", "polled", "ended", "settled"
    nbOutcome,   \* of a call: "none", "value", "error" or "internal"
    nbSignal,    \* of a call: "none", "live" or "aborted"
    nbEarly,     \* history: calls whose signal was aborted before they began
    nbListening, \* calls with a listener at their signal
    nbCancelled, \* calls whose NativeCancellation is cancelled
    nbPolls,     \* of a thread: the call it polls, or NbNone
    nbRedact,    \* of a thread: REDACT_BOUNDARY_PANIC
    nbPrevious,  \* of a thread: BoundaryPanicGuard.previous
    nbPanics     \* history: where panics came from, and whether they were printed

nbCallVars == <<nbPc, nbOutcome, nbListening, nbCancelled>>
nbSignalVars == <<nbSignal, nbEarly>>
nbThreadVars == <<nbPolls, nbRedact, nbPrevious, nbPanics>>
nbVars == <<nbClient, nbCallVars, nbSignalVars, nbThreadVars>>

\* NativeClient::new keeps the error of a client that cannot be built, or of a
\* panic, for the calls.
NodeInit ==
    /\ nbClient \in {"ready", "failed"}
    /\ nbPc = [c \in NbCall |-> "new"]
    /\ nbOutcome = [c \in NbCall |-> "none"]
    /\ nbSignal \in [NbCall -> {"none", "live", "aborted"}]
    /\ nbEarly = {}
    /\ nbListening = {} /\ nbCancelled = {}
    /\ nbPolls = [t \in NbThread |-> NbNone]
    /\ nbRedact = [t \in NbThread |-> FALSE]
    /\ nbPrevious = [t \in NbThread |-> FALSE]
    /\ nbPanics = {}

CallTo(c, label) == nbPc' = [nbPc EXCEPT ![c] = label]

-----------------------------------------------------------------------------
(* The JavaScript side                                                     *)

\* Arguments that do not pass throw before there is a token.
RejectArguments(c) ==
    /\ nbPc[c] = "new"
    /\ CallTo(c, "settled")
    /\ nbOutcome' = [nbOutcome EXCEPT ![c] = "error"]
    /\ UNCHANGED <<nbClient, nbListening, nbCancelled, nbSignalVars, nbThreadVars>>

\* Variant: an event that came before the listener is missed.
ListenOnly(c) ==
    /\ nbPc[c] = "new"
    /\ CallTo(c, "tied")
    /\ nbListening' = IF nbSignal[c] = "none" THEN nbListening
                      ELSE nbListening \cup {c}
    /\ nbEarly' = IF nbSignal[c] = "aborted" THEN nbEarly \cup {c} ELSE nbEarly
    /\ UNCHANGED <<nbClient, nbOutcome, nbCancelled, nbSignal, nbThreadVars>>

\* withCancellation
TieSignal(c) ==
    /\ nbPc[c] = "new"
    /\ CallTo(c, "tied")
    /\ nbListening' = IF nbSignal[c] = "live" THEN nbListening \cup {c}
                      ELSE nbListening
    /\ IF nbSignal[c] = "aborted"
       THEN /\ nbCancelled' = nbCancelled \cup {c}
            /\ nbEarly' = nbEarly \cup {c}
       ELSE UNCHANGED <<nbCancelled, nbEarly>>
    /\ UNCHANGED <<nbClient, nbOutcome, nbSignal, nbThreadVars>>

\* The caller aborts: the event reaches the listener, if there is one.
AbortSignal(c) ==
    /\ nbSignal[c] = "live"
    /\ nbSignal' = [nbSignal EXCEPT ![c] = "aborted"]
    /\ nbCancelled' = IF c \in nbListening THEN nbCancelled \cup {c}
                      ELSE nbCancelled
    /\ UNCHANGED <<nbClient, nbPc, nbOutcome, nbListening, nbEarly, nbThreadVars>>

\* invoke: the native method makes a future.
InvokeNative(c) ==
    /\ nbPc[c] = "tied"
    /\ CallTo(c, "pending")
    /\ UNCHANGED <<nbClient, nbOutcome, nbListening, nbCancelled, nbSignalVars,
                   nbThreadVars>>

\* The promise settles, and the listener is removed.
SettleCall(c) ==
    /\ nbPc[c] = "ended"
    /\ CallTo(c, "settled")
    /\ nbListening' = nbListening \ {c}
    /\ UNCHANGED <<nbClient, nbOutcome, nbCancelled, nbSignalVars, nbThreadVars>>

-----------------------------------------------------------------------------
(* The native side                                                         *)

\* poll_fn in run: BoundaryPanicGuard::enter
PollCall(c, t) ==
    /\ nbPc[c] = "pending" /\ nbPolls[t] = NbNone
    /\ CallTo(c, "polled")
    /\ nbPolls' = [nbPolls EXCEPT ![t] = c]
    /\ nbPrevious' = [nbPrevious EXCEPT ![t] = nbRedact[t]]
    /\ nbRedact' = [nbRedact EXCEPT ![t] = TRUE]
    /\ UNCHANGED <<nbClient, nbOutcome, nbListening, nbCancelled, nbSignalVars,
                   nbPanics>>

\* Variant: the guard lives as long as the future.
KeepGuard(t) ==
    /\ nbPolls' = [nbPolls EXCEPT ![t] = NbNone]
    /\ nbRedact' = [nbRedact EXCEPT ![t] =
                       nbPc'[nbPolls[t]] = "pending" \/ nbPrevious[t]]
    /\ UNCHANGED nbPrevious

\* Drop of the guard, at the end of every poll.
DropGuard(t) ==
    /\ nbPolls' = [nbPolls EXCEPT ![t] = NbNone]
    /\ nbRedact' = [nbRedact EXCEPT ![t] = nbPrevious[t]]
    /\ UNCHANGED nbPrevious

\* The future waits for something, and goes on on some thread.
Suspend(c, t) ==
    /\ nbPolls[t] = c /\ nbClient = "ready" /\ c \notin nbEarly
    /\ CallTo(c, "pending")
    /\ DropGuard(t)
    /\ UNCHANGED <<nbClient, nbOutcome, nbListening, nbCancelled, nbSignalVars,
                   nbPanics>>

\* An error of the client that failed, of the arguments or of the SDK, which
\* does not begin a call that is cancelled; or a value.
EndCall(c, t) ==
    /\ nbPolls[t] = c
    /\ CallTo(c, "ended")
    /\ \E outcome \in IF nbClient = "ready" /\ c \notin nbEarly \cap nbCancelled
                      THEN {"value", "error"} ELSE {"error"} :
          nbOutcome' = [nbOutcome EXCEPT ![c] = outcome]
    /\ DropGuard(t)
    /\ UNCHANGED <<nbClient, nbListening, nbCancelled, nbSignalVars, nbPanics>>

\* The hook is asked before the unwinding, which drops the guard.
PanicInCall(c, t) ==
    /\ nbPolls[t] = c
    /\ CallTo(c, "ended")
    /\ nbOutcome' = [nbOutcome EXCEPT ![c] = "internal"]
    /\ nbPanics' = nbPanics \cup {[boundary |-> TRUE, printed |-> ~nbRedact[t]]}
    /\ DropGuard(t)
    /\ UNCHANGED <<nbClient, nbListening, nbCancelled, nbSignalVars>>

\* Other code of the process panics on a thread that polls no call.
PanicElsewhere(t) ==
    /\ nbPolls[t] = NbNone
    /\ nbPanics' = nbPanics \cup {[boundary |-> FALSE, printed |-> ~nbRedact[t]]}
    /\ UNCHANGED <<nbClient, nbCallVars, nbSignalVars, nbPolls, nbRedact, nbPrevious>>

NodeNext ==
    \/ \E c \in NbCall :
          \/ RejectArguments(c) \/ TieSignal(c) \/ AbortSignal(c)
          \/ InvokeNative(c) \/ SettleCall(c)
          \/ \E t \in NbThread :
                \/ PollCall(c, t) \/ Suspend(c, t) \/ EndCall(c, t)
                \/ PanicInCall(c, t)
    \/ \E t \in NbThread : PanicElsewhere(t)

NodeSpec == NodeInit /\ [][NodeNext]_nbVars

-----------------------------------------------------------------------------
(* Properties                                                              *)

\* An abort reaches its call whenever it comes: a call in progress whose signal
\* is aborted has its token cancelled; one that began after the abort brings
\* no value; and no listener outlives its call.
AbortReachesTheCall ==
    \A c \in NbCall :
        /\ nbSignal[c] = "aborted" =>
              nbPc[c] \in {"new", "settled"} \/ c \in nbCancelled
        /\ c \in nbEarly => nbOutcome[c] # "value"
        /\ nbPc[c] = "settled" => c \notin nbListening

\* A panic of a call is kept from the output and one of other code is not, on
\* whatever threads the calls are polled in turn.
OnlyBoundaryPanicsAreHidden ==
    \A panic \in nbPanics : panic.printed <=> ~panic.boundary

\* The boundary between Node and the SDK, in both directions.
BoundaryHolds == AbortReachesTheCall /\ OnlyBoundaryPanicsAreHidden
=============================================================================
