---------------------------- MODULE ReleaseCheck ----------------------------
(***************************************************************************)
(* The cached release check: release_check.rs, run_check and refresh over  *)
(* one record that the processes of a user share without any lock.  An     *)
(* incidental check follows a finished command, an explicit one is         *)
(* `krx version --check`.                                                  *)
(*                                                                         *)
(* Time is in steps of which the refresh interval and the cooldown hold a  *)
(* few.  What the evidence says of the release is left out: nothing here   *)
(* depends on it.                                                          *)
(***************************************************************************)
EXTENDS Integers

CONSTANTS
    RcProcess,  \* processes that check
    RcInterval, \* REFRESH_INTERVAL_SECONDS
    RcCooldown, \* RETRY_COOLDOWN_SECONDS
    RcMaxTime,  \* bound: the clock stops here
    RcNone      \* no time

ASSUME ReleaseCheckConstants ==
    /\ RcCooldown \in Nat /\ RcCooldown > 1
    /\ RcInterval \in Nat /\ RcInterval >= RcCooldown
    /\ RcMaxTime \in Nat

ASSUME ReleaseCheckNone == RcNone \notin Nat

VARIABLES
    rcDisk,      \* the cached record that a process would load
    rcClock,     \* the wall clock
    rcPc,        \* where each process is
    rcMode,      \* "incidental" or "explicit"
    rcNow,       \* the clock when its check began
    rcRecord,    \* its record
    rcPersisted, \* its attempt was saved
    rcRequested  \* ghost: when the check that last requested evidence
                 \* incidentally began, since the cache was last lost

rcVars == <<rcDisk, rcClock, rcPc, rcMode, rcNow, rcRecord, rcPersisted,
            rcRequested>>

Stamp == 0..RcMaxTime \cup {RcNone}

\* CacheRecord: when the evidence was observed, when a refresh last failed.
Record(observed, failed) == [observed |-> observed, failed |-> failed]

\* CacheRecord::default(), and what load makes of a file that is absent,
\* corrupt, unreadable, or of another target.
Default == Record(RcNone, RcNone)

ReleaseCheckInit ==
    /\ rcDisk \in [observed : {RcNone, 0}, failed : {RcNone, 0}]
    /\ rcClock = 0
    /\ rcPc = [p \in RcProcess |-> "idle"]
    /\ rcMode = [p \in RcProcess |-> "incidental"]
    /\ rcNow = [p \in RcProcess |-> 0]
    /\ rcRecord = [p \in RcProcess |-> Default]
    /\ rcPersisted = [p \in RcProcess |-> FALSE]
    /\ rcRequested = RcNone

-----------------------------------------------------------------------------

\* within: a time in the future is not trusted.
Within(then, now, seconds) ==
    then # RcNone /\ then <= now /\ now - then < seconds

\* refresh_due
RefreshDue(record, now, mode) ==
    /\ ~Within(record.observed, now, RcInterval)
    /\ mode = "incidental" => ~Within(record.failed, now, RcCooldown)

\* run_check begins, at a clock that it reads once.
StartCheck(p) ==
    /\ rcPc[p] = "idle"
    /\ \E mode \in {"incidental", "explicit"} :
          rcMode' = [rcMode EXCEPT ![p] = mode]
    /\ rcNow' = [rcNow EXCEPT ![p] = rcClock]
    /\ rcPc' = [rcPc EXCEPT ![p] = "loading"]
    /\ UNCHANGED <<rcDisk, rcClock, rcRecord, rcPersisted, rcRequested>>

EndCheck(p) ==
    /\ rcPc' = [rcPc EXCEPT ![p] = "idle"]
    /\ rcNow' = [rcNow EXCEPT ![p] = 0]
    /\ rcMode' = [rcMode EXCEPT ![p] = "incidental"]
    /\ rcRecord' = [rcRecord EXCEPT ![p] = Default]
    /\ rcPersisted' = [rcPersisted EXCEPT ![p] = FALSE]

\* load, then report at once or record the attempt first.
LoadRecord(p) ==
    /\ rcPc[p] = "loading"
    /\ IF RefreshDue(rcDisk, rcNow[p], rcMode[p])
       THEN /\ rcRecord' = [rcRecord EXCEPT ![p] = rcDisk]
            /\ rcPc' = [rcPc EXCEPT ![p] = "attempting"]
            /\ UNCHANGED <<rcMode, rcNow, rcPersisted>>
       ELSE EndCheck(p)
    /\ UNCHANGED <<rcDisk, rcClock, rcRequested>>

\* Variant: the request is made whether or not the attempt was saved.
RequestAnyway(mode, persisted) == TRUE

MayRequest(mode, persisted) == persisted \/ mode = "explicit"

\* The attempt, with the evidence as loaded and `now` as the last failure, is
\* saved or not; an incidental check goes on only when it was.
SaveAttempt(p) ==
    /\ rcPc[p] = "attempting"
    /\ LET attempt == Record(rcRecord[p].observed, rcNow[p])
       IN  \E saved \in BOOLEAN :
              /\ rcDisk' = IF saved THEN attempt ELSE rcDisk
              /\ IF MayRequest(rcMode[p], saved)
                 THEN /\ rcRecord' = [rcRecord EXCEPT ![p] = attempt]
                      /\ rcPersisted' = [rcPersisted EXCEPT ![p] = saved]
                      /\ rcPc' = [rcPc EXCEPT ![p] = "fetching"]
                      /\ UNCHANGED <<rcMode, rcNow>>
                 ELSE EndCheck(p)
              /\ rcRequested' =
                    IF /\ MayRequest(rcMode[p], saved)
                       /\ rcMode[p] = "incidental"
                       /\ rcRequested = RcNone \/ rcRequested < rcNow[p]
                    THEN rcNow[p] ELSE rcRequested
    /\ UNCHANGED rcClock

\* fetch_evidence answers: evidence as of `now`, and no failure.
FetchSucceeds(p) ==
    /\ rcPc[p] = "fetching"
    /\ rcRecord' = [rcRecord EXCEPT ![p] = Record(rcNow[p], RcNone)]
    /\ rcPc' = [rcPc EXCEPT ![p] = "saving"]
    /\ UNCHANGED <<rcDisk, rcClock, rcMode, rcNow, rcPersisted, rcRequested>>

\* It fails or exceeds its budget: fresh evidence that another process saved
\* is kept, else the record is saved once more.
FetchFails(p) ==
    /\ rcPc[p] = "fetching"
    /\ IF rcPersisted[p] /\ Within(rcDisk.observed, rcNow[p], RcInterval)
       THEN EndCheck(p)
       ELSE /\ rcPc' = [rcPc EXCEPT ![p] = "saving"]
            /\ UNCHANGED <<rcMode, rcNow, rcRecord, rcPersisted>>
    /\ UNCHANGED <<rcDisk, rcClock, rcRequested>>

\* The last save: none where the attempt could not be saved, and it may fail.
SaveRecord(p) ==
    /\ rcPc[p] = "saving"
    /\ rcDisk' \in {rcDisk} \cup IF rcPersisted[p] THEN {rcRecord[p]} ELSE {}
    /\ EndCheck(p)
    /\ UNCHANGED <<rcClock, rcRequested>>

\* The process dies, or its future is dropped.
DieChecking(p) ==
    /\ rcPc[p] # "idle"
    /\ EndCheck(p)
    /\ UNCHANGED <<rcDisk, rcClock, rcRequested>>

\* A check lasts its budget of seconds: at most one step of time passes.
Tick ==
    /\ rcClock < RcMaxTime
    /\ \A p \in RcProcess : rcPc[p] # "idle" => rcNow[p] = rcClock
    /\ rcClock' = rcClock + 1
    /\ UNCHANGED <<rcDisk, rcPc, rcMode, rcNow, rcRecord, rcPersisted,
                   rcRequested>>

\* The disposable record is removed or damaged.
LoseCache ==
    /\ rcDisk' = Default
    /\ rcRequested' = RcNone
    /\ UNCHANGED <<rcClock, rcPc, rcMode, rcNow, rcRecord, rcPersisted>>

ReleaseCheckNext ==
    \/ \E p \in RcProcess :
          \/ StartCheck(p) \/ LoadRecord(p) \/ SaveAttempt(p)
          \/ FetchSucceeds(p) \/ FetchFails(p) \/ SaveRecord(p)
          \/ DieChecking(p)
    \/ Tick
    \/ LoseCache

ReleaseCheckSpec == ReleaseCheckInit /\ [][ReleaseCheckNext]_rcVars

-----------------------------------------------------------------------------
(* Properties                                                              *)

\* An outage, a check that dies, or a race of checks that overwrite each
\* other's record does not turn every command into a request: a check that
\* begins within the cooldown after an incidental request began makes none.
\* One step is allowed for a check that ends after another one has begun and
\* leaves its own, older time behind; and a check that loads the record in a
\* later step than it read the clock may find a time that it does not trust.
RequestsAreRationed ==
    [][\A p \in RcProcess :
          /\ rcPc[p] = "loading" /\ rcMode[p] = "incidental"
          /\ rcNow[p] = rcClock
          /\ rcRequested # RcNone
          /\ rcNow[p] - rcRequested < RcCooldown - 1
          => rcPc'[p] # "attempting"]_rcVars
=============================================================================
