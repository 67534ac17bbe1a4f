-------------------------------- MODULE Quota --------------------------------
(***************************************************************************)
(* The advisory daily quota: quota.rs.  Every outbound attempt first       *)
(* reserves one unit for its credential and its KST day in                 *)
(* rate-limit.json, a read-modify-write under rate-limit.json.lock that    *)
(* runs on a blocking worker and goes on when its caller has stopped       *)
(* waiting.                                                                *)
(*                                                                         *)
(* The directory lock is modelled by what PlainLock shows of it when no    *)
(* live process dwells in it for staleAfterMs: one holder, and the lock of *)
(* a dead one is recovered.                                                *)
(***************************************************************************)
EXTENDS FiniteSets, Naturals

CONSTANTS
    Call,          \* the calls that reserve, each in a process of its own
    Key,           \* credential fingerprints
    KeyOf,         \* KeyOf[p]: the credential of call p
    LastDay,       \* the last KST day of a behaviour
    Limit,         \* DAILY_LIMIT
    MaxKeys,       \* MAX_CREDENTIALS
    None,          \* no entry, no file, no holder
    MidnightRaces  \* may the day turn while a reservation is under way?

ASSUME QuotaConstants ==
    /\ IsFiniteSet(Call)
    /\ KeyOf \in [Call -> Key]
    /\ LastDay \in Nat \ {0}
    /\ Limit \in Nat \ {0}
    /\ MaxKeys \in Nat \ {0}
    /\ MidnightRaces \in BOOLEAN

Day == 1 .. LastDay
Entry == [date : Day, count : 0 .. Limit]

ASSUME QuotaNone == None \notin Call /\ None \notin Entry

VARIABLES
    ledger,   \* QuotaV1.credentials on disk; a key without entry has None
    legacy,   \* the QuotaRootV0 entry on disk until the first write, or None
    lock,     \* whose QUOTA_LOCK_PATH is, or None
    today,    \* the KST day of the wall clock
    worker,   \* where the reservation of a call is
    date,     \* the KST day a call captured before it asked
    buffer,   \* the data a worker is about to write
    stopped,  \* the calls cancelled or past their deadline
    commits   \* history: the units committed, by key and day

quotaVars ==
    <<ledger, legacy, lock, today, worker, date, buffer, stopped, commits>>

Underway == {"waiting", "reading", "writing"}
Locked   == {"reading", "writing"}
Answers  == {"granted", "exhausted", "failed"}

Data == [Key -> Entry \cup {None}]

Empty == [k \in Key |-> None]

QuotaTypeOK ==
    /\ ledger \in Data
    /\ legacy \in Entry \cup {None}
    /\ lock \in Call \cup {None}
    /\ today \in Day
    /\ worker \in [Call -> {"idle", "dead"} \cup Underway \cup Answers]
    /\ date \in [Call -> Day]
    /\ buffer \in [Call -> Data]
    /\ stopped \subseteq Call
    /\ commits \in [Key -> [Day -> Nat]]

\* No file yet, or one of the previous format.
QuotaInit ==
    /\ ledger = Empty
    /\ legacy \in [date : {1}, count : 0 .. Limit] \cup {None}
    /\ lock = None
    /\ today = 1
    /\ worker = [p \in Call |-> "idle"]
    /\ date = [p \in Call |-> 1]
    /\ buffer = [p \in Call |-> Empty]
    /\ stopped = {}
    /\ commits = [k \in Key |-> [d \in Day |-> 0]]

-----------------------------------------------------------------------------
\* Helpers.

\* read_quota, decode_quota: the entry of the previous format becomes the
\* entry of whichever credential reads it.
Observed(p) ==
    IF legacy = None THEN ledger ELSE [Empty EXCEPT ![KeyOf[p]] = legacy]

CountOn(data, k, d) ==
    IF data[k] # None /\ data[k].date = d THEN data[k].count ELSE 0

\* existing_count
Existing(data, p) == CountOn(data, KeyOf[p], date[p])

\* retain: the entries of every other day are pruned.
Retained(data, d) ==
    [k \in Key |->
        IF data[k] # None /\ data[k].date = d THEN data[k] ELSE None]

\* Variant: the credential limit is not enforced.
AlwaysRoom(kept, k) == k \in DOMAIN kept

HasRoom(kept, k) ==
    \/ kept[k] # None
    \/ Cardinality({j \in Key : kept[j] # None}) < MaxKeys

\* The data with one more unit for the call's credential and day.
Reserved(data, p) ==
    [Retained(data, date[p]) EXCEPT
        ![KeyOf[p]] = [date |-> date[p], count |-> Existing(data, p) + 1]]

Answer(p, outcome) == worker' = [worker EXCEPT ![p] = outcome]

\* The worker returns and its guard is dropped.
Finish(p, outcome) ==
    /\ Answer(p, outcome)
    /\ lock' = None
    /\ buffer' = [buffer EXCEPT ![p] = Empty]

-----------------------------------------------------------------------------
(* The caller's side: reserve_until and its caller in transport.rs.        *)

\* kst_date, then a blocking worker is spawned.
Request(p) ==
    /\ worker[p] = "idle"
    /\ date' = [date EXCEPT ![p] = today]
    /\ Answer(p, "waiting")
    /\ UNCHANGED <<ledger, legacy, lock, today, buffer, stopped, commits>>

\* The caller takes the answer.
Collect(p) ==
    /\ worker[p] \in Answers
    /\ Answer(p, "idle")
    /\ UNCHANGED <<ledger, legacy, lock, today, date, buffer, stopped, commits>>

-----------------------------------------------------------------------------
(* reserve_blocking                                                        *)

\* The wait for the lock ends in an error: cancelled, out of time, or I/O.
GiveUp(p) ==
    /\ worker[p] = "waiting"
    /\ Answer(p, "failed")
    /\ UNCHANGED <<ledger, legacy, lock, today, date, buffer, stopped, commits>>

\* No living call holds the lock.
Free == lock \notin {p \in Call : worker[p] # "dead"}

\* Variant: a contended lock is taken over after the timeout.
AcquireAnyway(p) ==
    /\ worker[p] = "waiting"
    /\ lock' = p
    /\ Answer(p, "reading")
    /\ UNCHANGED <<ledger, legacy, today, date, buffer, stopped, commits>>

\* try_acquire_plain_lock, after steal_plain_lock_if_stale if need be.
Acquire(p) ==
    /\ worker[p] = "waiting"
    /\ Free
    /\ lock' = p
    /\ Answer(p, "reading")
    /\ UNCHANGED <<ledger, legacy, today, date, buffer, stopped, commits>>

\* The file cannot be read, the call was stopped, or nothing more fits.
ReadFails(p) ==
    /\ worker[p] = "reading"
    /\ Finish(p, "failed")
    /\ UNCHANGED <<ledger, legacy, today, date, stopped, commits>>

ReadExhausted(p) ==
    /\ worker[p] = "reading"
    /\ p \notin stopped
    /\ Existing(Observed(p), p) >= Limit
    /\ Finish(p, "exhausted")
    /\ UNCHANGED <<ledger, legacy, today, date, stopped, commits>>

\* Variant: the limit admits one unit too many.
ReadAdmitsTooMany(p) ==
    /\ worker[p] = "reading"
    /\ p \notin stopped
    /\ Existing(Observed(p), p) <= Limit
    /\ HasRoom(Retained(Observed(p), date[p]), KeyOf[p])
    /\ buffer' = [buffer EXCEPT ![p] = Reserved(Observed(p), p)]
    /\ Answer(p, "writing")
    /\ UNCHANGED <<ledger, legacy, lock, today, date, stopped, commits>>

\* read_quota, the new data, and the last look at the call's cancellation and
\* deadline: past it the write goes on whatever the caller does.
ReadAdmits(p) ==
    /\ worker[p] = "reading"
    /\ p \notin stopped
    /\ Existing(Observed(p), p) < Limit
    /\ HasRoom(Retained(Observed(p), date[p]), KeyOf[p])
    /\ buffer' = [buffer EXCEPT ![p] = Reserved(Observed(p), p)]
    /\ Answer(p, "writing")
    /\ UNCHANGED <<ledger, legacy, lock, today, date, stopped, commits>>

\* atomic_write failed before its rename.
WriteFails(p) ==
    /\ worker[p] = "writing"
    /\ Finish(p, "failed")
    /\ UNCHANGED <<ledger, legacy, today, date, stopped, commits>>

\* atomic_write replaced the file.  Its last fsync may still fail: the unit is
\* then counted and the caller is told that it is not.
Write(p) ==
    /\ worker[p] = "writing"
    /\ ledger' = buffer[p]
    /\ legacy' = None
    /\ commits' = [commits EXCEPT ![KeyOf[p]][date[p]] = @ + 1]
    /\ \E outcome \in {"granted", "failed"} : Finish(p, outcome)
    /\ UNCHANGED <<today, date, stopped>>

-----------------------------------------------------------------------------
(* The environment                                                         *)

\* The user cancels, or the overall deadline passes.
Stop(p) ==
    /\ p \notin stopped
    /\ stopped' = stopped \cup {p}
    /\ UNCHANGED <<ledger, legacy, lock, today, worker, date, buffer, commits>>

\* The process dies between two steps.
Crash(p) ==
    /\ worker[p] # "dead"
    /\ Answer(p, "dead")
    /\ UNCHANGED <<ledger, legacy, lock, today, date, buffer, stopped, commits>>

\* Midnight in Seoul.
Tomorrow ==
    /\ today < LastDay
    /\ MidnightRaces \/ \A p \in Call : worker[p] \notin Underway
    /\ today' = today + 1
    /\ UNCHANGED <<ledger, legacy, lock, worker, date, buffer, stopped, commits>>

Work(p) ==
    \/ GiveUp(p) \/ Acquire(p)
    \/ ReadFails(p) \/ ReadExhausted(p) \/ ReadAdmits(p)
    \/ WriteFails(p) \/ Write(p)

QuotaNext ==
    \/ \E p \in Call : Request(p) \/ Collect(p) \/ Work(p) \/ Stop(p) \/ Crash(p)
    \/ Tomorrow

QuotaSpec == QuotaInit /\ [][QuotaNext]_quotaVars

-----------------------------------------------------------------------------
(* Properties                                                              *)

\* Today's count on disk covers every unit committed for today, and never
\* goes over the limit however many calls reserve at once.
CountsEveryUnit ==
    \A k \in Key :
        /\ commits[k][today] <= CountOn(ledger, k, today)
        /\ CountOn(ledger, k, today) <= Limit

\* The lock serialises the part between reading and writing.
OneWriter == \A p \in Call : worker[p] \in Locked => lock = p

\* No reservation under way has a stale day: what MidnightRaces = FALSE means.
DaysAreFresh == \A p \in Call : worker[p] \in Underway => date[p] = today

\* What a worker is about to write is still one unit more than what it read.
BufferIsCurrent ==
    \A p \in Call :
        worker[p] = "writing" =>
            /\ buffer[p] = Reserved(Observed(p), p)
            /\ Existing(Observed(p), p) < Limit

\* Nothing is committed for a day to come, nor before a legacy file goes.
NothingCommittedAhead ==
    /\ \A k \in Key, d \in Day : d > today => commits[k][d] = 0
    /\ legacy # None =>
          ledger = Empty /\ \A k \in Key, d \in Day : commits[k][d] = 0

\* What a reservation writes, the next one can read: validate_quota refuses a
\* file with too many credentials or a count over the limit for good.
WritesValidLedger ==
    /\ Cardinality({k \in Key : ledger[k] # None}) <= MaxKeys
    /\ \A k \in Key : ledger[k] # None => ledger[k] \in Entry

\* Nobody's count for today ever goes down: a reservation takes nothing from
\* another credential, and no failure gives a unit back.
NeverDecrements ==
    [][\A k \in Key :
          CountOn(ledger', k, today) >= CountOn(ledger, k, today)]_quotaVars
=============================================================================
