-------------------------- MODULE CacheCoordination --------------------------
(***************************************************************************)
(* Concurrent queries for one cache key: client.rs, query_until,           *)
(* coordinated_query, finish_cache_hit and network_query, with the flight  *)
(* of cache.rs (one per process) and the refresh lease (one per state      *)
(* root), and what CacheStore does to the files of the key.                *)
(*                                                                         *)
(* Blocking work (worker) and the async call that awaits it (pc) are two   *)
(* actors: when the call is cancelled its future is dropped, its worker    *)
(* goes on.  The lease is an Arc that both hold.                           *)
(*                                                                         *)
(* A result is the number of the fetch it came from.  0 and 1 were there   *)
(* before: 0 is past max_age, 1 and the fetches of the behaviour are not.  *)
(* (Seven days against a call of 45 seconds: nothing expires meanwhile.)   *)
(***************************************************************************)
EXTENDS Integers, Sequences, SequencesExt

CONSTANTS
    Call,       \* the queries
    Process,
    ProcessOf,  \* ProcessOf[c]: the process that runs c
    PolicyOf,   \* PolicyOf[c]: its CachePolicy
    MaxFetch,   \* bound: the last fetch of a behaviour
    OldV1,      \* what may be at v1_path in the beginning
    OldV2,      \* what may be at v2_path in the beginning
    None,       \* no file, no hit, no result
    Corrupt     \* a file that does not decode

Result  == 0 .. MaxFetch
Content == Result \cup {None, Corrupt}
Fresh(g) == g > 0

Hit == [result : Result, from : {"v1", "v2", "network"}]

ASSUME CoordinationConstants ==
    /\ ProcessOf \in [Call -> Process]
    /\ PolicyOf \in [Call -> {"Prefer", "Refresh", "Offline"}]
    /\ MaxFetch \in Nat /\ MaxFetch >= 1
    /\ OldV1 \subseteq {0, 1, None, Corrupt}
    /\ OldV2 \subseteq {0, 1, None, Corrupt}

ASSUME CoordinationNone ==
    None \notin Result /\ Corrupt \notin Result /\ None # Corrupt /\ None \notin Hit

VARIABLES
    file,     \* file["v1"], file["v2"]: what the two pathnames of the key name
    durable,  \* what a power loss would leave at v2_path, at worst
    pc,       \* where a call is
    worker,   \* where its blocking task is
    hit,      \* the last hit of a call, or the rows it fetched
    baseline, \* the hit that a refresh wants to see replaced
    line,     \* line[p]: who holds the gate of p's flight, then who waits
    waited,   \* the calls that found the gate taken
    shared,   \* shared[p]: network_result of p's flight
    fetched,  \* the last fetch so far
    known,    \* history: known[c]: the results on disk when c was called
    answer    \* answer[c]: the result c returned, None for an error

vars == <<file, durable, pc, worker, hit, baseline, line, waited, shared,
          fetched, known, answer>>

flight == <<line, waited, shared>>
past   == <<fetched, known>>

\* The call holds its Arc of the lease.
Leased  == {"deciding", "fetching"}
Probing == {"probe v2", "probe v1", "probe legacy"}
Reading == {"read v2", "move v2", "read v1", "move v1"}
Writing == {"write", "sync", "legacy"}

PC == {"idle", "queued", "leasing", "awaiting", "done", "failed", "returned",
       "dead"} \cup Leased \cup Probing

InFlight(c) == \E i \in DOMAIN line[ProcessOf[c]] : line[ProcessOf[c]][i] = c

TypeOK ==
    /\ file \in [{"v1", "v2"} -> Content]
    /\ durable \in Content
    /\ pc \in [Call -> PC]
    /\ worker \in [Call -> {"none"} \cup Reading \cup Writing]
    /\ hit \in [Call -> Hit \cup {None}]
    /\ baseline \in [Call -> Hit \cup {None}]
    /\ line \in [Process -> Seq(Call)]
    /\ waited \subseteq Call
    /\ shared \in [Process -> Result \cup {None}]
    /\ fetched \in Result
    /\ known \in [Call -> SUBSET Result]
    /\ answer \in [Call -> Result \cup {None}]
    /\ \A c \in Call :
          /\ pc[c] = "done" \/ worker[c] \in {"write", "sync"} => hit[c] # None
          /\ pc[c] = "awaiting" => worker[c] # "none"
          /\ pc[c] \in {"queued", "leasing"} \cup Leased => InFlight(c)

Init ==
    /\ \E old1 \in OldV1, old2 \in OldV2 :
          /\ file = [v1 |-> old1, v2 |-> old2]
          /\ durable = old2
    /\ pc = [c \in Call |-> "idle"]
    /\ worker = [c \in Call |-> "none"]
    /\ hit = [c \in Call |-> None]
    /\ baseline = [c \in Call |-> None]
    /\ line = [p \in Process |-> <<>>]
    /\ waited = {}
    /\ shared = [p \in Process |-> None]
    /\ fetched = 1
    /\ known = [c \in Call |-> {}]
    /\ answer = [c \in Call |-> None]

-----------------------------------------------------------------------------
\* Helpers.

Goto(c, label) == pc' = [pc EXCEPT ![c] = label]

See(c, h) == hit' = [hit EXCEPT ![c] = h]

\* The line when c, which stands there at most once, has gone.
Without(s, c) ==
    IF \E i \in DOMAIN s : s[i] = c
    THEN RemoveAt(s, CHOOSE i \in DOMAIN s : s[i] = c)
    ELSE s

\* The flight lives as long as a call holds it or waits for it, and its
\* network_result with it.
Leave(c, published) ==
    LET p == ProcessOf[c] IN
        /\ line' = [line EXCEPT ![p] = Without(@, c)]
        /\ shared' = [shared EXCEPT ![p] = IF line'[p] = <<>> THEN None ELSE published]
        /\ waited' = waited \ {c}

Return(c, result, published) ==
    /\ Goto(c, "returned")
    /\ answer' = [answer EXCEPT ![c] = result]
    /\ Leave(c, published)

\* Variant: the blocking task has no Arc of its own.
HoldsWhileAwaited(c) ==
    /\ PolicyOf[c] # "Offline"
    /\ pc[c] \in Leased \/ (pc[c] = "awaiting" /\ worker[c] # "none")

\* Variant: a call keeps the lease it once had until its process ends.
HoldsUntilExit(c) ==
    /\ PolicyOf[c] # "Offline"
    /\ worker[c] # "none" \/ pc[c] \in Leased
          \/ (pc[c] = "returned" /\ hit[c] # None)

\* The lease is taken while the call or its blocking task holds the Arc.  (The
\* lease of a dead process is recovered, as CacheLease shows.)
HoldsLease(c) ==
    /\ PolicyOf[c] # "Offline"
    /\ worker[c] # "none" \/ pc[c] \in Leased

LeaseFree == \A c \in Call : ~HoldsLease(c)

\* Variant: the baseline of a refresh is forgotten.
AcceptsAny(c, h) ==
    IF PolicyOf[c] = "Prefer" THEN Fresh(h.result) ELSE h.from = "v2"

\* Coordination::accepts, with same_refresh_generation.
Accepts(c, h) ==
    IF PolicyOf[c] = "Prefer"
    THEN Fresh(h.result)
    ELSE /\ h.from = "v2"
         /\ baseline[c] = None \/ h.result # baseline[c].result

AcceptsWithoutLease(c, h) == h.from = "v2" /\ Accepts(c, h)

\* The blocking task starts and goes on.
Start(c, phase) ==
    /\ worker' = [worker EXCEPT ![c] = phase]
    /\ Goto(c, "awaiting")

Proceed(c, phase) == worker' = [worker EXCEPT ![c] = phase] /\ UNCHANGED pc

\* It ends; the call goes on if it still waits for it.
Finish(c, label) ==
    /\ worker' = [worker EXCEPT ![c] = "none"]
    /\ pc' = [pc EXCEPT ![c] = IF @ = "awaiting" THEN label ELSE @]

\* acquire_flight: to the end of the line, or straight through the gate.
Join(c) ==
    LET p == ProcessOf[c] IN
        /\ line' = [line EXCEPT ![p] = Append(@, c)]
        /\ waited' = IF line[p] = <<>> THEN waited ELSE waited \cup {c}
        /\ UNCHANGED shared
        /\ Goto(c, "queued")

-----------------------------------------------------------------------------
(* query_until                                                             *)

Called(c) ==
    /\ pc[c] = "idle"
    /\ known' = [known EXCEPT ![c] = {file[v] : v \in {"v1", "v2"}} \cap Result]
    /\ IF PolicyOf[c] = "Offline"
       THEN Start(c, "read v2")
       ELSE Goto(c, "probe v2") /\ UNCHANGED worker
    /\ UNCHANGED <<file, durable, hit, baseline, flight, fetched, answer>>

\* The first probe of a call returns only a fresh v2 without a v1 to clean up;
\* a later one, while another call has the lease, what that call made.
Settles(c, h, legacy) ==
    /\ h # None
    /\ IF InFlight(c)
       THEN AcceptsWithoutLease(c, h)
       ELSE PolicyOf[c] = "Prefer" /\ h.from = "v2" /\ Fresh(h.result) /\ ~legacy

Probed(c, h, legacy) ==
    IF Settles(c, h, legacy)
    THEN Return(c, h.result, shared[ProcessOf[c]]) /\ UNCHANGED baseline
    ELSE /\ UNCHANGED answer
         /\ IF InFlight(c)
            THEN Goto(c, "leasing") /\ UNCHANGED <<baseline, flight>>
            ELSE Join(c) /\ baseline' = [baseline EXCEPT ![c] = h]

\* CacheStore::probe reads one file after the other, without the lease.
ProbeV2(c) ==
    /\ pc[c] = "probe v2"
    /\ LET h == [result |-> file["v2"], from |-> "v2"] IN
          IF file["v2"] \notin Result
          THEN /\ Goto(c, "probe v1")
               /\ See(c, None)
               /\ UNCHANGED <<baseline, flight, answer>>
          ELSE IF PolicyOf[c] = "Prefer" /\ ~InFlight(c) /\ Fresh(file["v2"])
          THEN /\ Goto(c, "probe legacy")
               /\ See(c, h)
               /\ UNCHANGED <<baseline, flight, answer>>
          ELSE /\ Probed(c, h, FALSE)
               /\ See(c, h)
    /\ UNCHANGED <<file, durable, worker, past>>

ProbeV1(c) ==
    /\ pc[c] = "probe v1"
    /\ LET h == IF file["v1"] \in Result
                THEN [result |-> file["v1"], from |-> "v1"] ELSE None IN
          /\ Probed(c, h, FALSE)
          /\ See(c, h)
    /\ UNCHANGED <<file, durable, worker, past>>

ProbeLegacy(c) ==
    /\ pc[c] = "probe legacy"
    /\ Probed(c, hit[c], file["v1"] # None)
    /\ UNCHANGED <<file, durable, worker, hit, past>>

-----------------------------------------------------------------------------
(* coordinated_query                                                       *)

\* The gate is ours: share the result of the call before, or start anew.
Enter(c) ==
    /\ pc[c] = "queued"
    /\ Head(line[ProcessOf[c]]) = c
    /\ LET p == ProcessOf[c] IN
          \/ /\ c \in waited /\ shared[p] # None
             /\ Return(c, shared[p], shared[p])
          \/ /\ c \notin waited \/ shared[p] = None
             /\ shared' = [shared EXCEPT ![p] = None]
             /\ Goto(c, "leasing")
             /\ UNCHANGED <<line, waited, answer>>
    /\ UNCHANGED <<file, durable, worker, hit, baseline, past>>

\* The lease is ours: read again, and move aside what does not decode.
Lease(c) ==
    /\ pc[c] = "leasing"
    /\ LeaseFree
    /\ Start(c, "read v2")
    /\ See(c, None)
    /\ UNCHANGED <<file, durable, baseline, flight, past, answer>>

LeaseBusy(c) ==
    /\ pc[c] = "leasing"
    /\ ~LeaseFree
    /\ Goto(c, "probe v2")
    /\ UNCHANGED <<file, durable, worker, hit, baseline, flight, past, answer>>

\* Variant: the v1 is removed first, to be written again as v2.
DecideToDrop(c) ==
    /\ pc[c] = "deciding"
    /\ IF hit[c] # None /\ Accepts(c, hit[c])
       THEN Start(c, "legacy")
       ELSE Goto(c, "fetching") /\ UNCHANGED worker
    /\ UNCHANGED <<file, durable, hit, baseline, flight, past, answer>>

\* finish_cache_hit: promote an accepted v1, clean up after an accepted v2.
Decide(c) ==
    /\ pc[c] = "deciding"
    /\ IF hit[c] # None /\ Accepts(c, hit[c])
       THEN Start(c, IF hit[c].from = "v1" THEN "write" ELSE "legacy")
       ELSE Goto(c, "fetching") /\ UNCHANGED worker
    /\ UNCHANGED <<file, durable, hit, baseline, flight, past, answer>>

\* network_query: rows to cache, rows not to cache (none, or not historical),
\* or an error.
Fetch(c) ==
    /\ pc[c] = "fetching"
    /\ fetched < MaxFetch
    /\ fetched' = fetched + 1
    /\ See(c, [result |-> fetched + 1, from |-> "network"])
    /\ Start(c, "write")
    /\ UNCHANGED <<file, durable, baseline, flight, known, answer>>

FetchSkipped(c) ==
    /\ pc[c] = "fetching"
    /\ fetched < MaxFetch
    /\ fetched' = fetched + 1
    /\ See(c, [result |-> fetched + 1, from |-> "network"])
    /\ Goto(c, "done")
    /\ UNCHANGED <<file, durable, worker, baseline, flight, known, answer>>

FetchFails(c) ==
    /\ pc[c] = "fetching"
    /\ Goto(c, "failed")
    /\ UNCHANGED <<file, durable, worker, hit, baseline, flight, past, answer>>

\* The call returns; what the network gave is for those who wait, too.
Reply(c) ==
    /\ pc[c] = "done"
    /\ Return(c, hit[c].result,
              IF hit[c].from = "network" THEN hit[c].result
              ELSE shared[ProcessOf[c]])
    /\ UNCHANGED <<file, durable, worker, hit, baseline, past>>

Fail(c) ==
    /\ pc[c] = "failed"
    /\ Return(c, None, shared[ProcessOf[c]])
    /\ UNCHANGED <<file, durable, worker, hit, baseline, past>>

\* Cancellation, the deadline, or an I/O error where the call waits: its
\* future is dropped, its blocking task is not.
Stop(c) ==
    /\ pc[c] \in {"queued", "leasing", "awaiting"} \cup Leased \cup Probing
    /\ Return(c, None, shared[ProcessOf[c]])
    /\ UNCHANGED <<file, durable, worker, hit, baseline, past>>

-----------------------------------------------------------------------------
(* The blocking tasks: CacheStore::read                                    *)

ReadV2(c) ==
    /\ worker[c] = "read v2"
    /\ \/ /\ file["v2"] \in Result
          /\ See(c, [result |-> file["v2"], from |-> "v2"])
          /\ Finish(c, IF PolicyOf[c] = "Offline" THEN "done" ELSE "deciding")
       \/ /\ file["v2"] = Corrupt /\ Proceed(c, "move v2") /\ UNCHANGED hit
       \/ /\ file["v2"] = None /\ Proceed(c, "read v1") /\ UNCHANGED hit
    /\ UNCHANGED <<file, durable, baseline, flight, past, answer>>

\* rename_if_unchanged: nothing, if the file was replaced before its last
\* look; else the pathname is renamed, whatever it names by now.
MoveV2(c) ==
    /\ worker[c] = "move v2"
    /\ \/ /\ file' = [file EXCEPT !["v2"] = None]
          /\ durable' = None
       \/ /\ file["v2"] # Corrupt
          /\ UNCHANGED <<file, durable>>
    /\ Proceed(c, "read v1")
    /\ UNCHANGED <<hit, baseline, flight, past, answer>>

ReadV1(c) ==
    /\ worker[c] = "read v1"
    /\ LET label == IF PolicyOf[c] # "Offline" THEN "deciding"
                    ELSE IF file["v1"] \in Result THEN "done" ELSE "failed" IN
          \/ /\ file["v1"] \in Result
             /\ See(c, [result |-> file["v1"], from |-> "v1"])
             /\ Finish(c, label)
          \/ file["v1"] = Corrupt /\ Proceed(c, "move v1") /\ UNCHANGED hit
          \/ file["v1"] = None /\ Finish(c, label) /\ UNCHANGED hit
    /\ UNCHANGED <<file, durable, baseline, flight, past, answer>>

MoveV1(c) ==
    /\ worker[c] = "move v1"
    /\ file' = [file EXCEPT !["v1"] = None]
    /\ Finish(c, IF PolicyOf[c] = "Offline" THEN "failed" ELSE "deciding")
    /\ UNCHANGED <<durable, hit, baseline, flight, past, answer>>

-----------------------------------------------------------------------------
(* ... promote_v1, write_v2_after_refresh and remove_legacy                *)

Write(c) ==
    /\ worker[c] = "write"
    /\ file' = [file EXCEPT !["v2"] = hit[c].result]
    /\ Proceed(c, "sync")
    /\ UNCHANGED <<durable, hit, baseline, flight, past, answer>>

\* The old entry stays.
WriteFails(c) ==
    /\ worker[c] = "write"
    /\ Finish(c, "failed")
    /\ UNCHANGED <<file, durable, hit, baseline, flight, past, answer>>

Sync(c) ==
    /\ worker[c] = "sync"
    /\ durable' = file["v2"]
    /\ Proceed(c, "legacy")
    /\ UNCHANGED <<file, hit, baseline, flight, past, answer>>

\* Variant: CommittedNotSynced is as good as written.
SyncFailsUnnoticed(c) ==
    /\ worker[c] = "sync"
    /\ Proceed(c, "legacy")
    /\ UNCHANGED <<file, durable, hit, baseline, flight, past, answer>>

\* CommittedNotSynced: the result stands, the v1 file stays.
SyncFails(c) ==
    /\ worker[c] = "sync"
    /\ Finish(c, "done")
    /\ UNCHANGED <<file, durable, hit, baseline, flight, past, answer>>

\* The v1 file goes: removed if valid, quarantined if not.
DropLegacy(c) ==
    /\ worker[c] = "legacy"
    /\ file' = [file EXCEPT !["v1"] = None]
    /\ Finish(c, "done")
    /\ UNCHANGED <<durable, hit, baseline, flight, past, answer>>

DropFails(c) ==
    /\ worker[c] = "legacy"
    /\ Finish(c, "failed")
    /\ UNCHANGED <<file, durable, hit, baseline, flight, past, answer>>

\* A process dies, with its calls, its blocking tasks and its flight.
Crash(p) ==
    LET its == {c \in Call : ProcessOf[c] = p} IN
        /\ \E c \in its : pc[c] # "dead"
        /\ pc' = [c \in Call |-> IF c \in its THEN "dead" ELSE pc[c]]
        /\ worker' = [c \in Call |-> IF c \in its THEN "none" ELSE worker[c]]
        /\ line' = [line EXCEPT ![p] = <<>>]
        /\ shared' = [shared EXCEPT ![p] = None]
        /\ waited' = waited \ its
        /\ UNCHANGED <<file, durable, hit, baseline, past, answer>>

-----------------------------------------------------------------------------
Query(c) ==
    \/ Called(c) \/ ProbeV2(c) \/ ProbeV1(c) \/ ProbeLegacy(c) \/ Enter(c)
    \/ Lease(c) \/ LeaseBusy(c) \/ Decide(c)
    \/ Fetch(c) \/ FetchSkipped(c) \/ FetchFails(c) \/ Reply(c) \/ Fail(c)

Task(c) ==
    \/ ReadV2(c) \/ MoveV2(c) \/ ReadV1(c) \/ MoveV1(c)
    \/ Write(c) \/ WriteFails(c) \/ Sync(c) \/ SyncFails(c)
    \/ DropLegacy(c) \/ DropFails(c)

Next ==
    \/ \E c \in Call : Query(c) \/ Task(c) \/ Stop(c)
    \/ \E p \in Process : Crash(p)

Spec == Init /\ [][Next]_vars

\* The runtime polls every future and runs every blocking task; the provider
\* answers or the transport gives up.  Nobody has to cancel.
FairSpec ==
    /\ Spec
    /\ \A c \in Call : WF_vars(Query(c)) /\ WF_vars(Task(c))

-----------------------------------------------------------------------------
(* Properties                                                              *)

\* A valid entry is not lost, by whatever mix of promotions, refreshes,
\* quarantines, failed writes, cancellations and deaths.
HasEntry == \E v \in {"v1", "v2"} : file[v] \in Result

EntryNeverLost == [][HasEntry => HasEntry']_vars

\* docs/CACHE.md: the v1 file is removed only after the v2 write is durable, so
\* that a power loss leaves one of them.  So does the call that wrote the v2.
\* (The next call to find that v2 does not ask: README, limit 4.)
WriterRemovesWhenDurable ==
    [][\A c \in Call :
          /\ worker[c] = "legacy" /\ hit[c].from # "v2"
          /\ file["v1"] \in Result /\ file'["v1"] = None
          => durable \in Result]_vars

\* The entry of a key is never replaced by an older result, not even by the
\* blocking task of a call that was cancelled long ago.
NeverGoesBack ==
    [][file["v2"] \in Result /\ file'["v2"] \in Result => file'["v2"] >= file["v2"]]_vars

\* docs/CACHE.md: --refresh forces a network result.  A refresh does not return
\* what was in the cache when it was called.
RefreshIsNew ==
    \A c \in Call :
        PolicyOf[c] = "Refresh" => answer[c] \notin known[c]

\* Every call returns, also when other processes contend for the lease and
\* when the one that holds it dies.
EveryCallReturns == \A c \in Call : <>(pc[c] \in {"returned", "dead"})
=============================================================================
