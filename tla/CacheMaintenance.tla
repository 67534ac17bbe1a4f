-------------------------- MODULE CacheMaintenance --------------------------
(***************************************************************************)
(* Cache maintenance beside the processes that fill the cache: prune and   *)
(* clear of cache.rs, which list the cache, read it entry by entry, choose *)
(* what to remove and remove each entry unless it has changed since, all   *)
(* without the lease of any key; and remove_if_unchanged below them, which *)
(* compares and deletes one handle on Windows, and compares and then       *)
(* unlinks a pathname elsewhere.                                           *)
(*                                                                         *)
(* An entry is the number of the write that left it (its identity: device, *)
(* inode, size, times and bytes) and its fetched_at.  Stale leases are     *)
(* swept through the steal of CacheLease.                                  *)
(***************************************************************************)
EXTENDS Naturals, FiniteSets, SequencesExt

CONSTANTS
    MtJob,     \* maintenance calls in flight, of any process
    MtKey,     \* operation and date of an entry
    MtLegacy,  \* the keys that a release before v2 may have left entries of
    MtBound,   \* the max_entries and the older_than that prune is given
    MtWrites,  \* bound: how many writes race with the calls
    MtNone     \* no entry

ASSUME MaintenanceConstants ==
    /\ IsFiniteSet(MtKey) /\ MtLegacy \subseteq MtKey
    /\ MtBound \in Nat \ {0}
    /\ MtWrites \in Nat
    /\ MtNone \notin [id : Nat, fetched : Nat]

VARIABLES
    mtByHandle,  \* does remove_if_unchanged delete what it compared?
    mtDisk,      \* mtDisk[path]: the entry there, or MtNone
    mtTemp,      \* mtTemp[path]: its temporary file: "none", "young", "stale"
    mtWrites,    \* writes so far
    mtPc,        \* where each call is
    mtRule,      \* what it removes
    mtLeft,      \* the listed paths it has still to read
    mtSeen,      \* the entries and stale temporaries it has read
    mtTargets,   \* what it has still to remove
    mtQuiet,     \* nobody has written since it started
    mtReplaced   \* has an unlink by name hit a replacement?

mtVars == <<mtByHandle, mtDisk, mtTemp, mtWrites, mtPc, mtRule, mtLeft, mtSeen,
            mtTargets, mtQuiet, mtReplaced>>

mtCall == <<mtPc, mtRule, mtLeft, mtSeen, mtTargets, mtReplaced>>

\* The pathnames of either form: cache/<date>/ and cache/v2/<date>/.
MtPath == ({"v1"} \X MtLegacy) \cup ({"v2"} \X MtKey)

\* Directories are listed in order, dates before "v2".
MtOrder ==
    CHOOSE s \in SetToSeqs(MtPath) :
        \A i, j \in DOMAIN s : s[i][1] = "v1" /\ s[j][1] = "v2" => i < j

Earlier(path, q) ==
    \E i, j \in DOMAIN MtOrder : i < j /\ MtOrder[i] = path /\ MtOrder[j] = q

Rule == {"max", "older", "clear"}

Present == {path \in MtPath : mtDisk[path] # MtNone}

MaintenanceInit ==
    /\ mtByHandle \in BOOLEAN
    /\ mtDisk \in [MtPath -> [id : {0}, fetched : 0..1] \cup {MtNone}]
    /\ mtTemp = [path \in MtPath |-> "none"]
    /\ mtWrites = 0
    /\ mtPc = [m \in MtJob |-> "idle"]
    /\ mtRule = [m \in MtJob |-> "max"]
    /\ mtLeft = [m \in MtJob |-> {}]
    /\ mtSeen = [m \in MtJob |-> {}]
    /\ mtTargets = [m \in MtJob |-> {}]
    /\ mtQuiet = [m \in MtJob |-> FALSE]
    /\ mtReplaced = FALSE

-----------------------------------------------------------------------------
(* prune and clear                                                         *)

\* enumerate_cache_paths: what the cache holds now; a max_entries above the
\* delete batch has been refused.
MtStart(m) ==
    /\ mtPc[m] = "idle"
    /\ \E rule \in Rule : mtRule' = [mtRule EXCEPT ![m] = rule]
    /\ mtPc' = [mtPc EXCEPT ![m] = "scanning"]
    /\ mtLeft' = [mtLeft EXCEPT ![m] =
                    {path \in MtPath : path \in Present \/ mtTemp[path] # "none"}]
    /\ mtQuiet' = [mtQuiet EXCEPT ![m] = TRUE]
    /\ UNCHANGED <<mtByHandle, mtDisk, mtTemp, mtWrites, mtSeen, mtTargets,
                   mtReplaced>>

\* recognize_cache_entry, is_stale_cache_temporary: what is at a listed path
\* when it is read.
MtObserved(path) ==
    {[path |-> path, id |-> e.id, fetched |-> e.fetched] :
        e \in {mtDisk[path]} \ {MtNone}} \cup
    {[path |-> path, temp |-> t] : t \in {mtTemp[path]} \cap {"stale"}}

\* scan_admin_entries reads the next listed path, in order.
MtScan(m) ==
    /\ mtPc[m] = "scanning"
    /\ \E path \in mtLeft[m] :
          /\ \A q \in mtLeft[m] : ~Earlier(q, path)
          /\ mtSeen' = [mtSeen EXCEPT ![m] = @ \cup MtObserved(path)]
          /\ mtLeft' = [mtLeft EXCEPT ![m] = @ \ {path}]
    /\ UNCHANGED <<mtByHandle, mtDisk, mtTemp, mtWrites, mtPc, mtRule,
                   mtTargets, mtQuiet, mtReplaced>>

Entries(seen) == {e \in seen : "id" \in DOMAIN e}

\* Variant: the oldest come first.
OldestFirst(e, f) ==
    \/ e.fetched < f.fetched
    \/ e.fetched = f.fetched /\ e.path[1] = "v2" /\ f.path[1] = "v1"

\* Newest first, v2 before v1, then by path.
Precedes(e, f) ==
    \/ e.fetched > f.fetched
    \/ e.fetched = f.fetched /\ e.path[1] = "v2" /\ f.path[1] = "v1"
    \/ e.fetched = f.fetched /\ e.path[1] = f.path[1] /\ Earlier(e.path, f.path)

\* Variant: one entry too many is kept.
SelectsButOne(rule, seen) ==
    {e \in Entries(seen) :
        rule = "max" =>
            Cardinality({f \in Entries(seen) : Precedes(f, e)}) > MtBound}

\* The entries that prune and clear set out to remove.
Selected(rule, seen) ==
    {e \in Entries(seen) :
        CASE rule = "clear" -> TRUE
          [] rule = "older" -> e.fetched < MtBound
          [] rule = "max" ->
                Cardinality({f \in Entries(seen) : Precedes(f, e)}) >= MtBound}

\* The stale temporaries go after the entries, whatever the rule.
MtChoose(m) ==
    /\ mtPc[m] = "scanning"
    /\ mtLeft[m] = {}
    /\ mtTargets' = [mtTargets EXCEPT ![m] =
            Selected(mtRule[m], mtSeen[m]) \cup (mtSeen[m] \ Entries(mtSeen[m]))]
    /\ mtSeen' = [mtSeen EXCEPT ![m] = {}]
    /\ mtPc' = [mtPc EXCEPT ![m] = "removing"]
    /\ UNCHANGED <<mtByHandle, mtDisk, mtTemp, mtWrites, mtRule, mtLeft, mtQuiet,
                   mtReplaced>>

\* Entries are removed before temporaries, in the order of the scan.
NextTarget(m, e) ==
    /\ e \in Entries(mtTargets[m])
    /\ \A f \in Entries(mtTargets[m]) : ~Earlier(f.path, e.path)

\* The path still names the entry that was read.
Unchanged(e) ==
    /\ mtDisk[e.path] # MtNone
    /\ mtDisk[e.path].id = e.id

Skip(m, e) == mtTargets' = [mtTargets EXCEPT ![m] = @ \ {e}]

Delete(path) == mtDisk' = [mtDisk EXCEPT ![path] = MtNone]

\* Windows: the handle that was compared is deleted, whatever the path names.
MtRemoveHandle(m) ==
    /\ mtPc[m] = "removing" /\ mtByHandle
    /\ \E e \in mtTargets[m] :
          /\ NextTarget(m, e)
          /\ IF Unchanged(e) THEN Delete(e.path) ELSE UNCHANGED mtDisk
          /\ Skip(m, e)
    /\ UNCHANGED <<mtByHandle, mtTemp, mtWrites, mtPc, mtRule, mtLeft, mtSeen,
                   mtQuiet, mtReplaced>>

\* Elsewhere the path is compared first ...
MtCompare(m) ==
    /\ mtPc[m] = "removing" /\ ~mtByHandle
    /\ \E e \in mtTargets[m] :
          /\ NextTarget(m, e)
          /\ IF Unchanged(e)
             THEN mtPc' = [mtPc EXCEPT ![m] = "unlinking"] /\ UNCHANGED mtTargets
             ELSE Skip(m, e) /\ UNCHANGED mtPc
    /\ UNCHANGED <<mtByHandle, mtDisk, mtTemp, mtWrites, mtRule, mtLeft, mtSeen,
                   mtQuiet, mtReplaced>>

\* The path was replaced between the comparison and the unlink.
Replaced(m) ==
    mtPc[m] = "unlinking" /\ \E e \in mtTargets[m] : NextTarget(m, e) /\ ~Unchanged(e)

\* ... and unlinked by name, whatever it names by now.
MtUnlink(m) ==
    /\ mtPc[m] = "unlinking"
    /\ \E e \in mtTargets[m] : NextTarget(m, e) /\ Delete(e.path) /\ Skip(m, e)
    /\ mtReplaced' = (mtReplaced \/ Replaced(m))
    /\ mtPc' = [mtPc EXCEPT ![m] = "removing"]
    /\ UNCHANGED <<mtByHandle, mtTemp, mtWrites, mtRule, mtLeft, mtSeen, mtQuiet>>

\* delete_stale_artifacts
MtRemoveTemp(m) ==
    /\ mtPc[m] = "removing"
    /\ Entries(mtTargets[m]) = {}
    /\ \E e \in mtTargets[m] :
          /\ mtTemp' = [mtTemp EXCEPT ![e.path] = IF @ = "stale" THEN "none" ELSE @]
          /\ Skip(m, e)
    /\ UNCHANGED <<mtByHandle, mtDisk, mtWrites, mtPc, mtRule, mtLeft, mtSeen,
                   mtQuiet, mtReplaced>>

\* The call is over.
MtForget(m) ==
    /\ mtPc' = [mtPc EXCEPT ![m] = "done"]
    /\ mtLeft' = [mtLeft EXCEPT ![m] = {}]
    /\ mtSeen' = [mtSeen EXCEPT ![m] = {}]
    /\ mtTargets' = [mtTargets EXCEPT ![m] = {}]
    /\ mtQuiet' = [mtQuiet EXCEPT ![m] = FALSE]
    /\ UNCHANGED <<mtByHandle, mtDisk, mtTemp, mtWrites, mtRule, mtReplaced>>

MtFinish(m) ==
    /\ mtPc[m] = "removing" /\ mtTargets[m] = {}
    /\ MtForget(m)

\* An entry that changes while it is read, an I/O error or the death of the
\* process ends the call wherever it is.
MtFail(m) ==
    /\ mtPc[m] \notin {"idle", "done"}
    /\ MtForget(m)

-----------------------------------------------------------------------------
(* The processes that fill the cache                                       *)

Disturb == mtQuiet' = [m \in MtJob |-> FALSE]

Write(path, fetched) ==
    /\ mtWrites < MtWrites
    /\ mtWrites' = mtWrites + 1
    /\ mtDisk' = [mtDisk EXCEPT ![path] = [id |-> mtWrites + 1, fetched |-> fetched]]
    /\ Disturb

\* write_v2_after_refresh: newer than everything there; the temporary it
\* renamed is gone.
MtRefresh(k) ==
    /\ Write(<<"v2", k>>, mtWrites + 2)
    /\ UNCHANGED <<mtByHandle, mtTemp, mtCall>>

\* promote_v1 copies an entry to its v2 path ...
MtPromote(k) ==
    /\ mtDisk[<<"v1", k>>] # MtNone /\ mtDisk[<<"v2", k>>] = MtNone
    /\ Write(<<"v2", k>>, mtDisk[<<"v1", k>>].fetched)
    /\ UNCHANGED <<mtByHandle, mtTemp, mtCall>>

\* ... and removes it, as a refresh does once its own entry is durable.
MtDropLegacy(k) ==
    /\ mtDisk[<<"v1", k>>] # MtNone /\ mtDisk[<<"v2", k>>] # MtNone
    /\ mtDisk[<<"v1", k>>].fetched <= mtDisk[<<"v2", k>>].fetched
    /\ mtWrites > 0
    /\ Delete(<<"v1", k>>)
    /\ Disturb
    /\ UNCHANGED <<mtByHandle, mtTemp, mtWrites, mtCall>>

\* A writer dies before its rename and leaves its temporary file ...
MtOrphanTemp(k) ==
    /\ mtTemp[<<"v2", k>>] = "none"
    /\ mtWrites < MtWrites
    /\ mtWrites' = mtWrites + 1
    /\ mtTemp' = [mtTemp EXCEPT ![<<"v2", k>>] = "young"]
    /\ Disturb
    /\ UNCHANGED <<mtByHandle, mtDisk, mtCall>>

\* ... which grows old.
MtTempAges(k) ==
    /\ mtTemp[<<"v2", k>>] = "young"
    /\ mtTemp' = [mtTemp EXCEPT ![<<"v2", k>>] = "stale"]
    /\ Disturb
    /\ UNCHANGED <<mtByHandle, mtDisk, mtWrites, mtCall>>

\* Bound: only keys without a legacy entry have temporaries.
MaintenanceNext ==
    \/ \E m \in MtJob :
          \/ MtStart(m) \/ MtScan(m) \/ MtChoose(m) \/ MtRemoveHandle(m)
          \/ MtCompare(m) \/ MtUnlink(m) \/ MtRemoveTemp(m) \/ MtFinish(m)
          \/ MtFail(m)
    \/ \E k \in MtKey : MtRefresh(k)
    \/ \E k \in MtKey \ MtLegacy : MtOrphanTemp(k) \/ MtTempAges(k)
    \/ \E k \in MtLegacy : MtPromote(k) \/ MtDropLegacy(k)

MaintenanceSpec == MaintenanceInit /\ [][MaintenanceNext]_mtVars

-----------------------------------------------------------------------------
(* Properties                                                              *)

\* Some entry is as recent as any.
Recent(disk, path) ==
    disk[path] # MtNone /\ \A q \in MtPath :
        disk[q] # MtNone => disk[q].fetched <= disk[path].fetched

\* As long as all that runs is prunes to one entry or more, none removes the
\* last copy of the most recent entry, however many prunes, refreshes and
\* promotions race and however stale their scans are, unless an unlink by name
\* hits a replacement, which a deletion by handle cannot.
PruneKeepsNewest ==
    [][\A m \in MtJob :
          /\ mtPc[m] \in {"removing", "unlinking"} /\ mtDisk' # mtDisk
          /\ mtTargets'[m] # mtTargets[m]
          /\ \A j \in MtJob : mtRule[j] = "max"
          => \/ mtReplaced'
             \/ \E path \in MtPath : Recent(mtDisk, path) /\ mtDisk'[path] = mtDisk[path]]_mtVars

\* A call during which nobody else writes leaves what it promises: no more
\* than max_entries, nothing older than asked, nothing at all after a clear,
\* and no stale temporary that was there when it looked.
UndisturbedMeetsRule ==
    \A m \in MtJob :
        mtPc[m] = "removing" /\ mtTargets[m] = {} /\ mtQuiet[m] =>
            /\ mtRule[m] = "max" => Cardinality(Present) <= MtBound
            /\ mtRule[m] = "older" =>
                  \A path \in Present : mtDisk[path].fetched >= MtBound
            /\ mtRule[m] = "clear" => Present = {}
            /\ \A path \in MtPath : mtTemp[path] # "stale"
=============================================================================
