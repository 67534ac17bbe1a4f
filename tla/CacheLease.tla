----------------------------- MODULE CacheLease -----------------------------
(***************************************************************************)
(* The refresh lease of one cache key: state.rs, try_acquire_cache_lease,  *)
(* observe_cache_lease, steal_cache_lease_if_unchanged and the Drop of     *)
(* CacheDirectoryLease, called by cache.rs, try_acquire_refresh_lease.     *)
(*                                                                         *)
(* It looks like the lock of PlainLock and differs where it matters: the   *)
(* owner file is created in place and filled later, a lease may be stolen  *)
(* from a live owner by its age alone, a dead claim is deleted instead of  *)
(* adopted, and the tombstone of a steal is unique and is cleaned up.      *)
(***************************************************************************)
EXTENDS FiniteSets, Integers

CONSTANTS
    Contender,  \* processes that want to refresh the key
    Dir,        \* directory identities that mkdir may hand out
    None,       \* no directory, no owner, no claim
    MaxDead     \* bound: how many of them may die

ASSUME LeaseConstants ==
    None \notin Contender /\ None \notin Dir /\ MaxDead \in Nat

VARIABLES
    leaf,   \* the directory the lease pathname names, or None
    made,   \* the directories created so far
    gone,   \* the directories removed: no pathname leads to them
    owner,  \* owner[d]: who created owner.json in d, or None
    torn,   \* the directories whose owner.json is not completely written
    claim,  \* claim[d]: who the "steal" file of d names, or None
    age,    \* age[d] by the time in its owner.json: 0, 1 past
            \* ownerDeadAfterMs, 2 past absoluteAgeMs; 0 without a whole one
    still,  \* is the mtime of leaf ownerDeadAfterMs ago?
    alive,  \* the processes that kill(pid, 0) finds
    pc,     \* where each contender is
    fd,     \* the directory it has open
    seen    \* the owner.json it observed, or wrote; and is the mtime that it
            \* read before that ownerDeadAfterMs ago?

vars == <<leaf, made, gone, owner, torn, claim, age, still, alive, pc, fd, seen>>

files == <<leaf, made, gone, owner, torn, claim, age, still>>

Acquiring == {"opening", "creating", "filling", "fencing", "matching",
              "abandoning"}
Releasing == {"unlinking", "rematching", "removing"}
Stealing  == {"reading", "comparing", "claiming", "evicting", "publishing",
              "revalidating", "renaming", "withdrawing", "unclaiming",
              "discarding"}

WithoutFd == {"idle", "dead", "opening"}

View == [owner : Contender \cup {None}, torn : BOOLEAN, old : BOOLEAN]

NoView == [owner |-> None, torn |-> FALSE, old |-> FALSE]

TypeOK ==
    /\ leaf \in made \cup {None}
    /\ made \subseteq Dir
    /\ gone \subseteq made
    /\ owner \in [Dir -> Contender \cup {None}]
    /\ torn \subseteq {d \in Dir : owner[d] # None}
    /\ claim \in [Dir -> Contender \cup {None}]
    /\ age \in [Dir -> 0 .. 2]
    /\ still \in BOOLEAN
    /\ alive \subseteq Contender
    /\ pc \in [Contender -> {"idle", "held", "dead"} \cup Acquiring
                            \cup Releasing \cup Stealing]
    /\ fd \in [Contender -> Dir \cup {None}]
    /\ seen \in [Contender -> View]
    /\ \A p \in Contender : pc[p] \notin WithoutFd => fd[p] \in made

Init ==
    /\ leaf = None
    /\ made = {}
    /\ gone = {}
    /\ owner = [d \in Dir |-> None]
    /\ torn = {}
    /\ claim = [d \in Dir |-> None]
    /\ age = [d \in Dir |-> 0]
    /\ still = FALSE
    /\ alive = Contender
    /\ pc = [p \in Contender |-> "idle"]
    /\ fd = [p \in Contender |-> None]
    /\ seen = [p \in Contender |-> NoView]

-----------------------------------------------------------------------------
\* Helpers.

Goto(p, label) == pc' = [pc EXCEPT ![p] = label]

Return(p) ==
    /\ pc' = [pc EXCEPT ![p] = "idle"]
    /\ fd' = [fd EXCEPT ![p] = None]
    /\ seen' = [seen EXCEPT ![p] = NoView]

NoWholeOwner(d) == owner[d] = None \/ d \in torn

\* owner.json or a claim comes or goes: that renews the mtime.
Touch(d) == still' = (still /\ d # leaf)

\* The pathname leads to another directory, or to none.
Names(d) == leaf' = d /\ still' = FALSE

EmptyDir(d) == owner[d] = None /\ claim[d] = None

\* Variant: the process of the owner is not looked for.
StaleByAge(p) ==
    IF NoWholeOwner(fd[p]) THEN seen[p].old ELSE age[fd[p]] >= 1

\* cache_lease_is_stale: without a whole owner.json the mtime counts that was
\* read before the file.
Stale(p) ==
    LET d == fd[p] IN
    IF NoWholeOwner(d)
    THEN seen[p].old
    ELSE age[d] = 2 \/ (age[d] = 1 /\ owner[d] \notin alive)

\* cache_lease_owner_matches: the same file with the same bytes.
OwnerMatches(p) ==
    /\ owner[fd[p]] = seen[p].owner
    /\ (fd[p] \in torn) = seen[p].torn

-----------------------------------------------------------------------------
(* try_acquire_cache_lease                                                 *)

Mkdir(p) ==
    /\ pc[p] = "idle"
    /\ leaf = None
    /\ \E d \in Dir \ made : Names(d) /\ made' = made \cup {d}
    /\ Goto(p, "opening")
    /\ UNCHANGED <<gone, owner, torn, claim, age, alive, fd, seen>>

\* openat by pathname.
Open(p) ==
    /\ pc[p] = "opening"
    /\ \/ /\ leaf # None
          /\ fd' = [fd EXCEPT ![p] = leaf]
          /\ Goto(p, "creating")
          /\ UNCHANGED seen
       \/ /\ leaf = None
          /\ Return(p)
    /\ UNCHANGED <<files, alive>>

\* write_cache_lease_owner: O_CREAT | O_EXCL, an empty file at first.
CreateOwner(p) ==
    /\ pc[p] = "creating"
    /\ LET d == fd[p] IN
          IF owner[d] = None /\ d \notin gone
          THEN /\ owner' = [owner EXCEPT ![d] = p]
               /\ torn' = torn \cup {d}
               /\ Touch(d)
               /\ Goto(p, "filling")
          ELSE /\ Goto(p, "abandoning")
               /\ UNCHANGED <<owner, torn, still>>
    /\ UNCHANGED <<leaf, made, gone, claim, age, alive, fd, seen>>

\* ... then its bytes, and a look at what is there by now.  The time in them is
\* from before mkdir, that is from before the mtime.
FillOwner(p) ==
    /\ pc[p] = "filling"
    /\ LET d == fd[p] IN
          IF owner[d] = p
          THEN /\ torn' = torn \ {d}
               /\ age' = [age EXCEPT ![d] = IF still /\ leaf = d THEN 1 ELSE 0]
               /\ Goto(p, "fencing")
          ELSE /\ Goto(p, "abandoning")
               /\ UNCHANGED <<torn, age>>
    /\ UNCHANGED <<leaf, made, gone, owner, claim, still, alive, fd, seen>>

\* Variant: nobody looks for a claim.
FenceIgnored(p) ==
    /\ pc[p] = "fencing"
    /\ Goto(p, "matching")
    /\ UNCHANGED <<files, alive, fd, seen>>

\* The new owner makes way for a claim on its directory.
CheckFence(p) ==
    /\ pc[p] = "fencing"
    /\ Goto(p, IF claim[fd[p]] = None THEN "matching" ELSE "abandoning")
    /\ UNCHANGED <<files, alive, fd, seen>>

MatchPath(p) ==
    /\ pc[p] = "matching"
    /\ IF leaf = fd[p]
       THEN /\ Goto(p, "held")
            /\ seen' = [seen EXCEPT ![p].owner = p]
       ELSE /\ Goto(p, "abandoning")
            /\ UNCHANGED seen
    /\ UNCHANGED <<files, alive, fd>>

RemoveOwner(d) ==
    /\ owner' = [owner EXCEPT ![d] = None]
    /\ torn' = torn \ {d}
    /\ age' = [age EXCEPT ![d] = 0]
    /\ Touch(d)

\* abandon_new_cache_lease: unlink owner.json, whoever created it.
Abandon(p) ==
    /\ pc[p] = "abandoning"
    /\ IF owner[fd[p]] = None
       THEN UNCHANGED <<owner, torn, age, still>>
       ELSE RemoveOwner(fd[p])
    /\ Return(p)
    /\ UNCHANGED <<leaf, made, gone, claim, alive>>

-----------------------------------------------------------------------------
(* Drop of CacheDirectoryLease: cleanup_cache_lease_directory              *)

\* The descriptor of the acquisition is kept; nothing is reopened.
Clean(p) ==
    /\ pc[p] = "held"
    /\ IF leaf = fd[p] /\ OwnerMatches(p)
       THEN Goto(p, "unlinking") /\ UNCHANGED <<fd, seen>>
       ELSE Return(p)
    /\ UNCHANGED <<files, alive>>

CleanOwner(p) ==
    /\ pc[p] = "unlinking"
    /\ IF owner[fd[p]] = None
       THEN Return(p) /\ UNCHANGED <<owner, torn, age, still>>
       ELSE RemoveOwner(fd[p]) /\ Goto(p, "rematching") /\ UNCHANGED <<fd, seen>>
    /\ UNCHANGED <<leaf, made, gone, claim, alive>>

CleanMatch(p) ==
    /\ pc[p] = "rematching"
    /\ IF leaf = fd[p]
       THEN Goto(p, "removing") /\ UNCHANGED <<fd, seen>>
       ELSE Return(p)
    /\ UNCHANGED <<files, alive>>

\* rmdir by pathname.
CleanRmdir(p) ==
    /\ pc[p] = "removing"
    /\ IF leaf # None /\ EmptyDir(leaf)
       THEN Names(None) /\ gone' = gone \cup {leaf}
       ELSE UNCHANGED <<leaf, still, gone>>
    /\ Return(p)
    /\ UNCHANGED <<made, owner, torn, claim, age, alive>>

-----------------------------------------------------------------------------
(* observe_cache_lease and steal_cache_lease_if_unchanged                  *)

\* mkdir found the lease in the way, or delete_stale_leases of prune and clear
\* came upon it: openat by pathname and fstat.  The mtime is read here and kept.
Observe(p) ==
    /\ pc[p] = "idle"
    /\ leaf # None
    /\ fd' = [fd EXCEPT ![p] = leaf]
    /\ seen' = [seen EXCEPT ![p].old = still]
    /\ Goto(p, "reading")
    /\ UNCHANGED <<files, alive>>

\* ... owner.json is read afterwards, and the two are judged together.
ReadOwner(p) ==
    /\ pc[p] = "reading"
    /\ IF Stale(p)
       THEN /\ seen' = [seen EXCEPT ![p] =
                   [owner |-> owner[fd[p]], torn |-> fd[p] \in torn, old |-> FALSE]]
            /\ Goto(p, "comparing")
            /\ UNCHANGED fd
       ELSE Return(p)
    /\ UNCHANGED <<files, alive>>

Compare(p) ==
    /\ pc[p] = "comparing"
    /\ IF leaf = fd[p] /\ OwnerMatches(p)
       THEN Goto(p, "claiming") /\ UNCHANGED <<fd, seen>>
       ELSE Return(p)
    /\ UNCHANGED <<files, alive>>

\* Variant: any claim wins, a dead one too.
NeverEvict(p) ==
    /\ pc[p] = "claiming"
    /\ \/ claim[fd[p]] # None /\ Return(p)
       \/ claim[fd[p]] = None /\ Goto(p, "publishing") /\ UNCHANGED <<fd, seen>>
    /\ UNCHANGED <<files, alive>>

\* A live claim wins, a dead one is to be deleted, without one publish ours.
ReadClaim(p) ==
    /\ pc[p] = "claiming"
    /\ LET c == claim[fd[p]] IN
          \/ c \in alive /\ Return(p)
          \/ /\ c # None /\ c \notin alive
             /\ Goto(p, "evicting")
             /\ UNCHANGED <<fd, seen>>
          \/ /\ c = None
             /\ Goto(p, "publishing")
             /\ UNCHANGED <<fd, seen>>
    /\ UNCHANGED <<files, alive>>

\* release_steal_claim of the dead claim that was read: the name is unlinked,
\* whatever it names by now.
Evict(p) ==
    /\ pc[p] = "evicting"
    /\ claim' = [claim EXCEPT ![fd[p]] = None]
    /\ Goto(p, "publishing")
    /\ Touch(fd[p])
    /\ UNCHANGED <<leaf, made, gone, owner, torn, age, alive, fd, seen>>

PublishClaim(p) ==
    /\ pc[p] = "publishing"
    /\ LET d == fd[p] IN
          IF claim[d] = None /\ d \notin gone
          THEN /\ claim' = [claim EXCEPT ![d] = p]
               /\ Goto(p, "revalidating")
               /\ UNCHANGED <<fd, seen>>
          ELSE Return(p) /\ UNCHANGED claim
    /\ Touch(fd[p])
    /\ UNCHANGED <<leaf, made, gone, owner, torn, age, alive>>

Revalidate(p) ==
    /\ pc[p] = "revalidating"
    /\ Goto(p, IF leaf = fd[p] /\ OwnerMatches(p) /\ claim[fd[p]] = p
               THEN "renaming" ELSE "withdrawing")
    /\ UNCHANGED <<files, alive, fd, seen>>

\* renameat to a tombstone with a fresh name; then the claim is released and
\* the tombstone is removed if it is the observed directory.
Rename(p) ==
    /\ pc[p] = "renaming"
    /\ IF leaf # None
       THEN /\ Names(None)
            /\ Goto(p, IF leaf = fd[p] THEN "discarding" ELSE "withdrawing")
       ELSE /\ UNCHANGED <<leaf, still>>
            /\ Goto(p, "withdrawing")
    /\ UNCHANGED <<made, gone, owner, torn, claim, age, alive, fd, seen>>

\* release_steal_claim of our own claim: read and compare, then unlink.
Withdraw(p) ==
    /\ pc[p] = "withdrawing"
    /\ IF claim[fd[p]] = p
       THEN Goto(p, "unclaiming") /\ UNCHANGED <<fd, seen>>
       ELSE Return(p)
    /\ UNCHANGED <<files, alive>>

Unclaim(p) ==
    /\ pc[p] = "unclaiming"
    /\ claim' = [claim EXCEPT ![fd[p]] = None]
    /\ Touch(fd[p])
    /\ Return(p)
    /\ UNCHANGED <<leaf, made, gone, owner, torn, age, alive>>

\* The tombstone's name is nobody else's: the claim goes, and the observed
\* owner and the directory, if the owner is still the observed one.
Discard(p) ==
    /\ pc[p] = "discarding"
    /\ LET d == fd[p] IN
          /\ claim' = [claim EXCEPT ![d] = IF @ = p THEN None ELSE @]
          /\ IF OwnerMatches(p)
             THEN /\ RemoveOwner(d)
                  /\ gone' = IF claim'[d] = None THEN gone \cup {d} ELSE gone
             ELSE /\ Touch(d)
                  /\ UNCHANGED <<owner, torn, age, gone>>
    /\ Return(p)
    /\ UNCHANGED <<leaf, made, alive>>

-----------------------------------------------------------------------------
(* The environment                                                         *)

Crash(p) ==
    /\ p \in alive
    /\ Cardinality(Contender \ alive) < MaxDead
    /\ alive' = alive \ {p}
    /\ pc' = [pc EXCEPT ![p] = "dead"]
    /\ fd' = [fd EXCEPT ![p] = None]
    /\ seen' = [seen EXCEPT ![p] = NoView]
    /\ UNCHANGED files

\* Half a minute passes, or more: of the mtime of the directory that the
\* pathname leads to, and of the time in its owner.json ...
GrowOld ==
    /\ leaf # None
    /\ still' = TRUE
    /\ \E a \in 0 .. 2 :
          /\ IF NoWholeOwner(leaf) THEN a = 0 ELSE a >= 1 /\ a >= age[leaf]
          /\ age' = [age EXCEPT ![leaf] = a]
    /\ UNCHANGED <<leaf, made, gone, owner, torn, claim, alive, pc, fd, seen>>

\* ... and of the mtime an observer read, renewed since or not.
ViewGrowsOld(p) ==
    /\ pc[p] = "reading"
    /\ ~seen[p].old
    /\ seen' = [seen EXCEPT ![p].old = TRUE]
    /\ UNCHANGED <<files, alive, pc, fd>>

Acquire(p) ==
    \/ Mkdir(p) \/ Open(p) \/ CreateOwner(p) \/ FillOwner(p)
    \/ CheckFence(p) \/ MatchPath(p) \/ Abandon(p)

Drop(p) ==
    \/ Clean(p) \/ CleanOwner(p) \/ CleanMatch(p) \/ CleanRmdir(p)

Steal(p) ==
    \/ Observe(p) \/ ReadOwner(p) \/ Compare(p) \/ ReadClaim(p) \/ Evict(p) \/ PublishClaim(p)
    \/ Revalidate(p) \/ Rename(p) \/ Withdraw(p) \/ Unclaim(p) \/ Discard(p)

Step(p) == Acquire(p) \/ Drop(p) \/ Steal(p)

Next ==
    \/ \E p \in Contender : Step(p) \/ Crash(p) \/ ViewGrowsOld(p)
    \/ GrowOld

Fairness ==
    /\ \A p \in Contender : WF_vars(Step(p))
    /\ WF_vars(GrowOld)

Spec == Init /\ [][Next]_vars

-----------------------------------------------------------------------------
(* Properties                                                              *)

Holds(p) == pc[p] = "held"

\* release_steal_claim unlinks the dead claim that was read, or nothing.
EvictsDead == \A p \in Contender : Evict(p) => claim[fd[p]] \notin alive

EvictsOnlyTheDead == [][EvictsDead]_vars

\* Its owner.json is where it wrote it, and younger than the absolute age.
Intact(p) == Holds(p) /\ owner[fd[p]] = p /\ age[fd[p]] < 2

\* Two processes hold the lease of a key at once only if the owner.json of one
\* was taken from it or is past the absolute age, whoever pauses and for how
\* long, and whatever a recovery saw before it went ahead.
LeaseExclusion ==
    \A p, q \in Contender : Intact(p) /\ Intact(q) => p = q

\* docs/CACHE.md: a replacement owner cannot be removed accidentally.  A
\* recovery that takes away a lease with an owner takes the one it observed.
RecoverySparesReplacement ==
    [][\A p \in Contender :
          Rename(p) /\ leaf # None /\ owner[leaf] # None => leaf = fd[p]]_vars

\* A live holder whose owner.json is in place loses its lease to nobody
\* before the absolute age, however slowly it and the others went about it.
LiveHolderLosesOnlyAged ==
    [][\A p \in Contender :
          /\ Holds(p)
          /\ leaf = fd[p]
          /\ owner[fd[p]] = p
          /\ leaf' # leaf
          => age[fd[p]] = 2]_vars

\* A lease whose owner died is taken over, whoever else dies on the way.
DeadOwner(d) == leaf = d /\ owner[d] # None /\ owner[d] \notin alive

DeadLeaseRecovered ==
    \A d \in Dir : DeadOwner(d) ~> (leaf # d \/ alive = {})
=============================================================================
