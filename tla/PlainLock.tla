------------------------------ MODULE PlainLock ------------------------------
(***************************************************************************)
(* The directory lock that serialises every read-modify-write of the state *)
(* root (rate-limit.json, config.json, watchlist.json): state.rs,          *)
(* try_acquire_plain_lock, steal_plain_lock_if_stale and the Drop of       *)
(* PlainDirectoryLock, one action per system call that other processes can *)
(* see or disturb.                                                         *)
(*                                                                         *)
(* A lock is a directory at a well-known pathname (leaf) holding an        *)
(* "owner" file.  A contender that finds it stale publishes a "steal"      *)
(* claim inside it and renames it to a tombstone named after the claim.    *)
(* Directories have identities (device, inode); an open descriptor pins    *)
(* its directory, so an identity is not reused while anybody compares it.  *)
(***************************************************************************)
EXTENDS FiniteSets, Naturals

CONSTANTS
    Contender,  \* processes that compete for the lock, one owner token each
    Dir,        \* directory identities that mkdir may hand out
    None,       \* no directory, no owner, no claim
    LongPauses  \* may a live process dwell in the lock past staleAfterMs?

ASSUME NoneAssumption == None \notin Contender /\ None \notin Dir

ASSUME PauseAssumption == LongPauses \in BOOLEAN

VARIABLES
    leaf,    \* the directory the lock pathname names, or None
    made,    \* the directories created so far
    owner,   \* owner[d]: who the "owner" file of d names, or None
    claim,   \* claim[d]: who the "steal" file of d names, or None
    tomb,    \* tomb[<<c, d>>]: what the tombstone of c's claim on d names
    old,     \* the directories unmodified for longer than staleAfterMs
    alive,   \* the processes that kill(pid, 0) finds
    pc,      \* where each contender is in its current call
    fd,      \* the directory its descriptor has open (its own, when opening)
    seen     \* the owner a stealer observed, and the claim it relies on

vars == <<leaf, made, owner, claim, tomb, old, alive, pc, fd, seen>>

files == <<leaf, made, owner, claim, tomb, old>>

\* A contender that has a directory of its own, or shares one, is in one of
\* these until its call returns or its guard is dropped.
Acquiring == {"opening", "linking", "verifying", "fencing", "matching",
              "abandoning"}
Releasing == {"unlinking", "removing"}
Stealing  == {"inspecting", "observing", "claiming", "publishing",
              "revalidating", "renaming", "unclaiming"}

PC == {"idle", "held", "dead"} \cup Acquiring \cup Releasing \cup Stealing

\* Past its openat a call works through a descriptor.
WithoutFd == {"idle", "dead", "opening", "inspecting"}

NoView == [owner |-> None, claim |-> None]

TypeOK ==
    /\ leaf \in made \cup {None}
    /\ made \subseteq Dir
    /\ owner \in [Dir -> Contender \cup {None}]
    /\ claim \in [Dir -> Contender \cup {None}]
    /\ tomb \in [Contender \X Dir -> Dir \cup {None}]
    /\ old \subseteq Dir
    /\ alive \subseteq Contender
    /\ pc \in [Contender -> PC]
    /\ fd \in [Contender -> Dir \cup {None}]
    /\ seen \in [Contender -> [owner : Contender \cup {None},
                               claim : Contender \cup {None}]]
    /\ \A p \in Contender : pc[p] \notin WithoutFd => fd[p] \in made

Init ==
    /\ leaf = None
    /\ made = {}
    /\ owner = [d \in Dir |-> None]
    /\ claim = [d \in Dir |-> None]
    /\ tomb = [t \in Contender \X Dir |-> None]
    /\ old = {}
    /\ alive = Contender
    /\ pc = [p \in Contender |-> "idle"]
    /\ fd = [p \in Contender |-> None]
    /\ seen = [p \in Contender |-> NoView]

-----------------------------------------------------------------------------
\* Helpers.

\* No pathname leads to d any more: creating an entry in it fails (ENOENT).
Removed(d) == d # leaf /\ \A t \in DOMAIN tomb : tomb[t] # d

EmptyDir(d) == owner[d] = None /\ claim[d] = None

\* plain_lock_owner_is_alive: an absent owner is not alive.
IsAlive(p) == p \in alive

Goto(p, label) == pc' = [pc EXCEPT ![p] = label]

\* The call returns: the contender forgets its descriptor and observations.
Return(p) ==
    /\ pc' = [pc EXCEPT ![p] = "idle"]
    /\ fd' = [fd EXCEPT ![p] = None]
    /\ seen' = [seen EXCEPT ![p] = NoView]

\* Creating or unlinking an entry of d brings its mtime up to date.
Touch(d) == old' = old \ {d}

-----------------------------------------------------------------------------
(* try_acquire_plain_lock_with_sensitivity                                 *)

\* mkdirat succeeds.
Mkdir(p) ==
    /\ pc[p] = "idle"
    /\ leaf = None
    /\ \E d \in Dir \ made :
          /\ leaf' = d
          /\ made' = made \cup {d}
          /\ fd' = [fd EXCEPT ![p] = d]
    /\ Goto(p, "opening")
    /\ UNCHANGED <<owner, claim, tomb, old, alive, seen>>

\* mkdirat fails with EEXIST: the caller's loop turns to the stale-lock check.
MkdirExists(p) ==
    /\ pc[p] = "idle"
    /\ leaf # None
    /\ Goto(p, "inspecting")
    /\ UNCHANGED <<files, alive, fd, seen>>

\* openat BY PATHNAME: it opens whatever the pathname names by now.
Open(p) ==
    /\ pc[p] = "opening"
    /\ \/ /\ leaf # None
          /\ fd' = [fd EXCEPT ![p] = leaf]
          /\ Goto(p, "linking")
          /\ UNCHANGED seen
       \/ /\ leaf = None
          /\ Return(p)
    /\ UNCHANGED <<files, alive>>

\* write_lock_owner: a prepared candidate is hard-linked to "owner", which
\* fails when the name exists or the directory has been removed.
LinkOwner(p) ==
    /\ pc[p] = "linking"
    /\ LET d == fd[p] IN
          IF owner[d] = None /\ ~Removed(d)
          THEN /\ owner' = [owner EXCEPT ![d] = p]
               /\ Goto(p, "verifying")
          ELSE /\ Goto(p, "abandoning")
               /\ UNCHANGED owner
    /\ Touch(fd[p])
    /\ UNCHANGED <<leaf, made, claim, tomb, alive, fd, seen>>

\* write_lock_owner reads its own publication back.
VerifyOwner(p) ==
    /\ pc[p] = "verifying"
    /\ Goto(p, IF owner[fd[p]] = p THEN "fencing" ELSE "abandoning")
    /\ UNCHANGED <<files, alive, fd, seen>>

\* Variant: a published owner is taken for a lock without looking for claims.
SkipFence(p) ==
    /\ pc[p] = "fencing"
    /\ Goto(p, "matching")
    /\ UNCHANGED <<files, alive, fd, seen>>

\* No steal claim may exist once the owner is durable.
CheckFence(p) ==
    /\ pc[p] = "fencing"
    /\ Goto(p, IF claim[fd[p]] = None THEN "matching" ELSE "abandoning")
    /\ UNCHANGED <<files, alive, fd, seen>>

\* path_matches_directory: the pathname still names the opened directory.
MatchPath(p) ==
    /\ pc[p] = "matching"
    /\ Goto(p, IF leaf = fd[p] THEN "held" ELSE "abandoning")
    /\ UNCHANGED <<files, alive, fd, seen>>

\* abandon_new_lock: unlink "owner" through the descriptor, whoever wrote it,
\* and leave the directory to stale-lock recovery.
Abandon(p) ==
    /\ pc[p] = "abandoning"
    /\ owner' = [owner EXCEPT ![fd[p]] = None]
    /\ old' = IF owner[fd[p]] = None THEN old ELSE old \ {fd[p]}
    /\ Return(p)
    /\ UNCHANGED <<leaf, made, claim, tomb, alive>>

-----------------------------------------------------------------------------
(* Drop of PlainDirectoryLock                                              *)

\* Reopen the pathname and read its owner; do nothing unless it is ours.
DropOpen(p) ==
    /\ pc[p] = "held"
    /\ IF leaf # None /\ owner[leaf] = p
       THEN /\ fd' = [fd EXCEPT ![p] = leaf]
            /\ Goto(p, "unlinking")
            /\ UNCHANGED seen
       ELSE Return(p)
    /\ UNCHANGED <<files, alive>>

DropUnlink(p) ==
    /\ pc[p] = "unlinking"
    /\ IF owner[fd[p]] = None
       THEN /\ Return(p)
            /\ UNCHANGED <<owner, old>>
       ELSE /\ owner' = [owner EXCEPT ![fd[p]] = None]
            /\ Touch(fd[p])
            /\ Goto(p, "removing")
            /\ UNCHANGED <<fd, seen>>
    /\ UNCHANGED <<leaf, made, claim, tomb, alive>>

\* rmdir BY PATHNAME: it removes whatever empty directory is there by now.
DropRmdir(p) ==
    /\ pc[p] = "removing"
    /\ leaf' = IF leaf # None /\ EmptyDir(leaf) THEN None ELSE leaf
    /\ Return(p)
    /\ UNCHANGED <<made, owner, claim, tomb, old, alive>>

-----------------------------------------------------------------------------
(* steal_plain_lock_if_stale_with_sensitivity                              *)

\* inspect_plain_lock: open the pathname and stat the directory.
Inspect(p) ==
    /\ pc[p] = "inspecting"
    /\ IF leaf # None /\ leaf \in old
       THEN /\ fd' = [fd EXCEPT ![p] = leaf]
            /\ Goto(p, "observing")
            /\ UNCHANGED seen
       ELSE Return(p)
    /\ UNCHANGED <<files, alive>>

\* ... then read its owner, and stop if that process lives.
Observe(p) ==
    /\ pc[p] = "observing"
    /\ IF IsAlive(owner[fd[p]])
       THEN Return(p)
       ELSE /\ seen' = [seen EXCEPT ![p].owner = owner[fd[p]]]
            /\ Goto(p, "claiming")
            /\ UNCHANGED fd
    /\ UNCHANGED <<files, alive>>

\* Variant: every claim is respected, a dead claimant's too.
NeverAdopt(p) ==
    /\ pc[p] = "claiming"
    /\ IF claim[fd[p]] = None
       THEN Goto(p, "publishing") /\ UNCHANGED <<fd, seen>>
       ELSE Return(p)
    /\ UNCHANGED <<files, alive>>

\* Give way to a live claim, adopt a dead claimant's, or publish our own.
ReadClaim(p) ==
    /\ pc[p] = "claiming"
    /\ LET c == claim[fd[p]] IN
          \/ /\ IsAlive(c)
             /\ Return(p)
          \/ /\ c # None /\ ~IsAlive(c)
             /\ seen' = [seen EXCEPT ![p].claim = c]
             /\ Goto(p, "revalidating")
             /\ UNCHANGED fd
          \/ /\ c = None
             /\ Goto(p, "publishing")
             /\ UNCHANGED <<fd, seen>>
    /\ UNCHANGED <<files, alive>>

\* Variant: the prepared candidate is renamed to "steal", over another's.
PublishOver(p) ==
    /\ pc[p] = "publishing"
    /\ IF Removed(fd[p])
       THEN Return(p) /\ UNCHANGED claim
       ELSE /\ claim' = [claim EXCEPT ![fd[p]] = p]
            /\ seen' = [seen EXCEPT ![p].claim = p]
            /\ Goto(p, "revalidating")
            /\ UNCHANGED fd
    /\ Touch(fd[p])
    /\ UNCHANGED <<leaf, made, owner, tomb, alive>>

\* publish_steal_claim: a prepared candidate is hard-linked to "steal".
PublishClaim(p) ==
    /\ pc[p] = "publishing"
    /\ LET d == fd[p] IN
          IF claim[d] = None /\ ~Removed(d)
          THEN /\ claim' = [claim EXCEPT ![d] = p]
               /\ seen' = [seen EXCEPT ![p].claim = p]
               /\ Goto(p, "revalidating")
               /\ UNCHANGED fd
          ELSE /\ Return(p)
               /\ UNCHANGED claim
    /\ Touch(fd[p])
    /\ UNCHANGED <<leaf, made, owner, tomb, alive>>

\* What a stealer does when it gives up: its own claim is withdrawn, an
\* adopted one stays.
GiveUp(p) ==
    IF seen[p].claim = p
    THEN Goto(p, "unclaiming") /\ UNCHANGED <<fd, seen>>
    ELSE Return(p)

\* Same directory at the pathname, same owner, still dead, same claim.
Unchanged(p) ==
    /\ leaf = fd[p]
    /\ owner[fd[p]] = seen[p].owner
    /\ ~IsAlive(seen[p].owner)
    /\ claim[fd[p]] = seen[p].claim

Revalidate(p) ==
    /\ pc[p] = "revalidating"
    /\ IF Unchanged(p)
       THEN Goto(p, "renaming") /\ UNCHANGED <<fd, seen>>
       ELSE GiveUp(p)
    /\ UNCHANGED <<files, alive>>

\* Variant: tombstones do not fence later adopters of the same claim.
CanAlwaysMove(p) == leaf # None

\* rename(2) moves whatever directory the pathname names by now, unless the
\* tombstone already exists and is not empty.
CanMove(p) ==
    LET t == tomb[<<seen[p].claim, fd[p]>>] IN
        leaf # None /\ (t = None \/ EmptyDir(t))

\* move_plain_lock_to_tombstone
Rename(p) ==
    /\ pc[p] = "renaming"
    /\ IF CanMove(p)
       THEN /\ tomb' = [tomb EXCEPT ![<<seen[p].claim, fd[p]>>] = leaf]
            /\ leaf' = None
            /\ Return(p)
       ELSE /\ GiveUp(p)
            /\ UNCHANGED <<leaf, tomb>>
    /\ UNCHANGED <<made, owner, claim, old, alive>>

\* release_steal_claim
Unclaim(p) ==
    /\ pc[p] = "unclaiming"
    /\ IF claim[fd[p]] = p
       THEN /\ claim' = [claim EXCEPT ![fd[p]] = None]
            /\ Touch(fd[p])
       ELSE UNCHANGED <<claim, old>>
    /\ Return(p)
    /\ UNCHANGED <<leaf, made, owner, tomb, alive>>

-----------------------------------------------------------------------------
(* The environment                                                         *)

\* The process dies; its files stay.
Crash(p) ==
    /\ p \in alive
    /\ alive' = alive \ {p}
    /\ pc' = [pc EXCEPT ![p] = "dead"]
    /\ fd' = [fd EXCEPT ![p] = None]
    /\ seen' = [seen EXCEPT ![p] = NoView]
    /\ UNCHANGED files

InUse(d) ==
    \E p \in alive : fd[p] = d /\ pc[p] \in {"held"} \cup Acquiring \cup Releasing

\* staleAfterMs pass without a change to d.
Age(d) ==
    /\ d \in made \ old
    /\ LongPauses \/ ~InUse(d)
    /\ old' = old \cup {d}
    /\ UNCHANGED <<leaf, made, owner, claim, tomb, alive, pc, fd, seen>>

Acquire(p) ==
    \/ Mkdir(p) \/ MkdirExists(p) \/ Open(p) \/ LinkOwner(p) \/ VerifyOwner(p)
    \/ CheckFence(p) \/ MatchPath(p) \/ Abandon(p)

Drop(p) == DropOpen(p) \/ DropUnlink(p) \/ DropRmdir(p)

Steal(p) ==
    \/ Inspect(p) \/ Observe(p) \/ ReadClaim(p) \/ PublishClaim(p)
    \/ Revalidate(p) \/ Rename(p) \/ Unclaim(p)

Step(p) == Acquire(p) \/ Drop(p) \/ Steal(p)

Next ==
    \/ \E p \in Contender : Step(p) \/ Crash(p)
    \/ \E d \in Dir : Age(d)

Spec == Init /\ [][Next]_vars

\* Live processes keep running and time passes; nobody has to crash.
FairSpec ==
    /\ Spec
    /\ \A p \in Contender : WF_vars(Step(p))
    /\ \A d \in Dir : WF_vars(Age(d))

-----------------------------------------------------------------------------
(* Properties                                                              *)

\* The guard exists: reserve, approval and watchlist mutations run now.
Holds(p) == pc[p] = "held"

Abstract == INSTANCE AbstractLock
                WITH Process <- Contender, holder <- {p \in Contender : Holds(p)}

\* A guard is handed out only while no other is alive: two live processes are
\* never inside the lock.  True as long as no live process dwells in it past
\* staleAfterMs (LongPauses = FALSE).
ImplementsAbstractLock == Abstract!Spec

\* The claim fence: whatever pauses and crashes happen, a holder whose owner
\* file is still in place keeps the pathname, so that no second lock can be
\* created beside it.
PublishedHolderKeepsPath ==
    \A p \in Contender : Holds(p) /\ owner[fd[p]] = p => leaf = fd[p]

\* Hence two holders with their owner files in place are one holder.
PublishedMutualExclusion ==
    \A p, q \in Contender :
        Holds(p) /\ Holds(q) /\ owner[fd[p]] = p /\ owner[fd[q]] = q => p = q

\* A steal moves only the directory its claim was published in: the retained
\* tombstone of a claim stops the late adopters of that claim from moving a
\* successor's lock.
StealMovesOnlyTheClaimed ==
    [][\A t \in Contender \X Dir :
          tomb'[t] # tomb[t] => tomb'[t] = t[2] /\ claim[t[2]] = t[1]]_vars

\* Why both hold: an owner that saw no claim after publishing itself, and a
\* stealer that saw the dead owner again after publishing its claim, cannot
\* both go on.
ClaimFence ==
    \A p, q \in Contender :
        /\ pc[p] \in {"matching", "held"} /\ owner[fd[p]] = p
        /\ pc[q] = "renaming"
        => fd[p] # fd[q]

\* Only the living act.
OnlyLivingAct == \A p \in Contender : p \in alive <=> pc[p] # "dead"

\* A claim that a stealer relies on is in place, and stays: it is its own, or
\* its claimant is dead and will not withdraw it.
ReliesOnClaim(p) ==
    /\ seen[p].claim # None
          <=> pc[p] \in {"revalidating", "renaming", "unclaiming"}
    /\ seen[p].claim # None
          => /\ claim[fd[p]] = seen[p].claim
             /\ seen[p].claim = p \/ seen[p].claim \notin alive
    /\ seen[p].claim = p => tomb[<<p, fd[p]>>] = None
    /\ pc[p] = "unclaiming" => seen[p].claim = p

ReliedOnClaims == \A p \in Contender : ReliesOnClaim(p)

\* A tombstone retains the directory it is named for, fenced by its claim.
TombstonesRetained ==
    \A t \in Contender \X Dir :
        tomb[t] # None =>
            /\ tomb[t] = t[2] /\ claim[t[2]] = t[1]
            /\ t[2] \in made /\ leaf # t[2]

\* About to rename, a stealer finds at the pathname what it claimed, unless
\* an adopter of the same claim has already retained it.
RenameTarget ==
    \A p \in Contender :
        pc[p] = "renaming" =>
            leaf = fd[p] \/ tomb[<<seen[p].claim, fd[p]>>] = fd[p]

\* A lock left by a crash does not stay: while someone lives to contend, the
\* pathname is eventually freed of a directory whose owner is dead.
DeadOwner(d) == leaf = d /\ owner[d] # None /\ ~IsAlive(owner[d])

DeadLockRecovered ==
    \A d \in Dir : DeadOwner(d) ~> (leaf # d \/ alive = {})
=============================================================================
