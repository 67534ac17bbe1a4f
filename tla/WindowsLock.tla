---------------------------- MODULE WindowsLock -----------------------------
(***************************************************************************)
(* The directory lock of the state root on Windows: state_windows.rs,      *)
(* try_acquire_plain_lock, steal_plain_lock_if_stale and the Drop of       *)
(* PlainDirectoryLock.  The protocol is that of PlainLock, but everything  *)
(* goes through handles: creating the directory returns its handle, a      *)
(* stealer renames the directory it inspected and no other, and a file is  *)
(* deleted by the handle its content was compared through.                 *)
(*                                                                         *)
(* A deletion by handle only marks the object: its name stays, and can be  *)
(* neither opened nor created, until the last handle on it is closed.  So  *)
(* a contender that merely reads the owner can make the directory's        *)
(* removal fail, and a directory can outlive its removal.                  *)
(***************************************************************************)
EXTENDS FiniteSets, Naturals

CONSTANTS
    Contender,  \* processes that compete for the lock, one owner token each
    Dir,        \* directories that creation may hand out
    None        \* no directory, no owner, no claim, no file

ASSUME WindowsNone == None \notin Contender /\ None \notin Dir

VARIABLES
    leaf,      \* the directory the lock's name names, or None
    made,      \* the directories created so far
    owner,     \* owner[d]: who the "owner" file of d names, or None
    claim,     \* claim[d]: who the "steal" file of d names, or None
    doomed,    \* <<d, w>>: w of d ("dir", "owner", "claim") is delete-pending
    retained,  \* the directories renamed to the tombstone of their claim
    old,       \* the directories unmodified for longer than staleAfterMs
    alive,     \* the processes that OpenProcess finds
    pc,        \* where each contender is in its current call
    fd,        \* the directory it has a handle on, or None
    hand,      \* the file of fd it has a handle on: "owner", "claim" or None
    seen       \* the owner a stealer observed, and the claim it relies on

vars == <<leaf, made, owner, claim, doomed, retained, old, alive, pc, fd,
          hand, seen>>

File == {"owner", "claim"}

\* A contender with a directory of its own is in one of these.
Creating == {"linking", "fencing", "matching", "abandoning", "removing"}
Stealing == {"inspecting", "glancing", "observing", "claiming", "publishing",
             "reviewing", "rechecking", "comparing", "renaming",
             "withdrawing", "leaving"}

PC == {"idle", "held", "dead"} \cup Creating \cup Stealing

WithoutDir == {"idle", "dead", "inspecting"}

NoView == [owner |-> None, claim |-> None]

TypeOK ==
    /\ leaf \in made \cup {None}
    /\ made \subseteq Dir
    /\ owner \in [Dir -> Contender \cup {None}]
    /\ claim \in [Dir -> Contender \cup {None}]
    /\ doomed \subseteq made \X (File \cup {"dir"})
    /\ retained \subseteq made
    /\ old \subseteq Dir
    /\ alive \subseteq Contender
    /\ pc \in [Contender -> PC]
    /\ fd \in [Contender -> Dir \cup {None}]
    /\ hand \in [Contender -> File \cup {None}]
    /\ seen \in [Contender -> [owner : Contender \cup {None},
                               claim : Contender \cup {None}]]
    /\ \A p \in Contender : pc[p] \notin WithoutDir => fd[p] \in made

\* The processes of P begin, after the locks of D have come and gone.
Starts(P, D) ==
    /\ leaf = None
    /\ made = D
    /\ owner = [d \in Dir |-> None]
    /\ claim = [d \in Dir |-> None]
    /\ doomed = {}
    /\ retained = {}
    /\ old = {}
    /\ alive = P
    /\ pc = [p \in Contender |-> IF p \in P THEN "idle" ELSE "dead"]
    /\ fd = [p \in Contender |-> None]
    /\ hand = [p \in Contender |-> None]
    /\ seen = [p \in Contender |-> NoView]

Init == Starts(Contender, {})

-----------------------------------------------------------------------------
\* Helpers.

\* plain_lock_owner_is_alive: an absent owner is not alive.
IsAlive(p) == p \in alive

Goto(p, label) == pc' = [pc EXCEPT ![p] = label]

\* Handles become fds and hands, and D is delete-pending: what is
\* delete-pending and has no handle on it any more disappears.
Settle(D, fds, hands) ==
    LET Gone(x) == \A q \in Contender :
            ~(fds[q] = x[1] /\ (x[2] = "dir" \/ hands[q] = x[2]))
        gone == {x \in D : Gone(x)}
    IN  /\ doomed' = D \ gone
        /\ owner' = [d \in Dir |-> IF <<d, "owner">> \in gone THEN None ELSE owner[d]]
        /\ claim' = [d \in Dir |-> IF <<d, "claim">> \in gone THEN None ELSE claim[d]]
        /\ leaf' = IF <<leaf, "dir">> \in gone THEN None ELSE leaf
        /\ old' = old \ {x[1] : x \in gone}
        /\ fd' = fds
        /\ hand' = hands

\* Opening w in the directory: absent (None), delete-pending (an error), or
\* there, and then the handle stays open until CloseFile.
CanOpen(d, w) == <<d, w>> \notin doomed

OpenFile(p, w, content) ==
    hand' = [hand EXCEPT ![p] = IF content = None THEN None ELSE w]

files == <<leaf, made, owner, claim, doomed, retained, old>>

-----------------------------------------------------------------------------
(* try_acquire_plain_lock_with_sensitivity                                 *)

\* create_child_directory: the handle is that of the directory created.
Create(p) ==
    /\ pc[p] = "idle"
    /\ leaf = None
    /\ \E d \in Dir \ made :
          /\ leaf' = d
          /\ made' = made \cup {d}
          /\ fd' = [fd EXCEPT ![p] = d]
    /\ Goto(p, "linking")
    /\ UNCHANGED <<owner, claim, doomed, retained, old, alive, hand, seen>>

\* A collision, with a delete-pending directory too: the caller's loop turns
\* to the stale-lock check.
Collide(p) ==
    /\ pc[p] = "idle"
    /\ leaf # None
    /\ Goto(p, "inspecting")
    /\ UNCHANGED <<files, alive, fd, hand, seen>>

\* publish_protocol_file: a prepared candidate is hard-linked to "owner"
\* through the directory's handle, wherever that directory has been moved.
LinkOwner(p) ==
    /\ pc[p] = "linking"
    /\ owner' = [owner EXCEPT ![fd[p]] = p]
    /\ old' = old \ {fd[p]}
    /\ Goto(p, "fencing")
    /\ UNCHANGED <<leaf, made, claim, doomed, retained, alive, fd, hand, seen>>

\* Variant: a published owner is taken for a lock without looking for claims.
SkipFence(p) ==
    /\ pc[p] = "fencing"
    /\ Goto(p, "matching")
    /\ UNCHANGED <<files, alive, fd, hand, seen>>

\* No steal claim may exist once the owner is durable; one that cannot be
\* read is an error.
CheckFence(p) ==
    /\ pc[p] = "fencing"
    /\ OpenFile(p, "claim", IF CanOpen(fd[p], "claim") THEN claim[fd[p]] ELSE None)
    /\ Goto(p, IF claim[fd[p]] = None THEN "matching" ELSE "abandoning")
    /\ UNCHANGED <<files, alive, fd, seen>>

\* path_matches_directory: the name still names the created directory.
MatchPath(p) ==
    /\ pc[p] = "matching"
    /\ Goto(p, IF leaf = fd[p] THEN "held" ELSE "abandoning")
    /\ UNCHANGED <<files, alive, fd, hand, seen>>

\* release_protocol_file of the published owner, on the way out of a failed
\* acquisition (abandon_new_lock) or of the guard's Drop.
ReleaseOwner(p) ==
    /\ pc[p] \in {"abandoning", "held"}
    /\ hand[p] = None
    /\ Settle(doomed \cup {<<fd[p], "owner">>}, fd, hand)
    /\ Goto(p, "removing")
    /\ UNCHANGED <<made, retained, alive, seen>>

\* delete_open_directory: it fails while an entry is left in the directory,
\* a delete-pending one too.
RemoveDirectory(p) ==
    /\ pc[p] = "removing"
    /\ LET d == fd[p]
           empty == owner[d] = None /\ claim[d] = None
       IN  Settle(IF empty THEN doomed \cup {<<d, "dir">>} ELSE doomed,
                  [fd EXCEPT ![p] = None], hand)
    /\ Goto(p, "idle")
    /\ UNCHANGED <<made, retained, alive, seen>>

-----------------------------------------------------------------------------
(* steal_plain_lock_if_stale_with_sensitivity                              *)

\* inspect_plain_lock: open the name, a delete-pending one being absent, and
\* take its modification time ...
Inspect(p) ==
    /\ pc[p] = "inspecting"
    /\ IF leaf # None /\ CanOpen(leaf, "dir")
       THEN /\ fd' = [fd EXCEPT ![p] = leaf]
            /\ Goto(p, IF leaf \in old THEN "observing" ELSE "glancing")
       ELSE /\ Goto(p, "idle")
            /\ UNCHANGED fd
    /\ UNCHANGED <<files, alive, hand, seen>>

\* ... then read its owner, also when it is young.
Glance(p) ==
    /\ pc[p] = "glancing"
    /\ OpenFile(p, "owner", IF CanOpen(fd[p], "owner") THEN owner[fd[p]] ELSE None)
    /\ Goto(p, "leaving")
    /\ UNCHANGED <<files, alive, fd, seen>>

\* A stale directory whose owner is absent or dead may be stolen; an owner
\* that cannot be opened is an error.
Observe(p) ==
    /\ pc[p] = "observing"
    /\ LET d == fd[p] IN
          IF CanOpen(d, "owner") /\ ~IsAlive(owner[d])
          THEN /\ seen' = [seen EXCEPT ![p].owner = owner[d]]
               /\ OpenFile(p, "owner", owner[d])
               /\ Goto(p, "claiming")
          ELSE /\ Goto(p, "leaving")
               /\ UNCHANGED <<hand, seen>>
    /\ UNCHANGED <<files, alive, fd>>

\* Variant: every claim is respected, a dead claimant's too.
NeverAdopt(p) ==
    /\ pc[p] = "claiming" /\ hand[p] = None
    /\ Goto(p, IF claim[fd[p]] = None THEN "publishing" ELSE "leaving")
    /\ UNCHANGED <<files, alive, fd, hand, seen>>

\* Give way to a live claim, adopt a dead claimant's, or publish our own.
ReadClaim(p) ==
    /\ pc[p] = "claiming" /\ hand[p] = None
    /\ LET d == fd[p]
           c == claim[d]
       IN  \/ /\ ~CanOpen(d, "claim")
              /\ Goto(p, "leaving")
              /\ UNCHANGED <<hand, seen>>
           \/ /\ CanOpen(d, "claim") /\ IsAlive(c)
              /\ OpenFile(p, "claim", c)
              /\ Goto(p, "leaving")
              /\ UNCHANGED seen
           \/ /\ CanOpen(d, "claim") /\ c # None /\ ~IsAlive(c)
              /\ OpenFile(p, "claim", c)
              /\ seen' = [seen EXCEPT ![p].claim = c]
              /\ Goto(p, "reviewing")
           \/ /\ c = None
              /\ Goto(p, "publishing")
              /\ UNCHANGED <<hand, seen>>
    /\ UNCHANGED <<files, alive, fd>>

\* publish_protocol_file: a candidate is hard-linked to "steal"; the name is
\* taken by another's claim, and nothing is created in a directory that is
\* being deleted.
PublishClaim(p) ==
    /\ pc[p] = "publishing"
    /\ LET d == fd[p] IN
          IF claim[d] = None /\ CanOpen(d, "dir")
          THEN /\ claim' = [claim EXCEPT ![d] = p]
               /\ seen' = [seen EXCEPT ![p].claim = p]
               /\ Goto(p, "reviewing")
          ELSE /\ Goto(p, "leaving")
               /\ UNCHANGED <<claim, seen>>
    /\ old' = old \ {fd[p]}
    /\ UNCHANGED <<leaf, made, owner, doomed, retained, alive, fd, hand>>

\* What a stealer does when it gives up: its own claim is withdrawn, an
\* adopted one stays.
GivingUp(p) == IF seen[p].claim = p THEN "withdrawing" ELSE "leaving"

\* The owner, read again, must be the one observed.  An owner that cannot be
\* opened is an error that returns at once: a claim of ours stays behind.
ReviewOwner(p) ==
    /\ pc[p] = "reviewing" /\ hand[p] = None
    /\ LET d == fd[p] IN
          IF CanOpen(d, "owner")
          THEN /\ OpenFile(p, "owner", owner[d])
               /\ Goto(p, IF owner[d] = seen[p].owner THEN "rechecking"
                          ELSE GivingUp(p))
          ELSE /\ Goto(p, "leaving")
               /\ UNCHANGED hand
    /\ UNCHANGED <<files, alive, fd, seen>>

\* ... then the claim ...
ReviewClaim(p) ==
    /\ pc[p] = "rechecking" /\ hand[p] = None
    /\ OpenFile(p, "claim", claim[fd[p]])
    /\ Goto(p, IF claim[fd[p]] = seen[p].claim THEN "comparing" ELSE GivingUp(p))
    /\ UNCHANGED <<files, alive, fd, seen>>

\* ... then the path, and that the owner is still dead.
ReviewPath(p) ==
    /\ pc[p] = "comparing" /\ hand[p] = None
    /\ Goto(p, IF leaf = fd[p] /\ ~IsAlive(seen[p].owner) THEN "renaming"
               ELSE GivingUp(p))
    /\ UNCHANGED <<files, alive, fd, hand, seen>>

\* Somebody has a file of d open: its rename may be denied.
Occupied(d) == \E q \in Contender : fd[q] = d /\ hand[q] # None

\* move_plain_lock_to_tombstone renames the inspected directory by its
\* handle.  Its tombstone is named after the claim, which is retained in it.
Rename(p) ==
    /\ pc[p] = "renaming"
    /\ retained' = retained \cup {fd[p]}
    /\ leaf' = IF leaf = fd[p] THEN None ELSE leaf
    /\ Goto(p, "leaving")
    /\ UNCHANGED <<made, owner, claim, doomed, old, alive, fd, hand, seen>>

RenameDenied(p) ==
    /\ pc[p] = "renaming"
    /\ Occupied(fd[p])
    /\ Goto(p, IF leaf = fd[p] THEN GivingUp(p) ELSE "leaving")
    /\ UNCHANGED <<files, alive, fd, hand, seen>>

\* release_protocol_file of our claim.
Withdraw(p) ==
    /\ pc[p] = "withdrawing" /\ hand[p] = None
    /\ IF claim[fd[p]] = p
       THEN Settle(doomed \cup {<<fd[p], "claim">>}, fd, hand)
       ELSE UNCHANGED <<leaf, owner, claim, doomed, old, fd, hand>>
    /\ Goto(p, "leaving")
    /\ UNCHANGED <<made, retained, alive, seen>>

\* A file that was read is closed.
CloseFile(p) ==
    /\ hand[p] # None
    /\ Settle(doomed, fd, [hand EXCEPT ![p] = None])
    /\ UNCHANGED <<made, retained, alive, pc, seen>>

\* The call returns and closes the directory it inspected.
Leave(p) ==
    /\ pc[p] = "leaving" /\ hand[p] = None
    /\ Settle(doomed, [fd EXCEPT ![p] = None], hand)
    /\ seen' = [seen EXCEPT ![p] = NoView]
    /\ Goto(p, "idle")
    /\ UNCHANGED <<made, retained, alive>>

-----------------------------------------------------------------------------
(* The environment                                                         *)

\* The process dies and its handles are closed.
Crash(p) ==
    /\ p \in alive
    /\ alive' = alive \ {p}
    /\ Settle(doomed, [fd EXCEPT ![p] = None], [hand EXCEPT ![p] = None])
    /\ seen' = [seen EXCEPT ![p] = NoView]
    /\ Goto(p, "dead")
    /\ UNCHANGED <<made, retained>>

\* staleAfterMs pass without a change to d, whoever is at work in it.
Age(d) ==
    /\ d \in made \ old
    /\ old' = old \cup {d}
    /\ UNCHANGED <<leaf, made, owner, claim, doomed, retained, alive, pc, fd,
                   hand, seen>>

Acquire(p) ==
    \/ Create(p) \/ Collide(p) \/ LinkOwner(p) \/ CheckFence(p) \/ MatchPath(p)

Release(p) == ReleaseOwner(p) \/ RemoveDirectory(p)

Steal(p) ==
    \/ Inspect(p) \/ Glance(p) \/ Observe(p) \/ ReadClaim(p) \/ PublishClaim(p)
    \/ ReviewOwner(p) \/ ReviewClaim(p) \/ ReviewPath(p) \/ Rename(p)
    \/ RenameDenied(p) \/ Withdraw(p) \/ Leave(p)

Step(p) == Acquire(p) \/ Release(p) \/ Steal(p) \/ CloseFile(p)

Next ==
    \/ \E p \in Contender : Step(p) \/ Crash(p)
    \/ \E d \in Dir : Age(d)

Spec == Init /\ [][Next]_vars

\* Live processes keep running, time passes, and a rename that is tried
\* again and again is not denied for ever: those that keep files open in the
\* directory only read them.
Fairness ==
    /\ \A p \in Contender : WF_vars(Step(p)) /\ SF_vars(Rename(p))
    /\ \A d \in Dir : WF_vars(Age(d))

FairSpec == Spec /\ Fairness

-----------------------------------------------------------------------------
(* Properties                                                              *)

\* The guard exists.
Holds(p) == pc[p] = "held"

Abstract == INSTANCE AbstractLock
                WITH Process <- Contender, holder <- {p \in Contender : Holds(p)}

\* However long a process pauses and whoever dies, a guard is handed out only
\* while no other is alive: unlike PlainLock, whose rename by name needs the
\* assumption that nobody dwells in the lock.
ImplementsAbstractLock == Abstract!Spec

\* A directory nobody is at work in, left behind by a crash or by a release
\* that found it in use, does not block the lock for ever while somebody lives
\* to contend: its name is freed, unless a living stealer has left its claim
\* there (ReviewOwner meets an owner that is being deleted).
Orphaned(d) ==
    leaf = d /\ ~\E p \in Contender : fd[p] = d /\ (Holds(p) \/ pc[p] \in Creating)

ClaimLeftBehind(d) == IsAlive(claim[d]) /\ fd[claim[d]] # d

OrphanRecovered ==
    \A d \in Dir :
        Orphaned(d) ~> (leaf # d \/ alive = {} \/ ClaimLeftBehind(d))
=============================================================================
