--------------------------- MODULE CacheLeaseProof ---------------------------
(***************************************************************************)
(* The refresh lease, for every number of processes and directories and    *)
(* whoever dies, as long as nobody unlinks the claim of a live process.    *)
(* That is what finding 2 of the README shows the code can do; the         *)
(* theorems say that nothing else takes a lease from a holder whose        *)
(* owner.json is in place.                                                 *)
(*                                                                         *)
(* However long processes dwell, what a recovery takes away is what it     *)
(* claimed, such a holder loses its lease past the absolute age only, and  *)
(* before that age there is one such holder.                               *)
(***************************************************************************)
EXTENDS CacheLease, TLAPS

\* A process acts as long as it lives.
OnlyLivingAct == \A p \in Contender : p \in alive <=> pc[p] # "dead"

\* A stealer past its look at owner.json.
Committed(p) == pc[p] \in Stealing \ {"reading"}

\* Nothing is in a directory before it is made.
NewIsEmpty ==
    \A d \in Dir \ made : owner[d] = None /\ claim[d] = None

\* A claim that was found in place again stays, and holds the pathname.
ClaimsStay ==
    \A q \in Contender :
        /\ pc[q] \in {"renaming", "unclaiming"} => claim[fd[q]] = q
        /\ pc[q] = "renaming" => leaf = fd[q]

\* In d there is nothing of p, nor has a stealer there seen anything of p.
HasNotWritten(p, d) ==
    /\ owner[d] # p
    /\ \A q \in Contender : Committed(q) /\ fd[q] = d => seen[q].owner # p

\* A process writes owner.json once in a directory.
WritesOnce ==
    \A p \in Contender :
        /\ pc[p] = "opening" /\ leaf # None => HasNotWritten(p, leaf)
        /\ pc[p] = "creating" => HasNotWritten(p, fd[p])
        /\ pc[p] = "filling" =>
              /\ owner[fd[p]] = p => fd[p] \in torn
              /\ \A q \in Contender :
                     Committed(q) /\ fd[q] = fd[p] /\ seen[q].owner = p => seen[q].torn

\* Whoever has filled its owner.json finds it whole, if it is there.
WrittenWhole ==
    \A p \in Contender :
        pc[p] \in {"fencing", "matching", "held"} /\ owner[fd[p]] = p => fd[p] \notin torn

\* An owner.json of a live process that a stealer has seen whole, and that is
\* there, has reached the absolute age.
SeenAged ==
    \A q \in Contender :
        /\ Committed(q) /\ ~seen[q].torn
        /\ seen[q].owner \in alive /\ owner[fd[q]] = seen[q].owner
        => fd[q] \notin torn /\ age[fd[q]] = 2

\* A stealer about to rename has seen the owner of whoever is past the fence.
FencedOut ==
    \A p, q \in Contender :
        /\ pc[p] \in {"matching", "held"} /\ owner[fd[p]] = p
        /\ pc[q] = "renaming" /\ fd[q] = fd[p]
        => seen[q].owner = p /\ ~seen[q].torn

\* Whoever dwells, and however long.
KInv ==
    /\ TypeOK
    /\ OnlyLivingAct
    /\ NewIsEmpty
    /\ ClaimsStay
    /\ WritesOnce
    /\ WrittenWhole
    /\ SeenAged
    /\ FencedOut

\* Where a process may be.
Labels == {"idle", "held", "dead"} \cup Acquiring \cup Releasing \cup Stealing

\* What the types say of the calls.
CallsOK ==
    /\ pc \in [Contender -> Labels]
    /\ fd \in [Contender -> Dir \cup {None}]
    /\ seen \in [Contender -> View]
    /\ \A p \in Contender : pc[p] \notin WithoutFd => fd[p] \in made

\* A call returns, or goes on with what it has.
LEMMA CallGoesOn ==
    ASSUME TypeOK, NEW p \in Contender, made' = made,
           \/ Return(p)
           \/ /\ \E l \in Labels \ WithoutFd : Goto(p, l)
              /\ fd[p] \in made
              /\ UNCHANGED <<fd, seen>>
    PROVE  CallsOK'
<1> USE LeaseConstants DEF TypeOK, CallsOK
<1>1. CASE Return(p)
  BY <1>1 DEF Return, NoView, View, Labels, WithoutFd
<1>2. CASE ~Return(p)
  <2>1. PICK l \in Labels \ WithoutFd : Goto(p, l)
    BY <1>2
  <2>2. pc \in [Contender -> Labels]
    BY DEF Labels
  <2>3. pc' \in [Contender -> Labels] /\ \A q \in Contender : q # p => pc'[q] = pc[q]
    BY <2>1, <2>2 DEF Goto
  <2>4. fd[p] \in made /\ fd' = fd /\ seen' = seen
    BY <1>2
  <2>5. QED
    BY <2>3, <2>4
<1>3. QED
  BY <1>1, <1>2

\* What is left when owner.json was removed.
LEMMA RemovalKeepsTypes ==
    ASSUME TypeOK, NEW d \in Dir, RemoveOwner(d)
    PROVE  /\ owner' \in [Dir -> Contender \cup {None}]
           /\ torn' \subseteq {e \in Dir : owner'[e] # None}
           /\ age' \in [Dir -> 0 .. 2]
           /\ still' \in BOOLEAN
           /\ \A e \in Dir : owner'[e] \in {owner[e], None}
<1>1. still' \in BOOLEAN
  BY DEF RemoveOwner, Touch
<1>2. QED
  BY <1>1 DEF TypeOK, RemoveOwner

\* Every action keeps the types; past openat a process has a directory.
LEMMA TypeOKStep ==
    ASSUME TypeOK, [Next]_vars
    PROVE  TypeOK'
<1> USE LeaseConstants DEF TypeOK, Acquiring, Releasing, Stealing, WithoutFd, Goto,
        Return, NoView, View, files, Touch, Names, RemoveOwner
<1>1. ASSUME NEW p \in Contender, Mkdir(p) PROVE TypeOK'
  BY <1>1 DEF Mkdir
<1>2. ASSUME NEW p \in Contender, Observe(p) PROVE TypeOK'
  <2>1. /\ UNCHANGED <<leaf, made, gone, owner, torn, claim, age, still, alive>>
        /\ pc' = [pc EXCEPT ![p] = "reading"] /\ fd' = [fd EXCEPT ![p] = leaf]
        /\ seen' = [seen EXCEPT ![p].old = still] /\ leaf \in made
    BY <1>2 DEF Observe
  <2>2. seen' \in [Contender -> View]
    BY <2>1
  <2>3. QED
    BY <2>1, <2>2
<1>3. ASSUME NEW p \in Contender, Open(p) PROVE TypeOK'
  <2>1. CASE leaf # None
    BY <1>3, <2>1 DEF Open
  <2>2. CASE leaf = None
    <3>1. /\ UNCHANGED <<leaf, made, gone, owner, torn, claim, age, still, alive>>
          /\ Return(p)
      BY <1>3, <2>2 DEF Open
    <3>2. CallsOK'
      BY <3>1, CallGoesOn
    <3>3. QED
      BY <3>1, <3>2 DEF CallsOK, Labels
  <2>3. QED
    BY <2>1, <2>2
<1>4. ASSUME NEW p \in Contender, CreateOwner(p) PROVE TypeOK'
  <2>1. CASE owner[fd[p]] = None /\ fd[p] \notin gone
    <3>1. /\ owner' = [owner EXCEPT ![fd[p]] = p] /\ torn' = torn \cup {fd[p]}
          /\ Touch(fd[p]) /\ Goto(p, "filling")
          /\ UNCHANGED <<leaf, made, gone, claim, age, alive, fd, seen>>
          /\ pc[p] = "creating"
      BY <1>4, <2>1 DEF CreateOwner
    <3>2. still' \in BOOLEAN
      BY <3>1
    <3> HIDE DEF Touch, View
    <3>3. QED
      BY <3>1, <3>2
  <2>2. CASE ~(owner[fd[p]] = None /\ fd[p] \notin gone)
    <3>1. UNCHANGED <<files, alive, fd, seen>> /\ Goto(p, "abandoning") /\ pc[p] = "creating"
      BY <1>4, <2>2 DEF CreateOwner
    <3> HIDE DEF View
    <3>2. QED
      BY <3>1
  <2>3. QED
    BY <2>1, <2>2
<1>5. ASSUME NEW p \in Contender, FillOwner(p) PROVE TypeOK'
  BY <1>5 DEF FillOwner
<1>6. ASSUME NEW p \in Contender, CheckFence(p) PROVE TypeOK'
  BY <1>6 DEF CheckFence
<1>7. ASSUME NEW p \in Contender, MatchPath(p) PROVE TypeOK'
  BY <1>7 DEF MatchPath
<1>8. ASSUME NEW p \in Contender, Abandon(p) PROVE TypeOK'
  <2>1. /\ UNCHANGED <<leaf, made, gone, claim, alive>> /\ Return(p) /\ fd[p] \in Dir
        /\ UNCHANGED <<owner, torn, age, still>> \/ RemoveOwner(fd[p])
    BY <1>8 DEF Abandon
  <2>2. CallsOK'
    BY <2>1, CallGoesOn
  <2>3. QED
    BY <2>1, <2>2, RemovalKeepsTypes DEF CallsOK, Labels
<1>9. ASSUME NEW p \in Contender, Clean(p) \/ CleanMatch(p) PROVE TypeOK'
  <2>1. CallsOK'
    <3> HIDE DEF Return, Goto
    <3>1. QED
      BY <1>9, CallGoesOn DEF Clean, CleanMatch, Labels
  <2>2. UNCHANGED <<leaf, made, gone, alive>>
    BY <1>9 DEF Clean, CleanMatch
  <2>3. UNCHANGED <<owner, torn, claim, age, still>>
    BY <1>9 DEF Clean, CleanMatch
  <2>4. QED
    BY <2>1, <2>2, <2>3 DEF CallsOK, Labels
<1>10. ASSUME NEW p \in Contender, CleanOwner(p) PROVE TypeOK'
  <2>1. CallsOK'
    <3> HIDE DEF Return, Goto
    <3>1. QED
      BY <1>10, CallGoesOn DEF CleanOwner, Labels
  <2>2. UNCHANGED <<leaf, made, gone, alive>> /\ still' \in BOOLEAN
    BY <1>10 DEF CleanOwner
  <2>3. /\ owner' \in [Dir -> Contender \cup {None}] /\ claim' = claim
        /\ torn' \subseteq {d \in Dir : owner'[d] # None} /\ age' \in [Dir -> 0 .. 2]
    BY <1>10 DEF CleanOwner
  <2>4. QED
    BY <2>1, <2>2, <2>3 DEF CallsOK, Labels
<1>11. ASSUME NEW p \in Contender, CleanRmdir(p) PROVE TypeOK'
  <2>1. CallsOK'
    BY <1>11, CallGoesOn DEF CleanRmdir
  <2>2. /\ UNCHANGED <<made, owner, torn, claim, age, alive>>
        /\ leaf' \in {leaf, None} /\ still' \in BOOLEAN /\ gone' \subseteq made
    <3>1. CASE leaf # None /\ EmptyDir(leaf)
      <4>1. /\ UNCHANGED <<made, owner, torn, claim, age, alive>>
            /\ leaf' = None /\ still' = FALSE /\ gone' = gone \cup {leaf}
        BY <1>11, <3>1 DEF CleanRmdir
      <4>2. QED
        BY <3>1, <4>1
    <3>2. CASE ~(leaf # None /\ EmptyDir(leaf))
      <4>1. UNCHANGED <<made, owner, torn, claim, age, alive, leaf, still, gone>>
        BY <1>11, <3>2 DEF CleanRmdir
      <4>2. QED
        BY <4>1
    <3>3. QED
      BY <3>1, <3>2
  <2>3. QED
    BY <2>1, <2>2 DEF CallsOK, Labels
<1>12. ASSUME NEW p \in Contender, ReadOwner(p) PROVE TypeOK'
  <2>1. UNCHANGED <<leaf, made, gone, owner, torn, claim, age, still, alive>>
    BY <1>12 DEF ReadOwner
  <2>2. CASE Stale(p)
    <3>1. fd[p] \in made /\ owner[fd[p]] \in Contender \cup {None}
      BY <1>12 DEF ReadOwner
    <3>2. [owner |-> owner[fd[p]], torn |-> fd[p] \in torn, old |-> FALSE] \in View
      BY <3>1
    <3>3. /\ pc' = [pc EXCEPT ![p] = "comparing"] /\ fd' = fd
          /\ \E v \in View : seen' = [seen EXCEPT ![p] = v]
      BY <1>12, <2>2, <3>2 DEF ReadOwner
    <3>4. QED
      BY <2>1, <3>1, <3>3
  <2>3. CASE ~Stale(p)
    <3>1. Return(p)
      BY <1>12, <2>3 DEF ReadOwner
    <3>2. CallsOK'
      BY <2>1, <3>1, CallGoesOn
    <3>3. QED
      BY <2>1, <3>2 DEF CallsOK, Labels
  <2>4. QED
    BY <2>2, <2>3
<1>13. ASSUME NEW p \in Contender, Compare(p) PROVE TypeOK'
  <2>1. CallsOK'
    <3> HIDE DEF Return, Goto
    <3>1. QED
      BY <1>13, CallGoesOn DEF Compare, Labels
  <2>2. UNCHANGED <<leaf, made, gone, alive>>
    BY <1>13 DEF Compare
  <2>3. UNCHANGED <<owner, torn, claim, age, still>>
    BY <1>13 DEF Compare
  <2>4. QED
    BY <2>1, <2>2, <2>3 DEF CallsOK, Labels
<1>14. ASSUME NEW p \in Contender, ReadClaim(p) PROVE TypeOK'
  <2>1. CallsOK'
    <3> HIDE DEF Return, Goto
    <3>1. QED
      BY <1>14, CallGoesOn DEF ReadClaim, Labels
  <2>2. UNCHANGED <<leaf, made, gone, alive>>
    BY <1>14 DEF ReadClaim
  <2>3. UNCHANGED <<owner, torn, claim, age, still>>
    BY <1>14 DEF ReadClaim
  <2>4. QED
    BY <2>1, <2>2, <2>3 DEF CallsOK, Labels
<1>15. ASSUME NEW p \in Contender, Evict(p) PROVE TypeOK'
  BY <1>15 DEF Evict
<1>16. ASSUME NEW p \in Contender, PublishClaim(p) PROVE TypeOK'
  <2>1. CallsOK'
    <3> HIDE DEF Return, Goto
    <3>1. QED
      BY <1>16, CallGoesOn DEF PublishClaim, Labels
  <2>2. UNCHANGED <<leaf, made, gone, alive>> /\ still' \in BOOLEAN
    BY <1>16 DEF PublishClaim
  <2>3. /\ claim' \in [Dir -> Contender \cup {None}] /\ UNCHANGED <<owner, torn>>
        /\ age' \in [Dir -> 0 .. 2]
    BY <1>16 DEF PublishClaim
  <2>4. QED
    BY <2>1, <2>2, <2>3 DEF CallsOK, Labels
<1>17. ASSUME NEW p \in Contender, Revalidate(p) PROVE TypeOK'
  BY <1>17 DEF Revalidate
<1>18. ASSUME NEW p \in Contender, Rename(p) PROVE TypeOK'
  <2>1. /\ UNCHANGED <<made, gone, owner, torn, claim, age, alive, fd, seen>>
        /\ leaf' \in {leaf, None} /\ fd[p] \in made
        /\ \E l \in {"discarding", "withdrawing"} : pc' = [pc EXCEPT ![p] = l]
    BY <1>18 DEF Rename
  <2>2. still' \in BOOLEAN
    BY <1>18 DEF Rename
  <2> HIDE DEF View
  <2>3. QED
    BY <2>1, <2>2
<1>19. ASSUME NEW p \in Contender, Withdraw(p) \/ Unclaim(p) PROVE TypeOK'
  <2>1. CallsOK'
    <3> HIDE DEF Return, Goto
    <3>1. QED
      BY <1>19, CallGoesOn DEF Withdraw, Unclaim, Labels
  <2>2. UNCHANGED <<leaf, made, gone, owner, torn, alive>> /\ still' \in BOOLEAN
    BY <1>19 DEF Withdraw, Unclaim
  <2>3. /\ claim' \in [Dir -> Contender \cup {None}]
        /\ age' \in [Dir -> 0 .. 2]
    <3>1. CASE Withdraw(p)
      <4>1. claim' = claim /\ age' = age
        BY <3>1 DEF Withdraw
      <4>2. QED
        BY <4>1
    <3>2. CASE Unclaim(p)
      BY <3>2 DEF Unclaim
    <3>3. QED
      BY <1>19, <3>1, <3>2
  <2>4. QED
    BY <2>1, <2>2, <2>3 DEF CallsOK, Labels
<1>20. ASSUME NEW p \in Contender, Discard(p) PROVE TypeOK'
  <2>1. UNCHANGED <<leaf, made, alive>> /\ Return(p) /\ fd[p] \in made
    BY <1>20 DEF Discard
  <2>2. CallsOK'
    BY <2>1, CallGoesOn
  <2>3. claim' \in [Dir -> Contender \cup {None}] /\ gone' \subseteq made
    BY <1>20, <2>1 DEF Discard
  <2>4. \/ UNCHANGED <<owner, torn, age>> /\ still' \in BOOLEAN
        \/ RemoveOwner(fd[p])
    BY <1>20 DEF Discard
  <2>5. QED
    BY <2>1, <2>2, <2>3, <2>4, RemovalKeepsTypes DEF CallsOK, Labels
<1>21. ASSUME NEW p \in Contender, Crash(p) PROVE TypeOK'
  BY <1>21 DEF Crash
<1>22. CASE GrowOld \/ \E p \in Contender : ViewGrowsOld(p)
  <2>1. CASE GrowOld
    <3>1. /\ UNCHANGED <<leaf, made, gone, owner, torn, claim, alive, pc, fd, seen>>
          /\ still' \in BOOLEAN /\ \E a \in 0 .. 2 : age' = [age EXCEPT ![leaf] = a]
      BY <2>1 DEF GrowOld
    <3>2. age' \in [Dir -> 0 .. 2]
      <4>1. age \in [Dir -> 0 .. 2]
        OBVIOUS
      <4> HIDE DEF TypeOK
      <4>2. QED
        BY <3>1, <4>1
    <3> HIDE DEF View
    <3>3. QED
      BY <3>1, <3>2
  <2>2. ASSUME NEW p \in Contender, ViewGrowsOld(p) PROVE TypeOK'
    <3>1. /\ UNCHANGED <<leaf, made, gone, owner, torn, claim, age, still, alive, pc, fd>>
          /\ \E b \in BOOLEAN : seen' = [seen EXCEPT ![p].old = b]
      BY <2>2 DEF ViewGrowsOld
    <3>2. seen' \in [Contender -> View]
      BY <3>1
    <3> HIDE DEF View
    <3>3. QED
      BY <3>1, <3>2
  <2>3. QED
    BY <1>22, <2>1, <2>2
<1>23. CASE UNCHANGED vars
  BY <1>23 DEF vars
<1>24. QED
  BY <1>1, <1>2, <1>3, <1>4, <1>5, <1>6, <1>7, <1>8, <1>9, <1>10, <1>11, <1>12,
     <1>13, <1>14, <1>15, <1>16, <1>17, <1>18, <1>19, <1>20, <1>21, <1>22, <1>23
  DEF Next, Step, Acquire, Drop, Steal

\* Only a crash changes who lives, and it ends what the process does.
LEMMA OnlyLivingActStep ==
    ASSUME TypeOK, OnlyLivingAct, [Next]_vars
    PROVE  OnlyLivingAct'
<1> USE DEF TypeOK, OnlyLivingAct
<1>1. ASSUME NEW p \in Contender, Step(p) PROVE OnlyLivingAct'
  <2>1. /\ alive' = alive /\ pc[p] # "dead"
        /\ \E l \in Labels \ {"dead"} : pc' = [pc EXCEPT ![p] = l]
    BY <1>1 DEF Step, Acquire, Drop, Steal, Mkdir, Open, CreateOwner,
       FillOwner, CheckFence, MatchPath, Abandon, Clean, CleanOwner, CleanMatch,
       CleanRmdir, Observe, ReadOwner, Compare, ReadClaim, Evict, PublishClaim, Revalidate, Rename,
       Withdraw, Unclaim, Discard, Goto, Return, files, Labels, Acquiring, Releasing,
       Stealing
  <2>2. QED
    BY <2>1
<1>2. ASSUME NEW p \in Contender, Crash(p) PROVE OnlyLivingAct'
  BY <1>2 DEF Crash
<1>3. CASE GrowOld \/ \E p \in Contender : ViewGrowsOld(p)
  BY <1>3 DEF GrowOld, ViewGrowsOld, files
<1>4. CASE UNCHANGED vars
  BY <1>4 DEF vars
<1>5. QED
  BY <1>1, <1>2, <1>3, <1>4 DEF Next

\* A directory is made before anything is put in it.
LEMMA NewIsEmptyStep ==
    ASSUME KInv, [Next]_vars
    PROVE  NewIsEmpty'
<1> USE LeaseConstants DEF KInv, TypeOK, NewIsEmpty, WithoutFd
<1>1. ASSUME NEW p \in Contender, Acquire(p) PROVE NewIsEmpty'
  BY <1>1 DEF Acquire, Mkdir, Open, CreateOwner, FillOwner, CheckFence,
     MatchPath, Abandon, files, RemoveOwner
<1>2. ASSUME NEW p \in Contender, Drop(p) PROVE NewIsEmpty'
  BY <1>2 DEF Drop, Clean, CleanOwner, CleanMatch, CleanRmdir, files, RemoveOwner
<1>3. ASSUME NEW p \in Contender, Steal(p) PROVE NewIsEmpty'
  BY <1>3 DEF Steal, Observe, ReadOwner, Compare, ReadClaim, Evict, PublishClaim, Revalidate, Rename,
     Withdraw, Unclaim, Discard, files, RemoveOwner, Touch, Names
<1>4. ASSUME NEW p \in Contender, Crash(p) PROVE NewIsEmpty'
  BY <1>4 DEF Crash, files
<1>5. CASE GrowOld \/ \E p \in Contender : ViewGrowsOld(p)
  BY <1>5 DEF GrowOld, ViewGrowsOld, files
<1>6. QED
  BY <1>1, <1>2, <1>3, <1>4, <1>5 DEF Next, Step, vars

\* Nobody unlinks the claim of a live stealer, and nobody renames or removes the
\* directory that holds one.
LEMMA ClaimsStayStep ==
    ASSUME KInv, [Next]_vars, EvictsDead
    PROVE  ClaimsStay'
<1> USE LeaseConstants DEF KInv, TypeOK, ClaimsStay, WithoutFd, Goto, Return
<1>1. ASSUME NEW p \in Contender, Mkdir(p) \/ Open(p) PROVE ClaimsStay'
  BY <1>1 DEF Mkdir, Open, files
<1>2. ASSUME NEW p \in Contender, CleanRmdir(p) PROVE ClaimsStay'
  BY <1>2 DEF CleanRmdir, EmptyDir
<1>3. ASSUME NEW p \in Contender, Acquire(p) \/ Drop(p) PROVE ClaimsStay'
  BY <1>1, <1>2, <1>3 DEF Acquire, CreateOwner, FillOwner, CheckFence,
     MatchPath, Abandon, files, Drop, Clean, CleanOwner, CleanMatch
<1>4. ASSUME NEW p \in Contender,
             \/ Observe(p) \/ ReadOwner(p) \/ Compare(p) \/ ReadClaim(p)
             \/ Revalidate(p) \/ Withdraw(p)
      PROVE ClaimsStay'
  BY <1>4 DEF Observe, ReadOwner, Compare, ReadClaim, Revalidate, Withdraw, files
<1>5. ASSUME NEW p \in Contender, Evict(p) PROVE ClaimsStay'
  BY <1>5 DEF Evict, EvictsDead, OnlyLivingAct
<1>6. ASSUME NEW p \in Contender, PublishClaim(p) PROVE ClaimsStay'
  BY <1>6 DEF PublishClaim
<1>7. ASSUME NEW p \in Contender, Rename(p) PROVE ClaimsStay'
  BY <1>7 DEF Rename
<1>8. ASSUME NEW p \in Contender, Unclaim(p) \/ Discard(p) PROVE ClaimsStay'
  BY <1>8 DEF Unclaim, Discard
<1>9. ASSUME NEW p \in Contender, Crash(p) PROVE ClaimsStay'
  BY <1>9 DEF Crash, files
<1>10. CASE GrowOld \/ \E p \in Contender : ViewGrowsOld(p)
  BY <1>10 DEF GrowOld, ViewGrowsOld, files
<1>11. QED
  BY <1>3, <1>4, <1>5, <1>6, <1>7, <1>8, <1>9, <1>10 DEF Next, Step, Steal, vars

\* A call that returns has nothing of the lease.
LEMMA ReturnIs ==
    ASSUME TypeOK, NEW p \in Contender, Return(p)
    PROVE  /\ pc'[p] = "idle"
           /\ \A q \in Contender :
                 q # p => pc'[q] = pc[q] /\ fd'[q] = fd[q] /\ seen'[q] = seen[q]
BY DEF Return, TypeOK

\* A view has what was put in it.
LEMMA ViewTorn ==
    ASSUME NEW v, NEW o, NEW t, t \in BOOLEAN,
           v = [owner |-> o, torn |-> t, old |-> FALSE]
    PROVE  v.torn = t
OBVIOUS

\* An observer that goes on has seen the owner.json that is there.
LEMMA ReadOwnerSees ==
    ASSUME TypeOK, NEW p \in Contender, ReadOwner(p), Stale(p)
    PROVE  /\ pc[p] = "reading" /\ pc' = [pc EXCEPT ![p] = "comparing"]
           /\ UNCHANGED <<leaf, made, gone, owner, torn, claim, age, still, alive, fd>>
           /\ \A q \in Contender : q # p => seen'[q] = seen[q]
           /\ seen'[p].owner = owner[fd[p]]
           /\ seen'[p].torn <=> fd[p] \in torn
<1>1. /\ pc[p] = "reading" /\ pc' = [pc EXCEPT ![p] = "comparing"]
      /\ UNCHANGED <<leaf, made, gone, owner, torn, claim, age, still, alive, fd>>
  BY DEF ReadOwner, Goto, files
<1>2. seen' = [seen EXCEPT ![p] =
                   [owner |-> owner[fd[p]], torn |-> fd[p] \in torn, old |-> FALSE]]
  BY DEF ReadOwner
<1>3. seen \in [Contender -> View]
  BY DEF TypeOK
<1>4. seen'[p] = [owner |-> owner[fd[p]], torn |-> fd[p] \in torn, old |-> FALSE]
  BY <1>2, <1>3
<1>5. seen'[p].owner = owner[fd[p]]
  BY <1>4
<1>6. seen'[p].torn = (fd[p] \in torn)
  BY <1>4, ViewTorn
<1>7. \A q \in Contender : q # p => seen'[q] = seen[q]
  BY <1>2, <1>3
<1>8. QED
  BY <1>1, <1>5, <1>6, <1>7

\* What a call has seen or written survives the steps of others, and a
\* directory that is not there yet has nothing of anybody.
LEMMA WritesOnceStep ==
    ASSUME KInv, [Next]_vars
    PROVE  WritesOnce'
<1> USE LeaseConstants DEF KInv, TypeOK, WritesOnce, HasNotWritten, Committed, Stealing,
        Goto, files
<1>1. ASSUME NEW p \in Contender, Mkdir(p) PROVE WritesOnce'
  BY <1>1 DEF Mkdir, Names, NewIsEmpty, WithoutFd
<1>2. ASSUME NEW p \in Contender, Observe(p) PROVE WritesOnce'
  BY <1>2 DEF Observe
<1>3. ASSUME NEW p \in Contender, UNCHANGED <<leaf, owner, torn>>, Return(p)
      PROVE  WritesOnce'
  BY <1>3, ReturnIs
<1>4. ASSUME NEW p \in Contender, Open(p) PROVE WritesOnce'
  <2>1. CASE leaf # None
    <3>1. pc[p] = "opening" /\ HasNotWritten(p, leaf)
      BY <1>4, <2>1 DEF Open
    <3>2. /\ pc'[p] = "creating" /\ fd'[p] = leaf
          /\ \A q \in Contender : q # p => pc'[q] = pc[q] /\ fd'[q] = fd[q]
          /\ UNCHANGED <<leaf, owner, torn, seen>>
      BY <1>4, <2>1 DEF Open
    <3>3. QED
      BY <3>1, <3>2
  <2>2. CASE leaf = None
    BY <1>3, <1>4, <2>2 DEF Open
  <2>3. QED
    BY <2>1, <2>2
<1>5. ASSUME NEW p \in Contender, CreateOwner(p) \/ FillOwner(p) PROVE WritesOnce'
  <2>1. CASE CreateOwner(p)
    BY <1>5, <2>1 DEF CreateOwner, WithoutFd
  <2>2. CASE FillOwner(p)
    BY <1>5, <2>2 DEF FillOwner
  <2>3. QED
    BY <1>5, <2>1, <2>2
<1>6. ASSUME NEW p \in Contender, CheckFence(p) \/ MatchPath(p)
      PROVE  WritesOnce'
  BY <1>6 DEF CheckFence, MatchPath
<1>7. ASSUME NEW p \in Contender, Clean(p) \/ CleanMatch(p) PROVE WritesOnce'
  <2>1. CASE Return(p)
    BY <1>3, <1>7, <2>1 DEF Clean, CleanMatch
  <2>2. CASE ~Return(p)
    BY <1>7, <2>2 DEF Clean, CleanMatch
  <2>3. QED
    BY <2>1, <2>2
<1>8. ASSUME NEW p \in Contender, leaf' \in {leaf, None},
             \/ UNCHANGED <<owner, torn>>
             \/ \E d \in Dir : RemoveOwner(d),
             Return(p)
      PROVE  WritesOnce'
  <2>1. /\ \A e \in Dir : owner'[e] \in {owner[e], None}
        /\ \A e \in Dir : e \in torn /\ owner'[e] # None => e \in torn'
    BY <1>8 DEF RemoveOwner
  <2>2. QED
    BY <1>8, <2>1, ReturnIs DEF WithoutFd
<1>9. ASSUME NEW p \in Contender, Abandon(p) \/ CleanRmdir(p) \/ Discard(p) PROVE WritesOnce'
  <2>1. CASE Abandon(p)
    BY <1>8, <2>1 DEF Abandon, WithoutFd
  <2>2. CASE CleanRmdir(p)
    BY <1>8, <2>2 DEF CleanRmdir, Names
  <2>3. CASE Discard(p)
    BY <1>8, <2>3 DEF Discard, WithoutFd
  <2>4. QED
    BY <1>9, <2>1, <2>2, <2>3
<1>10. ASSUME NEW p \in Contender, CleanOwner(p) PROVE WritesOnce'
  <2>1. CASE owner[fd[p]] = None
    BY <1>3, <1>10, <2>1 DEF CleanOwner
  <2>2. CASE owner[fd[p]] # None
    <3>1. /\ \A e \in Dir : owner'[e] \in {owner[e], None}
          /\ \A e \in Dir : e \in torn /\ owner'[e] # None => e \in torn'
      BY <1>10, <2>2 DEF CleanOwner, RemoveOwner
    <3>2. UNCHANGED <<leaf, fd, seen>> /\ pc' = [pc EXCEPT ![p] = "rematching"]
      BY <1>10, <2>2 DEF CleanOwner
    <3>3. QED
      BY <3>1, <3>2 DEF WithoutFd
  <2>3. QED
    BY <2>1, <2>2
<1>11. ASSUME NEW p \in Contender, ReadOwner(p) PROVE WritesOnce'
  <2>1. CASE Stale(p)
    BY <1>11, <2>1, ReadOwnerSees DEF WithoutFd
  <2>2. CASE ~Stale(p)
    BY <1>3, <1>11, <2>2 DEF ReadOwner
  <2>3. QED
    BY <2>1, <2>2
<1>12. ASSUME NEW p \in Contender,
              Compare(p) \/ ReadClaim(p) \/ PublishClaim(p) \/ Withdraw(p) \/ Unclaim(p)
       PROVE  WritesOnce'
  <2>1. CASE Return(p)
    BY <1>3, <1>12, <2>1 DEF Compare, ReadClaim, PublishClaim, Withdraw, Unclaim
  <2>2. CASE ~Return(p)
    BY <1>12, <2>2 DEF Compare, ReadClaim, PublishClaim, Withdraw, Unclaim
  <2>3. QED
    BY <2>1, <2>2
<1>13. ASSUME NEW p \in Contender, Evict(p) \/ Revalidate(p) \/ Rename(p)
       PROVE  WritesOnce'
  BY <1>13 DEF Evict, Revalidate, Rename, Names
<1>14. ASSUME NEW p \in Contender, Crash(p) PROVE WritesOnce'
  BY <1>14 DEF Crash
<1>15. CASE GrowOld \/ \E p \in Contender : ViewGrowsOld(p)
  BY <1>15 DEF GrowOld, ViewGrowsOld, files
<1>16. QED
  <2>1. ASSUME NEW p \in Contender, Step(p) PROVE WritesOnce'
    <3> HIDE DEF KInv, TypeOK, WritesOnce
    <3>1. QED
      BY <1>1, <1>2, <1>4, <1>5, <1>6, <1>7, <1>9, <1>10, <1>11, <1>12, <1>13, <2>1
      DEF Step, Acquire, Drop, Steal
  <2>2. CASE UNCHANGED vars
    BY <2>2 DEF vars
  <2>3. QED
    BY <1>14, <1>15, <2>1, <2>2 DEF Next

\* Only its writer leaves owner.json incomplete, and before it looks for claims.
LEMMA WrittenWholeStep ==
    ASSUME KInv, [Next]_vars
    PROVE  WrittenWhole'
<1> USE LeaseConstants DEF KInv, TypeOK, WrittenWhole, Goto, files
<1>1. ASSUME NEW p \in Contender, Mkdir(p) PROVE WrittenWhole'
  BY <1>1 DEF Mkdir
<1>2. ASSUME NEW p \in Contender, UNCHANGED <<owner, torn>>, Return(p) PROVE WrittenWhole'
  BY <1>2, ReturnIs
<1>3. ASSUME NEW p \in Contender, Open(p) PROVE WrittenWhole'
  <2>1. CASE leaf # None
    BY <1>3, <2>1 DEF Open
  <2>2. CASE leaf = None
    BY <1>2, <1>3, <2>2 DEF Open
  <2>3. QED
    BY <2>1, <2>2
<1>4. ASSUME NEW p \in Contender, CreateOwner(p) \/ FillOwner(p) PROVE WrittenWhole'
  BY <1>4 DEF CreateOwner, FillOwner
<1>5. ASSUME NEW p \in Contender, CheckFence(p) \/ MatchPath(p)
      PROVE  WrittenWhole'
  BY <1>5 DEF CheckFence, MatchPath
<1>6. ASSUME NEW p \in Contender, Abandon(p) \/ CleanOwner(p) \/ Discard(p)
      PROVE  WrittenWhole'
  BY <1>6 DEF Abandon, CleanOwner, Discard, RemoveOwner, Return
<1>7. ASSUME NEW p \in Contender, Clean(p) \/ CleanMatch(p) \/ CleanRmdir(p)
      PROVE  WrittenWhole'
  BY <1>2, <1>7 DEF Clean, CleanMatch, CleanRmdir
<1>8. ASSUME NEW p \in Contender, Steal(p), ~Discard(p) PROVE WrittenWhole'
  BY <1>8 DEF Steal, Observe, ReadOwner, Compare, ReadClaim, Evict, PublishClaim, Revalidate,
     Rename, Withdraw, Unclaim, Return
<1>9. ASSUME NEW p \in Contender, Crash(p) PROVE WrittenWhole'
  BY <1>9 DEF Crash
<1>10. CASE GrowOld \/ \E p \in Contender : ViewGrowsOld(p)
  BY <1>10 DEF GrowOld, ViewGrowsOld, files
<1>11. QED
  BY <1>1, <1>3, <1>4, <1>5, <1>6, <1>7, <1>8, <1>9, <1>10
  DEF Next, Step, Acquire, Drop, Steal, vars

\* A live process's owner.json that was seen stale was seen past the absolute
\* age, and does not get younger: it is written once, and whole.
LEMMA SeenAgedStep ==
    ASSUME KInv, [Next]_vars
    PROVE  SeenAged'
<1> USE LeaseConstants DEF KInv, TypeOK, SeenAged, Committed, Stealing, Goto, files
<1>1. ASSUME NEW p \in Contender, Mkdir(p) \/ Open(p)
      PROVE SeenAged'
  BY <1>1 DEF Mkdir, Open, Return, WithoutFd
<1>2. ASSUME NEW p \in Contender, UNCHANGED <<owner, torn, age, alive>>, Return(p)
      PROVE SeenAged'
  BY <1>2, ReturnIs
<1>3. ASSUME NEW p \in Contender, CreateOwner(p) \/ FillOwner(p) PROVE SeenAged'
  <2>1. CASE CreateOwner(p)
    BY <1>3, <2>1 DEF CreateOwner, WritesOnce, HasNotWritten, WithoutFd
  <2>2. CASE FillOwner(p)
    BY <1>3, <2>2 DEF FillOwner, WritesOnce, WithoutFd
  <2>3. QED
    BY <1>3, <2>1, <2>2
<1>4. ASSUME NEW p \in Contender, CheckFence(p) \/ MatchPath(p)
      PROVE  SeenAged'
  BY <1>4 DEF CheckFence, MatchPath
<1>5. ASSUME NEW p \in Contender, Abandon(p) \/ CleanOwner(p) \/ Discard(p)
      PROVE  SeenAged'
  BY <1>5 DEF Abandon, CleanOwner, Discard, RemoveOwner, Touch, Names, NoWholeOwner,
     Return, OwnerMatches, WithoutFd
<1>6. ASSUME NEW p \in Contender, Clean(p) \/ CleanMatch(p) \/ CleanRmdir(p)
      PROVE  SeenAged'
  BY <1>2, <1>6 DEF Clean, CleanMatch, CleanRmdir
<1>7. ASSUME NEW p \in Contender, Observe(p) \/ ReadOwner(p) PROVE SeenAged'
  <2>1. CASE Observe(p)
    BY <2>1 DEF Observe
  <2>2. CASE ReadOwner(p)
    <3>1. CASE Stale(p)
      BY <2>2, <3>1, ReadOwnerSees DEF Stale, NoWholeOwner
    <3>2. CASE ~Stale(p)
      BY <1>2, <2>2, <3>2 DEF ReadOwner
    <3>3. QED
      BY <3>1, <3>2
  <2>3. QED
    BY <1>7, <2>1, <2>2
<1>8. ASSUME NEW p \in Contender,
             Compare(p) \/ ReadClaim(p) \/ Revalidate(p) \/ Rename(p) \/ Withdraw(p)
      PROVE  SeenAged'
  BY <1>2, <1>8 DEF Compare, ReadClaim, Revalidate, Rename, Withdraw
<1>9. ASSUME NEW p \in Contender, Evict(p) \/ PublishClaim(p) \/ Unclaim(p)
      PROVE  SeenAged'
  <2>1. CASE Evict(p)
    BY <2>1 DEF Evict, Touch, NoWholeOwner
  <2>2. CASE PublishClaim(p)
    BY <2>2 DEF PublishClaim, Touch, NoWholeOwner, Return
  <2>3. CASE Unclaim(p)
    BY <2>3 DEF Unclaim, Touch, NoWholeOwner, Return
  <2>4. QED
    BY <1>9, <2>1, <2>2, <2>3
<1>10. ASSUME NEW p \in Contender, Crash(p) PROVE SeenAged'
  BY <1>10 DEF Crash
<1>11. CASE GrowOld \/ \E p \in Contender : ViewGrowsOld(p)
  <2>1. CASE GrowOld
    <3>1. UNCHANGED <<owner, torn, alive, pc, fd, seen>>
      BY <2>1 DEF GrowOld
    <3>2. \A d \in Dir : owner[d] # None /\ d \notin torn /\ age[d] = 2 => age'[d] = 2
      BY <2>1 DEF GrowOld, NoWholeOwner
    <3>3. QED
      BY <3>1, <3>2 DEF WithoutFd
  <2>2. ASSUME NEW p \in Contender, ViewGrowsOld(p) PROVE SeenAged'
    BY <2>2 DEF ViewGrowsOld
  <2>3. QED
    BY <1>11, <2>1, <2>2
<1>12. QED
  BY <1>1, <1>3, <1>4, <1>5, <1>6, <1>7, <1>8, <1>9, <1>10, <1>11
  DEF Next, Step, Acquire, Drop, Steal, vars

\* A claim that was found in place again either saw the owner that is there
\* now or is seen by it.
LEMMA FencedOutStep ==
    ASSUME KInv, [Next]_vars
    PROVE  FencedOut'
<1> USE LeaseConstants DEF KInv, TypeOK, FencedOut, Goto, files
<1>1. ASSUME NEW p \in Contender, UNCHANGED owner, Return(p) PROVE FencedOut'
  BY <1>1, ReturnIs
<1>2. ASSUME NEW p \in Contender, NEW d \in Dir, RemoveOwner(d), Return(p)
      PROVE  FencedOut'
  <2>1. \A e \in Dir : owner'[e] \in {owner[e], None}
    BY <1>2 DEF RemoveOwner
  <2>2. QED
    BY <1>2, <2>1, ReturnIs DEF WithoutFd
<1>3. ASSUME NEW p \in Contender, Acquire(p) PROVE FencedOut'
  <2>1. CASE Mkdir(p)
    BY <2>1 DEF Mkdir
  <2>2. CASE Open(p)
    BY <1>1, <2>2 DEF Open
  <2>3. CASE CreateOwner(p) \/ FillOwner(p)
    BY <2>3 DEF CreateOwner, FillOwner, WithoutFd
  <2>4. CASE CheckFence(p)
    BY <2>4 DEF CheckFence, ClaimsStay
  <2>5. CASE MatchPath(p)
    BY <2>5 DEF MatchPath
  <2>6. CASE Abandon(p)
    <3>1. Return(p) /\ fd[p] \in Dir /\ (RemoveOwner(fd[p]) \/ UNCHANGED owner)
      BY <2>6 DEF Abandon, WithoutFd
    <3>2. QED
      BY <3>1, <1>1, <1>2
  <2>7. QED
    BY <1>3, <2>1, <2>2, <2>3, <2>4, <2>5, <2>6 DEF Acquire
<1>4. ASSUME NEW p \in Contender, Drop(p) PROVE FencedOut'
  <2>2. CASE Clean(p) \/ CleanMatch(p) \/ CleanRmdir(p)
    BY <1>1, <2>2 DEF Clean, CleanMatch, CleanRmdir
  <2>3. CASE CleanOwner(p)
    <3>1. CASE owner[fd[p]] = None
      BY <1>1, <2>3, <3>1 DEF CleanOwner
    <3>2. CASE owner[fd[p]] # None
      BY <2>3, <3>2 DEF CleanOwner, RemoveOwner, WithoutFd
    <3>3. QED
      BY <3>1, <3>2
  <2>4. QED
    BY <1>4, <2>2, <2>3 DEF Drop
<1>5. ASSUME NEW p \in Contender, Steal(p) PROVE FencedOut'
  <2>1. CASE Revalidate(p)
    <3>1. /\ UNCHANGED <<owner, fd, seen>> /\ pc[p] = "revalidating"
          /\ \A q \in Contender : q # p => pc'[q] = pc[q]
          /\ pc'[p] \in {"renaming", "withdrawing"}
      BY <2>1 DEF Revalidate
    <3>2. ASSUME pc'[p] = "renaming"
          PROVE  owner[fd[p]] = seen[p].owner /\ (fd[p] \in torn) = seen[p].torn
      BY <2>1, <3>2 DEF Revalidate, OwnerMatches
    <3>3. fd[p] \notin torn => (fd[p] \in torn) = FALSE
      OBVIOUS
    <3>4. ASSUME pc'[p] = "renaming", fd[p] \notin torn PROVE ~seen[p].torn
      BY <3>2, <3>3, <3>4
    <3>5. QED
      BY <3>1, <3>2, <3>4 DEF WrittenWhole
  <2>2. CASE Discard(p)
    <3>1. Return(p) /\ fd[p] \in Dir /\ (RemoveOwner(fd[p]) \/ UNCHANGED owner)
      BY <2>2 DEF Discard, WithoutFd
    <3>2. QED
      BY <3>1, <1>1, <1>2
  <2>3. CASE Observe(p) \/ ReadOwner(p) \/ Compare(p) \/ ReadClaim(p)
    BY <1>1, <2>3 DEF Observe, ReadOwner, Compare, ReadClaim
  <2>4. CASE Evict(p) \/ Rename(p)
    BY <2>4 DEF Evict, Rename
  <2>5. CASE PublishClaim(p) \/ Withdraw(p) \/ Unclaim(p)
    BY <1>1, <2>5 DEF PublishClaim, Withdraw, Unclaim
  <2>6. QED
    BY <1>5, <2>1, <2>2, <2>3, <2>4, <2>5 DEF Steal
<1>6. ASSUME NEW p \in Contender, Crash(p) PROVE FencedOut'
  BY <1>6 DEF Crash
<1>7. CASE GrowOld \/ \E p \in Contender : ViewGrowsOld(p)
  BY <1>7 DEF GrowOld, ViewGrowsOld, files
<1>8. QED
  BY <1>3, <1>4, <1>5, <1>6, <1>7 DEF Next, Step, vars

\* In the beginning nobody has done anything.
LEMMA InitKInv == Init => KInv
<1> SUFFICES ASSUME Init PROVE KInv
  OBVIOUS
<1> USE LeaseConstants DEF Init
<1>1. TypeOK
  <2>1. NoView \in View
    BY DEF NoView, View
  <2>2. still \in BOOLEAN
    OBVIOUS
  <2>3. age \in [Dir -> 0 .. 2]
    OBVIOUS
  <2>4. QED
    BY <2>1, <2>2, <2>3 DEF TypeOK, WithoutFd
<1>2. OnlyLivingAct /\ NewIsEmpty /\ ClaimsStay
  BY DEF OnlyLivingAct, NewIsEmpty, ClaimsStay
<1>3. WritesOnce /\ WrittenWhole /\ SeenAged /\ FencedOut
  BY DEF WritesOnce, WrittenWhole, SeenAged, FencedOut, Committed, Stealing
<1>4. QED
  BY <1>1, <1>2, <1>3 DEF KInv

\* The invariant, of whoever dwells.
LEMMA AlwaysKInv == Spec /\ EvictsOnlyTheDead => []KInv
<1>1. KInv /\ [Next]_vars /\ EvictsDead => KInv'
  BY TypeOKStep, OnlyLivingActStep, NewIsEmptyStep, ClaimsStayStep, WritesOnceStep,
     WrittenWholeStep, SeenAgedStep, FencedOutStep DEF KInv
<1>2. KInv /\ UNCHANGED vars => KInv'
  BY DEF vars, KInv, TypeOK, OnlyLivingAct, NewIsEmpty, ClaimsStay, WritesOnce,
     HasNotWritten, WrittenWhole, SeenAged, FencedOut, Committed
<1>3. KInv /\ [Next]_vars /\ [EvictsDead]_vars => KInv'
  BY <1>1, <1>2
<1>4. QED
  BY InitKInv, <1>3, PTL DEF Spec, EvictsOnlyTheDead

\* What a rename takes away is the directory that holds its own claim.
LEMMA RenameTakesItsOwn ==
    ASSUME KInv, NEW p \in Contender, Rename(p)
    PROVE  leaf = fd[p]
BY DEF Rename, KInv, ClaimsStay

\* steal_cache_lease_if_unchanged: a recovery that takes away a lease takes
\* the one it observed, however long anybody dwells.
THEOREM RecoveryTakesTheObserved ==
    Spec /\ EvictsOnlyTheDead => RecoverySparesReplacement
<1> DEFINE Spares == \A p \in Contender :
              Rename(p) /\ leaf # None /\ owner[leaf] # None => leaf = fd[p]
<1>1. KInv => [Spares]_vars
  BY RenameTakesItsOwn
<1>2. QED
  BY <1>1, AlwaysKInv, PTL DEF RecoverySparesReplacement

\* The pathname of a holder whose owner.json is in place changes by a rename
\* of one who has seen it whole, hence past the absolute age.
LEMMA LeaseTakenIsAged ==
    ASSUME KInv, [Next]_vars, NEW p \in Contender, Holds(p), leaf = fd[p],
           owner[fd[p]] = p, leaf' # leaf
    PROVE  age[fd[p]] = 2
<1>1. p \in alive /\ fd[p] \in Dir /\ leaf # None
  BY LeaseConstants DEF KInv, OnlyLivingAct, Holds, TypeOK, WithoutFd
<1>2. PICK q \in Contender : Rename(q)
  <2>1. ASSUME NEW q \in Contender, Step(q) \/ Crash(q), ~Rename(q) PROVE leaf' = leaf
    BY <1>1, <2>1, LeaseConstants
    DEF Step, Acquire, Drop, Steal, Mkdir, Open, CreateOwner, FillOwner, CheckFence,
        MatchPath, Abandon, Clean, CleanOwner, CleanMatch, CleanRmdir, EmptyDir, Observe,
        ReadOwner, Compare, ReadClaim, Evict, PublishClaim, Revalidate, Withdraw, Unclaim,
        Discard, Crash, files
  <2>2. QED
    BY <2>1 DEF Next, GrowOld, ViewGrowsOld, files, vars
<1>3. pc[q] = "renaming" /\ fd[q] = fd[p]
  BY <1>2, RenameTakesItsOwn DEF Rename
<1>4. seen[q].owner = p /\ ~seen[q].torn
  BY <1>3 DEF KInv, FencedOut, Holds
<1>5. Committed(q)
  BY <1>3 DEF Committed, Stealing
<1>6. QED
  BY <1>1, <1>3, <1>4, <1>5 DEF KInv, SeenAged

\* A live holder whose owner.json is in place loses its lease past the
\* absolute age only, however long it and the others dwell.
THEOREM HolderKeepsLease ==
    Spec /\ EvictsOnlyTheDead => LiveHolderLosesOnlyAged
<1> DEFINE Kept == \A p \in Contender :
              /\ Holds(p)
              /\ leaf = fd[p]
              /\ owner[fd[p]] = p
              /\ leaf' # leaf
              => age[fd[p]] = 2
<1>1. KInv /\ [Next]_vars => [Kept]_vars
  BY LeaseTakenIsAged
<1>2. QED
  BY <1>1, AlwaysKInv, PTL DEF Spec, LiveHolderLosesOnlyAged

\* While a holder's owner.json is in place and young, the pathname leads to it.
IntactInPlace == \A p \in Contender : Intact(p) => leaf = fd[p]

\* Nothing but its writer brings an owner.json of p to a directory or makes it
\* younger, and that is before p holds the lease.
LEMMA OwnerIsOlder ==
    ASSUME KInv, [Next]_vars, NEW p \in Contender, Holds(p), owner'[fd[p]] = p
    PROVE  owner[fd[p]] = p /\ age'[fd[p]] >= age[fd[p]]
<1> USE LeaseConstants DEF KInv, TypeOK, Holds, WithoutFd
<1>1. fd[p] \in Dir
  OBVIOUS
<1>2. ASSUME NEW q \in Contender, CreateOwner(q)
      PROVE owner[fd[p]] = p /\ age' = age
  BY <1>1, <1>2 DEF CreateOwner
<1>3. ASSUME NEW q \in Contender, FillOwner(q)
      PROVE owner[fd[p]] = p /\ age'[fd[p]] = age[fd[p]]
  BY <1>1, <1>3 DEF FillOwner
<1>4. ASSUME NEW d \in Dir, RemoveOwner(d)
      PROVE owner[fd[p]] = p /\ age'[fd[p]] = age[fd[p]]
  BY <1>1, <1>4 DEF RemoveOwner
<1>5. ASSUME NEW q \in Contender, Abandon(q) \/ CleanOwner(q) \/ Discard(q)
      PROVE  (owner' = owner /\ age' = age) \/ RemoveOwner(fd[q])
  BY <1>5 DEF Abandon, CleanOwner, Discard
<1>6. CASE GrowOld
  <2>1. owner[fd[p]] = p /\ fd[p] \notin torn
    BY <1>1, <1>6 DEF GrowOld, WrittenWhole
  <2>2. PICK a \in 0 .. 2 : /\ ~NoWholeOwner(leaf) => a >= age[leaf]
                            /\ age' = [age EXCEPT ![leaf] = a]
    BY <1>6 DEF GrowOld
  <2>3. age[fd[p]] \in 0 .. 2
    BY <1>1
  <2>4. CASE leaf = fd[p]
    BY <1>1, <2>1, <2>2, <2>4 DEF NoWholeOwner
  <2>5. CASE leaf # fd[p]
    <3>1. age'[fd[p]] = age[fd[p]]
      BY <1>1, <2>2, <2>5
    <3>2. QED
      BY <2>1, <2>3, <3>1
  <2>6. QED
    BY <2>4, <2>5
<1>7. ASSUME NEW q \in Contender, Step(q) \/ Crash(q) \/ ViewGrowsOld(q),
             ~CreateOwner(q), ~FillOwner(q), ~Abandon(q), ~CleanOwner(q), ~Discard(q)
      PROVE  owner' = owner /\ age' = age
  BY <1>7 DEF Step, Acquire, Drop, Steal, Mkdir, Open, CheckFence, MatchPath, Clean,
     CleanMatch, CleanRmdir, Observe, ReadOwner, Compare, ReadClaim, Evict, PublishClaim,
     Revalidate, Rename, Withdraw, Unclaim, Crash, ViewGrowsOld, files
<1>8. ASSUME NEW q \in Contender, Abandon(q) \/ CleanOwner(q) \/ Discard(q)
      PROVE  owner[fd[p]] = p /\ age'[fd[p]] >= age[fd[p]]
  <2>1. fd[q] \in Dir
    BY <1>8 DEF Abandon, CleanOwner, Discard
  <2>2. QED
    BY <1>1, <1>4, <1>5, <1>8, <2>1
<1>9. age[fd[p]] \in 0 .. 2 /\ (age'[fd[p]] = age[fd[p]] => age'[fd[p]] >= age[fd[p]])
  BY <1>1
<1> HIDE DEF KInv
<1>10. ASSUME owner' = owner /\ age' = age
       PROVE  owner[fd[p]] = p /\ age'[fd[p]] >= age[fd[p]]
  BY <1>9, <1>10
<1>11. QED
  BY <1>2, <1>3, <1>6, <1>7, <1>8, <1>9, <1>10 DEF Next, vars

\* A lease that is held and whole was so before, or was entered in its place.
LEMMA IntactBefore ==
    ASSUME KInv, [Next]_vars, NEW p \in Contender, Intact(p)'
    PROVE  \/ Intact(p) /\ fd'[p] = fd[p]
           \/ leaf' = fd'[p]
<1>1. CASE MatchPath(p)
  BY <1>1 DEF MatchPath, Goto, files, Intact, Holds, KInv, TypeOK
<1>2. CASE ~MatchPath(p)
  <2>1. Holds(p) /\ fd'[p] = fd[p]
    <3>1. pc'[p] = "held"
      BY DEF Intact, Holds
    <3>2. ASSUME NEW q \in Contender, Step(q) \/ Crash(q), q # p
          PROVE pc'[p] = pc[p] /\ fd'[p] = fd[p]
      BY <3>2
      DEF Step, Acquire, Drop, Steal, Mkdir, Open, CreateOwner, FillOwner, CheckFence,
          MatchPath, Abandon, Clean, CleanOwner, CleanMatch, CleanRmdir, Observe,
          ReadOwner, Compare, ReadClaim, Evict, PublishClaim, Revalidate, Rename, Withdraw,
          Unclaim, Discard, Crash, files, Goto, Return, KInv, TypeOK
    <3>3. ~Step(p) /\ ~Crash(p)
      BY <1>2, <3>1
      DEF Step, Acquire, Drop, Steal, Mkdir, Open, CreateOwner, FillOwner, CheckFence,
          Abandon, Clean, CleanOwner, CleanMatch, CleanRmdir, Observe,
          ReadOwner, Compare, ReadClaim, Evict, PublishClaim, Revalidate, Rename, Withdraw,
          Unclaim, Discard, Crash, files, Goto, Return, KInv, TypeOK
    <3>4. ASSUME GrowOld \/ (\E q \in Contender : ViewGrowsOld(q)) \/ UNCHANGED vars
          PROVE pc' = pc /\ fd' = fd
      BY <3>4 DEF GrowOld, ViewGrowsOld, vars
    <3>5. QED
      BY <3>1, <3>2, <3>3, <3>4 DEF Next, Holds
  <2>2. owner'[fd[p]] = p /\ age'[fd[p]] < 2
    BY <2>1 DEF Intact
  <2>3. owner[fd[p]] = p /\ age'[fd[p]] >= age[fd[p]]
    BY <2>1, <2>2, OwnerIsOlder
  <2>4. age[fd[p]] \in Int /\ age'[fd[p]] \in Int
    BY <2>1, TypeOKStep DEF KInv, TypeOK, Holds, WithoutFd
  <2>5. age[fd[p]] < 2
    BY <2>2, <2>3, <2>4
  <2>6. QED
    BY <2>1, <2>3, <2>5 DEF Intact
<1>3. QED
  BY <1>1, <1>2

\* Two processes that both hold the lease have had the owner.json of one taken
\* away, or one of them is past the absolute age, however long anybody dwells
\* and whatever a recovery saw.
THEOREM LeaseIsExclusive ==
    Spec /\ EvictsOnlyTheDead => []LeaseExclusion
<1>1. Init => IntactInPlace
  BY DEF Init, IntactInPlace, Intact, Holds
<1>2. ASSUME KInv, IntactInPlace, [Next]_vars PROVE IntactInPlace'
  <2> SUFFICES ASSUME NEW p \in Contender, Intact(p)' PROVE leaf' = fd'[p]
    BY DEF IntactInPlace
  <2>1. CASE Intact(p) /\ fd'[p] = fd[p]
    <3>1. Holds(p) /\ leaf = fd[p] /\ owner[fd[p]] = p /\ age[fd[p]] # 2
      BY <1>2, <2>1 DEF IntactInPlace, Intact
    <3>2. leaf' = leaf
      BY <1>2, <3>1, LeaseTakenIsAged
    <3>3. QED
      BY <2>1, <3>1, <3>2
  <2>2. QED
    BY <1>2, <2>1, IntactBefore
<1>3. IntactInPlace => LeaseExclusion
  BY DEF IntactInPlace, LeaseExclusion, Intact
<1>4. QED
  BY <1>1, <1>2, <1>3, AlwaysKInv, PTL DEF Spec
=============================================================================
