--------------------------- MODULE PlainLockProof ---------------------------
(***************************************************************************)
(* The claim fence of the directory lock, for every number of processes    *)
(* and directories and with live processes that pause anywhere.            *)
(*                                                                         *)
(* The invariant is the conjunction the module PlainLock names part by     *)
(* part; each action preserves each part, and the two theorems of interest *)
(* follow: a published holder keeps the pathname, and a steal moves only   *)
(* the directory it claimed.                                               *)
(***************************************************************************)
EXTENDS PlainLock, TLAPS

IInv ==
    /\ TypeOK
    /\ OnlyLivingAct
    /\ ReliedOnClaims
    /\ TombstonesRetained
    /\ RenameTarget
    /\ ClaimFence
    /\ PublishedHolderKeepsPath

\* A stealer about to rename relies on a claim that is in place.
LEMMA RenamerHasClaim ==
    ASSUME TypeOK, ReliedOnClaims, NEW x \in Contender, pc[x] = "renaming"
    PROVE  /\ seen[x].claim \in Contender
           /\ fd[x] \in Dir
           /\ claim[fd[x]] = seen[x].claim
           /\ seen[x].claim = x \/ seen[x].claim \notin alive
<1>1. ReliesOnClaim(x)
  BY DEF ReliedOnClaims
<1>2. seen[x].claim # None
  BY <1>1 DEF ReliesOnClaim
<1>3. seen[x].claim \in Contender \cup {None} /\ fd[x] \in Dir
  BY DEF TypeOK, WithoutFd
<1>4. QED
  BY <1>1, <1>2, <1>3 DEF ReliesOnClaim

\* A rename that succeeds finds at the pathname the directory whose claim the
\* stealer relies on: the tombstone of that claim is still free.
LEMMA RenameMovesClaimed ==
    ASSUME TypeOK, ReliedOnClaims, TombstonesRetained, RenameTarget,
           NEW x \in Contender, pc[x] = "renaming", CanMove(x)
    PROVE  /\ <<seen[x].claim, fd[x]>> \in Contender \X Dir
           /\ tomb[<<seen[x].claim, fd[x]>>] = None
           /\ claim[fd[x]] = seen[x].claim
           /\ leaf = fd[x]
<1> DEFINE u == <<seen[x].claim, fd[x]>>
<1>1. u \in Contender \X Dir /\ claim[fd[x]] = seen[x].claim
  BY RenamerHasClaim
<1>2. tomb[u] # None => tomb[u] = fd[x]
  BY <1>1 DEF TombstonesRetained
<1>3. tomb[u] = None
  BY <1>1, <1>2, NoneAssumption DEF CanMove, EmptyDir
<1>4. QED
  BY <1>1, <1>3, NoneAssumption DEF RenameTarget

\* Every action keeps the types; past openat a call has a descriptor.
LEMMA TypeOKStep ==
    ASSUME TypeOK, [Next]_vars
    PROVE  TypeOK'
<1> USE NoneAssumption DEF TypeOK, PC, Acquiring, Releasing, Stealing, WithoutFd
<1>1. ASSUME NEW x \in Contender, Mkdir(x) PROVE TypeOK'
  BY <1>1 DEF Mkdir, Goto
<1>2. ASSUME NEW x \in Contender, MkdirExists(x) PROVE TypeOK'
  BY <1>2 DEF MkdirExists, Goto, files
<1>3. ASSUME NEW x \in Contender, Open(x) PROVE TypeOK'
  <2>1. CASE leaf # None
    BY <1>3, <2>1 DEF Open, Goto, Return, NoView, files
  <2>2. CASE leaf = None
    BY <1>3, <2>2 DEF Open, Goto, Return, NoView, files
  <2>3. QED
    BY <2>1, <2>2
<1>4. ASSUME NEW x \in Contender, LinkOwner(x) PROVE TypeOK'
  BY <1>4 DEF LinkOwner, Goto, Touch, Removed
<1>5. ASSUME NEW x \in Contender, VerifyOwner(x) PROVE TypeOK'
  BY <1>5 DEF VerifyOwner, Goto, files
<1>6. ASSUME NEW x \in Contender, CheckFence(x) PROVE TypeOK'
  BY <1>6 DEF CheckFence, Goto, files
<1>7. ASSUME NEW x \in Contender, MatchPath(x) PROVE TypeOK'
  BY <1>7 DEF MatchPath, Goto, files
<1>8. ASSUME NEW x \in Contender, Abandon(x) PROVE TypeOK'
  BY <1>8 DEF Abandon, Return, NoView
<1>9. ASSUME NEW x \in Contender, DropOpen(x) PROVE TypeOK'
  BY <1>9 DEF DropOpen, Goto, Return, NoView, files
<1>10. ASSUME NEW x \in Contender, DropUnlink(x) PROVE TypeOK'
  <2>1. CASE owner[fd[x]] = None
    BY <1>10, <2>1 DEF DropUnlink, Return, NoView
  <2>2. CASE owner[fd[x]] # None
    BY <1>10, <2>2 DEF DropUnlink, Goto, Touch
  <2>3. QED
    BY <2>1, <2>2
<1>11. ASSUME NEW x \in Contender, DropRmdir(x) PROVE TypeOK'
  BY <1>11 DEF DropRmdir, Return, NoView, EmptyDir
<1>12. ASSUME NEW x \in Contender, Inspect(x) PROVE TypeOK'
  BY <1>12 DEF Inspect, Goto, Return, NoView, files
<1>13. ASSUME NEW x \in Contender, Observe(x) PROVE TypeOK'
  <2>1. fd[x] \in Dir
    BY <1>13 DEF Observe
  <2>2. CASE IsAlive(owner[fd[x]])
    BY <1>13, <2>2 DEF Observe, Goto, Return, NoView, files, IsAlive
  <2>3. CASE ~IsAlive(owner[fd[x]])
    <3>1. owner[fd[x]] \in Contender \cup {None}
      BY <2>1
    <3>2. seen' \in [Contender -> [owner : Contender \cup {None},
                                   claim : Contender \cup {None}]]
      BY <1>13, <2>3, <3>1 DEF Observe
    <3>3. QED
      BY <1>13, <2>3, <3>2 DEF Observe, Goto, files
  <2>4. QED
    BY <2>2, <2>3
<1>14. ASSUME NEW x \in Contender, ReadClaim(x) PROVE TypeOK'
  <2> DEFINE c == claim[fd[x]]
  <2>1. c \in Contender \cup {None}
    BY <1>14 DEF ReadClaim
  <2>2. CASE Return(x) /\ UNCHANGED <<files, alive>>
    BY <2>2 DEF Return, NoView, files
  <2>3. CASE /\ seen' = [seen EXCEPT ![x].claim = c]
             /\ Goto(x, "revalidating") /\ UNCHANGED fd
             /\ UNCHANGED <<files, alive>> /\ pc[x] = "claiming"
    <3>1. seen' \in [Contender -> [owner : Contender \cup {None},
                                   claim : Contender \cup {None}]]
      BY <2>1, <2>3
    <3>2. QED
      BY <2>3, <3>1 DEF Goto, files
  <2>4. CASE /\ Goto(x, "publishing") /\ UNCHANGED <<fd, seen>>
             /\ UNCHANGED <<files, alive>> /\ pc[x] = "claiming"
    BY <2>4 DEF Goto, files
  <2>5. QED
    BY <1>14, <2>2, <2>3, <2>4 DEF ReadClaim
<1>15. ASSUME NEW x \in Contender, PublishClaim(x) PROVE TypeOK'
  <2>1. CASE claim[fd[x]] = None /\ ~Removed(fd[x])
    <3>1. seen' \in [Contender -> [owner : Contender \cup {None},
                                   claim : Contender \cup {None}]]
      BY <1>15, <2>1 DEF PublishClaim
    <3>2. QED
      BY <1>15, <2>1, <3>1 DEF PublishClaim, Goto, Touch
  <2>2. CASE ~(claim[fd[x]] = None /\ ~Removed(fd[x]))
    <3>1. /\ Return(x) /\ old' = old \ {fd[x]}
          /\ UNCHANGED <<leaf, made, owner, claim, tomb, alive>>
      BY <1>15, <2>2 DEF PublishClaim, Touch
    <3>2. QED
      BY <3>1 DEF Return, NoView
  <2>3. QED
    BY <2>1, <2>2
<1>16. ASSUME NEW x \in Contender, Revalidate(x) PROVE TypeOK'
  <2>1. UNCHANGED <<files, alive>> /\ pc[x] = "revalidating"
    BY <1>16 DEF Revalidate
  <2>2. CASE Return(x)
    BY <2>1, <2>2 DEF Return, NoView, files
  <2>3. CASE /\ UNCHANGED <<fd, seen>>
             /\ Goto(x, "renaming") \/ Goto(x, "unclaiming")
    BY <2>1, <2>3 DEF Goto, files
  <2>4. QED
    BY <1>16, <2>2, <2>3 DEF Revalidate, GiveUp
<1>17. ASSUME NEW x \in Contender, Rename(x) PROVE TypeOK'
  <2>1. CASE CanMove(x)
    <3>1. tomb' \in [Contender \X Dir -> Dir \cup {None}]
      <4>1. \E t : tomb' = [tomb EXCEPT ![t] = leaf]
        BY <1>17, <2>1 DEF Rename
      <4>2. leaf \in Dir \cup {None}
        OBVIOUS
      <4>3. QED
        BY <4>1, <4>2
    <3>2. /\ leaf' = None /\ Return(x)
          /\ UNCHANGED <<made, owner, claim, old, alive>>
      BY <1>17, <2>1 DEF Rename
    <3>3. QED
      BY <3>1, <3>2 DEF Return, NoView
  <2>2. CASE ~CanMove(x)
    BY <1>17, <2>2 DEF Rename, Return, NoView, GiveUp, Goto, CanMove, EmptyDir
  <2>3. QED
    BY <2>1, <2>2
<1>18. ASSUME NEW x \in Contender, Unclaim(x) PROVE TypeOK'
  BY <1>18 DEF Unclaim, Return, NoView, Touch
<1>19. ASSUME NEW x \in Contender, Crash(x) PROVE TypeOK'
  BY <1>19 DEF Crash, files, NoView
<1>20. ASSUME NEW d \in Dir, Age(d) PROVE TypeOK'
  BY <1>20 DEF Age
<1>21. CASE UNCHANGED vars
  BY <1>21 DEF vars
<1>22. QED
  BY <1>1, <1>2, <1>3, <1>4, <1>5, <1>6, <1>7, <1>8, <1>9, <1>10, <1>11, <1>12,
     <1>13, <1>14, <1>15, <1>16, <1>17, <1>18, <1>19, <1>20, <1>21
  DEF Next, Step, Acquire, Drop, Steal

\* Only a crash changes who lives, and it sends the process to "dead".
LEMMA OnlyLivingActStep ==
    ASSUME TypeOK, OnlyLivingAct, [Next]_vars
    PROVE  OnlyLivingAct'
<1> USE NoneAssumption DEF OnlyLivingAct, TypeOK, PC, Acquiring, Releasing, Stealing, WithoutFd
<1>1. ASSUME NEW x \in Contender, Mkdir(x) PROVE OnlyLivingAct'
  BY <1>1 DEF Mkdir, Goto
<1>2. ASSUME NEW x \in Contender, MkdirExists(x) PROVE OnlyLivingAct'
  BY <1>2 DEF MkdirExists, Goto, files
<1>3. ASSUME NEW x \in Contender, Open(x) PROVE OnlyLivingAct'
  BY <1>3 DEF Open, Goto, Return, NoView, files
<1>4. ASSUME NEW x \in Contender, LinkOwner(x) PROVE OnlyLivingAct'
  BY <1>4 DEF LinkOwner, Goto, Touch, Removed
<1>5. ASSUME NEW x \in Contender, VerifyOwner(x) PROVE OnlyLivingAct'
  BY <1>5 DEF VerifyOwner, Goto, files
<1>6. ASSUME NEW x \in Contender, CheckFence(x) PROVE OnlyLivingAct'
  BY <1>6 DEF CheckFence, Goto, files
<1>7. ASSUME NEW x \in Contender, MatchPath(x) PROVE OnlyLivingAct'
  BY <1>7 DEF MatchPath, Goto, files
<1>8. ASSUME NEW x \in Contender, Abandon(x) PROVE OnlyLivingAct'
  BY <1>8 DEF Abandon, Return, NoView
<1>9. ASSUME NEW x \in Contender, DropOpen(x) PROVE OnlyLivingAct'
  BY <1>9 DEF DropOpen, Goto, Return, NoView, files
<1>10. ASSUME NEW x \in Contender, DropUnlink(x) PROVE OnlyLivingAct'
  <2>1. CASE owner[fd[x]] = None
    BY <1>10, <2>1 DEF DropUnlink, Return, NoView
  <2>2. CASE owner[fd[x]] # None
    BY <1>10, <2>2 DEF DropUnlink, Goto, Touch
  <2>3. QED
    BY <2>1, <2>2
<1>11. ASSUME NEW x \in Contender, DropRmdir(x) PROVE OnlyLivingAct'
  BY <1>11 DEF DropRmdir, Return, NoView, EmptyDir
<1>12. ASSUME NEW x \in Contender, Inspect(x) PROVE OnlyLivingAct'
  BY <1>12 DEF Inspect, Goto, Return, NoView, files
<1>13. ASSUME NEW x \in Contender, Observe(x) PROVE OnlyLivingAct'
  BY <1>13 DEF Observe, Goto, Return, NoView, files, IsAlive
<1>14. ASSUME NEW x \in Contender, ReadClaim(x) PROVE OnlyLivingAct'
  BY <1>14 DEF ReadClaim, Goto, Return, NoView, files, IsAlive
<1>15. ASSUME NEW x \in Contender, PublishClaim(x) PROVE OnlyLivingAct'
  BY <1>15 DEF PublishClaim, Goto, Return, NoView, Touch, Removed
<1>16. ASSUME NEW x \in Contender, Revalidate(x) PROVE OnlyLivingAct'
  BY <1>16 DEF Revalidate, Goto, GiveUp, Return, NoView, files, Unchanged, IsAlive
<1>17. ASSUME NEW x \in Contender, Rename(x) PROVE OnlyLivingAct'
  BY <1>17 DEF Rename, Return, NoView, GiveUp, Goto, CanMove, EmptyDir
<1>18. ASSUME NEW x \in Contender, Unclaim(x) PROVE OnlyLivingAct'
  BY <1>18 DEF Unclaim, Return, NoView, Touch
<1>19. ASSUME NEW x \in Contender, Crash(x) PROVE OnlyLivingAct'
  BY <1>19 DEF Crash, files, NoView
<1>20. ASSUME NEW d \in Dir, Age(d) PROVE OnlyLivingAct'
  BY <1>20 DEF Age
<1>21. CASE UNCHANGED vars
  BY <1>21 DEF vars
<1>22. QED
  BY <1>1, <1>2, <1>3, <1>4, <1>5, <1>6, <1>7, <1>8, <1>9, <1>10, <1>11, <1>12,
     <1>13, <1>14, <1>15, <1>16, <1>17, <1>18, <1>19, <1>20, <1>21
  DEF Next, Step, Acquire, Drop, Steal

\* A claim is withdrawn only by its claimant, and a dead one withdraws nothing.
LEMMA ReliedOnClaimsStep ==
    ASSUME TypeOK, OnlyLivingAct, ReliedOnClaims, TombstonesRetained, [Next]_vars
    PROVE  ReliedOnClaims'
<1> USE NoneAssumption DEF OnlyLivingAct, ReliedOnClaims, ReliesOnClaim, TombstonesRetained, TypeOK, PC, Acquiring, Releasing, Stealing, WithoutFd
<1>1. ASSUME NEW x \in Contender, Mkdir(x) PROVE ReliedOnClaims'
  <2>1. seen[x].claim = None
    BY <1>1 DEF Mkdir
  <2>2. ReliesOnClaim(x)'
    BY <1>1, <2>1 DEF Mkdir, Goto
  <2>3. ASSUME NEW p \in Contender, p # x PROVE ReliesOnClaim(p)'
    BY <1>1, <2>3 DEF Mkdir, Goto
  <2>4. QED
    BY <2>2, <2>3
<1>2. ASSUME NEW x \in Contender, MkdirExists(x) PROVE ReliedOnClaims'
  BY <1>2 DEF MkdirExists, Goto, files
<1>3. ASSUME NEW x \in Contender, Open(x) PROVE ReliedOnClaims'
  <2>1. seen[x].claim = None
    BY <1>3 DEF Open
  <2>2. ReliesOnClaim(x)'
    BY <1>3, <2>1 DEF Open, Goto, Return, NoView, files
  <2>3. ASSUME NEW p \in Contender, p # x PROVE ReliesOnClaim(p)'
    BY <1>3, <2>3 DEF Open, Goto, Return, NoView, files
  <2>4. QED
    BY <2>2, <2>3
<1>4. ASSUME NEW x \in Contender, LinkOwner(x) PROVE ReliedOnClaims'
  BY <1>4 DEF LinkOwner, Goto, Touch, Removed
<1>5. ASSUME NEW x \in Contender, VerifyOwner(x) PROVE ReliedOnClaims'
  BY <1>5 DEF VerifyOwner, Goto, files
<1>6. ASSUME NEW x \in Contender, CheckFence(x) PROVE ReliedOnClaims'
  BY <1>6 DEF CheckFence, Goto, files
<1>7. ASSUME NEW x \in Contender, MatchPath(x) PROVE ReliedOnClaims'
  BY <1>7 DEF MatchPath, Goto, files
<1>8. ASSUME NEW x \in Contender, Abandon(x) PROVE ReliedOnClaims'
  BY <1>8 DEF Abandon, Return, NoView
<1>9. ASSUME NEW x \in Contender, DropOpen(x) PROVE ReliedOnClaims'
  <2>1. seen[x].claim = None
    BY <1>9 DEF DropOpen
  <2>2. ReliesOnClaim(x)'
    BY <1>9, <2>1 DEF DropOpen, Goto, Return, NoView, files
  <2>3. ASSUME NEW p \in Contender, p # x PROVE ReliesOnClaim(p)'
    BY <1>9, <2>3 DEF DropOpen, Goto, Return, NoView, files
  <2>4. QED
    BY <2>2, <2>3
<1>10. ASSUME NEW x \in Contender, DropUnlink(x) PROVE ReliedOnClaims'
  <2>1. CASE owner[fd[x]] = None
    BY <1>10, <2>1 DEF DropUnlink, Return, NoView
  <2>2. CASE owner[fd[x]] # None
    BY <1>10, <2>2 DEF DropUnlink, Goto, Touch
  <2>3. QED
    BY <2>1, <2>2
<1>11. ASSUME NEW x \in Contender, DropRmdir(x) PROVE ReliedOnClaims'
  BY <1>11 DEF DropRmdir, Return, NoView, EmptyDir
<1>12. ASSUME NEW x \in Contender, Inspect(x) PROVE ReliedOnClaims'
  <2>1. seen[x].claim = None
    BY <1>12 DEF Inspect
  <2>2. ReliesOnClaim(x)'
    BY <1>12, <2>1 DEF Inspect, Goto, Return, NoView, files
  <2>3. ASSUME NEW p \in Contender, p # x PROVE ReliesOnClaim(p)'
    BY <1>12, <2>3 DEF Inspect, Goto, Return, NoView, files
  <2>4. QED
    BY <2>2, <2>3
<1>13. ASSUME NEW x \in Contender, Observe(x) PROVE ReliedOnClaims'
  BY <1>13 DEF Observe, Goto, Return, NoView, files, IsAlive
<1>14. ASSUME NEW x \in Contender, ReadClaim(x) PROVE ReliedOnClaims'
  BY <1>14 DEF ReadClaim, Goto, Return, NoView, files, IsAlive
<1>15. ASSUME NEW x \in Contender, PublishClaim(x) PROVE ReliedOnClaims'
  BY <1>15 DEF PublishClaim, Goto, Return, NoView, Touch, Removed
<1>16. ASSUME NEW x \in Contender, Revalidate(x) PROVE ReliedOnClaims'
  BY <1>16 DEF Revalidate, Goto, GiveUp, Return, NoView, files, Unchanged, IsAlive
<1>17. ASSUME NEW x \in Contender, Rename(x) PROVE ReliedOnClaims'
  <2>1. CASE ~CanMove(x)
    BY <1>17, <2>1 DEF Rename, GiveUp, Goto, Return, NoView
  <2>2. CASE CanMove(x)
    <3>1. ReliesOnClaim(x)'
      BY <1>17, <2>2 DEF Rename, Return, NoView
    <3>2. ASSUME NEW p \in Contender, p # x PROVE ReliesOnClaim(p)'
      <4>1. seen'[p] = seen[p] /\ fd'[p] = fd[p] /\ pc'[p] = pc[p]
        BY <1>17, <2>2, <3>2 DEF Rename, Return
      <4>2. CASE seen[p].claim = p
        <5>1. p \in alive
          <6>1. ReliesOnClaim(p) /\ p # None
            BY <3>2
          <6>2. pc[p] # "dead"
            BY <4>2, <6>1
          <6>3. QED
            BY <3>2, <6>2
        <5>2. seen[x].claim # p
          BY <1>17, <3>2, <5>1, RenamerHasClaim DEF Rename
        <5>3. tomb'[<<p, fd[p]>>] = tomb[<<p, fd[p]>>]
          BY <1>17, <2>2, <4>2, <5>2 DEF Rename
        <5>4. QED
          BY <1>17, <2>2, <4>1, <4>2, <5>3 DEF Rename
      <4>3. CASE seen[p].claim # p
        BY <1>17, <2>2, <4>1, <4>3 DEF Rename
      <4>4. QED
        BY <4>2, <4>3
    <3>3. QED
      BY <3>1, <3>2
  <2>3. QED
    BY <2>1, <2>2
<1>18. ASSUME NEW x \in Contender, Unclaim(x) PROVE ReliedOnClaims'
  BY <1>18 DEF Unclaim, Return, NoView, Touch
<1>19. ASSUME NEW x \in Contender, Crash(x) PROVE ReliedOnClaims'
  BY <1>19 DEF Crash, files, NoView
<1>20. ASSUME NEW d \in Dir, Age(d) PROVE ReliedOnClaims'
  BY <1>20 DEF Age
<1>21. CASE UNCHANGED vars
  BY <1>21 DEF vars
<1>22. QED
  BY <1>1, <1>2, <1>3, <1>4, <1>5, <1>6, <1>7, <1>8, <1>9, <1>10, <1>11, <1>12,
     <1>13, <1>14, <1>15, <1>16, <1>17, <1>18, <1>19, <1>20, <1>21
  DEF Next, Step, Acquire, Drop, Steal

\* A retained directory keeps its claim, so nothing replaces it.
LEMMA TombstonesRetainedStep ==
    ASSUME TypeOK, ReliedOnClaims, TombstonesRetained, RenameTarget, [Next]_vars
    PROVE  TombstonesRetained'
<1> USE NoneAssumption DEF ReliedOnClaims, ReliesOnClaim, TombstonesRetained, RenameTarget, TypeOK, PC, Acquiring, Releasing, Stealing, WithoutFd
<1>1. ASSUME NEW x \in Contender, Mkdir(x) PROVE TombstonesRetained'
  BY <1>1 DEF Mkdir, Goto
<1>2. ASSUME NEW x \in Contender, MkdirExists(x) PROVE TombstonesRetained'
  BY <1>2 DEF MkdirExists, Goto, files
<1>3. ASSUME NEW x \in Contender, Open(x) PROVE TombstonesRetained'
  BY <1>3 DEF Open, Goto, Return, NoView, files
<1>4. ASSUME NEW x \in Contender, LinkOwner(x) PROVE TombstonesRetained'
  BY <1>4 DEF LinkOwner, Goto, Touch, Removed
<1>5. ASSUME NEW x \in Contender, VerifyOwner(x) PROVE TombstonesRetained'
  BY <1>5 DEF VerifyOwner, Goto, files
<1>6. ASSUME NEW x \in Contender, CheckFence(x) PROVE TombstonesRetained'
  BY <1>6 DEF CheckFence, Goto, files
<1>7. ASSUME NEW x \in Contender, MatchPath(x) PROVE TombstonesRetained'
  BY <1>7 DEF MatchPath, Goto, files
<1>8. ASSUME NEW x \in Contender, Abandon(x) PROVE TombstonesRetained'
  BY <1>8 DEF Abandon, Return, NoView
<1>9. ASSUME NEW x \in Contender, DropOpen(x) PROVE TombstonesRetained'
  BY <1>9 DEF DropOpen, Goto, Return, NoView, files
<1>10. ASSUME NEW x \in Contender, DropUnlink(x) PROVE TombstonesRetained'
  <2>1. CASE owner[fd[x]] = None
    BY <1>10, <2>1 DEF DropUnlink, Return, NoView
  <2>2. CASE owner[fd[x]] # None
    BY <1>10, <2>2 DEF DropUnlink, Goto, Touch
  <2>3. QED
    BY <2>1, <2>2
<1>11. ASSUME NEW x \in Contender, DropRmdir(x) PROVE TombstonesRetained'
  BY <1>11 DEF DropRmdir, Return, NoView, EmptyDir
<1>12. ASSUME NEW x \in Contender, Inspect(x) PROVE TombstonesRetained'
  BY <1>12 DEF Inspect, Goto, Return, NoView, files
<1>13. ASSUME NEW x \in Contender, Observe(x) PROVE TombstonesRetained'
  BY <1>13 DEF Observe, Goto, Return, NoView, files, IsAlive
<1>14. ASSUME NEW x \in Contender, ReadClaim(x) PROVE TombstonesRetained'
  BY <1>14 DEF ReadClaim, Goto, Return, NoView, files, IsAlive
<1>15. ASSUME NEW x \in Contender, PublishClaim(x) PROVE TombstonesRetained'
  BY <1>15 DEF PublishClaim, Goto, Return, NoView, Touch, Removed
<1>16. ASSUME NEW x \in Contender, Revalidate(x) PROVE TombstonesRetained'
  BY <1>16 DEF Revalidate, Goto, GiveUp, Return, NoView, files, Unchanged, IsAlive
<1>17. ASSUME NEW x \in Contender, Rename(x) PROVE TombstonesRetained'
  <2>1. CASE ~CanMove(x)
    BY <1>17, <2>1 DEF Rename, GiveUp, Goto, Return
  <2>2. CASE CanMove(x)
    <3> DEFINE u == <<seen[x].claim, fd[x]>>
    <3>1. pc[x] = "renaming"
      BY <1>17 DEF Rename
    <3>2. /\ u \in Contender \X Dir /\ claim[fd[x]] = seen[x].claim
          /\ leaf = fd[x]
      BY <2>2, <3>1, RenameMovesClaimed
    <3>3. tomb' = [tomb EXCEPT ![u] = leaf] /\ leaf' = None
      BY <1>17, <2>2 DEF Rename
    <3>4. ASSUME NEW t \in Contender \X Dir, tomb'[t] # None
          PROVE  tomb'[t] = t[2] /\ claim[t[2]] = t[1] /\ t[2] \in made
      BY <3>1, <3>2, <3>3, <3>4
    <3>5. QED
      BY <1>17, <3>3, <3>4 DEF Rename
  <2>3. QED
    BY <2>1, <2>2
<1>18. ASSUME NEW x \in Contender, Unclaim(x) PROVE TombstonesRetained'
  BY <1>18 DEF Unclaim, Return, NoView, Touch
<1>19. ASSUME NEW x \in Contender, Crash(x) PROVE TombstonesRetained'
  BY <1>19 DEF Crash, files, NoView
<1>20. ASSUME NEW d \in Dir, Age(d) PROVE TombstonesRetained'
  BY <1>20 DEF Age
<1>21. CASE UNCHANGED vars
  BY <1>21 DEF vars
<1>22. QED
  BY <1>1, <1>2, <1>3, <1>4, <1>5, <1>6, <1>7, <1>8, <1>9, <1>10, <1>11, <1>12,
     <1>13, <1>14, <1>15, <1>16, <1>17, <1>18, <1>19, <1>20, <1>21
  DEF Next, Step, Acquire, Drop, Steal

\* A claimed directory leaves the pathname only under its own claim.
LEMMA RenameTargetStep ==
    ASSUME TypeOK, ReliedOnClaims, TombstonesRetained, RenameTarget, [Next]_vars
    PROVE  RenameTarget'
<1> USE NoneAssumption DEF ReliedOnClaims, ReliesOnClaim, TombstonesRetained, RenameTarget, TypeOK, PC, Acquiring, Releasing, Stealing, WithoutFd
<1>1. ASSUME NEW x \in Contender, Mkdir(x) PROVE RenameTarget'
  BY <1>1 DEF Mkdir, Goto
<1>2. ASSUME NEW x \in Contender, MkdirExists(x) PROVE RenameTarget'
  BY <1>2 DEF MkdirExists, Goto, files
<1>3. ASSUME NEW x \in Contender, Open(x) PROVE RenameTarget'
  BY <1>3 DEF Open, Goto, Return, NoView, files
<1>4. ASSUME NEW x \in Contender, LinkOwner(x) PROVE RenameTarget'
  BY <1>4 DEF LinkOwner, Goto, Touch, Removed
<1>5. ASSUME NEW x \in Contender, VerifyOwner(x) PROVE RenameTarget'
  BY <1>5 DEF VerifyOwner, Goto, files
<1>6. ASSUME NEW x \in Contender, CheckFence(x) PROVE RenameTarget'
  BY <1>6 DEF CheckFence, Goto, files
<1>7. ASSUME NEW x \in Contender, MatchPath(x) PROVE RenameTarget'
  BY <1>7 DEF MatchPath, Goto, files
<1>8. ASSUME NEW x \in Contender, Abandon(x) PROVE RenameTarget'
  BY <1>8 DEF Abandon, Return, NoView
<1>9. ASSUME NEW x \in Contender, DropOpen(x) PROVE RenameTarget'
  BY <1>9 DEF DropOpen, Goto, Return, NoView, files
<1>10. ASSUME NEW x \in Contender, DropUnlink(x) PROVE RenameTarget'
  <2>1. CASE owner[fd[x]] = None
    BY <1>10, <2>1 DEF DropUnlink, Return, NoView
  <2>2. CASE owner[fd[x]] # None
    BY <1>10, <2>2 DEF DropUnlink, Goto, Touch
  <2>3. QED
    BY <2>1, <2>2
<1>11. ASSUME NEW x \in Contender, DropRmdir(x) PROVE RenameTarget'
  <2>1. ASSUME NEW p \in Contender, pc'[p] = "renaming", leaf = fd[p]
        PROVE  leaf' = leaf
    <3>1. p # x /\ pc[p] = "renaming"
      BY <1>11, <2>1 DEF DropRmdir, Return
    <3>2. claim[leaf] # None
      BY <2>1, <3>1
    <3>3. QED
      BY <1>11, <3>2 DEF DropRmdir, EmptyDir
  <2>2. QED
    BY <1>11, <2>1 DEF DropRmdir, Return, NoView
<1>12. ASSUME NEW x \in Contender, Inspect(x) PROVE RenameTarget'
  BY <1>12 DEF Inspect, Goto, Return, NoView, files
<1>13. ASSUME NEW x \in Contender, Observe(x) PROVE RenameTarget'
  BY <1>13 DEF Observe, Goto, Return, NoView, files, IsAlive
<1>14. ASSUME NEW x \in Contender, ReadClaim(x) PROVE RenameTarget'
  BY <1>14 DEF ReadClaim, Goto, Return, NoView, files, IsAlive
<1>15. ASSUME NEW x \in Contender, PublishClaim(x) PROVE RenameTarget'
  BY <1>15 DEF PublishClaim, Goto, Return, NoView, Touch, Removed
<1>16. ASSUME NEW x \in Contender, Revalidate(x) PROVE RenameTarget'
  BY <1>16 DEF Revalidate, Goto, GiveUp, Return, NoView, files, Unchanged, IsAlive
<1>17. ASSUME NEW x \in Contender, Rename(x) PROVE RenameTarget'
  <2>1. CASE ~CanMove(x)
    BY <1>17, <2>1 DEF Rename, GiveUp, Goto, Return, NoView
  <2>2. CASE CanMove(x)
    <3> DEFINE u == <<seen[x].claim, fd[x]>>
    <3>1. pc[x] = "renaming"
      BY <1>17 DEF Rename
    <3>2. /\ u \in Contender \X Dir /\ claim[fd[x]] = seen[x].claim
          /\ leaf = fd[x]
      BY <2>2, <3>1, RenameMovesClaimed
    <3>3. tomb' = [tomb EXCEPT ![u] = leaf]
      BY <1>17, <2>2 DEF Rename
    <3>4. ASSUME NEW p \in Contender, p # x, pc[p] = "renaming"
          PROVE  tomb'[<<seen[p].claim, fd[p]>>] = fd[p]
      <4>1. /\ <<seen[p].claim, fd[p]>> \in Contender \X Dir
            /\ claim[fd[p]] = seen[p].claim
        BY <3>4, RenamerHasClaim
      <4>2. QED
        BY <3>1, <3>2, <3>3, <3>4, <4>1
    <3>5. QED
      BY <1>17, <2>2, <3>4 DEF Rename, Return, NoView
  <2>3. QED
    BY <2>1, <2>2
<1>18. ASSUME NEW x \in Contender, Unclaim(x) PROVE RenameTarget'
  BY <1>18 DEF Unclaim, Return, NoView, Touch
<1>19. ASSUME NEW x \in Contender, Crash(x) PROVE RenameTarget'
  BY <1>19 DEF Crash, files, NoView
<1>20. ASSUME NEW d \in Dir, Age(d) PROVE RenameTarget'
  BY <1>20 DEF Age
<1>21. CASE UNCHANGED vars
  BY <1>21 DEF vars
<1>22. QED
  BY <1>1, <1>2, <1>3, <1>4, <1>5, <1>6, <1>7, <1>8, <1>9, <1>10, <1>11, <1>12,
     <1>13, <1>14, <1>15, <1>16, <1>17, <1>18, <1>19, <1>20, <1>21
  DEF Next, Step, Acquire, Drop, Steal

\* The owner looks for claims after publishing itself; the stealer looks for
\* the owner after publishing its claim.
LEMMA ClaimFenceStep ==
    ASSUME TypeOK, OnlyLivingAct, ReliedOnClaims, ClaimFence, [Next]_vars
    PROVE  ClaimFence'
<1> USE NoneAssumption DEF OnlyLivingAct, ReliedOnClaims, ReliesOnClaim, ClaimFence, TypeOK, PC, Acquiring, Releasing, Stealing, WithoutFd
<1>1. ASSUME NEW x \in Contender, Mkdir(x) PROVE ClaimFence'
  BY <1>1 DEF Mkdir, Goto
<1>2. ASSUME NEW x \in Contender, MkdirExists(x) PROVE ClaimFence'
  BY <1>2 DEF MkdirExists, Goto, files
<1>3. ASSUME NEW x \in Contender, Open(x) PROVE ClaimFence'
  BY <1>3 DEF Open, Goto, Return, NoView, files
<1>4. ASSUME NEW x \in Contender, LinkOwner(x) PROVE ClaimFence'
  <2>1. ASSUME NEW p \in Contender, pc'[p] \in {"matching", "held"}
        PROVE  p # x /\ pc[p] \in {"matching", "held"} /\ fd[p] \in Dir
    BY <1>4, <2>1 DEF LinkOwner, Goto
  <2>2. ASSUME NEW p \in Contender, p # x, fd[p] \in Dir, owner'[fd[p]] = p
        PROVE  owner[fd[p]] = p
    BY <1>4, <2>2 DEF LinkOwner
  <2>3. ASSUME NEW q \in Contender, pc'[q] = "renaming"
        PROVE  pc[q] = "renaming"
    BY <1>4, <2>3 DEF LinkOwner, Goto
  <2>4. QED
    BY <1>4, <2>1, <2>2, <2>3 DEF LinkOwner
<1>5. ASSUME NEW x \in Contender, VerifyOwner(x) PROVE ClaimFence'
  BY <1>5 DEF VerifyOwner, Goto, files
<1>6. ASSUME NEW x \in Contender, CheckFence(x) PROVE ClaimFence'
  <2>1. ASSUME NEW q \in Contender, pc'[q] = "renaming", pc'[x] = "matching"
        PROVE  fd[x] # fd[q]
    <3>1. q # x /\ pc[q] = "renaming"
      BY <1>6, <2>1 DEF CheckFence, Goto
    <3>2. claim[fd[q]] # None
      BY <3>1
    <3>3. claim[fd[x]] = None
      BY <1>6, <2>1 DEF CheckFence, Goto
    <3>4. QED
      BY <3>2, <3>3
  <2>2. pc'[x] # "held" /\ pc'[x] # "renaming"
    BY <1>6 DEF CheckFence, Goto
  <2>3. QED
    BY <1>6, <2>1, <2>2 DEF CheckFence, Goto, files
<1>7. ASSUME NEW x \in Contender, MatchPath(x) PROVE ClaimFence'
  BY <1>7 DEF MatchPath, Goto, files
<1>8. ASSUME NEW x \in Contender, Abandon(x) PROVE ClaimFence'
  BY <1>8 DEF Abandon, Return, NoView
<1>9. ASSUME NEW x \in Contender, DropOpen(x) PROVE ClaimFence'
  BY <1>9 DEF DropOpen, Goto, Return, NoView, files
<1>10. ASSUME NEW x \in Contender, DropUnlink(x) PROVE ClaimFence'
  <2>1. CASE owner[fd[x]] = None
    BY <1>10, <2>1 DEF DropUnlink, Return, NoView
  <2>2. CASE owner[fd[x]] # None
    BY <1>10, <2>2 DEF DropUnlink, Goto, Touch
  <2>3. QED
    BY <2>1, <2>2
<1>11. ASSUME NEW x \in Contender, DropRmdir(x) PROVE ClaimFence'
  BY <1>11 DEF DropRmdir, Return, NoView, EmptyDir
<1>12. ASSUME NEW x \in Contender, Inspect(x) PROVE ClaimFence'
  BY <1>12 DEF Inspect, Goto, Return, NoView, files
<1>13. ASSUME NEW x \in Contender, Observe(x) PROVE ClaimFence'
  BY <1>13 DEF Observe, Goto, Return, NoView, files, IsAlive
<1>14. ASSUME NEW x \in Contender, ReadClaim(x) PROVE ClaimFence'
  BY <1>14 DEF ReadClaim, Goto, Return, NoView, files, IsAlive
<1>15. ASSUME NEW x \in Contender, PublishClaim(x) PROVE ClaimFence'
  BY <1>15 DEF PublishClaim, Goto, Return, NoView, Touch, Removed
<1>16. ASSUME NEW x \in Contender, Revalidate(x) PROVE ClaimFence'
  BY <1>16 DEF Revalidate, Goto, GiveUp, Return, NoView, files, Unchanged, IsAlive
<1>17. ASSUME NEW x \in Contender, Rename(x) PROVE ClaimFence'
  BY <1>17 DEF Rename, Return, NoView, GiveUp, Goto, CanMove, EmptyDir
<1>18. ASSUME NEW x \in Contender, Unclaim(x) PROVE ClaimFence'
  BY <1>18 DEF Unclaim, Return, NoView, Touch
<1>19. ASSUME NEW x \in Contender, Crash(x) PROVE ClaimFence'
  BY <1>19 DEF Crash, files, NoView
<1>20. ASSUME NEW d \in Dir, Age(d) PROVE ClaimFence'
  BY <1>20 DEF Age
<1>21. CASE UNCHANGED vars
  BY <1>21 DEF vars
<1>22. QED
  BY <1>1, <1>2, <1>3, <1>4, <1>5, <1>6, <1>7, <1>8, <1>9, <1>10, <1>11, <1>12,
     <1>13, <1>14, <1>15, <1>16, <1>17, <1>18, <1>19, <1>20, <1>21
  DEF Next, Step, Acquire, Drop, Steal

\* A rename moves only a claimed directory, and rmdir only an empty one.
LEMMA PublishedHolderKeepsPathStep ==
    ASSUME TypeOK, ReliedOnClaims, TombstonesRetained, RenameTarget, ClaimFence,
           PublishedHolderKeepsPath, [Next]_vars
    PROVE  PublishedHolderKeepsPath'
<1> USE NoneAssumption DEF ReliedOnClaims, ReliesOnClaim, TombstonesRetained, RenameTarget, ClaimFence,
        PublishedHolderKeepsPath, Holds, TypeOK, PC, Acquiring, Releasing, Stealing, WithoutFd
<1>1. ASSUME NEW x \in Contender, Mkdir(x) PROVE PublishedHolderKeepsPath'
  BY <1>1 DEF Mkdir, Goto
<1>2. ASSUME NEW x \in Contender, MkdirExists(x) PROVE PublishedHolderKeepsPath'
  BY <1>2 DEF MkdirExists, Goto, files
<1>3. ASSUME NEW x \in Contender, Open(x) PROVE PublishedHolderKeepsPath'
  BY <1>3 DEF Open, Goto, Return, NoView, files
<1>4. ASSUME NEW x \in Contender, LinkOwner(x) PROVE PublishedHolderKeepsPath'
  BY <1>4 DEF LinkOwner, Goto, Touch, Removed
<1>5. ASSUME NEW x \in Contender, VerifyOwner(x) PROVE PublishedHolderKeepsPath'
  BY <1>5 DEF VerifyOwner, Goto, files
<1>6. ASSUME NEW x \in Contender, CheckFence(x) PROVE PublishedHolderKeepsPath'
  BY <1>6 DEF CheckFence, Goto, files
<1>7. ASSUME NEW x \in Contender, MatchPath(x) PROVE PublishedHolderKeepsPath'
  BY <1>7 DEF MatchPath, Goto, files
<1>8. ASSUME NEW x \in Contender, Abandon(x) PROVE PublishedHolderKeepsPath'
  BY <1>8 DEF Abandon, Return, NoView
<1>9. ASSUME NEW x \in Contender, DropOpen(x) PROVE PublishedHolderKeepsPath'
  BY <1>9 DEF DropOpen, Goto, Return, NoView, files
<1>10. ASSUME NEW x \in Contender, DropUnlink(x) PROVE PublishedHolderKeepsPath'
  <2>1. CASE owner[fd[x]] = None
    BY <1>10, <2>1 DEF DropUnlink, Return, NoView
  <2>2. CASE owner[fd[x]] # None
    BY <1>10, <2>2 DEF DropUnlink, Goto, Touch
  <2>3. QED
    BY <2>1, <2>2
<1>11. ASSUME NEW x \in Contender, DropRmdir(x) PROVE PublishedHolderKeepsPath'
  BY <1>11 DEF DropRmdir, Return, NoView, EmptyDir
<1>12. ASSUME NEW x \in Contender, Inspect(x) PROVE PublishedHolderKeepsPath'
  BY <1>12 DEF Inspect, Goto, Return, NoView, files
<1>13. ASSUME NEW x \in Contender, Observe(x) PROVE PublishedHolderKeepsPath'
  BY <1>13 DEF Observe, Goto, Return, NoView, files, IsAlive
<1>14. ASSUME NEW x \in Contender, ReadClaim(x) PROVE PublishedHolderKeepsPath'
  BY <1>14 DEF ReadClaim, Goto, Return, NoView, files, IsAlive
<1>15. ASSUME NEW x \in Contender, PublishClaim(x) PROVE PublishedHolderKeepsPath'
  BY <1>15 DEF PublishClaim, Goto, Return, NoView, Touch, Removed
<1>16. ASSUME NEW x \in Contender, Revalidate(x) PROVE PublishedHolderKeepsPath'
  BY <1>16 DEF Revalidate, Goto, GiveUp, Return, NoView, files, Unchanged, IsAlive
<1>17. ASSUME NEW x \in Contender, Rename(x) PROVE PublishedHolderKeepsPath'
  <2>1. CASE ~CanMove(x)
    BY <1>17, <2>1 DEF Rename, GiveUp, Goto, Return
  <2>2. CASE CanMove(x)
    <3>1. leaf = fd[x]
      BY <1>17, <2>2, RenameMovesClaimed DEF Rename
    <3>2. QED
      BY <1>17, <2>2, <3>1 DEF Rename, Return
  <2>3. QED
    BY <2>1, <2>2
<1>18. ASSUME NEW x \in Contender, Unclaim(x) PROVE PublishedHolderKeepsPath'
  BY <1>18 DEF Unclaim, Return, NoView, Touch
<1>19. ASSUME NEW x \in Contender, Crash(x) PROVE PublishedHolderKeepsPath'
  BY <1>19 DEF Crash, files, NoView
<1>20. ASSUME NEW d \in Dir, Age(d) PROVE PublishedHolderKeepsPath'
  BY <1>20 DEF Age
<1>21. CASE UNCHANGED vars
  BY <1>21 DEF vars
<1>22. QED
  BY <1>1, <1>2, <1>3, <1>4, <1>5, <1>6, <1>7, <1>8, <1>9, <1>10, <1>11, <1>12,
     <1>13, <1>14, <1>15, <1>16, <1>17, <1>18, <1>19, <1>20, <1>21
  DEF Next, Step, Acquire, Drop, Steal

LEMMA InitIInv == Init => IInv
<1> USE NoneAssumption
<1>1. Init => TypeOK /\ OnlyLivingAct
  BY DEF Init, TypeOK, PC, WithoutFd, OnlyLivingAct, NoView
<1>2. Init => ReliedOnClaims /\ TombstonesRetained /\ RenameTarget
  BY DEF Init, ReliedOnClaims, ReliesOnClaim, TombstonesRetained,
         RenameTarget, NoView
<1>3. Init => ClaimFence /\ PublishedHolderKeepsPath
  BY DEF Init, ClaimFence, PublishedHolderKeepsPath, Holds
<1>4. QED
  BY <1>1, <1>2, <1>3 DEF IInv

LEMMA NextIInv == IInv /\ [Next]_vars => IInv'
  BY TypeOKStep, OnlyLivingActStep, ReliedOnClaimsStep, TombstonesRetainedStep,
     RenameTargetStep, ClaimFenceStep, PublishedHolderKeepsPathStep
  DEF IInv

LEMMA AlwaysIInv == Spec => []IInv
  BY InitIInv, NextIInv, PTL DEF Spec

\* The variables of the model stay in their sets, and a call past its openat
\* has a directory open: every handler's reads are of something.
THEOREM TypeCorrect == Spec => []TypeOK
<1>1. IInv => TypeOK
  BY DEF IInv
<1>2. QED
  BY <1>1, AlwaysIInv, PTL

\* The ordering the lock relies on: owner first and claims after in an
\* acquisition, claim first and owner after in a steal.
THEOREM Fenced == Spec => []ClaimFence
<1>1. IInv => ClaimFence
  BY DEF IInv
<1>2. QED
  BY <1>1, AlwaysIInv, PTL

\* A holder whose owner file is in place keeps the pathname, so nobody can
\* create a second lock there.
THEOREM HolderKeepsPath == Spec => []PublishedHolderKeepsPath
<1>1. IInv => PublishedHolderKeepsPath
  BY DEF IInv
<1>2. QED
  BY <1>1, AlwaysIInv, PTL

\* Two holders whose owner files are in place are one: mutual exclusion as far
\* as the code can give it to processes that pause arbitrarily.
THEOREM PublishedExclusion == Spec => []PublishedMutualExclusion
<1>1. PublishedHolderKeepsPath => PublishedMutualExclusion
  BY DEF PublishedHolderKeepsPath, PublishedMutualExclusion
<1>2. QED
  BY <1>1, HolderKeepsPath, PTL

\* A successful rename retains the directory its claim was published in, so a
\* late stealer never moves a successor's lock.
THEOREM StealsOnlyClaimed == Spec => StealMovesOnlyTheClaimed
<1> DEFINE Moves == \A t \in Contender \X Dir :
              tomb'[t] # tomb[t] => tomb'[t] = t[2] /\ claim[t[2]] = t[1]
<1>1. ASSUME IInv, Next PROVE Moves
  <2>1. CASE \E x \in Contender : Rename(x) /\ CanMove(x)
    <3>1. PICK x \in Contender : Rename(x) /\ CanMove(x)
      BY <2>1
    <3>2. /\ <<seen[x].claim, fd[x]>> \in Contender \X Dir
          /\ claim[fd[x]] = seen[x].claim
          /\ leaf = fd[x]
      BY <1>1, <3>1, RenameMovesClaimed DEF IInv, Rename
    <3>3. tomb' = [tomb EXCEPT ![<<seen[x].claim, fd[x]>>] = leaf]
      BY <3>1 DEF Rename
    <3>4. QED
      BY <1>1, <3>2, <3>3 DEF IInv, TypeOK
  <2>2. CASE ~\E x \in Contender : Rename(x) /\ CanMove(x)
    <3>1. tomb' = tomb
      BY <1>1, <2>2 DEF Next, Step, Acquire, Drop, Steal, Mkdir, MkdirExists,
         Open, LinkOwner, VerifyOwner, CheckFence, MatchPath, Abandon,
         DropOpen, DropUnlink, DropRmdir, Inspect, Observe, ReadClaim,
         PublishClaim, Revalidate, Rename, Unclaim, Crash, Age, files
    <3>2. QED
      BY <3>1
  <2>3. QED
    BY <2>1, <2>2
<1>2. ASSUME IInv, [Next]_vars PROVE [Moves]_vars
  BY <1>1, <1>2
<1>3. QED
  BY <1>2, AlwaysIInv, PTL DEF Spec, StealMovesOnlyTheClaimed
-----------------------------------------------------------------------------
(* When no live process dwells in the lock past staleAfterMs               *)

InPlace(p) == pc[p] \in {"held"} \cup Acquiring \cup Releasing

\* A stealer past the look at the directory's age.
Committed(p) == pc[p] \in Stealing \ {"inspecting"}

\* The lock's directory has one user, who has it at the pathname and young.
OneUser ==
    /\ \A p \in Contender :
          InPlace(p) => leaf # None /\ leaf = fd[p] /\ leaf \notin old
    /\ \A p, q \in Contender : InPlace(p) /\ InPlace(q) => p = q

\* Whoever goes on to steal it has seen it old, so its user has left it.
StolenIsLeft ==
    \A p, q \in Contender : InPlace(p) /\ Committed(q) => fd[p] # fd[q]

PInv == IInv /\ old \subseteq made /\ OneUser /\ StolenIsLeft

\* A step that leaves the directories, and at most makes them younger, and
\* after which p is in place only where it was.
LEMMA StaysInPlace ==
    ASSUME PInv, NEW p \in Contender,
           leaf' = leaf, old' \subseteq old,
           \A q \in Contender : q # p => pc'[q] = pc[q] /\ fd'[q] = fd[q],
           InPlace(p)' => InPlace(p) /\ fd'[p] = leaf,
           Committed(p)' =>
               /\ ~InPlace(p)'
               /\ \/ fd'[p] = fd[p] /\ Committed(p)
                  \/ fd'[p] = leaf /\ leaf \in old
    PROVE  OneUser' /\ StolenIsLeft'
<1>1. \A q \in Contender : q # p => (InPlace(q)' <=> InPlace(q)) /\ (Committed(q)' <=> Committed(q))
  BY DEF InPlace, Committed
<1>2. OneUser'
  BY <1>1 DEF PInv, OneUser
<1>3. ASSUME NEW r \in Contender, NEW q \in Contender, InPlace(r)', Committed(q)'
      PROVE  fd'[r] # fd'[q]
  <2>1. InPlace(r) /\ fd'[r] = leaf /\ fd[r] = leaf /\ leaf \notin old
    BY <1>1, <1>3 DEF PInv, OneUser
  <2>2. CASE q = p
    BY <1>3, <2>1, <2>2 DEF PInv, StolenIsLeft
  <2>3. CASE q # p
    BY <1>1, <1>3, <2>1, <2>3 DEF PInv, StolenIsLeft
  <2>4. QED
    BY <2>2, <2>3
<1>4. QED
  BY <1>2, <1>3 DEF StolenIsLeft

\* A stealer goes on with its directory or returns; it takes no place.
LEMMA StealerGoesOn ==
    ASSUME PInv, NEW p \in Contender, Committed(p), leaf' = leaf, old' \subseteq old,
           \/ fd' = fd /\ \E l \in Stealing : pc' = [pc EXCEPT ![p] = l]
           \/ Return(p)
    PROVE  OneUser' /\ StolenIsLeft'
<1>1. \A q \in Contender : q # p => pc'[q] = pc[q] /\ fd'[q] = fd[q]
  BY DEF Return, PInv, IInv, TypeOK
<1>2. ~InPlace(p)'
  BY DEF Return, InPlace, Acquiring, Releasing, Stealing, PInv, IInv, TypeOK
<1>3. Committed(p)' => fd'[p] = fd[p]
  BY DEF Return, Committed, Stealing, PInv, IInv, TypeOK
<1>4. QED
  BY <1>1, <1>2, <1>3, StaysInPlace

\* A step of one process that moves neither the name nor the ages against it.
LEMMA QuietStep ==
    ASSUME PInv, NEW p \in Contender, Step(p), ~Mkdir(p), ~DropRmdir(p),
           ~(Rename(p) /\ CanMove(p))
    PROVE  OneUser' /\ StolenIsLeft'
<1> USE NoneAssumption DEF Goto, Return, InPlace, Committed, Acquiring, Releasing,
        Stealing
<1> USE DEF PInv, IInv, TypeOK
<1>1. CASE MkdirExists(p)
  BY <1>1, StaysInPlace DEF MkdirExists, files
<1>2. CASE Open(p)
  BY <1>2, StaysInPlace DEF Open, files, OneUser
<1>3. CASE LinkOwner(p)
  BY <1>3, StaysInPlace DEF LinkOwner, Touch, OneUser
<1>4. CASE VerifyOwner(p) \/ CheckFence(p) \/ MatchPath(p) \/ Abandon(p)
  BY <1>4, StaysInPlace DEF VerifyOwner, CheckFence, MatchPath, Abandon, files, OneUser
<1>5. CASE DropOpen(p) \/ DropUnlink(p)
  BY <1>5, StaysInPlace DEF DropOpen, DropUnlink, Touch, files, OneUser
<1>6. CASE Inspect(p)
  <2>1. UNCHANGED <<leaf, old>>
    BY <1>6 DEF Inspect, files
  <2>2. \A q \in Contender : q # p => pc'[q] = pc[q] /\ fd'[q] = fd[q]
    BY <1>6 DEF Inspect
  <2>3. ~InPlace(p)'
    BY <1>6 DEF Inspect
  <2>4. Committed(p)' => fd'[p] = leaf /\ leaf \in old
    BY <1>6 DEF Inspect
  <2>5. QED
    BY <2>1, <2>2, <2>3, <2>4, StaysInPlace
<1>7. CASE \/ Observe(p) \/ ReadClaim(p) \/ PublishClaim(p) \/ Revalidate(p)
           \/ (Rename(p) /\ ~CanMove(p)) \/ Unclaim(p)
  <2>1. Committed(p) /\ leaf' = leaf /\ old' \subseteq old
    BY <1>7 DEF Observe, ReadClaim, PublishClaim, Revalidate, Rename, Unclaim, Touch, files
  <2>2. \/ fd' = fd /\ \E l \in Stealing : pc' = [pc EXCEPT ![p] = l]
        \/ Return(p)
    <3> HIDE DEF Return, PInv
    <3>1. QED
      BY <1>7 DEF Observe, ReadClaim, PublishClaim, Revalidate, Rename, Unclaim, GiveUp
  <2>3. QED
    BY <2>1, <2>2, StealerGoesOn
<1>8. QED
  BY <1>1, <1>2, <1>3, <1>4, <1>5, <1>6, <1>7
  DEF Step, Acquire, Drop, Steal

\* The name is taken: nobody was in place, and the directory is new.
LEMMA MkdirInPlace ==
    ASSUME PInv, NEW p \in Contender, Mkdir(p)
    PROVE  OneUser' /\ StolenIsLeft'
<1> USE NoneAssumption DEF PInv
<1>1. PICK d \in Dir \ made : leaf' = d /\ fd' = [fd EXCEPT ![p] = d]
  BY DEF Mkdir
<1>2. /\ leaf = None /\ old' = old /\ pc[p] = "idle"
      /\ pc' = [pc EXCEPT ![p] = "opening"]
  BY DEF Mkdir, Goto
<1>3. \A q \in Contender : ~InPlace(q)
  BY <1>2 DEF OneUser
<1>4. \A q \in Contender : InPlace(q)' => q = p
  BY <1>2, <1>3 DEF InPlace, IInv, TypeOK
<1>5. fd'[p] = d /\ d # None /\ d \notin old
  BY <1>1, <1>2 DEF IInv, TypeOK
<1>6. ~Committed(p)'
  BY <1>2 DEF Committed, Stealing, IInv, TypeOK
<1>7. ASSUME NEW q \in Contender, Committed(q)' PROVE fd'[q] # d
  BY <1>1, <1>2, <1>6, <1>7 DEF Committed, Stealing, IInv, TypeOK, WithoutFd
<1>8. QED
  BY <1>1, <1>2, <1>4, <1>5, <1>7 DEF OneUser, StolenIsLeft

\* The name is given up: its user goes, or it was nobody's.
LEMMA NameGoes ==
    ASSUME PInv, NEW p \in Contender, leaf' = None,
           \A q \in Contender : q # p => pc'[q] = pc[q] /\ fd'[q] = fd[q],
           ~InPlace(p)', ~Committed(p)',
           \A q \in Contender : InPlace(q) => q = p
    PROVE  OneUser' /\ StolenIsLeft'
<1>1. \A q \in Contender : ~InPlace(q)'
  BY DEF InPlace
<1>2. QED
  BY <1>1 DEF OneUser, StolenIsLeft

LEMMA InitPInv == Init => PInv
<1>1. Init => old \subseteq made /\ OneUser /\ StolenIsLeft
  BY DEF Init, OneUser, StolenIsLeft, InPlace, Acquiring, Releasing
<1>2. QED
  BY <1>1, InitIInv DEF PInv

\* Only a new directory is made, and only a made one grows old.
LEMMA OldStaysMade ==
    ASSUME PInv, [Next]_vars
    PROVE  (old \subseteq made)'
<1> USE DEF PInv, Touch, files
<1>1. ASSUME NEW p \in Contender, Step(p) \/ Crash(p) PROVE (old \subseteq made)'
  <2>1. old' \subseteq old
    BY <1>1 DEF Step, Acquire, Drop, Steal, Mkdir, MkdirExists,
         Open, LinkOwner, VerifyOwner, CheckFence, MatchPath, Abandon,
         DropOpen, DropUnlink, DropRmdir, Inspect, Observe, ReadClaim,
         PublishClaim, Revalidate, Rename, Unclaim, Crash
  <2>2. made \subseteq made'
    BY <1>1 DEF Step, Acquire, Drop, Steal, Mkdir, MkdirExists,
         Open, LinkOwner, VerifyOwner, CheckFence, MatchPath, Abandon,
         DropOpen, DropUnlink, DropRmdir, Inspect, Observe, ReadClaim,
         PublishClaim, Revalidate, Rename, Unclaim, Crash
  <2>3. QED
    BY <2>1, <2>2
<1>2. ASSUME NEW d \in Dir, Age(d) PROVE (old \subseteq made)'
  BY <1>2 DEF Age
<1>3. CASE UNCHANGED vars
  BY <1>3 DEF vars
<1>4. QED
  BY <1>1, <1>2, <1>3 DEF Next

LEMMA NextInPlace ==
    ASSUME PInv, [Next]_vars, ~LongPauses
    PROVE  OneUser' /\ StolenIsLeft'
<1> USE NoneAssumption
<1>1. ASSUME NEW p \in Contender, DropRmdir(p) PROVE OneUser' /\ StolenIsLeft'
  <2>1. /\ InPlace(p) /\ pc' = [pc EXCEPT ![p] = "idle"]
        /\ fd' = [fd EXCEPT ![p] = None] /\ old' = old
        /\ leaf' = leaf \/ leaf' = None
    BY <1>1 DEF DropRmdir, Return, InPlace, Releasing
  <2>2. ~InPlace(p)' /\ ~Committed(p)'
    BY <2>1 DEF InPlace, Committed, Acquiring, Releasing, Stealing, PInv, IInv, TypeOK
  <2>3. CASE leaf' = leaf
    BY <2>1, <2>2, <2>3, StaysInPlace
  <2>4. CASE leaf' = None
    BY <2>1, <2>2, <2>4, NameGoes DEF PInv, OneUser
  <2>5. QED
    BY <2>1, <2>3, <2>4
<1>2. ASSUME NEW p \in Contender, Rename(p), CanMove(p) PROVE OneUser' /\ StolenIsLeft'
  <2>1. /\ pc[p] = "renaming" /\ pc' = [pc EXCEPT ![p] = "idle"]
        /\ fd' = [fd EXCEPT ![p] = None] /\ leaf' = None
    BY <1>2 DEF Rename, Return
  <2>2. Committed(p) /\ leaf = fd[p]
    BY <1>2, <2>1, RenameMovesClaimed DEF PInv, IInv, Committed, Stealing
  <2>3. \A q \in Contender : ~InPlace(q)
    BY <2>2 DEF PInv, OneUser, StolenIsLeft
  <2>4. ~InPlace(p)' /\ ~Committed(p)'
    BY <2>1 DEF InPlace, Committed, Acquiring, Releasing, Stealing, PInv, IInv, TypeOK
  <2>5. QED
    BY <2>1, <2>3, <2>4, NameGoes
<1>3. ASSUME NEW p \in Contender, Step(p) PROVE OneUser' /\ StolenIsLeft'
  BY <1>1, <1>2, <1>3, QuietStep, MkdirInPlace
<1>4. ASSUME NEW p \in Contender, Crash(p) PROVE OneUser' /\ StolenIsLeft'
  BY <1>4, StaysInPlace
  DEF Crash, files, InPlace, Committed, Acquiring, Releasing, Stealing, PInv, IInv, TypeOK
<1>5. ASSUME NEW d \in Dir, Age(d) PROVE OneUser' /\ StolenIsLeft'
  <2>1. /\ old' = old \cup {d} /\ leaf' = leaf /\ pc' = pc /\ fd' = fd
        /\ ~InUse(d)
    BY <1>5 DEF Age
  <2>2. \A p \in Contender : InPlace(p) => p \in alive
    BY DEF InPlace, Acquiring, Releasing, PInv, IInv, OnlyLivingAct
  <2>3. \A p \in Contender : InPlace(p) => fd[p] # d
    BY <2>1, <2>2 DEF InUse, InPlace
  <2>4. QED
    BY <2>1, <2>3 DEF PInv, OneUser, StolenIsLeft, InPlace, Committed
<1>6. CASE UNCHANGED vars
  BY <1>6 DEF vars, PInv, OneUser, StolenIsLeft, InPlace, Committed
<1>7. QED
  BY <1>3, <1>4, <1>5, <1>6 DEF Next

LEMMA NextPInv ==
    ASSUME PInv, [Next]_vars, ~LongPauses
    PROVE  PInv'
BY NextIInv, OldStaysMade, NextInPlace DEF PInv

Holders == {p \in Contender : Holds(p)}

\* A guard is handed out when there is none, and ends with its holder.
LEMMA StepImplements ==
    ASSUME PInv, [Next]_vars
    PROVE  \/ UNCHANGED Holders
           \/ \E p \in Contender : \/ Holders = {} /\ Holders' = {p}
                                   \/ Holders = {p} /\ Holders' = {}
<1> USE DEF Goto, Return, GiveUp, PInv, IInv, TypeOK
<1>1. \A p \in Contender : Holds(p) => Holders = {p}
  BY DEF OneUser, InPlace, Holders, Holds
<1>2. ASSUME NEW p \in Contender, MatchPath(p)
      PROVE  UNCHANGED Holders \/ (Holders = {} /\ Holders' = {p})
  <2>1. pc[p] = "matching" /\ \E l \in PC : pc' = [pc EXCEPT ![p] = l]
    BY <1>2 DEF MatchPath, PC, Acquiring
  <2>2. \A q \in Contender : ~Holds(q)
    BY <2>1 DEF OneUser, InPlace, Holds, Acquiring
  <2>3. QED
    BY <2>1, <2>2 DEF Holders, Holds
<1>3. ASSUME NEW p \in Contender, DropOpen(p) \/ Crash(p)
      PROVE  UNCHANGED Holders \/ (Holders = {p} /\ Holders' = {})
  <2>1. \E l \in PC : pc' = [pc EXCEPT ![p] = l] /\ l # "held"
    BY <1>3 DEF DropOpen, Crash, PC, Releasing
  <2>2. CASE Holds(p)
    BY <1>1, <2>1, <2>2 DEF Holders, Holds
  <2>3. CASE ~Holds(p)
    BY <2>1, <2>3 DEF Holders, Holds
  <2>4. QED
    BY <2>2, <2>3
<1>4. ASSUME NEW p \in Contender, Step(p), ~MatchPath(p), ~DropOpen(p)
      PROVE  UNCHANGED Holders
  <2>1. \/ pc' = pc
        \/ \E l \in PC : /\ pc' = [pc EXCEPT ![p] = l]
                         /\ l # "held" /\ pc[p] # "held"
    BY <1>4 DEF Step, Acquire, Drop, Steal, Mkdir, MkdirExists,
         Open, LinkOwner, VerifyOwner, CheckFence, MatchPath, Abandon,
         DropUnlink, DropRmdir, Inspect, Observe, ReadClaim,
         PublishClaim, Revalidate, Rename, Unclaim,
         PC, Acquiring, Releasing, Stealing
  <2>2. QED
    BY <2>1 DEF Holders, Holds
<1>5. ASSUME NEW d \in Dir, Age(d) PROVE UNCHANGED Holders
  BY <1>5 DEF Age, Holders, Holds
<1>6. CASE UNCHANGED vars
  BY <1>6 DEF vars, Holders, Holds
<1>7. QED
  BY <1>2, <1>3, <1>4, <1>5, <1>6 DEF Next

\* A guard is handed out only while no other is alive, for every number of
\* processes and whatever dies: as long as no live process dwells in the lock
\* past staleAfterMs.
THEOREM PlainImplementsAbstractLock ==
    ASSUME LongPauses = FALSE
    PROVE  Spec => ImplementsAbstractLock
<1>1. PInv /\ [Next]_vars => PInv'
  BY NextPInv
<1>2. Init => Abstract!Init
  BY DEF Init, Abstract!Init, Holds
<1>3. PInv /\ [Next]_vars => [Abstract!Next]_{p \in Contender : Holds(p)}
  BY StepImplements DEF Holders, Abstract!Next, Abstract!Take, Abstract!Free
<1>4. QED
  BY InitPInv, <1>1, <1>2, <1>3, PTL DEF Spec, ImplementsAbstractLock, Abstract!Spec
=============================================================================
