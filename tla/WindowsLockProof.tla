-------------------------- MODULE WindowsLockProof --------------------------
(***************************************************************************)
(* The lock through Windows handles is the abstract lock, for any number   *)
(* of contenders and directories, however long they pause and whoever dies.*)
(*                                                                         *)
(* The argument: a directory has one creator, which alone may own it.      *)
(* Whoever holds the lock found no claim after it had linked its owner     *)
(* file; whoever is about to rename the directory found no live owner      *)
(* after its claim was in place; so the two never work on one directory.   *)
(* A stealer renames the directory it has open and no other, and its       *)
(* creator alone deletes it, so that the name still leads to the directory *)
(* of a holder.                                                            *)
(***************************************************************************)
EXTENDS WindowsLock, TLAPS

Own == Creating \cup {"held"}

\* The dead do nothing.
Living == \A p \in Contender : p \in alive <=> pc[p] # "dead"

\* Only what is there can be delete-pending.
Pending ==
    \A d \in Dir :
        /\ <<d, "owner">> \in doomed => owner[d] # None
        /\ <<d, "claim">> \in doomed => claim[d] # None

Fresh == \A d \in Dir \ made : owner[d] = None

OneCreator ==
    \A p, q \in Contender :
        pc[p] \in Own /\ pc[q] \in Own /\ fd[p] = fd[q] => p = q

\* Nobody but its creator deletes a directory.
Standing == \A p \in Contender : pc[p] \in Own => <<fd[p], "dir">> \notin doomed

\* The owner file is absent until the creator links it, and its until it
\* releases it.
Published ==
    \A p \in Contender :
        /\ pc[p] = "linking" => owner[fd[p]] = None
        /\ pc[p] \in {"fencing", "matching", "abandoning", "held"} =>
              owner[fd[p]] = p /\ <<fd[p], "owner">> \notin doomed

\* A stealer goes on when the owner it observed is absent or dead.
OwnerSeenDead ==
    \A q \in Contender :
        pc[q] \in {"claiming", "publishing", "reviewing", "rechecking",
                   "comparing", "renaming"}
            => seen[q].owner \notin alive

\* The claim that a stealer relies on is in place and stays: it is its own, or
\* its claimant died without withdrawing it.
Relied ==
    \A q \in Contender :
        pc[q] \in {"reviewing", "rechecking", "comparing", "renaming"} =>
            /\ seen[q].claim # None
            /\ claim[fd[q]] = seen[q].claim
            /\ <<fd[q], "claim">> \notin doomed
            /\ seen[q].claim = q \/ seen[q].claim \notin alive

\* An owner that found no claim and a stealer that found no live owner never
\* work on one directory.
Fenced ==
    \A p, q \in Contender :
        /\ pc[p] \in {"matching", "held"}
        /\ pc[q] \in {"rechecking", "comparing", "renaming"}
        => fd[p] # fd[q]

KeepsPath == \A p \in Contender : Holds(p) => leaf = fd[p]

WInv == /\ TypeOK /\ Living /\ Pending /\ Fresh /\ OneCreator /\ Standing
        /\ Published /\ OwnerSeenDead /\ Relied /\ Fenced /\ KeepsPath

-----------------------------------------------------------------------------
LEMMA InitWInv == Init => WInv
  BY WindowsNone DEF Init, Starts, WInv, TypeOK, Living, Pending, Fresh, OneCreator,
     Standing, Published, OwnerSeenDead, Relied, Fenced, KeepsPath, Holds, Own,
     Creating, NoView, PC, WithoutDir

\* What closing handles and deleting D can change.
SettleResult(D, fds, hands) ==
    /\ doomed' \subseteq D
    /\ owner' \in [Dir -> Contender \cup {None}]
    /\ claim' \in [Dir -> Contender \cup {None}]
    /\ \A d \in Dir :
          /\ owner'[d] \in {owner[d], None} /\ claim'[d] \in {claim[d], None}
          /\ <<d, "owner">> \notin D =>
                owner'[d] = owner[d] /\ <<d, "owner">> \notin doomed'
          /\ <<d, "claim">> \notin D =>
                claim'[d] = claim[d] /\ <<d, "claim">> \notin doomed'
          /\ <<d, "dir">> \notin D => <<d, "dir">> \notin doomed'
          /\ <<d, "owner">> \in doomed' => owner'[d] = owner[d]
          /\ <<d, "claim">> \in doomed' => claim'[d] = claim[d]
    /\ leaf' \in {leaf, None}
    /\ <<leaf, "dir">> \notin D => leaf' = leaf
    /\ old' \subseteq old
    /\ fd' = fds /\ hand' = hands

LEMMA SettleEffect ==
    ASSUME TypeOK, NEW D, D \subseteq made \X (File \cup {"dir"}),
           NEW fds, NEW hands, Settle(D, fds, hands)
    PROVE  SettleResult(D, fds, hands)
<1> DEFINE gone == {x \in D : \A q \in Contender :
                        ~(fds[q] = x[1] /\ (x[2] = "dir" \/ hands[q] = x[2]))}
<1>1. /\ doomed' = D \ gone
      /\ owner' = [d \in Dir |-> IF <<d, "owner">> \in gone THEN None ELSE owner[d]]
      /\ claim' = [d \in Dir |-> IF <<d, "claim">> \in gone THEN None ELSE claim[d]]
      /\ leaf' = IF <<leaf, "dir">> \in gone THEN None ELSE leaf
      /\ old' = old \ {x[1] : x \in gone}
      /\ fd' = fds /\ hand' = hands
      /\ gone \subseteq D
  BY DEF Settle
<1> HIDE DEF gone
<1>2. \A d \in Dir : /\ <<d, "owner">> \in D \/ <<d, "owner">> \notin gone
                     /\ <<d, "claim">> \in D \/ <<d, "claim">> \notin gone
  BY <1>1
<1>3. \A d \in Dir : /\ owner'[d] = IF <<d, "owner">> \in gone THEN None ELSE owner[d]
                     /\ claim'[d] = IF <<d, "claim">> \in gone THEN None ELSE claim[d]
  BY <1>1
<1>4. /\ owner' \in [Dir -> Contender \cup {None}]
      /\ claim' \in [Dir -> Contender \cup {None}]
  BY <1>1 DEF TypeOK
<1>5. \A d \in Dir :
         /\ owner'[d] \in {owner[d], None} /\ claim'[d] \in {claim[d], None}
         /\ <<d, "owner">> \notin D =>
               owner'[d] = owner[d] /\ <<d, "owner">> \notin doomed'
         /\ <<d, "claim">> \notin D =>
               claim'[d] = claim[d] /\ <<d, "claim">> \notin doomed'
         /\ <<d, "dir">> \notin D => <<d, "dir">> \notin doomed'
         /\ <<d, "owner">> \in doomed' => owner'[d] = owner[d]
         /\ <<d, "claim">> \in doomed' => claim'[d] = claim[d]
  <2> TAKE d \in Dir
  <2>1. doomed' = D \ gone
    BY <1>1
  <2>2. QED
    BY <1>2, <1>3, <2>1
<1>6. /\ doomed' \subseteq D /\ old' \subseteq old
      /\ leaf' \in {leaf, None}
      /\ <<leaf, "dir">> \notin D => leaf' = leaf
  BY <1>1
<1>7. QED
  BY <1>1, <1>4, <1>5, <1>6 DEF SettleResult

\* Where everybody else is.
LEMMA Elsewhere ==
    ASSUME TypeOK, NEW q \in Contender, pc[q] \notin WithoutDir
    PROVE  fd[q] \in made /\ fd[q] \in Dir /\ fd[q] # None
  BY WindowsNone DEF TypeOK

\* A directory is created: nobody has it open yet.
LEMMA CreateWInv == ASSUME WInv, NEW p \in Contender, Create(p) PROVE WInv'
<1> USE WindowsNone DEF WInv, TypeOK, Create, Goto, Own, Creating, Holds
<1>1. TypeOK'
  BY DEF PC, WithoutDir, Stealing, File, NoView
<1>2. (Living /\ Pending /\ Fresh)'
  BY DEF Living, Pending, Fresh
<1>3. Standing'
  BY DEF Standing
<1>4. (OwnerSeenDead /\ Relied /\ Fenced)'
  BY DEF OwnerSeenDead, Relied, Fenced
<1>5. PICK d \in Dir \ made : leaf' = d /\ fd' = [fd EXCEPT ![p] = d]
  BY DEF Create
<1>6. \A q \in Contender :
         /\ pc'[q] = IF q = p THEN "linking" ELSE pc[q]
         /\ fd'[q] = IF q = p THEN d ELSE fd[q]
         /\ pc[q] \in Own => fd[q] \in made
  BY <1>5 DEF WithoutDir
<1>7. OneCreator'
  BY <1>5, <1>6 DEF OneCreator
<1>8. Published'
  BY <1>5, <1>6 DEF Published, Fresh
<1>9. KeepsPath'
  BY <1>6 DEF KeepsPath
<1>10. QED
  BY <1>1, <1>2, <1>3, <1>4, <1>5, <1>6, <1>7, <1>8, <1>9

\* The name is taken.
LEMMA CollideWInv == ASSUME WInv, NEW p \in Contender, Collide(p) PROVE WInv'
<1> USE WindowsNone DEF WInv, TypeOK, Collide, Goto, files, Own, Creating, Holds
<1>1. TypeOK'
  BY DEF PC, WithoutDir, Stealing, File, NoView
<1>2. (Living /\ Pending /\ Fresh /\ OneCreator /\ Standing /\ Published)'
  BY DEF Living, Pending, Fresh, OneCreator, Standing, Published
<1>3. (OwnerSeenDead /\ Relied /\ Fenced /\ KeepsPath)'
  BY DEF OwnerSeenDead, Relied, Fenced, KeepsPath
<1>4. QED
  BY <1>1, <1>2, <1>3

\* Its creator links its owner file.
LEMMA LinkOwnerWInv == ASSUME WInv, NEW p \in Contender, LinkOwner(p) PROVE WInv'
<1> USE WindowsNone DEF WInv, TypeOK, LinkOwner, Goto, Own, Creating, Holds
<1>1. TypeOK'
  BY DEF PC, WithoutDir, Stealing, File, NoView
<1>2. (Living /\ Pending /\ OneCreator /\ Standing)'
  BY DEF Living, Pending, OneCreator, Standing
<1>3. (OwnerSeenDead /\ Relied /\ Fenced /\ KeepsPath)'
  BY DEF OwnerSeenDead, Relied, Fenced, KeepsPath
<1>4. fd[p] \in made /\ fd[p] \in Dir /\ pc[p] \in Own
  BY DEF WithoutDir
<1>5. \A d \in Dir : owner'[d] = IF d = fd[p] THEN p ELSE owner[d]
  BY <1>4
<1>6. Fresh'
  BY <1>4, <1>5 DEF Fresh
<1>7. Published'
  <2>1. <<fd[p], "owner">> \notin doomed
    BY <1>4 DEF Published, Pending
  <2>2. SUFFICES ASSUME NEW q \in Contender, q # p, pc[q] \in Own
                 PROVE  fd[q] # fd[p] /\ fd[q] \in Dir
    BY <1>4, <1>5, <2>1 DEF Published
  <2>3. QED
    BY <1>4, <2>2, Elsewhere DEF OneCreator, WithoutDir
<1>8. QED
  BY <1>1, <1>2, <1>3, <1>4, <1>5, <1>6, <1>7

\* A stealer that has gone on relies on a claim, which the fence finds.
LEMMA CheckFenceWInv == ASSUME WInv, NEW p \in Contender, CheckFence(p) PROVE WInv'
<1> USE WindowsNone DEF WInv, TypeOK, CheckFence, Goto, OpenFile, CanOpen,
       files, Own, Creating, Holds
<1>1. TypeOK'
  BY DEF PC, WithoutDir, Stealing, File, NoView
<1>2. (Living /\ Pending /\ Fresh /\ OneCreator /\ Standing /\ Published)'
  BY DEF Living, Pending, Fresh, OneCreator, Standing, Published
<1>3. (OwnerSeenDead /\ Relied /\ Fenced /\ KeepsPath)'
  BY DEF OwnerSeenDead, Relied, Fenced, KeepsPath
<1>4. QED
  BY <1>1, <1>2, <1>3

\* The name leads to the directory of a holder when the guard is handed out.
LEMMA MatchPathWInv == ASSUME WInv, NEW p \in Contender, MatchPath(p) PROVE WInv'
<1> USE WindowsNone DEF WInv, TypeOK, MatchPath, Goto, files, Own, Creating,
       Holds
<1>1. TypeOK'
  BY DEF PC, WithoutDir, Stealing, File, NoView
<1>2. (Living /\ Pending /\ Fresh /\ OneCreator /\ Standing /\ Published)'
  BY DEF Living, Pending, Fresh, OneCreator, Standing, Published
<1>3. (OwnerSeenDead /\ Relied /\ Fenced /\ KeepsPath)'
  BY DEF OwnerSeenDead, Relied, Fenced, KeepsPath
<1>4. QED
  BY <1>1, <1>2, <1>3

\* The directory of the name is opened.
LEMMA InspectWInv == ASSUME WInv, NEW p \in Contender, Inspect(p) PROVE WInv'
<1> USE WindowsNone DEF WInv, TypeOK, Inspect, Goto, CanOpen, files, Own,
       Creating, Holds
<1>1. TypeOK'
  BY DEF PC, WithoutDir, Stealing, File, NoView
<1>2. Living'
  BY DEF Living
<1>3. Pending'
  BY DEF Pending
<1>4. Fresh'
  BY DEF Fresh
<1>5. OneCreator'
  BY DEF OneCreator
<1>6. Standing'
  BY DEF Standing
<1>7. Published'
  BY DEF Published
<1>8. OwnerSeenDead'
  BY DEF OwnerSeenDead
<1>9. Relied'
  BY DEF Relied
<1>10. Fenced'
  BY DEF Fenced
<1>11. KeepsPath'
  BY DEF KeepsPath
<1>12. QED
  BY <1>1, <1>2, <1>3, <1>4, <1>5, <1>6, <1>7, <1>8, <1>9, <1>10, <1>11

\* The owner of a young lock is read.
LEMMA GlanceWInv == ASSUME WInv, NEW p \in Contender, Glance(p) PROVE WInv'
<1> USE WindowsNone DEF WInv, TypeOK, Glance, Goto, OpenFile, CanOpen, files,
       Own, Creating, Holds
<1>1. TypeOK'
  BY DEF PC, WithoutDir, Stealing, File, NoView
<1>2. (Living /\ Pending /\ Fresh /\ OneCreator /\ Standing /\ Published)'
  BY DEF Living, Pending, Fresh, OneCreator, Standing, Published
<1>3. (OwnerSeenDead /\ Relied /\ Fenced /\ KeepsPath)'
  BY DEF OwnerSeenDead, Relied, Fenced, KeepsPath
<1>4. QED
  BY <1>1, <1>2, <1>3

\* The owner observed is absent or dead.
LEMMA ObserveWInv == ASSUME WInv, NEW p \in Contender, Observe(p) PROVE WInv'
<1> USE WindowsNone DEF WInv, TypeOK, Observe, Goto, OpenFile, CanOpen, IsAlive,
       files, Own, Creating, Holds
<1>1. TypeOK'
  BY DEF PC, WithoutDir, Stealing, File, NoView
<1>2. (Living /\ Pending /\ Fresh /\ OneCreator /\ Standing /\ Published)'
  BY DEF Living, Pending, Fresh, OneCreator, Standing, Published
<1>3. (OwnerSeenDead /\ Relied /\ Fenced /\ KeepsPath)'
  BY DEF OwnerSeenDead, Relied, Fenced, KeepsPath
<1>4. QED
  BY <1>1, <1>2, <1>3

\* A claim that is adopted is in place and its claimant dead.
LEMMA ReadClaimWInv == ASSUME WInv, NEW p \in Contender, ReadClaim(p) PROVE WInv'
<1> USE WindowsNone DEF WInv, TypeOK, ReadClaim, Goto, OpenFile, CanOpen,
       IsAlive, files, Own, Creating, Holds
<1>1. TypeOK'
  <2>1. fd[p] \in Dir /\ claim[fd[p]] \in Contender \cup {None}
    BY DEF WithoutDir
  <2>2. hand' \in [Contender -> File \cup {None}]
    BY DEF File
  <2>3. seen' \in [Contender -> [owner : Contender \cup {None},
                               claim : Contender \cup {None}]]
    BY <2>1
  <2>4. /\ pc' \in [Contender -> PC] /\ fd' = fd /\ made' = made
        /\ pc[p] \notin WithoutDir
    BY DEF PC, WithoutDir, Stealing
  <2>5. \A q \in Contender : pc'[q] \notin WithoutDir => fd'[q] \in made'
    BY <2>4
  <2>6. QED
    BY <2>2, <2>3, <2>4, <2>5
<1>2. (Living /\ Pending /\ Fresh /\ OneCreator /\ Standing /\ Published)'
  BY DEF Living, Pending, Fresh, OneCreator, Standing, Published
<1>3. OwnerSeenDead'
  BY DEF OwnerSeenDead
<1>4. Relied'
  <2>1. /\ UNCHANGED <<claim, doomed, alive, fd>>
        /\ \A q \in Contender : q # p => pc'[q] = pc[q] /\ seen'[q] = seen[q]
    OBVIOUS
  <2>2. pc'[p] = "reviewing" => /\ seen'[p].claim = claim[fd[p]]
                               /\ claim[fd[p]] # None /\ claim[fd[p]] \notin alive
                               /\ <<fd[p], "claim">> \notin doomed
    OBVIOUS
  <2>3. pc'[p] \in {"leaving", "publishing", "reviewing"}
    OBVIOUS
  <2>4. QED
    BY <2>1, <2>2, <2>3 DEF Relied
<1>5. Fenced'
  BY DEF Fenced
<1>6. KeepsPath'
  BY DEF KeepsPath
<1>7. QED
  BY <1>1, <1>2, <1>3, <1>4, <1>5, <1>6

\* A claim is linked where there was none, not even a delete-pending one.
LEMMA PublishClaimWInv == ASSUME WInv, NEW p \in Contender, PublishClaim(p) PROVE WInv'
<1> USE WindowsNone DEF WInv, TypeOK, PublishClaim, Goto, CanOpen, Own,
       Creating, Holds
<1>1. (Living /\ Pending /\ Fresh /\ OneCreator /\ Standing /\ Published)'
  BY DEF Living, Pending, Fresh, OneCreator, Standing, Published
<1>2. (OwnerSeenDead /\ Fenced /\ KeepsPath)'
  BY DEF OwnerSeenDead, Fenced, KeepsPath
<1>3. pc' \in [Contender -> PC] /\ claim' \in [Dir -> Contender \cup {None}]
  BY DEF PC, Stealing
<1>4. seen' \in [Contender -> [owner : Contender \cup {None},
                            claim : Contender \cup {None}]]
  OBVIOUS
<1>5. TypeOK'
  BY <1>3, <1>4 DEF WithoutDir
<1>6. \/ claim' = claim
      \/ claim[fd[p]] = None /\ claim' = [claim EXCEPT ![fd[p]] = p]
  OBVIOUS
<1>7. Relied'
  <2>1. SUFFICES ASSUME NEW q \in Contender,
                        pc'[q] \in {"reviewing", "rechecking", "comparing", "renaming"}
                 PROVE  /\ seen'[q].claim # None
                        /\ claim'[fd[q]] = seen'[q].claim
                        /\ <<fd[q], "claim">> \notin doomed
                        /\ seen'[q].claim = q \/ seen'[q].claim \notin alive
    BY DEF Relied
  <2>2. CASE q = p
    <3>1. claim[fd[p]] = None /\ fd[p] \in Dir /\ <<fd[p], "claim">> \notin doomed
      BY <2>1, <2>2, Elsewhere DEF Pending, WithoutDir
    <3>2. seen'[p].claim = p /\ claim'[fd[p]] = p
      BY <2>1, <2>2, <3>1
    <3>3. QED
      BY <2>2, <3>1, <3>2
  <2>3. CASE q # p
    <3>1. /\ pc[q] = pc'[q] /\ seen'[q] = seen[q]
          /\ claim[fd[q]] # None /\ claim[fd[q]] = seen[q].claim
          /\ <<fd[q], "claim">> \notin doomed
          /\ seen[q].claim = q \/ seen[q].claim \notin alive
      BY <2>1, <2>3 DEF Relied
    <3>2. fd[q] \in Dir
      BY <2>1, <3>1, Elsewhere DEF WithoutDir
    <3>3. claim'[fd[q]] = claim[fd[q]]
      BY <1>6, <3>1, <3>2
    <3>4. QED
      BY <3>1, <3>3
  <2>4. QED
    BY <2>2, <2>3
<1>8. QED
  BY <1>1, <1>2, <1>3, <1>4, <1>5, <1>6, <1>7

\* A holder is alive and the owner of its directory, so that no stealer that
\* reads the owner now goes on.
LEMMA ReviewOwnerWInv == ASSUME WInv, NEW p \in Contender, ReviewOwner(p) PROVE WInv'
<1> USE WindowsNone DEF WInv, TypeOK, ReviewOwner, Goto, GivingUp, OpenFile,
       CanOpen, files, Own, Creating, Holds
<1>1. TypeOK'
  BY DEF PC, WithoutDir, Stealing, File, NoView
<1>2. (Living /\ Pending /\ Fresh /\ OneCreator /\ Standing /\ Published)'
  BY DEF Living, Pending, Fresh, OneCreator, Standing, Published
<1>3. (OwnerSeenDead /\ Relied)'
  BY DEF OwnerSeenDead, Relied
<1>4. KeepsPath'
  BY DEF KeepsPath
<1>5. Fenced'
  <2>1. SUFFICES ASSUME NEW a \in Contender, NEW q \in Contender,
                        pc'[a] \in {"matching", "held"},
                        pc'[q] \in {"rechecking", "comparing", "renaming"}
                 PROVE  fd[a] # fd[q]
    BY DEF Fenced
  <2>2. pc[a] = pc'[a] /\ a # p
    BY <2>1
  <2>3. owner[fd[a]] = a /\ a \in alive
    BY <2>1, <2>2 DEF Published, Living
  <2>4. CASE q = p
    BY <2>1, <2>3, <2>4 DEF OwnerSeenDead
  <2>5. CASE q # p
    BY <2>1, <2>2, <2>5 DEF Fenced
  <2>6. QED
    BY <2>4, <2>5
<1>6. QED
  BY <1>1, <1>2, <1>3, <1>4, <1>5

\* The claim read again is the one relied on.
LEMMA ReviewClaimWInv == ASSUME WInv, NEW p \in Contender, ReviewClaim(p) PROVE WInv'
<1> USE WindowsNone DEF WInv, TypeOK, ReviewClaim, Goto, GivingUp, OpenFile,
       files, Own, Creating, Holds
<1>1. TypeOK'
  BY DEF PC, WithoutDir, Stealing, File, NoView
<1>2. (Living /\ Pending /\ Fresh /\ OneCreator /\ Standing /\ Published)'
  BY DEF Living, Pending, Fresh, OneCreator, Standing, Published
<1>3. (OwnerSeenDead /\ Relied /\ Fenced /\ KeepsPath)'
  BY DEF OwnerSeenDead, Relied, Fenced, KeepsPath
<1>4. QED
  BY <1>1, <1>2, <1>3

\* Nothing but the stealer's own place changes.
LEMMA ReviewPathWInv == ASSUME WInv, NEW p \in Contender, ReviewPath(p) PROVE WInv'
<1> USE WindowsNone DEF WInv, TypeOK, ReviewPath, Goto, GivingUp, IsAlive,
       files, Own, Creating, Holds
<1>1. TypeOK'
  BY DEF PC, WithoutDir, Stealing, File, NoView
<1>2. (Living /\ Pending /\ Fresh /\ OneCreator /\ Standing /\ Published)'
  BY DEF Living, Pending, Fresh, OneCreator, Standing, Published
<1>3. (OwnerSeenDead /\ Relied /\ Fenced /\ KeepsPath)'
  BY DEF OwnerSeenDead, Relied, Fenced, KeepsPath
<1>4. QED
  BY <1>1, <1>2, <1>3

\* The directory that a stealer renames is no holder's.
LEMMA RenameWInv == ASSUME WInv, NEW p \in Contender, Rename(p) PROVE WInv'
<1> USE WindowsNone DEF WInv, TypeOK, Rename, Goto, Own, Creating, Holds
<1>1. TypeOK'
  BY DEF PC, WithoutDir, Stealing, File, NoView
<1>2. (Living /\ Pending /\ Fresh /\ OneCreator /\ Standing /\ Published)'
  BY DEF Living, Pending, Fresh, OneCreator, Standing, Published
<1>3. (OwnerSeenDead /\ Relied /\ Fenced /\ KeepsPath)'
  BY DEF OwnerSeenDead, Relied, Fenced, KeepsPath
<1>4. QED
  BY <1>1, <1>2, <1>3

\* A rename that is denied changes nothing.
LEMMA RenameDeniedWInv == ASSUME WInv, NEW p \in Contender, RenameDenied(p) PROVE WInv'
<1> USE WindowsNone DEF WInv, TypeOK, RenameDenied, Goto, GivingUp, files, Own,
       Creating, Holds
<1>1. TypeOK'
  BY DEF PC, WithoutDir, Stealing, File, NoView
<1>2. (Living /\ Pending /\ Fresh /\ OneCreator /\ Standing /\ Published)'
  BY DEF Living, Pending, Fresh, OneCreator, Standing, Published
<1>3. (OwnerSeenDead /\ Relied /\ Fenced /\ KeepsPath)'
  BY DEF OwnerSeenDead, Relied, Fenced, KeepsPath
<1>4. QED
  BY <1>1, <1>2, <1>3

\* A step that deletes D, or closes handles, and takes nobody to a place where
\* more is promised than where it was.
Settles(D, fds, hands) ==
    /\ SettleResult(D, fds, hands)
    /\ D \subseteq made \X (File \cup {"dir"})
    /\ \A d \in Dir : /\ <<d, "owner">> \in D => owner[d] # None
                      /\ <<d, "claim">> \in D => claim[d] # None
    /\ fds \in [Contender -> Dir \cup {None}]
    /\ hands \in [Contender -> File \cup {None}]
    /\ pc' \in [Contender -> PC]
    /\ seen' \in [Contender -> [owner : Contender \cup {None},
                                claim : Contender \cup {None}]]
    /\ made' = made /\ retained' = retained /\ alive' \subseteq alive
    /\ \A q \in Contender :
          /\ q \in alive' <=> pc'[q] # "dead"
          /\ \/ pc'[q] \in {"idle", "dead"}
             \/ /\ fds[q] = fd[q] /\ seen'[q] = seen[q]
                /\ \/ pc'[q] = pc[q]
                   \/ pc'[q] = "removing" /\ pc[q] \in Own
                   \/ pc'[q] = "leaving" /\ pc[q] = "withdrawing"

\* What somebody relies on is not in D.
Spares(D) ==
    \A q \in Contender :
        /\ pc'[q] \in Own => <<fd[q], "dir">> \notin D
        /\ pc'[q] \in {"fencing", "matching", "abandoning", "held"} =>
              <<fd[q], "owner">> \notin D
        /\ pc'[q] \in {"reviewing", "rechecking", "comparing", "renaming"} =>
              <<fd[q], "claim">> \notin D

LEMMA SettlesWInv ==
    ASSUME WInv, NEW D, NEW fds, NEW hands, Settles(D, fds, hands), Spares(D)
    PROVE  WInv'
<1> USE WindowsNone DEF WInv, Own, Creating, Holds, Settles
<1>1. TypeOK'
  <2>1. /\ \A q \in Contender : pc'[q] \notin WithoutDir => fd'[q] \in made'
        /\ fd' = fds /\ hand' = hands
    BY Elsewhere DEF WithoutDir, SettleResult
  <2>2. QED
    BY <2>1 DEF SettleResult, TypeOK
<1>2. Living'
  BY DEF Living
<1>3. Pending'
  BY DEF Pending, SettleResult
<1>4. Fresh'
  BY DEF Fresh, SettleResult, TypeOK
<1>5. \A q \in Contender :
         pc'[q] \notin {"idle", "dead"} =>
            /\ fd'[q] = fd[q] /\ seen'[q] = seen[q]
            /\ pc'[q] \in Own => pc[q] \in Own
            /\ pc'[q] \notin {"removing", "leaving"} => pc'[q] = pc[q]
            /\ pc'[q] # "inspecting" => fd[q] \in Dir
  BY <1>1 DEF SettleResult, TypeOK, WithoutDir
<1>6. OneCreator'
  BY <1>5 DEF OneCreator
<1>7. Standing'
  <2>1. SUFFICES ASSUME NEW q \in Contender, pc'[q] \in Own
                 PROVE  <<fd'[q], "dir">> \notin doomed'
    BY DEF Standing
  <2>2. fd'[q] = fd[q] /\ fd[q] \in Dir /\ <<fd[q], "dir">> \notin D
    BY <1>5, <2>1 DEF Spares
  <2>3. QED
    BY <2>2 DEF SettleResult
<1>8. Published'
  <2>1. ASSUME NEW q \in Contender, pc'[q] = "linking" PROVE owner'[fd'[q]] = None
    <3>1. fd'[q] = fd[q] /\ fd[q] \in Dir /\ owner[fd[q]] = None
      BY <1>5, <2>1 DEF Published
    <3>2. owner'[fd[q]] \in {owner[fd[q]], None}
      BY <3>1 DEF SettleResult
    <3>3. QED
      BY <3>1, <3>2
  <2>2. ASSUME NEW q \in Contender,
               pc'[q] \in {"fencing", "matching", "abandoning", "held"}
        PROVE  owner'[fd'[q]] = q /\ <<fd'[q], "owner">> \notin doomed'
    <3>1. /\ fd'[q] = fd[q] /\ fd[q] \in Dir /\ owner[fd[q]] = q
          /\ <<fd[q], "owner">> \notin D
      BY <1>5, <2>2 DEF Published, Spares
    <3>2. owner'[fd[q]] = owner[fd[q]] /\ <<fd[q], "owner">> \notin doomed'
      BY <3>1 DEF SettleResult
    <3>3. QED
      BY <3>1, <3>2
  <2>3. QED
    BY <2>1, <2>2 DEF Published
<1>9. OwnerSeenDead'
  BY <1>5 DEF OwnerSeenDead
<1>10. Relied'
  <2>1. SUFFICES ASSUME NEW q \in Contender,
                        pc'[q] \in {"reviewing", "rechecking", "comparing", "renaming"}
                 PROVE  /\ seen'[q].claim # None
                        /\ claim'[fd'[q]] = seen'[q].claim
                        /\ <<fd'[q], "claim">> \notin doomed'
                        /\ seen'[q].claim = q \/ seen'[q].claim \notin alive'
    BY DEF Relied
  <2>2. /\ fd'[q] = fd[q] /\ fd[q] \in Dir /\ pc'[q] = pc[q] /\ seen'[q] = seen[q]
        /\ <<fd[q], "claim">> \notin D
    BY <1>5, <2>1 DEF Spares
  <2>3. /\ seen[q].claim # None /\ claim[fd[q]] = seen[q].claim
        /\ seen[q].claim = q \/ seen[q].claim \notin alive
    BY <2>1, <2>2 DEF Relied
  <2>4. claim'[fd[q]] = claim[fd[q]] /\ <<fd[q], "claim">> \notin doomed'
    BY <2>2 DEF SettleResult
  <2>5. QED
    BY <2>2, <2>3, <2>4
<1>11. Fenced'
  BY <1>5 DEF Fenced
<1>12. KeepsPath'
  <2>1. SUFFICES ASSUME NEW q \in Contender, pc'[q] = "held" PROVE leaf' = fd'[q]
    BY DEF KeepsPath
  <2>2. fd'[q] = fd[q] /\ leaf = fd[q] /\ <<fd[q], "dir">> \notin D
    BY <1>5, <2>1 DEF KeepsPath, Spares
  <2>3. QED
    BY <2>2 DEF SettleResult
<1>13. QED
  BY <1>1, <1>2, <1>3, <1>4, <1>6, <1>7, <1>8, <1>9, <1>10, <1>11, <1>12

\* Nobody relies on what is delete-pending already.
LEMMA SparesDoomed ==
    ASSUME WInv, NEW q \in Contender
    PROVE  /\ pc[q] \in Own => <<fd[q], "dir">> \notin doomed /\ fd[q] \in Dir
           /\ pc[q] \in {"fencing", "matching", "abandoning", "held"} =>
                 <<fd[q], "owner">> \notin doomed
           /\ pc[q] \in {"reviewing", "rechecking", "comparing", "renaming"} =>
                 <<fd[q], "claim">> \notin doomed /\ fd[q] \in Dir
  BY Elsewhere DEF WInv, Standing, Published, Relied, Own, Creating, WithoutDir

\* The creator's owner file goes, which nobody else owns the directory of.
LEMMA ReleaseOwnerWInv == ASSUME WInv, NEW p \in Contender, ReleaseOwner(p) PROVE WInv'
<1> USE WindowsNone DEF Own, Creating
<1> DEFINE D == doomed \cup {<<fd[p], "owner">>}
<1>1. /\ pc[p] \in {"abandoning", "held"} /\ pc' = [pc EXCEPT ![p] = "removing"]
      /\ Settle(D, fd, hand) /\ UNCHANGED <<made, retained, alive, seen>>
  BY DEF ReleaseOwner, Goto
<1>2. fd[p] \in made /\ owner[fd[p]] = p /\ p \in alive
  BY <1>1, Elsewhere DEF WInv, Published, Living, WithoutDir
<1>3. D \subseteq made \X (File \cup {"dir"})
  BY <1>2 DEF WInv, TypeOK, File
<1>4. SettleResult(D, fd, hand)
  BY <1>1, <1>3, SettleEffect DEF WInv
<1>5. \A q \in Contender : pc'[q] = IF q = p THEN "removing" ELSE pc[q]
  BY <1>1 DEF WInv, TypeOK
<1>6. Settles(D, fd, hand)
  BY <1>1, <1>2, <1>3, <1>4, <1>5 DEF Settles, WInv, TypeOK, PC, Pending, Living
<1>7. \A q \in Contender : q # p /\ pc[q] \in Own => fd[q] # fd[p]
  BY <1>1 DEF WInv, OneCreator
<1>8. Spares(D)
  BY <1>1, <1>5, <1>7, SparesDoomed DEF Spares
<1>9. QED
  BY <1>6, <1>8, SettlesWInv

\* The creator alone deletes the directory, and no longer owns it then.
LEMMA RemoveDirectoryWInv ==
    ASSUME WInv, NEW p \in Contender, RemoveDirectory(p) PROVE WInv'
<1> USE WindowsNone DEF Own, Creating
<1> DEFINE fds == [fd EXCEPT ![p] = None]
<1>1. /\ pc[p] = "removing" /\ pc' = [pc EXCEPT ![p] = "idle"]
      /\ UNCHANGED <<made, retained, alive, seen>>
  BY DEF RemoveDirectory, Goto
<1>2. PICK D : /\ D \in {doomed, doomed \cup {<<fd[p], "dir">>}}
               /\ Settle(D, fds, hand)
  BY DEF RemoveDirectory
<1>3. D \subseteq made \X (File \cup {"dir"})
  BY <1>1, <1>2, Elsewhere DEF WithoutDir, File, WInv, TypeOK
<1>4. SettleResult(D, fds, hand)
  BY <1>2, <1>3, SettleEffect DEF WInv
<1>5. \A q \in Contender : /\ pc'[q] = IF q = p THEN "idle" ELSE pc[q]
                           /\ q # p => fds[q] = fd[q]
  BY <1>1 DEF WInv, TypeOK
<1>6. \A d \in Dir : /\ <<d, "owner">> \in D => <<d, "owner">> \in doomed
                     /\ <<d, "claim">> \in D => <<d, "claim">> \in doomed
  BY <1>2
<1>7. /\ fds \in [Contender -> Dir \cup {None}] /\ pc' \in [Contender -> PC]
      /\ \A q \in Contender : q \in alive' <=> pc'[q] # "dead"
  BY <1>1, <1>5 DEF WInv, TypeOK, PC, Living
<1>8. Settles(D, fds, hand)
  BY <1>1, <1>3, <1>4, <1>5, <1>6, <1>7 DEF Settles, WInv, TypeOK, Pending
<1>9. \A q \in Contender : q # p /\ pc[q] \in Own => fd[q] # fd[p]
  BY <1>1 DEF WInv, OneCreator
<1>10. Spares(D)
  BY <1>2, <1>5, <1>9, SparesDoomed DEF Spares
<1>11. QED
  BY <1>8, <1>10, SettlesWInv

\* A stealer withdraws its own claim, on which nobody else relies while it lives.
LEMMA WithdrawWInv == ASSUME WInv, NEW p \in Contender, Withdraw(p) PROVE WInv'
<1> USE WindowsNone DEF Own, Creating
<1>1. /\ pc[p] = "withdrawing" /\ pc' = [pc EXCEPT ![p] = "leaving"]
      /\ UNCHANGED <<made, retained, alive, seen>>
  BY DEF Withdraw, Goto
<1>2. \A q \in Contender : pc'[q] = IF q = p THEN "leaving" ELSE pc[q]
  BY <1>1 DEF WInv, TypeOK
<1>3. pc' \in [Contender -> PC] /\ \A q \in Contender : q \in alive' <=> pc'[q] # "dead"
  BY <1>1, <1>2 DEF WInv, TypeOK, PC, Stealing, Living
<1>4. CASE claim[fd[p]] = p
  <2> DEFINE D == doomed \cup {<<fd[p], "claim">>}
  <2>1. Settle(D, fd, hand)
    BY <1>4 DEF Withdraw
  <2>2. fd[p] \in made /\ p \in alive
    BY <1>1, Elsewhere DEF WInv, Living, WithoutDir
  <2>3. D \subseteq made \X (File \cup {"dir"})
    BY <2>2 DEF WInv, TypeOK, File
  <2>4. SettleResult(D, fd, hand)
    BY <2>1, <2>3, SettleEffect DEF WInv
  <2>5. Settles(D, fd, hand)
    BY <1>1, <1>2, <1>3, <1>4, <2>3, <2>4 DEF Settles, WInv, TypeOK, Pending
  <2>6. \A q \in Contender :
           q # p /\ pc[q] \in {"reviewing", "rechecking", "comparing", "renaming"}
              => fd[q] # fd[p]
    BY <1>4, <2>2 DEF WInv, Relied
  <2>7. Spares(D)
    BY <1>2, <2>6, SparesDoomed DEF Spares
  <2>8. QED
    BY <2>5, <2>7, SettlesWInv
<1>5. CASE claim[fd[p]] # p
  <2>1. UNCHANGED <<leaf, owner, claim, doomed, old, fd, hand>>
    BY <1>5 DEF Withdraw
  <2>2. TypeOK'
    BY <1>1, <1>2, <1>3, <2>1, Elsewhere DEF WInv, TypeOK, WithoutDir
  <2>3. (Living /\ Pending /\ Fresh /\ OneCreator /\ Standing /\ Published)'
    BY <1>1, <1>2, <2>1
       DEF WInv, Living, Pending, Fresh, OneCreator, Standing, Published
  <2>4. (OwnerSeenDead /\ Relied /\ Fenced /\ KeepsPath)'
    BY <1>1, <1>2, <2>1 DEF WInv, OwnerSeenDead, Relied, Fenced, KeepsPath, Holds
  <2>5. QED
    BY <2>2, <2>3, <2>4 DEF WInv
<1>6. QED
  BY <1>4, <1>5

\* Handles are closed, which completes deletions and begins none.
LEMMA ClosingWInv ==
    ASSUME WInv, NEW p \in Contender, NEW fds \in {fd, [fd EXCEPT ![p] = None]},
           NEW hands \in {hand, [hand EXCEPT ![p] = None]},
           Settle(doomed, fds, hands),
           UNCHANGED <<made, retained>>,
           \/ fds = fd /\ UNCHANGED <<pc, seen, alive>>
           \/ /\ pc' = [pc EXCEPT ![p] = "idle"]
              /\ pc[p] # "dead"
              /\ seen' = [seen EXCEPT ![p] = NoView]
              /\ UNCHANGED alive
           \/ /\ pc' = [pc EXCEPT ![p] = "dead"]
              /\ seen' = [seen EXCEPT ![p] = NoView]
              /\ alive' = alive \ {p}
    PROVE  WInv'
<1> USE WindowsNone
<1>1. SettleResult(doomed, fds, hands)
  BY SettleEffect DEF WInv, TypeOK
<1>2. /\ fds \in [Contender -> Dir \cup {None}]
      /\ hands \in [Contender -> File \cup {None}]
      /\ pc' \in [Contender -> PC] /\ alive' \subseteq alive
      /\ seen' \in [Contender -> [owner : Contender \cup {None},
                                  claim : Contender \cup {None}]]
  BY DEF WInv, TypeOK, PC, NoView
<1>3. \A q \in Contender :
         /\ q \in alive' <=> pc'[q] # "dead"
         /\ \/ pc'[q] \in {"idle", "dead"}
            \/ fds[q] = fd[q] /\ seen'[q] = seen[q] /\ pc'[q] = pc[q]
  BY DEF WInv, TypeOK, Living
<1>4. Settles(doomed, fds, hands)
  BY <1>1, <1>2, <1>3 DEF Settles, WInv, TypeOK, Pending
<1>5. Spares(doomed)
  BY <1>3, SparesDoomed DEF Spares, Own, Creating
<1>6. QED
  BY <1>4, <1>5, SettlesWInv

LEMMA AgeWInv == ASSUME WInv, NEW d \in Dir, Age(d) PROVE WInv'
  BY DEF Age, WInv, TypeOK, Living, Pending, Fresh, OneCreator, Standing, Published,
     OwnerSeenDead, Relied, Fenced, KeepsPath, Holds

LEMMA NextWInv == ASSUME WInv, [Next]_vars PROVE WInv'
<1>1. ASSUME NEW p \in Contender, Acquire(p) PROVE WInv'
  BY <1>1, CreateWInv, CollideWInv, LinkOwnerWInv, CheckFenceWInv, MatchPathWInv
     DEF Acquire
<1>2. ASSUME NEW p \in Contender, Release(p) PROVE WInv'
  BY <1>2, ReleaseOwnerWInv, RemoveDirectoryWInv DEF Release
<1>3. ASSUME NEW p \in Contender, Steal(p) PROVE WInv'
  <2>1. CASE Leave(p)
    BY <2>1, ClosingWInv DEF Leave, Goto
  <2>2. QED
    BY <1>3, <2>1, InspectWInv, GlanceWInv, ObserveWInv, ReadClaimWInv, PublishClaimWInv,
       ReviewOwnerWInv, ReviewClaimWInv, ReviewPathWInv, RenameWInv, RenameDeniedWInv,
       WithdrawWInv
       DEF Steal
<1>4. ASSUME NEW p \in Contender, CloseFile(p) PROVE WInv'
  BY <1>4, ClosingWInv DEF CloseFile
<1>5. ASSUME NEW p \in Contender, Crash(p) PROVE WInv'
  BY <1>5, ClosingWInv DEF Crash, Goto
<1>6. ASSUME NEW d \in Dir, Age(d) PROVE WInv'
  BY <1>6, AgeWInv
<1>7. CASE UNCHANGED vars
  BY <1>7 DEF vars, WInv, TypeOK, Living, Pending, Fresh, OneCreator, Standing,
     Published, OwnerSeenDead, Relied, Fenced, KeepsPath, Holds
<1>8. QED
  BY <1>1, <1>2, <1>3, <1>4, <1>5, <1>6, <1>7 DEF Next, Step

-----------------------------------------------------------------------------
(* The abstract lock                                                       *)

Holders == {p \in Contender : Holds(p)}

\* The steps of the lock that are not steps of the abstract one.
LEMMA Silent ==
    ASSUME TypeOK, NEW p \in Contender, NEW label,
           pc' = [pc EXCEPT ![p] = label], pc[p] # "held", label # "held"
    PROVE  Holders' = Holders
  BY DEF TypeOK, Holders, Holds

\* A guard ends.
LEMMA Ends ==
    ASSUME WInv, NEW p \in Contender, NEW label, pc' = [pc EXCEPT ![p] = label],
           pc[p] = "held", label # "held"
    PROVE  Holders = {p} /\ Holders' = {}
<1>1. \A q \in Contender : Holds(q) => q = p
  BY DEF WInv, KeepsPath, OneCreator, Own, Holds
<1>2. QED
  BY <1>1 DEF WInv, TypeOK, Holders, Holds

\* A guard is handed out: the name leads to one directory, of one creator.
LEMMA Begins ==
    ASSUME WInv, NEW p \in Contender, MatchPath(p), leaf = fd[p]
    PROVE  Holders = {} /\ Holders' = {p}
<1>1. pc[p] = "matching" /\ pc' = [pc EXCEPT ![p] = "held"]
  BY DEF MatchPath, Goto
<1>2. \A q \in Contender : ~Holds(q)
  BY <1>1 DEF WInv, KeepsPath, OneCreator, Own, Creating, Holds
<1>3. QED
  BY <1>1, <1>2 DEF WInv, TypeOK, Holders, Holds

LEMMA StepImplements ==
    ASSUME WInv, [Next]_vars
    PROVE  \/ UNCHANGED Holders
           \/ \E p \in Contender : \/ Holders = {} /\ Holders' = {p}
                                   \/ Holders = {p} /\ Holders' = {}
<1> USE DEF Goto, GivingUp
<1>1. ASSUME NEW p \in Contender, Acquire(p)
      PROVE  UNCHANGED Holders \/ (Holders = {} /\ Holders' = {p})
  <2>1. CASE MatchPath(p) /\ leaf = fd[p]
    BY <2>1, Begins
  <2>2. CASE ~(MatchPath(p) /\ leaf = fd[p])
    BY <1>1, <2>2, Silent
       DEF WInv, Acquire, Create, Collide, LinkOwner, CheckFence, MatchPath
  <2>3. QED
    BY <2>1, <2>2
<1>2. ASSUME NEW p \in Contender, Release(p)
      PROVE  UNCHANGED Holders \/ (Holders = {p} /\ Holders' = {})
  BY <1>2, Silent, Ends DEF WInv, Release, ReleaseOwner, RemoveDirectory
<1>3. ASSUME NEW p \in Contender, Steal(p) PROVE UNCHANGED Holders
  BY <1>3, Silent
     DEF WInv, Steal, Inspect, Glance, Observe, ReadClaim, PublishClaim, ReviewOwner,
         ReviewClaim, ReviewPath, Rename, RenameDenied, Withdraw, Leave
<1>4. ASSUME NEW p \in Contender, CloseFile(p) PROVE UNCHANGED Holders
  BY <1>4 DEF CloseFile, Holders, Holds
<1>5. ASSUME NEW p \in Contender, Crash(p)
      PROVE  UNCHANGED Holders \/ (Holders = {p} /\ Holders' = {})
  BY <1>5, Silent, Ends DEF WInv, Crash
<1>6. ASSUME NEW d \in Dir, Age(d) PROVE UNCHANGED Holders
  BY <1>6 DEF Age, Holders, Holds
<1>7. CASE UNCHANGED vars
  BY <1>7 DEF vars, Holders, Holds
<1>8. QED
  BY <1>1, <1>2, <1>3, <1>4, <1>5, <1>6, <1>7 DEF Next, Step

\* A holder of the Windows lock keeps the lock's name, whatever pauses and
\* crashes happen: no stealer renames its directory, nobody else deletes it.
THEOREM WindowsHolderKeepsPath == Spec => []KeepsPath
<1>1. WInv => KeepsPath
  BY DEF WInv
<1>2. QED
  BY InitWInv, NextWInv, <1>1, PTL DEF Spec

\* try_acquire_plain_lock of state_windows.rs hands out a guard only while no
\* other is alive, under no assumption about pauses.
THEOREM WindowsImplementsAbstractLock == Spec => ImplementsAbstractLock
<1>1. Init => Abstract!Init
  BY DEF Init, Starts, Abstract!Init, Holds
<1>2. WInv /\ [Next]_vars => [Abstract!Next]_{p \in Contender : Holds(p)}
  BY StepImplements DEF Holders, Abstract!Next, Abstract!Take, Abstract!Free
<1>3. QED
  BY InitWInv, NextWInv, <1>1, <1>2, PTL DEF Spec, ImplementsAbstractLock, Abstract!Spec
=============================================================================
