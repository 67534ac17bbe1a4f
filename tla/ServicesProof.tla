---------------------------- MODULE ServicesProof ----------------------------
(***************************************************************************)
(* The parts that share no state with each other, proved one by one, for   *)
(* every value of their constants.                                         *)
(*                                                                         *)
(* The watchlist: AbstractLock hands out its guard only when nobody has    *)
(* one; a call is past the lock only while it has it; so that from the     *)
(* reading to the writing of one call nobody else writes; and what it      *)
(* writes has room and names no security twice, because what it read has   *)
(* not.                                                                    *)
(*                                                                         *)
(* The Node boundary: a call is polled by one thread at a time, and the    *)
(* guard is on that thread exactly while it polls.                         *)
(*                                                                         *)
(* The release check: whichever record is shared shows a check that began  *)
(* at most one step of time before the last incidental request.            *)
(*                                                                         *)
(* The upgrade: while no two releases are on their way everybody installs  *)
(* the same one, which is the one whose archive a run spares.              *)
(*                                                                         *)
(* The calendar: what is known of a day is true of it.                     *)
(*                                                                         *)
(* Cache maintenance: the ranking of prune is a strict order; whatever has *)
(* been read or chosen has something before it, or itself, in the cache;   *)
(* and a call beside which nobody writes has read, or is to remove, all    *)
(* that its rule does not let it keep.                                     *)
(***************************************************************************)
EXTENDS Watchlist, NodeBoundary, ReleaseCheck, Upgrade, Calendar,
        CacheMaintenance, CompositeProof

-----------------------------------------------------------------------------
(* The watchlist                                                           *)

\* The functions are defined for the calls.
Domains ==
    /\ wlPc \in [WlCall -> {"idle", "locking", "reading", "deciding", "writing"}]
    /\ wlRead = [c \in WlCall |-> wlRead[c]]

\* One guard at a time, and nobody is past the lock without it.
Guarded ==
    /\ \A c, d \in wlLock : c = d
    /\ \A c \in WlCall :
          wlPc[c] \in {"reading", "deciding", "writing"} => c \in wlLock

\* What a call has read is what is there.
ReadIsCurrent ==
    \A c \in WlCall :
        wlPc[c] \in {"deciding", "writing"} => wlRead[c] = Observed(wlFile)

WlInv == Domains /\ Guarded /\ ReadIsCurrent

LEMMA InitWlInv == WatchlistInit => WlInv
  BY DEF WatchlistInit, WlInv, Domains, Guarded, ReadIsCurrent

\* The end of a call, at the current file or at another that nobody has read.
LEMMA ReturnWlInv ==
    ASSUME WlInv, NEW c \in WlCall, WlReturn(c),
           wlFile' = wlFile \/ c \in wlLock
    PROVE  WlInv'
<1>1. Domains'
  BY DEF WlInv, Domains, WlReturn
<1>2. Guarded'
  BY DEF WlInv, Domains, Guarded, WlReturn
<1>3. ReadIsCurrent'
  <2>1. SUFFICES ASSUME NEW d \in WlCall, wlPc'[d] \in {"deciding", "writing"}
                 PROVE  wlRead'[d] = Observed(wlFile)'
    BY DEF ReadIsCurrent
  <2>2. d # c /\ wlPc'[d] = wlPc[d] /\ wlRead'[d] = wlRead[d]
    BY <2>1 DEF WlInv, Domains, WlReturn
  <2>3. wlFile' = wlFile
    BY <2>1, <2>2 DEF WlInv, Guarded
  <2>4. QED
    BY <2>1, <2>2, <2>3 DEF WlInv, ReadIsCurrent, Observed
<1>4. QED
  BY <1>1, <1>2, <1>3 DEF WlInv

LEMMA NextWlInv ==
    ASSUME WlInv, [WatchlistNext]_wlVars
    PROVE  WlInv'
<1> USE DEF WlInv
<1>1. ASSUME NEW c \in WlCall, WlStart(c) PROVE WlInv'
  BY <1>1 DEF WlStart, Domains, Guarded, ReadIsCurrent, Observed
<1>2. ASSUME NEW c \in WlCall, WlAcquire(c) PROVE WlInv'
  <2>1. CASE Lock!Take(c) /\ wlPc' = [wlPc EXCEPT ![c] = "reading"]
    <3>1. wlLock = {} /\ wlLock' = {c}
      BY <2>1 DEF Lock!Take
    <3>2. QED
      BY <1>2, <2>1, <3>1 DEF WlAcquire, Domains, Guarded, ReadIsCurrent, Observed
  <2>2. CASE wlPc' = [wlPc EXCEPT ![c] = "idle"] /\ UNCHANGED wlLock
    BY <1>2, <2>2 DEF WlAcquire, Domains, Guarded, ReadIsCurrent, Observed
  <2>3. QED
    BY <1>2, <2>1, <2>2 DEF WlAcquire
<1>3. ASSUME NEW c \in WlCall, WlReadLocked(c) PROVE WlInv'
  <2>1. CASE Readable(Observed(wlFile))
    BY <1>3, <2>1 DEF WlReadLocked, Domains, Guarded, ReadIsCurrent, Observed
  <2>2. CASE ~Readable(Observed(wlFile))
    BY <1>3, <2>2, ReturnWlInv DEF WlReadLocked
  <2>3. QED
    BY <2>1, <2>2
<1>4. ASSUME NEW c \in WlCall, WlDecide(c) PROVE WlInv'
  <2>1. CASE WlReturn(c)
    BY <1>4, <2>1, ReturnWlInv DEF WlDecide
  <2>2. CASE /\ wlPc[c] = "deciding"
             /\ wlPc' = [wlPc EXCEPT ![c] = "writing"]
             /\ UNCHANGED <<wlFile, wlLock, wlRead>>
    BY <2>2 DEF Domains, Guarded, ReadIsCurrent, Observed
  <2>3. QED
    BY <1>4, <2>1, <2>2 DEF WlDecide
<1>5. ASSUME NEW c \in WlCall, WlWrite(c) PROVE WlInv'
  BY <1>5, ReturnWlInv DEF WlWrite, Guarded
<1>6. ASSUME NEW c \in WlCall, WlDie(c) PROVE WlInv'
  BY <1>6, ReturnWlInv DEF WlDie
<1>7. CASE UNCHANGED wlVars
  BY <1>7 DEF wlVars, Domains, Guarded, ReadIsCurrent, Observed
<1>8. QED
  BY <1>1, <1>2, <1>3, <1>4, <1>5, <1>6, <1>7 DEF WatchlistNext

\* Only WlWrite changes the file, to what it makes of the list it has read.
LEMMA StepAppliesToCurrent ==
    ASSUME WlInv, [WatchlistNext]_wlVars, wlFile' # wlFile
    PROVE  \E c \in WlCall :
              /\ wlPc[c] = "writing"
              /\ wlFile' = File("v1", Applied(wlOp[c], Observed(wlFile).entries))
<1>1. PICK c \in WlCall : WlWrite(c)
  BY DEF WatchlistNext, wlVars, WlStart, WlAcquire, WlReadLocked, WlDecide, WlDie
<1>2. wlPc[c] = "writing" /\ wlFile' = Written(c)
  BY <1>1 DEF WlWrite
<1>3. wlRead[c] = Observed(wlFile)
  BY <1>2 DEF WlInv, ReadIsCurrent
<1>4. QED
  BY <1>2, <1>3 DEF Written

\* The mutual exclusion that the lock promises, used where it matters: no call
\* is past the lock beside another one.
THEOREM WatchlistGuarded == WatchlistSpec => []Guarded
<1>1. WlInv => Guarded
  BY DEF WlInv
<1>2. QED
  BY InitWlInv, NextWlInv, <1>1, PTL DEF WatchlistSpec

\* What add and remove make of a list that decodes decodes.
LEMMA AppliedDecodes ==
    ASSUME NEW s \in Seq(Entry), Decodes(s), NEW o \in WlOperation,
           o.kind = "add" /\ ~HasIsin(s, o.entry.isin) => HasRoom(s)
    PROVE  Applied(o, s) \in Seq(Entry) /\ Decodes(Applied(o, s))
<1>1. Len(s) <= WlMax /\ \A i, j \in DOMAIN s : s[i].isin = s[j].isin => i = j
  BY DEF Decodes, IsInjective
<1>2. CASE o.kind = "add" /\ HasIsin(s, o.entry.isin)
  BY <1>2 DEF Applied
<1>3. CASE o.kind = "add" /\ ~HasIsin(s, o.entry.isin)
  <2> DEFINE t == Append(s, o.entry)
  <2>1. o.entry \in Entry
    BY <1>3 DEF WlOperation
  <2>2. t \in Seq(Entry) /\ Len(t) = Len(s) + 1 /\ DOMAIN t = 1..Len(s) + 1
        /\ \A i \in 1..Len(s) : t[i] = s[i]
        /\ t[Len(s) + 1] = o.entry
    BY <2>1
  <2>3. Len(t) <= WlMax
    BY <1>3, <2>2, WatchlistConstants DEF HasRoom
  <2>4. \A i \in 1..Len(s) : s[i].isin # o.entry.isin
    BY <1>3 DEF HasIsin
  <2>5. Len(s) \in Nat /\ DOMAIN s = 1..Len(s)
    OBVIOUS
  <2> HIDE DEF t
  <2>6. \A i, j \in DOMAIN t : t[i].isin = t[j].isin => i = j
    <3>1. SUFFICES ASSUME NEW i \in DOMAIN t, NEW j \in DOMAIN t,
                          t[i].isin = t[j].isin
                   PROVE  i = j
      OBVIOUS
    <3>2. i \in 1..Len(s) \/ i = Len(s) + 1
      BY <2>2, <2>5
    <3>3. j \in 1..Len(s) \/ j = Len(s) + 1
      BY <2>2, <2>5
    <3>4. QED
      BY <1>1, <2>2, <2>4, <2>5, <3>1, <3>2, <3>3
  <2>7. Applied(o, s) = t
    BY <1>3 DEF Applied, t
  <2>8. QED
    BY <2>2, <2>3, <2>6, <2>7 DEF Decodes, IsInjective
<1>4. CASE o.kind = "remove"
  <2> DEFINE kept == {i \in DOMAIN s : ~Selects(o.selector, s[i])}
             t == ItemsAt(s, kept)
  <2>1. kept \in SUBSET DOMAIN s
    OBVIOUS
  <2>2. Applied(o, s) = t
    BY <1>4 DEF Applied
  <2> HIDE DEF kept
  <2>3. PICK at : Leads(at, s, kept)
    BY <2>1, SublistLed
  <2>4. /\ t \in Seq(Entry) /\ Len(t) \in 0..Len(s)
        /\ at \in [DOMAIN t -> kept]
        /\ \A p \in DOMAIN t : t[p] = s[at[p]] /\ Place(kept, at[p]) = p
    <3>1. t \in Seq(Entry) /\ Len(t) = Cardinality(kept)
          /\ Cardinality(kept) \in 0..Len(s)
      BY <2>1, SublistLed
    <3>2. DOMAIN t = 1..Cardinality(kept)
      BY <3>1
    <3>3. QED
      BY <2>3, <3>1, <3>2 DEF Leads
  <2> HIDE DEF t
  <2>5. \A p, q \in DOMAIN t : t[p].isin = t[q].isin => p = q
    BY <1>1, <2>1, <2>4
  <2>6. Len(t) <= WlMax
    BY <1>1, <2>4, WatchlistConstants
  <2>7. QED
    BY <2>2, <2>4, <2>5, <2>6 DEF Decodes, IsInjective
<1>5. QED
  BY <1>2, <1>3, <1>4 DEF WlOperation

\* The file holds entries, and a call that is to write has read what decodes
\* and has room for what it adds.
WillDecode(c) ==
    /\ wlPc[c] # "idle" => wlOp[c] \in WlOperation
    /\ wlPc[c] \in {"deciding", "writing"} => Readable(wlRead[c])
    /\ wlPc[c] = "writing" /\ wlOp[c].kind = "add"
          /\ ~HasIsin(wlRead[c].entries, wlOp[c].entry.isin)
       => HasRoom(wlRead[c].entries)

ListInv ==
    /\ wlOp = [c \in WlCall |-> wlOp[c]]
    /\ wlFile.entries \in Seq(Entry)
    /\ \A c \in WlCall : WillDecode(c)

\* Every list that may be there in the beginning, and every decision not yet made.
LEMMA InitListInv == WatchlistInit => ListInv
<1> SUFFICES ASSUME WatchlistInit PROVE ListInv
  OBVIOUS
<1>1. wlFile.entries \in Seq(Entry)
  <2>1. \A s \in SeqOf(Entry, WlMax) : s \in Seq(Entry)
    BY WatchlistConstants DEF SeqOf
  <2>2. CASE wlFile \in {File("absent", <<>>), File("invalid", <<>>)}
    <3>1. wlFile.entries = <<>>
      BY <2>2 DEF File
    <3>2. <<>> \in Seq(Entry)
      OBVIOUS
    <3>3. QED
      BY <3>1, <3>2
  <2>3. CASE wlFile \in {File(form, entries) :
                            form \in {"v0", "v1"},
                            entries \in {s \in SeqOf(Entry, WlMax) : Decodes(s)}}
    <3>1. PICK form \in {"v0", "v1"}, s \in SeqOf(Entry, WlMax) : wlFile = File(form, s)
      BY <2>3
    <3>2. wlFile.entries = s
      BY <3>1 DEF File
    <3>3. QED
      BY <2>1, <3>2
  <2>4. QED
    BY <2>2, <2>3 DEF WatchlistInit
<1>2. QED
  BY <1>1 DEF WatchlistInit, ListInv, WillDecode

\* The end of a call that does not write.
LEMMA ReturnListInv ==
    ASSUME WlInv, ListInv, NEW c \in WlCall, WlReturn(c), wlOp' = wlOp,
           wlFile'.entries \in Seq(Entry)
    PROVE  ListInv'
<1>1. wlPc'[c] = "idle"
  BY DEF WlReturn, WlInv, Domains
<1>2. \A d \in WlCall : d # c => wlPc'[d] = wlPc[d] /\ wlRead'[d] = wlRead[d]
  BY DEF WlReturn, WlInv, Domains
<1>3. ASSUME NEW d \in WlCall PROVE WillDecode(d)'
  BY <1>1, <1>2 DEF ListInv, WillDecode
<1>4. QED
  BY <1>3 DEF ListInv

\* A write leaves entries, which decode.
LEMMA WriteDecodes ==
    ASSUME WlInv, ListInv, NEW c \in WlCall, wlPc[c] = "writing"
    PROVE  /\ Written(c).entries \in Seq(Entry)
           /\ Readable(Written(c)) /\ Written(c).form = "v1"
<1> DEFINE s == wlRead[c].entries
           t == Applied(wlOp[c], s)
<1>1. wlRead[c] = Observed(wlFile) /\ wlOp[c] \in WlOperation
  BY DEF WlInv, ReadIsCurrent, ListInv, WillDecode
<1>2. s \in Seq(Entry)
  BY <1>1 DEF ListInv, Observed, File
<1>3. Decodes(s)
  BY DEF ListInv, WillDecode, Readable
<1>4. t \in Seq(Entry) /\ Decodes(t)
  BY <1>1, <1>2, <1>3, AppliedDecodes DEF ListInv, WillDecode
<1>5. Written(c) = [form |-> "v1", entries |-> t]
  BY DEF Written, File
<1> HIDE DEF t
<1>6. QED
  BY <1>4, <1>5 DEF Readable

\* Every step keeps the entries a list and what is decided decodable.
LEMMA NextListInv ==
    ASSUME WlInv, ListInv, [WatchlistNext]_wlVars
    PROVE  ListInv'
<1>1. ASSUME NEW c \in WlCall, WlStart(c) PROVE ListInv'
  <2>1. PICK o \in WlOperation : wlOp' = [wlOp EXCEPT ![c] = o]
    BY <1>1 DEF WlStart
  <2>2. ASSUME NEW d \in WlCall PROVE WillDecode(d)'
    <3>1. CASE d = c
      BY <1>1, <2>1, <3>1 DEF WlStart, ListInv, WillDecode, WlInv, Domains
    <3>2. CASE d # c
      <4>1. wlPc'[d] = wlPc[d] /\ wlOp'[d] = wlOp[d] /\ wlRead'[d] = wlRead[d]
        BY <1>1, <2>1, <3>2 DEF WlStart, ListInv, WlInv, Domains
      <4>2. QED
        BY <4>1 DEF ListInv, WillDecode
    <3>3. QED
      BY <3>1, <3>2
  <2>3. QED
    BY <1>1, <2>1, <2>2 DEF WlStart, ListInv
<1>2. ASSUME NEW c \in WlCall, WlAcquire(c) PROVE ListInv'
  <2>1. wlPc'[c] \in {"reading", "idle"} /\ wlPc[c] = "locking"
        /\ \A d \in WlCall : d # c => wlPc'[d] = wlPc[d]
    BY <1>2 DEF WlAcquire, WlInv, Domains
  <2>2. UNCHANGED <<wlFile, wlOp, wlRead>>
    BY <1>2 DEF WlAcquire
  <2>3. ASSUME NEW d \in WlCall PROVE WillDecode(d)'
    BY <2>1, <2>2 DEF ListInv, WillDecode
  <2>4. QED
    BY <2>2, <2>3 DEF ListInv
<1>3. ASSUME NEW c \in WlCall, WlReadLocked(c) PROVE ListInv'
  <2>1. CASE Readable(Observed(wlFile))
    <3>1. /\ wlRead' = [wlRead EXCEPT ![c] = Observed(wlFile)]
          /\ wlPc' = [wlPc EXCEPT ![c] = "deciding"]
          /\ wlPc[c] = "reading" /\ wlFile' = wlFile /\ wlOp' = wlOp
      BY <1>3, <2>1 DEF WlReadLocked
    <3>2. ASSUME NEW d \in WlCall PROVE WillDecode(d)'
      <4>1. CASE d = c
        <5>1. wlPc'[d] = "deciding" /\ wlRead'[d] = Observed(wlFile)
          BY <3>1, <4>1 DEF WlInv, Domains
        <5>2. Readable(wlRead'[d])
          BY <2>1, <5>1
        <5>3. QED
          BY <3>1, <4>1, <5>1, <5>2 DEF ListInv, WillDecode, Readable
      <4>2. CASE d # c
        <5>1. wlPc'[d] = wlPc[d] /\ wlRead'[d] = wlRead[d]
          BY <3>1, <4>2 DEF WlInv, Domains
        <5>2. QED
          BY <3>1, <5>1 DEF ListInv, WillDecode
      <4>3. QED
        BY <4>1, <4>2
    <3>3. QED
      BY <3>1, <3>2 DEF ListInv
  <2>2. CASE ~Readable(Observed(wlFile))
    BY <1>3, <2>2, ReturnListInv DEF WlReadLocked, ListInv
  <2>3. QED
    BY <2>1, <2>2
<1>4. ASSUME NEW c \in WlCall, WlDecide(c) PROVE ListInv'
  <2>1. CASE WlReturn(c)
    BY <1>4, <2>1, ReturnListInv DEF WlDecide, ListInv
  <2>2. CASE /\ wlPc' = [wlPc EXCEPT ![c] = "writing"]
             /\ UNCHANGED <<wlLock, wlRead>>
             /\ ~(/\ wlOp[c].kind = "add"
                  /\ ~HasIsin(wlRead[c].entries, wlOp[c].entry.isin)
                  /\ ~HasRoom(wlRead[c].entries))
    <3>1. wlPc[c] = "deciding" /\ wlOp' = wlOp /\ wlFile' = wlFile /\ wlRead' = wlRead
      BY <1>4, <2>2 DEF WlDecide
    <3>2. wlPc'[c] = "writing" /\ \A d \in WlCall : d # c => wlPc'[d] = wlPc[d]
      BY <2>2 DEF WlInv, Domains
    <3>3. ASSUME NEW d \in WlCall PROVE WillDecode(d)'
      BY <2>2, <3>1, <3>2 DEF ListInv, WillDecode
    <3>4. QED
      BY <3>1, <3>3 DEF ListInv
  <2>3. QED
    BY <1>4, <2>1, <2>2 DEF WlDecide
<1>5. ASSUME NEW c \in WlCall, WlWrite(c) PROVE ListInv'
  <2>1. wlFile'.entries \in Seq(Entry)
    BY <1>5, WriteDecodes DEF WlWrite, ListInv
  <2>2. QED
    BY <1>5, <2>1, ReturnListInv DEF WlWrite
<1>6. ASSUME NEW c \in WlCall, WlDie(c) PROVE ListInv'
  BY <1>6, ReturnListInv DEF WlDie, ListInv
<1>7. CASE UNCHANGED wlVars
  BY <1>7 DEF wlVars, ListInv, WillDecode
<1>8. QED
  BY <1>1, <1>2, <1>3, <1>4, <1>5, <1>6, <1>7 DEF WatchlistNext

\* The one step that changes the file, WlWrite, leaves what a read accepts.
LEMMA StepStaysReadable ==
    ASSUME WlInv, ListInv, [WatchlistNext]_wlVars, Readable(Observed(wlFile))
    PROVE  Readable(Observed(wlFile'))
<1>1. CASE wlFile' = wlFile
  BY <1>1
<1>2. CASE wlFile' # wlFile
  <2>1. PICK c \in WlCall : WlWrite(c)
    BY <1>2 DEF WatchlistNext, wlVars, WlStart, WlAcquire, WlReadLocked, WlDecide,
       WlDie
  <2>2. wlPc[c] = "writing" /\ wlFile' = Written(c)
    BY <1>2, <2>1 DEF WlWrite
  <2>3. Readable(Written(c)) /\ Written(c).form = "v1"
    BY <2>2, WriteDecodes
  <2>4. QED
    BY <2>2, <2>3 DEF Observed
<1>3. QED
  BY <1>1, <1>2

\* add and remove of watchlist.rs: no mutation undoes another, and none leaves
\* what the next cannot read, however the additions race at the maximum.
THEOREM WatchlistComposes == WatchlistSpec => MutationsCompose
<1>1. WlInv /\ [WatchlistNext]_wlVars
      => [wlFile' # wlFile =>
            \E c \in WlCall :
                /\ wlPc[c] = "writing"
                /\ wlFile' = File("v1", Applied(wlOp[c], Observed(wlFile).entries))]_wlVars
  BY StepAppliesToCurrent
<1>2. WlInv /\ ListInv /\ [WatchlistNext]_wlVars
      => [Readable(Observed(wlFile)) => Readable(Observed(wlFile'))]_wlVars
  BY StepStaysReadable
<1>3. QED
  BY InitWlInv, NextWlInv, InitListInv, NextListInv, <1>1, <1>2, PTL
     DEF WatchlistSpec, MutationsCompose, WritesApplyToCurrent, StaysReadable

-----------------------------------------------------------------------------
(* The Node boundary                                                       *)

NodeTypes ==
    /\ nbPc \in [NbCall -> {"new", "tied", "pending", "polled", "ended", "settled"}]
    /\ nbOutcome \in [NbCall -> {"none", "value", "error", "internal"}]
    /\ nbSignal \in [NbCall -> {"none", "live", "aborted"}]
    /\ nbPolls \in [NbThread -> NbCall \cup {NbNone}]
    /\ nbRedact \in [NbThread -> BOOLEAN]
    /\ nbPrevious \in [NbThread -> BOOLEAN]

\* A call listens from its beginning to its end, if its signal was live then;
\* one whose signal was aborted is cancelled from the beginning.
Tied ==
    \A c \in NbCall :
        /\ c \in nbListening => nbPc[c] \in {"tied", "pending", "polled", "ended"}
        /\ nbPc[c] \in {"tied", "pending", "polled", "ended"} =>
              /\ nbSignal[c] = "live" => c \in nbListening
              /\ nbSignal[c] = "aborted" => c \in nbCancelled
        /\ c \in nbEarly => c \in nbCancelled /\ nbOutcome[c] # "value"
        /\ nbPc[c] = "new" => nbOutcome[c] = "none"

\* A call is polled by one thread at a time.
PolledByOne ==
    \A t \in NbThread : nbPolls[t] # NbNone =>
        /\ nbPc[nbPolls[t]] = "polled"
        /\ \A u \in NbThread : nbPolls[u] = nbPolls[t] => u = t

\* The guard is on a thread exactly while it polls, and never nested.
GuardFollowsPoll ==
    \A t \in NbThread :
        /\ nbRedact[t] <=> nbPolls[t] # NbNone
        /\ nbRedact[t] => ~nbPrevious[t]

NodeInv ==
    NodeTypes /\ Tied /\ PolledByOne /\ GuardFollowsPoll
    /\ OnlyBoundaryPanicsAreHidden

\* The invariant of the boundary holds in the beginning.
LEMMA InitNodeInv == NodeInit => NodeInv
BY NodeNone DEF NodeInit, NodeInv, NodeTypes, Tied, PolledByOne,
   GuardFollowsPoll, OnlyBoundaryPanicsAreHidden

\* What the threads know is left alone by a call that is in no thread.
LEMMA ThreadsUndisturbed ==
    ASSUME NodeInv, UNCHANGED nbThreadVars, NEW c \in NbCall, NEW label,
           nbPc[c] # "polled", nbPc' = [nbPc EXCEPT ![c] = label]
    PROVE  PolledByOne' /\ GuardFollowsPoll' /\ OnlyBoundaryPanicsAreHidden'
<1>1. UNCHANGED <<nbPolls, nbRedact, nbPrevious, nbPanics>>
  BY DEF nbThreadVars
<1>2. \A t \in NbThread :
         nbPolls[t] # NbNone => nbPolls[t] # c /\ nbPolls[t] \in NbCall
  BY DEF NodeInv, NodeTypes, PolledByOne
<1>3. PolledByOne'
  BY <1>1, <1>2 DEF NodeInv, NodeTypes, PolledByOne
<1>4. GuardFollowsPoll' /\ OnlyBoundaryPanicsAreHidden'
  BY <1>1 DEF NodeInv, GuardFollowsPoll, OnlyBoundaryPanicsAreHidden
<1>5. QED
  BY <1>3, <1>4

\* The end of a poll, whatever becomes of the call.
LEMMA PollEnds ==
    ASSUME NodeInv, NEW c \in NbCall, NEW t \in NbThread, nbPolls[t] = c,
           NEW label \in {"pending", "ended"}, CallTo(c, label), DropGuard(t)
    PROVE  /\ nbPolls' \in [NbThread -> NbCall \cup {NbNone}]
           /\ nbRedact' \in [NbThread -> BOOLEAN]
           /\ nbPrevious' \in [NbThread -> BOOLEAN]
           /\ PolledByOne' /\ GuardFollowsPoll'
<1> USE NodeNone DEF NodeInv, NodeTypes
<1>1. /\ nbPolls' \in [NbThread -> NbCall \cup {NbNone}]
      /\ nbRedact' \in [NbThread -> BOOLEAN]
      /\ nbPrevious' \in [NbThread -> BOOLEAN]
  BY DEF DropGuard
<1>2. PolledByOne'
  <2>1. SUFFICES ASSUME NEW u \in NbThread, nbPolls'[u] # NbNone
                 PROVE  /\ nbPc'[nbPolls'[u]] = "polled"
                        /\ \A v \in NbThread : nbPolls'[v] = nbPolls'[u] => v = u
    BY DEF PolledByOne
  <2>2. u # t /\ nbPolls'[u] = nbPolls[u] /\ nbPolls[u] # c
    BY <2>1 DEF DropGuard, PolledByOne
  <2>3. nbPc'[nbPolls[u]] = "polled"
    BY <2>1, <2>2 DEF CallTo, PolledByOne
  <2>4. QED
    BY <2>1, <2>2, <2>3 DEF DropGuard, PolledByOne
<1>3. GuardFollowsPoll'
  BY DEF DropGuard, GuardFollowsPoll
<1>4. QED
  BY <1>1, <1>2, <1>3

LEMMA NextNodeInv ==
    ASSUME NodeInv, [NodeNext]_nbVars
    PROVE  NodeInv'
<1> USE NodeNone DEF nbCallVars, nbSignalVars, nbThreadVars
<1>1. ASSUME NEW c \in NbCall, RejectArguments(c) PROVE NodeInv'
  <2>1. NodeTypes' /\ Tied'
    BY <1>1 DEF NodeInv, NodeTypes, Tied, RejectArguments, CallTo
  <2>2. QED
    BY <1>1, <2>1, ThreadsUndisturbed DEF NodeInv, RejectArguments, CallTo
<1>2. ASSUME NEW c \in NbCall, TieSignal(c) PROVE NodeInv'
  <2>1. NodeTypes'
    BY <1>2 DEF NodeInv, NodeTypes, TieSignal, CallTo
  <2>2. Tied'
    BY <1>2 DEF NodeInv, NodeTypes, Tied, TieSignal, CallTo
  <2>3. QED
    BY <1>2, <2>1, <2>2, ThreadsUndisturbed DEF NodeInv, TieSignal, CallTo
<1>3. ASSUME NEW c \in NbCall, AbortSignal(c) PROVE NodeInv'
  <2>1. NodeTypes' /\ Tied'
    BY <1>3 DEF NodeInv, NodeTypes, Tied, AbortSignal
  <2>2. PolledByOne' /\ GuardFollowsPoll' /\ OnlyBoundaryPanicsAreHidden'
    BY <1>3 DEF NodeInv, PolledByOne, GuardFollowsPoll,
       OnlyBoundaryPanicsAreHidden, AbortSignal
  <2>3. QED
    BY <2>1, <2>2 DEF NodeInv
<1>4. ASSUME NEW c \in NbCall, InvokeNative(c) PROVE NodeInv'
  <2>1. NodeTypes' /\ Tied'
    BY <1>4 DEF NodeInv, NodeTypes, Tied, InvokeNative, CallTo
  <2>2. QED
    BY <1>4, <2>1, ThreadsUndisturbed DEF NodeInv, InvokeNative, CallTo
<1>5. ASSUME NEW c \in NbCall, SettleCall(c) PROVE NodeInv'
  <2>1. NodeTypes' /\ Tied'
    BY <1>5 DEF NodeInv, NodeTypes, Tied, SettleCall, CallTo
  <2>2. QED
    BY <1>5, <2>1, ThreadsUndisturbed DEF NodeInv, SettleCall, CallTo
<1>6. ASSUME NEW c \in NbCall, NEW t \in NbThread, PollCall(c, t) PROVE NodeInv'
  <2>1. NodeTypes' /\ Tied'
    BY <1>6 DEF NodeInv, NodeTypes, Tied, PollCall, CallTo
  <2>2. PolledByOne'
    BY <1>6 DEF NodeInv, NodeTypes, PolledByOne, PollCall, CallTo
  <2>3. GuardFollowsPoll' /\ OnlyBoundaryPanicsAreHidden'
    BY <1>6 DEF NodeInv, NodeTypes, GuardFollowsPoll, PollCall,
       OnlyBoundaryPanicsAreHidden
  <2>4. QED
    BY <2>1, <2>2, <2>3 DEF NodeInv
<1>7. ASSUME NEW c \in NbCall, NEW t \in NbThread, Suspend(c, t) PROVE NodeInv'
  <2>1. nbPc[c] = "polled"
    BY <1>7 DEF NodeInv, PolledByOne, Suspend
  <2>2. NodeTypes' /\ PolledByOne' /\ GuardFollowsPoll'
    BY <1>7, PollEnds DEF NodeInv, NodeTypes, Suspend, CallTo
  <2>3. Tied' /\ OnlyBoundaryPanicsAreHidden'
    BY <1>7, <2>1 DEF NodeInv, NodeTypes, Tied, OnlyBoundaryPanicsAreHidden,
       Suspend, CallTo
  <2>4. QED
    BY <2>2, <2>3 DEF NodeInv
<1>8. ASSUME NEW c \in NbCall, NEW t \in NbThread, EndCall(c, t) PROVE NodeInv'
  <2>1. nbPc[c] = "polled"
    BY <1>8 DEF NodeInv, PolledByOne, EndCall
  <2>2. PICK outcome \in {"value", "error"} :
           /\ nbOutcome' = [nbOutcome EXCEPT ![c] = outcome]
           /\ c \in nbEarly \cap nbCancelled => outcome = "error"
    BY <1>8 DEF EndCall
  <2>3. NodeTypes' /\ PolledByOne' /\ GuardFollowsPoll'
    BY <1>8, <2>2, PollEnds DEF NodeInv, NodeTypes, EndCall, CallTo
  <2>4. Tied'
    BY <1>8, <2>1, <2>2 DEF NodeInv, NodeTypes, Tied, EndCall, CallTo
  <2>5. OnlyBoundaryPanicsAreHidden'
    BY <1>8 DEF NodeInv, OnlyBoundaryPanicsAreHidden, EndCall
  <2>6. QED
    BY <2>3, <2>4, <2>5 DEF NodeInv
<1>9. ASSUME NEW c \in NbCall, NEW t \in NbThread, PanicInCall(c, t) PROVE NodeInv'
  <2>1. nbPc[c] = "polled"
    BY <1>9 DEF NodeInv, PolledByOne, PanicInCall
  <2>2. NodeTypes' /\ PolledByOne' /\ GuardFollowsPoll'
    BY <1>9, PollEnds DEF NodeInv, NodeTypes, PanicInCall, CallTo
  <2>3. Tied'
    BY <1>9, <2>1 DEF NodeInv, NodeTypes, Tied, PanicInCall, CallTo
  <2>4. nbRedact[t] = TRUE
    BY <1>9 DEF NodeInv, NodeTypes, GuardFollowsPoll, PanicInCall
  <2>5. OnlyBoundaryPanicsAreHidden'
    <3> DEFINE panic == [boundary |-> TRUE, printed |-> ~nbRedact[t]]
    <3>1. nbPanics' = nbPanics \cup {panic}
      BY <1>9 DEF PanicInCall
    <3>2. panic.printed <=> ~panic.boundary
      BY <2>4
    <3> HIDE DEF panic
    <3>3. QED
      BY <3>1, <3>2, Zenon DEF NodeInv, OnlyBoundaryPanicsAreHidden
  <2>6. QED
    BY <2>2, <2>3, <2>5 DEF NodeInv
<1>10. ASSUME NEW t \in NbThread, PanicElsewhere(t) PROVE NodeInv'
  <2>1. nbRedact[t] = FALSE
    BY <1>10 DEF NodeInv, NodeTypes, GuardFollowsPoll, PanicElsewhere
  <2>2. OnlyBoundaryPanicsAreHidden'
    <3> DEFINE panic == [boundary |-> FALSE, printed |-> ~nbRedact[t]]
    <3>1. nbPanics' = nbPanics \cup {panic}
      BY <1>10 DEF PanicElsewhere
    <3>2. panic.printed <=> ~panic.boundary
      BY <2>1
    <3> HIDE DEF panic
    <3>3. QED
      BY <3>1, <3>2, Zenon DEF NodeInv, OnlyBoundaryPanicsAreHidden
  <2>3. QED
    BY <1>10, <2>2 DEF NodeInv, NodeTypes, Tied, PolledByOne, GuardFollowsPoll,
       PanicElsewhere
<1>11. CASE UNCHANGED nbVars
  BY <1>11 DEF nbVars, NodeInv, NodeTypes, Tied, PolledByOne,
     GuardFollowsPoll, OnlyBoundaryPanicsAreHidden
<1>12. QED
  BY <1>1, <1>2, <1>3, <1>4, <1>5, <1>6, <1>7, <1>8, <1>9, <1>10, <1>11
     DEF NodeNext

\* However many calls and threads there are: an abort reaches its call, a call
\* that began aborted brings no value, no listener is left, and the panic hook
\* hides the panics of calls and no others.
THEOREM BoundaryIsKept == NodeSpec => []BoundaryHolds
<1>1. NodeInv => BoundaryHolds
  BY DEF NodeInv, NodeTypes, Tied, BoundaryHolds, AbortReachesTheCall
<1>2. QED
  BY <1>1, InitNodeInv, NextNodeInv, PTL DEF NodeSpec

-----------------------------------------------------------------------------
(* The release check                                                       *)

\* A time that is known is past.
Past(time) == time = RcNone \/ (time \in Nat /\ time <= rcClock)

\* No time in the record is ahead of the clock.
Stamped(record) == Past(record.observed) /\ Past(record.failed)

\* The record shows a check that began at `time` or later.
Shows(record, time) ==
    \/ record.observed # RcNone /\ record.observed >= time
    \/ record.failed # RcNone /\ record.failed >= time

\* A check is over within a step of time.  From its attempt on, its record
\* shows when it began.
CheckInv ==
    /\ rcClock \in Nat
    /\ rcPc \in [RcProcess -> {"idle", "loading", "attempting", "fetching", "saving"}]
    /\ rcMode \in [RcProcess -> {"incidental", "explicit"}]
    /\ rcNow \in [RcProcess -> Nat]
    /\ rcRecord = [p \in RcProcess |-> rcRecord[p]]
    /\ \A p \in RcProcess :
          /\ rcNow[p] <= rcClock
          /\ rcPc[p] # "idle" => rcClock <= rcNow[p] + 1
          /\ Stamped(rcRecord[p])
          /\ rcPc[p] \in {"fetching", "saving"} => Shows(rcRecord[p], rcNow[p])

\* The shared record shows the last incidental request, but for the step by
\* which a check that ends late may have begun earlier.
RequestShown ==
    /\ Stamped(rcDisk)
    /\ Past(rcRequested)
    /\ rcRequested # RcNone => Shows(rcDisk, rcRequested - 1)

RationInv == CheckInv /\ RequestShown

LEMMA InitRationInv == ReleaseCheckInit => RationInv
BY ReleaseCheckNone
   DEF ReleaseCheckInit, RationInv, CheckInv, RequestShown, Stamped, Past,
       Default, Record

\* The record of a check under way may replace the shared one.
LEMMA RecordMayReplace ==
    ASSUME RationInv, NEW p \in RcProcess, rcPc[p] # "idle", NEW record,
           Shows(record, rcNow[p]), Stamped(record),
           NEW time, time = RcNone \/ (time \in Nat /\ time <= rcClock)
    PROVE  time # RcNone => Shows(record, time - 1)
BY ReleaseCheckNone DEF RationInv, CheckInv, Shows, Stamped, Past

\* The end of a check leaves what the others are doing.
LEMMA EndCheckInv ==
    ASSUME CheckInv, NEW p \in RcProcess, EndCheck(p), UNCHANGED rcClock
    PROVE  CheckInv'
BY ReleaseCheckNone
   DEF CheckInv, EndCheck, Stamped, Past, Shows, Default, Record

LEMMA NextRationInv ==
    ASSUME RationInv, [ReleaseCheckNext]_rcVars
    PROVE  RationInv'
<1> USE ReleaseCheckNone DEF RationInv
<1>1. ASSUME NEW p \in RcProcess, StartCheck(p) PROVE RationInv'
  <2>1. CheckInv'
    BY <1>1 DEF StartCheck, CheckInv, Stamped, Past, Shows
  <2>2. RequestShown'
    BY <1>1 DEF StartCheck, RequestShown, Stamped, Past, Shows
  <2>3. QED
    BY <2>1, <2>2
<1>2. ASSUME NEW p \in RcProcess, LoadRecord(p) PROVE RationInv'
  <2>1. CheckInv'
    <3>1. CASE EndCheck(p)
      BY <1>2, <3>1, EndCheckInv DEF LoadRecord
    <3>2. CASE ~EndCheck(p)
      BY <1>2, <3>2 DEF LoadRecord, CheckInv, RequestShown, Stamped, Past, Shows
    <3>3. QED
      BY <3>1, <3>2
  <2>2. RequestShown'
    BY <1>2 DEF LoadRecord, RequestShown, Stamped, Past, Shows
  <2>3. QED
    BY <2>1, <2>2
<1>3. ASSUME NEW p \in RcProcess, SaveAttempt(p) PROVE RationInv'
  <2> DEFINE attempt == Record(rcRecord[p].observed, rcNow[p])
  <2>1. PICK saved \in BOOLEAN :
          /\ rcDisk' = IF saved THEN attempt ELSE rcDisk
          /\ IF MayRequest(rcMode[p], saved)
             THEN /\ rcRecord' = [rcRecord EXCEPT ![p] = attempt]
                  /\ rcPersisted' = [rcPersisted EXCEPT ![p] = saved]
                  /\ rcPc' = [rcPc EXCEPT ![p] = "fetching"]
                  /\ UNCHANGED <<rcMode, rcNow>>
             ELSE EndCheck(p)
          /\ rcRequested' =
                IF /\ MayRequest(rcMode[p], saved)
                   /\ rcMode[p] = "incidental"
                   /\ rcRequested = RcNone \/ rcRequested < rcNow[p]
                THEN rcNow[p] ELSE rcRequested
    BY <1>3 DEF SaveAttempt
  <2>2. /\ rcClock' = rcClock /\ rcPc[p] # "idle"
        /\ rcNow[p] \in Nat /\ rcNow[p] <= rcClock
    BY <1>3 DEF SaveAttempt, CheckInv
  <2>3. Stamped(attempt) /\ Shows(attempt, rcNow[p])
    BY <2>2 DEF CheckInv, Stamped, Past, Shows, Record
  <2> HIDE DEF attempt
  <2>4. CheckInv'
    <3>1. CASE MayRequest(rcMode[p], saved)
      BY <2>1, <2>2, <2>3, <3>1 DEF CheckInv, Stamped, Past, Shows
    <3>2. CASE ~MayRequest(rcMode[p], saved)
      BY <2>1, <2>2, <3>2, EndCheckInv
    <3>3. QED
      BY <3>1, <3>2
  <2>5. rcRequested' = RcNone \/ (rcRequested' \in Nat /\ rcRequested' <= rcClock)
    BY <2>1, <2>2 DEF RequestShown, Past
  <2>6. Past(rcRequested)' /\ Stamped(rcDisk)'
    BY <2>1, <2>2, <2>3, <2>5 DEF RequestShown, Past, Stamped
  <2>7. rcRequested' # RcNone => Shows(rcDisk', rcRequested' - 1)
    <3>1. CASE saved
      <4>1. rcDisk' = attempt
        BY <2>1, <3>1
      <4>2. QED
        BY <2>2, <2>3, <2>5, <4>1, RecordMayReplace
    <3>2. CASE ~saved
      <4>1. rcDisk' = rcDisk /\ rcRequested' = rcRequested
        BY <2>1, <3>2 DEF MayRequest
      <4>2. QED
        BY <4>1 DEF RequestShown
    <3>3. QED
      BY <3>1, <3>2
  <2>8. RequestShown'
    BY <2>6, <2>7 DEF RequestShown, Shows
  <2>9. QED
    BY <2>4, <2>8
<1>4. ASSUME NEW p \in RcProcess, FetchSucceeds(p) PROVE RationInv'
  <2>1. CheckInv'
    BY <1>4 DEF FetchSucceeds, CheckInv, Stamped, Past, Shows, Record
  <2>2. RequestShown'
    BY <1>4 DEF FetchSucceeds, RequestShown, Stamped, Past, Shows
  <2>3. QED
    BY <2>1, <2>2
<1>5. ASSUME NEW p \in RcProcess, FetchFails(p) PROVE RationInv'
  <2>1. CheckInv'
    <3>1. CASE EndCheck(p)
      BY <1>5, <3>1, EndCheckInv DEF FetchFails
    <3>2. CASE ~EndCheck(p)
      BY <1>5, <3>2 DEF FetchFails, CheckInv, Stamped, Past, Shows
    <3>3. QED
      BY <3>1, <3>2
  <2>2. RequestShown'
    BY <1>5 DEF FetchFails, RequestShown, Stamped, Past, Shows
  <2>3. QED
    BY <2>1, <2>2
<1>6. ASSUME NEW p \in RcProcess, SaveRecord(p) PROVE RationInv'
  <2>1. CheckInv'
    BY <1>6, EndCheckInv DEF SaveRecord
  <2>2. CASE rcDisk' = rcDisk
    BY <1>6, <2>1, <2>2 DEF SaveRecord, RequestShown, Stamped, Past, Shows
  <2>3. CASE rcDisk' = rcRecord[p]
    <3>1. /\ rcPc[p] # "idle" /\ Shows(rcRecord[p], rcNow[p])
          /\ Stamped(rcRecord[p])
      BY <1>6 DEF SaveRecord, CheckInv
    <3>2. rcRequested = RcNone \/ (rcRequested \in Nat /\ rcRequested <= rcClock)
      BY DEF RequestShown, Past
    <3>3. rcRequested # RcNone => Shows(rcRecord[p], rcRequested - 1)
      BY <3>1, <3>2, RecordMayReplace
    <3>4. RequestShown'
      BY <1>6, <2>3, <3>1, <3>3 DEF SaveRecord, RequestShown, Stamped, Past, Shows
    <3>5. QED
      BY <2>1, <3>4
  <2>4. QED
    BY <1>6, <2>2, <2>3 DEF SaveRecord
<1>7. ASSUME NEW p \in RcProcess, DieChecking(p) PROVE RationInv'
  <2>1. CheckInv'
    BY <1>7, EndCheckInv DEF DieChecking
  <2>2. RequestShown'
    BY <1>7 DEF DieChecking, RequestShown, Stamped, Past, Shows
  <2>3. QED
    BY <2>1, <2>2
<1>8. CASE Tick
  <2>1. CheckInv'
    BY <1>8 DEF Tick, CheckInv, Stamped, Past, Shows
  <2>2. RequestShown'
    BY <1>8 DEF Tick, CheckInv, RequestShown, Stamped, Past, Shows
  <2>3. QED
    BY <2>1, <2>2
<1>9. CASE LoseCache
  <2>1. CheckInv'
    BY <1>9 DEF LoseCache, CheckInv, Stamped, Past, Shows
  <2>2. RequestShown'
    BY <1>9 DEF LoseCache, RequestShown, Stamped, Past, Default, Record
  <2>3. QED
    BY <2>1, <2>2
<1>10. CASE UNCHANGED rcVars
  <2>1. CheckInv'
    BY <1>10 DEF rcVars, CheckInv, Stamped, Past, Shows
  <2>2. RequestShown'
    BY <1>10 DEF rcVars, RequestShown, Stamped, Past, Shows
  <2>3. QED
    BY <2>1, <2>2
<1>11. QED
  BY <1>1, <1>2, <1>3, <1>4, <1>5, <1>6, <1>7, <1>8, <1>9, <1>10
     DEF ReleaseCheckNext

\* A check finds in the shared record what keeps it from asking again.
LEMMA ShownIsRecent ==
    ASSUME RationInv, NEW p \in RcProcess, rcNow[p] = rcClock,
           rcRequested # RcNone, rcNow[p] - rcRequested < RcCooldown - 1
    PROVE  ~RefreshDue(rcDisk, rcNow[p], "incidental")
<1>1. /\ rcRequested \in Nat /\ rcRequested <= rcClock /\ rcClock \in Nat
      /\ Past(rcDisk.observed) /\ Past(rcDisk.failed)
      /\ Shows(rcDisk, rcRequested - 1)
  BY DEF RationInv, CheckInv, RequestShown, Stamped, Past
<1>2. CASE rcDisk.observed # RcNone /\ rcDisk.observed >= rcRequested - 1
  <2>1. Within(rcDisk.observed, rcNow[p], RcInterval)
    BY <1>1, <1>2, ReleaseCheckConstants DEF Within, Past
  <2>2. QED
    BY <2>1 DEF RefreshDue
<1>3. CASE rcDisk.failed # RcNone /\ rcDisk.failed >= rcRequested - 1
  <2>1. Within(rcDisk.failed, rcNow[p], RcCooldown)
    BY <1>1, <1>3, ReleaseCheckConstants DEF Within, Past
  <2>2. QED
    BY <2>1 DEF RefreshDue
<1>4. QED
  BY <1>1, <1>2, <1>3 DEF Shows

\* Incidental checks are rationed, however many processes check at once, die,
\* or overwrite each other's record, for every interval and cooldown.
THEOREM ChecksAreRationed == ReleaseCheckSpec => RequestsAreRationed
<1> DEFINE Rationed ==
      \A p \in RcProcess :
          /\ rcPc[p] = "loading" /\ rcMode[p] = "incidental"
          /\ rcNow[p] = rcClock
          /\ rcRequested # RcNone
          /\ rcNow[p] - rcRequested < RcCooldown - 1
          => rcPc'[p] # "attempting"
<1>1. ASSUME RationInv, [ReleaseCheckNext]_rcVars PROVE Rationed
  <2>1. SUFFICES ASSUME NEW p \in RcProcess,
                        rcPc[p] = "loading", rcMode[p] = "incidental",
                        rcNow[p] = rcClock, rcRequested # RcNone,
                        rcNow[p] - rcRequested < RcCooldown - 1,
                        rcPc'[p] = "attempting"
                 PROVE  FALSE
    OBVIOUS
  <2>2. LoadRecord(p)
    BY <1>1, <2>1 DEF RationInv, CheckInv, ReleaseCheckNext, StartCheck,
       LoadRecord, SaveAttempt, FetchSucceeds, FetchFails, SaveRecord,
       DieChecking, EndCheck, Tick, LoseCache, rcVars
  <2>3. RefreshDue(rcDisk, rcNow[p], "incidental")
    BY <1>1, <2>1, <2>2 DEF LoadRecord, EndCheck, RationInv, CheckInv
  <2>4. QED
    BY <1>1, <2>1, <2>3, ShownIsRecent
<1>2. RationInv /\ [ReleaseCheckNext]_rcVars => [Rationed]_rcVars
  BY <1>1
<1>3. QED
  BY <1>2, InitRationInv, NextRationInv, PTL
     DEF ReleaseCheckSpec, RequestsAreRationed

-----------------------------------------------------------------------------
(* The upgrade                                                             *)

\* Where a run knows the release it installs.
Holding == {"downloading", "installing", "removing", "reinstalling",
            "confirming", "cleaning"}

UpgradeTypes ==
    /\ upReleased.version \in Version
    /\ upReleased = [version |-> upReleased.version, complete |-> upReleased.complete]
    /\ upInstalled = UpNone \/ upInstalled.version \in Version
    /\ upSource \in Version
    /\ upArchives \in [Version -> {"package", UpNone}]
    /\ upPc \in [UpRun -> {"idle", "locating", "resolving"} \cup Holding]
    /\ upRunning \in [UpRun -> Version]
    /\ upPackage \in [UpRun -> Version \cup {UpNone}]
    /\ upLatest \in [UpRun -> (Version \ {0}) \cup {UpNone}]
    /\ upRaced \in BOOLEAN

\* What one run knows.  It holds a release newer than the one it runs, and so
\* than the archive that it found recorded; and only pnpm 10 records one.
Knows(r) ==
    /\ upLatest[r] # UpNone <=> upPc[r] \in Holding
    /\ upLatest[r] # UpNone => upLatest[r] > upRunning[r]
    /\ upPackage[r] # UpNone =>
          /\ upRecords /\ upPackage[r] = upRunning[r]
          /\ upPc[r] \notin {"idle", "locating"}
    /\ upPc[r] \in {"removing", "reinstalling"} => upPackage[r] # UpNone

\* Nothing is there that was not released.
OnlyReleased ==
    /\ upInstalled # UpNone =>
          upInstalled.version = upSource /\ upSource <= upReleased.version
    /\ \A v \in Version : upArchives[v] # UpNone => v <= upReleased.version
    /\ \A r \in UpRun : upLatest[r] # UpNone => upLatest[r] <= upReleased.version

\* While no two releases are on their way, everybody installs the same one: it
\* is not older than what is installed, a run that cleans has it installed, and
\* the archive that a run misses stays away.
OneRelease ==
    ~upRaced =>
        /\ \A r, s \in UpRun :
              upLatest[r] # UpNone /\ upLatest[s] # UpNone =>
                  upLatest[r] = upLatest[s]
        /\ \A r \in UpRun :
              /\ upLatest[r] # UpNone /\ upInstalled # UpNone =>
                    upSource <= upLatest[r]
              /\ upPc[r] = "cleaning" /\ upInstalled # UpNone =>
                    upSource = upLatest[r]
              /\ upPc[r] = "removing" => ~ArchiveExists(upPackage[r])

UpgradeInv ==
    /\ UpgradeTypes
    /\ \A r \in UpRun : Knows(r)
    /\ OnlyReleased
    /\ OneRelease
    /\ RecordedArchiveStays

LEMMA InitUpgradeInv == UpgradeInit => UpgradeInv
<1> SUFFICES ASSUME UpgradeInit PROVE UpgradeInv
  OBVIOUS
<1> USE UpgradeConstants, UpgradeNone DEF UpgradeInit, Version
<1>1. UpgradeTypes
  <2>1. /\ upReleased.version \in Version
        /\ upReleased = [version |-> upReleased.version,
                          complete |-> upReleased.complete]
    OBVIOUS
  <2>2. upInstalled.version \in Version /\ upSource \in Version
    BY DEF Package
  <2>3. /\ upArchives \in [Version -> {"package", UpNone}]
        /\ upRunning \in [UpRun -> Version]
    OBVIOUS
  <2>4. /\ upPc \in [UpRun -> {"idle", "locating", "resolving"} \cup Holding]
        /\ upPackage \in [UpRun -> Version \cup {UpNone}]
        /\ upLatest \in [UpRun -> (Version \ {0}) \cup {UpNone}]
        /\ upRaced \in BOOLEAN
    OBVIOUS
  <2>5. QED
    BY <2>1, <2>2, <2>3, <2>4 DEF UpgradeTypes
<1>2. ASSUME NEW r \in UpRun PROVE Knows(r)
  BY DEF Knows, Holding
<1>3. OnlyReleased /\ OneRelease /\ RecordedArchiveStays
  BY DEF OnlyReleased, OneRelease, RecordedArchiveStays, Package
<1>4. QED
  BY <1>1, <1>2, <1>3 DEF UpgradeInv

\* A run that ends knows nothing, and leaves the others as they are.
LEMMA FinishKnows ==
    ASSUME UpgradeInv, NEW r \in UpRun, Finish(r), UNCHANGED upRecords
    PROVE  /\ upPc' \in [UpRun -> {"idle", "locating", "resolving"} \cup Holding]
           /\ upRunning' \in [UpRun -> Version]
           /\ upPackage' \in [UpRun -> Version \cup {UpNone}]
           /\ upLatest' \in [UpRun -> (Version \ {0}) \cup {UpNone}]
           /\ \A s \in UpRun : Knows(s)'
           /\ upPc'[r] = "idle" /\ upLatest'[r] = UpNone
           /\ \A s \in UpRun \ {r} :
                 /\ upPc'[s] = upPc[s] /\ upLatest'[s] = upLatest[s]
                 /\ upPackage'[s] = upPackage[s]
<1> USE UpgradeConstants, UpgradeNone DEF UpgradeInv, UpgradeTypes
<1>1. /\ upPc' \in [UpRun -> {"idle", "locating", "resolving"} \cup Holding]
      /\ upRunning' \in [UpRun -> Version]
      /\ upPackage' \in [UpRun -> Version \cup {UpNone}]
      /\ upLatest' \in [UpRun -> (Version \ {0}) \cup {UpNone}]
  BY DEF Finish, Advance, Version
<1>2. /\ upPc'[r] = "idle" /\ upLatest'[r] = UpNone /\ upPackage'[r] = UpNone
      /\ \A s \in UpRun \ {r} :
            /\ upPc'[s] = upPc[s] /\ upLatest'[s] = upLatest[s]
            /\ upPackage'[s] = upPackage[s] /\ upRunning'[s] = upRunning[s]
  BY DEF Finish, Advance
<1>3. ASSUME NEW s \in UpRun PROVE Knows(s)'
  <2>1. CASE s = r
    BY <1>2, <2>1 DEF Knows, Holding
  <2>2. CASE s # r
    BY <1>2, <2>2 DEF Knows
  <2>3. QED
    BY <2>1, <2>2
<1>4. QED
  BY <1>1, <1>2, <1>3

\* A run that goes on with the release it holds knows what it did.
LEMMA GoesKnows ==
    ASSUME UpgradeInv, NEW r \in UpRun, NEW to \in Holding, Goes(r, to),
           upPc[r] \in Holding,
           to \in {"removing", "reinstalling"} => upPackage[r] # UpNone,
           UNCHANGED upRecords
    PROVE  /\ upPc' \in [UpRun -> {"idle", "locating", "resolving"} \cup Holding]
           /\ UNCHANGED <<upRunning, upPackage, upLatest>>
           /\ \A s \in UpRun : Knows(s)'
           /\ upPc'[r] = to
           /\ \A s \in UpRun \ {r} : upPc'[s] = upPc[s]
<1> USE DEF UpgradeInv, UpgradeTypes
<1>1. /\ upPc' \in [UpRun -> {"idle", "locating", "resolving"} \cup Holding]
      /\ UNCHANGED <<upRunning, upPackage, upLatest>>
      /\ upPc'[r] = to
      /\ \A s \in UpRun \ {r} : upPc'[s] = upPc[s]
  BY DEF Goes, Advance
<1>2. ASSUME NEW s \in UpRun PROVE Knows(s)'
  <2>1. CASE s = r
    BY <1>1, <2>1 DEF Knows, Holding
  <2>2. CASE s # r
    BY <1>1, <2>2 DEF Knows
  <2>3. QED
    BY <2>1, <2>2
<1>3. QED
  BY <1>1, <1>2

\* A run that ends takes nothing with it.
LEMMA FinishUpgradeInv ==
    ASSUME UpgradeInv, NEW r \in UpRun, Finish(r),
           UNCHANGED <<upRecords, upReleased, upInstalled, upSource, upOriginal,
                       upArchives, upRaced>>
    PROVE  UpgradeInv'
<1>1. UpgradeTypes' /\ \A s \in UpRun : Knows(s)'
  BY FinishKnows DEF UpgradeInv, UpgradeTypes, Version
<1>2. OnlyReleased'
  BY FinishKnows DEF UpgradeInv, OnlyReleased, Version
<1>3. OneRelease'
  BY FinishKnows DEF UpgradeInv, OneRelease, ArchiveExists
<1>4. RecordedArchiveStays'
  BY DEF UpgradeInv, RecordedArchiveStays
<1>5. QED
  BY <1>1, <1>2, <1>3, <1>4 DEF UpgradeInv

\* What pnpm installs is the package of the version, from its archive.
LEMMA Adds ==
    ASSUME UpgradeInv, NEW v \in Version \ {0}, PnpmAdd(v)
    PROVE  /\ upArchives[v] = "package"
           /\ upInstalled' = Package(v, "package") /\ upSource' = v
           /\ upInstalled' # UpNone /\ upInstalled'.version = v
           /\ v <= upReleased.version
<1>1. upArchives[v] = "package"
  BY DEF PnpmAdd, PnpmCanAdd, ArchiveExists, UpgradeInv, UpgradeTypes
<1>2. upInstalled' = Package(v, "package") /\ upSource' = v
  BY <1>1 DEF PnpmAdd
<1>3. upInstalled' # UpNone /\ upInstalled'.version = v
  BY <1>2, UpgradeNone DEF Package, Content
<1>4. v <= upReleased.version
  BY <1>1, UpgradeNone DEF UpgradeInv, OnlyReleased, Content
<1>5. QED
  BY <1>1, <1>2, <1>3, <1>4

\* A run that installs its release installs the one that all install.
LEMMA InstallsInv ==
    ASSUME UpgradeInv, NEW r \in UpRun, upPc[r] \in Holding,
           PnpmAdd(upLatest[r]), Goes(r, "confirming"),
           UNCHANGED <<upRecords, upReleased, upOriginal, upArchives, upRaced>>
    PROVE  UpgradeInv'
<1> DEFINE v == upLatest[r]
<1>1. v \in Version \ {0}
  BY DEF UpgradeInv, UpgradeTypes, Knows
<1> HIDE DEF v
<1>2. PnpmAdd(v)
  BY DEF v
<1>3. /\ upArchives[v] = "package" /\ upSource' = v
      /\ upInstalled' # UpNone /\ upInstalled'.version = v
      /\ v <= upReleased.version
  BY <1>1, <1>2, Adds
<1>4. "confirming" \in Holding
  BY DEF Holding
<1>5. UpgradeTypes' /\ \A s \in UpRun : Knows(s)'
  BY <1>1, <1>3, <1>4, GoesKnows DEF UpgradeInv, UpgradeTypes, Version
<1>6. OnlyReleased'
  BY <1>3, <1>4, GoesKnows DEF UpgradeInv, OnlyReleased, Version
<1>7. OneRelease'
  <2>1. /\ UNCHANGED <<upRaced, upLatest, upPackage, upOriginal, upArchives>>
        /\ upPc'[r] = "confirming"
        /\ \A s \in UpRun \ {r} : upPc'[s] = upPc[s]
    BY <1>4, GoesKnows
  <2>2. ASSUME ~upRaced, NEW s \in UpRun, upLatest[s] # UpNone
        PROVE  upLatest[s] = v
    BY <1>1, <2>2, UpgradeNone DEF UpgradeInv, OneRelease, v
  <2>3. ASSUME ~upRaced, NEW s \in UpRun, upPc'[s] = "cleaning"
        PROVE  upLatest[s] = v
    BY <2>1, <2>2, <2>3 DEF UpgradeInv, Knows, Holding
  <2>4. ASSUME ~upRaced, NEW s \in UpRun, upPc'[s] = "removing"
        PROVE  ~ArchiveExists(upPackage[s])'
    <3>1. upPc[s] = "removing"
      BY <2>1, <2>4
    <3>2. QED
      BY <2>1, <2>4, <3>1 DEF UpgradeInv, OneRelease, ArchiveExists
  <2>5. ASSUME ~upRaced, NEW s \in UpRun, upLatest[s] # UpNone
        PROVE  upSource' <= upLatest[s]
    BY <1>1, <1>3, <2>2, <2>5 DEF Version
  <2>6. QED
    BY <1>3, <2>1, <2>2, <2>3, <2>4, <2>5 DEF OneRelease
<1>8. RecordedArchiveStays'
  BY <1>3 DEF RecordedArchiveStays
<1>9. QED
  BY <1>5, <1>6, <1>7, <1>8 DEF UpgradeInv

\* A run that looks around changes nothing.
LEMMA LooksInv ==
    ASSUME UpgradeInv, NEW r \in UpRun, NEW to,
           Advance(r, to), to \in {"locating", "resolving"},
           upPc[r] \notin Holding,
           upRunning' = upRunning \/
             (upPackage[r] = UpNone /\ upInstalled # UpNone
              /\ upRunning' = [upRunning EXCEPT ![r] = upInstalled.version]),
           (upPackage' = upPackage /\ to = "locating" /\ upPackage[r] = UpNone) \/
             (to = "resolving" /\ upInstalled # UpNone /\ upInstalled.version = upRunning[r]
              /\ upRunning' = upRunning
              /\ upPackage' = [upPackage EXCEPT ![r] =
                                  IF upRecords THEN upSource ELSE UpNone]),
           UNCHANGED <<upRecords, upReleased, upInstalled, upSource, upOriginal,
                       upArchives, upLatest, upRaced>>
    PROVE  UpgradeInv'
<1>1. /\ upPc'[r] = to /\ to \notin Holding
      /\ \A s \in UpRun \ {r} : upPc'[s] = upPc[s]
      /\ upPc' \in [UpRun -> {"idle", "locating", "resolving"} \cup Holding]
  BY DEF Advance, UpgradeInv, UpgradeTypes, Holding
<1>2. upLatest[r] = UpNone
  BY DEF UpgradeInv, Knows
<1>3. UpgradeTypes'
  BY <1>1 DEF UpgradeInv, UpgradeTypes
<1>4. ASSUME NEW s \in UpRun PROVE Knows(s)'
  <2>1. CASE s = r
    BY <1>1, <1>2, <2>1 DEF UpgradeInv, UpgradeTypes, OnlyReleased, Knows, Holding
  <2>2. CASE s # r
    BY <1>1, <2>2 DEF UpgradeInv, UpgradeTypes, Knows
  <2>3. QED
    BY <2>1, <2>2
<1>5. OnlyReleased' /\ RecordedArchiveStays'
  BY DEF UpgradeInv, OnlyReleased, RecordedArchiveStays
<1>6. OneRelease'
  <2>1. ASSUME NEW s \in UpRun, upPc'[s] \in Holding
        PROVE  s # r /\ upPc[s] = upPc'[s] /\ upPackage'[s] = upPackage[s]
    BY <1>1, <2>1 DEF UpgradeInv, UpgradeTypes
  <2>2. QED
    BY <1>2, <2>1 DEF UpgradeInv, OneRelease, ArchiveExists, Holding
<1>7. QED
  BY <1>3, <1>4, <1>5, <1>6 DEF UpgradeInv

\* A run that goes on, and changes neither what is installed nor the archives.
LEMMA GoesInv ==
    ASSUME UpgradeInv, NEW r \in UpRun, NEW to \in Holding, Goes(r, to),
           upPc[r] \in Holding,
           to \in {"removing", "reinstalling"} => upPackage[r] # UpNone,
           to = "removing" => ~ArchiveExists(upPackage[r]),
           to = "cleaning" => upInstalled # UpNone /\ upSource = upLatest[r],
           UNCHANGED <<upRecords, upReleased, upInstalled, upSource, upOriginal,
                       upArchives, upRaced>>
    PROVE  UpgradeInv'
<1>1. UpgradeTypes' /\ \A s \in UpRun : Knows(s)'
  BY GoesKnows DEF UpgradeInv, UpgradeTypes
<1>2. OnlyReleased' /\ RecordedArchiveStays'
  BY GoesKnows DEF UpgradeInv, OnlyReleased, RecordedArchiveStays
<1>3. OneRelease'
  BY GoesKnows DEF UpgradeInv, OneRelease, ArchiveExists
<1>4. QED
  BY <1>1, <1>2, <1>3 DEF UpgradeInv

\* The step of the world.
LEMMA WorldInv ==
    ASSUME UpgradeInv, PublishRelease \/ LoseOriginal \/ UserAdds
    PROVE  UpgradeInv'
<1> USE UpgradeConstants, UpgradeNone
<1>1. CASE PublishRelease
  <2>1. /\ upReleased'.version = upReleased.version + 1
        /\ upReleased' = [version |-> upReleased'.version,
                          complete |-> upReleased'.complete]
        /\ upReleased'.version \in Version
    BY <1>1 DEF PublishRelease, UpgradeInv, UpgradeTypes, Version
  <2>2. UpgradeTypes' /\ \A s \in UpRun : Knows(s)'
    BY <1>1, <2>1 DEF PublishRelease, UpgradeInv, UpgradeTypes, Knows
  <2>3. OnlyReleased'
    BY <1>1, <2>1 DEF PublishRelease, UpgradeInv, UpgradeTypes, OnlyReleased, Version
  <2>4. OneRelease' /\ RecordedArchiveStays'
    BY <1>1 DEF PublishRelease, UpgradeInv, OneRelease, RecordedArchiveStays,
       ArchiveExists
  <2>5. QED
    BY <2>2, <2>3, <2>4 DEF UpgradeInv
<1>2. CASE LoseOriginal
  <2>1. UpgradeTypes' /\ \A s \in UpRun : Knows(s)'
    BY <1>2 DEF LoseOriginal, UpgradeInv, UpgradeTypes, Knows
  <2>2. OnlyReleased' /\ RecordedArchiveStays'
    BY <1>2 DEF LoseOriginal, UpgradeInv, OnlyReleased, RecordedArchiveStays
  <2>3. OneRelease'
    BY <1>2 DEF LoseOriginal, UpgradeInv, OneRelease, ArchiveExists
  <2>4. QED
    BY <2>1, <2>2, <2>3 DEF UpgradeInv
<1>3. CASE UserAdds
  <2>1. PICK v \in Version \ {0} :
            PnpmAdd(v) /\ upRaced' = (upRaced \/ OtherRelease(v))
    BY <1>3 DEF UserAdds
  <2>2. /\ UNCHANGED <<upRecords, upReleased, upOriginal, upArchives, upPc,
                       upRunning, upPackage, upLatest>>
    BY <1>3 DEF UserAdds
  <2>3. /\ upArchives[v] = "package" /\ upSource' = v
        /\ upInstalled' # UpNone /\ upInstalled'.version = v
        /\ v <= upReleased.version
    BY <2>1, Adds
  <2>4. UpgradeTypes' /\ \A s \in UpRun : Knows(s)'
    BY <2>1, <2>2, <2>3 DEF UpgradeInv, UpgradeTypes, Knows
  <2>5. OnlyReleased' /\ RecordedArchiveStays'
    BY <2>2, <2>3 DEF UpgradeInv, OnlyReleased, RecordedArchiveStays
  <2>6. ~upRaced' => \A s \in UpRun : upLatest[s] \in {UpNone, v}
    BY <2>1 DEF OtherRelease
  <2>7. upSource' <= v /\ v # UpNone
    BY <2>3 DEF Version
  <2>8. ASSUME ~upRaced', NEW s \in UpRun, upPc[s] = "cleaning"
        PROVE  upLatest[s] = v
    BY <2>6, <2>8 DEF UpgradeInv, Knows, Holding
  <2>9. OneRelease'
    BY <2>1, <2>2, <2>3, <2>6, <2>7, <2>8 DEF UpgradeInv, OneRelease, ArchiveExists
  <2>10. QED
    BY <2>4, <2>5, <2>9 DEF UpgradeInv
<1>4. QED
  BY <1>1, <1>2, <1>3

\* A run finds its release: the newest one.
LEMMA ResolvesInv ==
    ASSUME UpgradeInv, NEW r \in UpRun, ResolveRelease(r)
    PROVE  UpgradeInv'
<1> USE UpgradeConstants, UpgradeNone
<1>1. CASE Finish(r) /\ UNCHANGED upRaced
  BY <1>1, FinishUpgradeInv DEF ResolveRelease
<1>2. CASE ~(Finish(r) /\ UNCHANGED upRaced)
  <2> DEFINE v == upReleased.version
  <2>1. /\ upPc[r] = "resolving" /\ v > upRunning[r]
        /\ upLatest' = [upLatest EXCEPT ![r] = v]
        /\ upRaced' = (upRaced \/ OtherRelease(v))
        /\ upPc' = [upPc EXCEPT ![r] = "downloading"]
        /\ UNCHANGED <<upRunning, upPackage, upRecords, upReleased, upInstalled,
                       upSource, upOriginal, upArchives>>
    BY <1>2 DEF ResolveRelease, Advance
  <2>2. v \in Version \ {0} /\ v # UpNone
    BY <2>1 DEF UpgradeInv, UpgradeTypes, Version
  <2>3. UpgradeTypes'
    BY <2>1, <2>2 DEF UpgradeInv, UpgradeTypes, Holding
  <2>4. ASSUME NEW s \in UpRun PROVE Knows(s)'
    <3>1. CASE s = r
      BY <2>1, <2>2, <3>1 DEF UpgradeInv, UpgradeTypes, Knows, Holding
    <3>2. CASE s # r
      BY <2>1, <3>2 DEF UpgradeInv, UpgradeTypes, Knows
    <3>3. QED
      BY <3>1, <3>2
  <2>5. OnlyReleased' /\ RecordedArchiveStays'
    BY <2>1, <2>2 DEF UpgradeInv, UpgradeTypes, OnlyReleased,
       RecordedArchiveStays, Version
  <2>6. OneRelease'
    <3>1. ASSUME ~upRaced', NEW s \in UpRun, upLatest'[s] # UpNone
          PROVE  upLatest'[s] = v
      BY <2>1, <3>1 DEF UpgradeInv, UpgradeTypes, OtherRelease
    <3>2. ASSUME upInstalled # UpNone PROVE upSource <= v
      BY <3>2 DEF UpgradeInv, OnlyReleased
    <3>3. ASSUME NEW s \in UpRun, upPc'[s] # "downloading"
          PROVE  upPc'[s] = upPc[s] /\ upLatest'[s] = upLatest[s]
      BY <2>1, <3>3 DEF UpgradeInv, UpgradeTypes
    <3> HIDE DEF v
    <3>4. QED
      BY <2>1, <3>1, <3>2, <3>3 DEF UpgradeInv, OneRelease, ArchiveExists
  <2>7. QED
    BY <2>3, <2>4, <2>5, <2>6 DEF UpgradeInv
<1>3. QED
  BY <1>1, <1>2

\* The archive of its release is stored: the package, or nothing.
LEMMA DownloadsInv ==
    ASSUME UpgradeInv, NEW r \in UpRun, DownloadAndPersist(r)
    PROVE  UpgradeInv'
<1> USE UpgradeConstants, UpgradeNone
<1>1. CASE Finish(r) /\ UNCHANGED upArchives
  BY <1>1, FinishUpgradeInv DEF DownloadAndPersist
<1>2. CASE ~(Finish(r) /\ UNCHANGED upArchives)
  <2> DEFINE v == upLatest[r]
  <2>1. /\ upPc[r] = "downloading" /\ Goes(r, "installing")
        /\ upArchives' = [upArchives EXCEPT ![v] = "package"]
        /\ UNCHANGED <<upRecords, upReleased, upInstalled, upSource, upOriginal,
                       upRaced>>
    BY <1>2 DEF DownloadAndPersist, Verified
  <2>2. /\ v \in Version \ {0} /\ v <= upReleased.version /\ v # UpNone
        /\ "installing" \in Holding /\ "downloading" \in Holding
    BY <2>1 DEF UpgradeInv, UpgradeTypes, OnlyReleased, Knows, Holding
  <2>3. /\ upPc' \in [UpRun -> {"idle", "locating", "resolving"} \cup Holding]
        /\ UNCHANGED <<upRunning, upPackage, upLatest>>
        /\ \A s \in UpRun : Knows(s)'
        /\ upPc'[r] = "installing"
        /\ \A s \in UpRun \ {r} : upPc'[s] = upPc[s]
    BY <2>1, <2>2, GoesKnows
  <2> HIDE DEF v
  <2>4. UpgradeTypes'
    BY <2>1, <2>2, <2>3 DEF UpgradeInv, UpgradeTypes
  <2>5. OnlyReleased' /\ RecordedArchiveStays'
    BY <2>1, <2>2, <2>3 DEF UpgradeInv, UpgradeTypes, OnlyReleased,
       RecordedArchiveStays
  <2>6. OneRelease'
    <3>1. ASSUME ~upRaced, NEW s \in UpRun, upPc'[s] = "removing"
          PROVE  ~ArchiveExists(upPackage[s])'
      <4>1. upPc[s] = "removing" /\ ~ArchiveExists(upPackage[s])
        BY <2>3, <3>1 DEF UpgradeInv, OneRelease
      <4>2. upLatest[s] # UpNone /\ upLatest[s] = v
        BY <2>2, <3>1, <4>1 DEF UpgradeInv, Knows, Holding, OneRelease, v
      <4>3. upPackage[s] \in Version /\ upPackage[s] < v
        BY <4>1, <4>2 DEF UpgradeInv, UpgradeTypes, Knows, Version
      <4>4. upPackage[s] # v
        BY <2>2, <4>3 DEF Version
      <4>5. QED
        BY <2>1, <2>3, <4>1, <4>3, <4>4 DEF ArchiveExists, UpgradeInv, UpgradeTypes
    <3>2. QED
      BY <2>1, <2>3, <3>1 DEF UpgradeInv, OneRelease
  <2>7. QED
    BY <2>3, <2>4, <2>5, <2>6 DEF UpgradeInv
<1>3. QED
  BY <1>1, <1>2

\* krx is gone for a while, or stays.
LEMMA RemovesInv ==
    ASSUME UpgradeInv, NEW r \in UpRun, RemovePackage(r)
    PROVE  UpgradeInv'
<1> USE UpgradeConstants, UpgradeNone
<1>1. CASE Finish(r) /\ upInstalled' = upInstalled
  BY <1>1, FinishUpgradeInv DEF RemovePackage
<1>2. CASE upInstalled' = UpNone
  <2>1. UNCHANGED <<upRecords, upReleased, upSource, upOriginal, upArchives, upRaced>>
    BY DEF RemovePackage
  <2>2. upPc[r] = "removing" /\ upPackage[r] # UpNone
    BY DEF RemovePackage, UpgradeInv, Knows
  <2>3. CASE Finish(r)
    <3>1. UpgradeTypes' /\ \A s \in UpRun : Knows(s)'
      BY <1>2, <2>1, <2>3, FinishKnows DEF UpgradeInv, UpgradeTypes
    <3>2. OnlyReleased' /\ RecordedArchiveStays'
      BY <1>2, <2>1, <2>3, FinishKnows DEF UpgradeInv, OnlyReleased,
         RecordedArchiveStays
    <3>3. OneRelease'
      BY <1>2, <2>1, <2>3, FinishKnows DEF UpgradeInv, OneRelease, ArchiveExists
    <3>4. QED
      BY <3>1, <3>2, <3>3 DEF UpgradeInv
  <2>4. CASE Goes(r, "reinstalling")
    <3>1. /\ upPc' \in [UpRun -> {"idle", "locating", "resolving"} \cup Holding]
          /\ UNCHANGED <<upRunning, upPackage, upLatest>>
          /\ \A s \in UpRun : Knows(s)'
          /\ upPc'[r] = "reinstalling"
          /\ \A s \in UpRun \ {r} : upPc'[s] = upPc[s]
      BY <2>1, <2>2, <2>4, GoesKnows DEF Holding
    <3>2. UpgradeTypes'
      BY <1>2, <2>1, <3>1 DEF UpgradeInv, UpgradeTypes
    <3>3. OnlyReleased' /\ RecordedArchiveStays'
      BY <1>2, <2>1, <3>1 DEF UpgradeInv, OnlyReleased, RecordedArchiveStays
    <3>4. OneRelease'
      BY <1>2, <2>1, <3>1 DEF UpgradeInv, OneRelease, ArchiveExists
    <3>5. QED
      BY <3>1, <3>2, <3>3, <3>4 DEF UpgradeInv
  <2>5. QED
    BY <1>2, <2>3, <2>4 DEF RemovePackage
<1>3. QED
  BY <1>1, <1>2, FinishUpgradeInv DEF RemovePackage

\* The archives of other releases go: not the one that is installed.
LEMMA CleansInv ==
    ASSUME UpgradeInv, NEW r \in UpRun, RemoveOtherArchives(r)
    PROVE  UpgradeInv'
<1> USE UpgradeConstants, UpgradeNone
<1>1. PICK gone \in SUBSET (Version \ {upLatest[r]}) :
          upArchives' = [v \in Version |->
                            IF v \in gone THEN UpNone ELSE upArchives[v]]
  BY DEF RemoveOtherArchives
<1>2. /\ Finish(r) /\ upPc[r] = "cleaning"
      /\ UNCHANGED <<upRecords, upReleased, upInstalled, upSource, upOriginal,
                     upRaced>>
  BY DEF RemoveOtherArchives
<1>3. \A v \in Version : upArchives'[v] \in {UpNone, upArchives[v]}
  BY <1>1
<1>4. UpgradeTypes' /\ \A s \in UpRun : Knows(s)'
  BY <1>1, <1>2, FinishKnows DEF UpgradeInv, UpgradeTypes
<1>5. OnlyReleased'
  BY <1>2, <1>3, FinishKnows DEF UpgradeInv, OnlyReleased
<1>6. OneRelease'
  <2>1. ASSUME ~upRaced, NEW s \in UpRun, upPc'[s] = "removing"
        PROVE  ~ArchiveExists(upPackage[s])'
    <3>1. /\ upPc[s] = "removing" /\ ~ArchiveExists(upPackage[s])
          /\ upPackage'[s] = upPackage[s] /\ upPackage[s] \in Version
      BY <1>2, <2>1, FinishKnows DEF UpgradeInv, UpgradeTypes, OneRelease, Knows
    <3>2. QED
      BY <1>2, <1>3, <3>1 DEF ArchiveExists
  <2>2. QED
    BY <1>2, <2>1, FinishKnows DEF UpgradeInv, OneRelease
<1>7. RecordedArchiveStays'
  <2>1. SUFFICES ASSUME ~upRaced, upInstalled # UpNone, upSource # 0
                 PROVE  upArchives'[upSource] = "package"
    BY <1>2 DEF RecordedArchiveStays
  <2>2. upSource = upLatest[r] /\ upArchives[upSource] = "package"
    BY <1>2, <2>1 DEF UpgradeInv, OneRelease, RecordedArchiveStays
  <2>3. upSource \notin gone /\ upSource \in Version
    BY <2>2 DEF UpgradeInv, UpgradeTypes
  <2>4. QED
    BY <1>1, <2>2, <2>3
<1>8. QED
  BY <1>4, <1>5, <1>6, <1>7 DEF UpgradeInv

LEMMA NextUpgradeInv ==
    ASSUME UpgradeInv, [UpgradeNext]_upVars
    PROVE  UpgradeInv'
<1>1. CASE PublishRelease \/ LoseOriginal \/ UserAdds
  BY <1>1, WorldInv
<1>2. ASSUME NEW r \in UpRun, BeginUpgrade(r) PROVE UpgradeInv'
  <2>1. upPc[r] \notin Holding /\ upPackage[r] = UpNone
    BY <1>2 DEF BeginUpgrade, UpgradeInv, Knows, Holding
  <2>2. QED
    BY <1>2, <2>1, LooksInv DEF BeginUpgrade
<1>3. ASSUME NEW r \in UpRun, LocatePackage(r) PROVE UpgradeInv'
  <2>1. upPc[r] \notin Holding
    BY <1>3 DEF LocatePackage, Holding
  <2>2. CASE Finish(r)
    BY <1>3, <2>2, FinishUpgradeInv DEF LocatePackage
  <2>3. CASE ~Finish(r)
    BY <1>3, <2>1, <2>3, LooksInv DEF LocatePackage
  <2>4. QED
    BY <2>2, <2>3
<1>4. ASSUME NEW r \in UpRun, InstallRelease(r) PROVE UpgradeInv'
  <2>1. upPc[r] \in Holding
    BY <1>4 DEF InstallRelease, Holding
  <2>2. CASE PnpmAdd(upLatest[r]) /\ Goes(r, "confirming")
    BY <1>4, <2>1, <2>2, InstallsInv DEF InstallRelease
  <2>3. CASE InstallFailed(r) /\ UNCHANGED <<upInstalled, upSource>>
    <3>1. CASE Finish(r)
      BY <1>4, <2>3, <3>1, FinishUpgradeInv DEF InstallRelease
    <3>2. CASE ~Finish(r)
      <4>1. /\ Goes(r, "removing") /\ upPackage[r] # UpNone
            /\ ~ArchiveExists(upPackage[r])
        BY <2>3, <3>2 DEF InstallFailed
      <4>2. QED
        BY <1>4, <2>1, <2>3, <4>1, GoesInv DEF InstallRelease, Holding
    <3>3. QED
      BY <3>1, <3>2
  <2>4. QED
    BY <1>4, <2>2, <2>3 DEF InstallRelease
<1>5. ASSUME NEW r \in UpRun, ReinstallRelease(r) PROVE UpgradeInv'
  <2>1. upPc[r] \in Holding
    BY <1>5 DEF ReinstallRelease, Holding
  <2>2. CASE PnpmAdd(upLatest[r]) /\ Goes(r, "confirming")
    BY <1>5, <2>1, <2>2, InstallsInv DEF ReinstallRelease
  <2>3. CASE Finish(r) /\ UNCHANGED <<upInstalled, upSource>>
    BY <1>5, <2>3, FinishUpgradeInv DEF ReinstallRelease
  <2>4. QED
    BY <1>5, <2>2, <2>3 DEF ReinstallRelease
<1>6. ASSUME NEW r \in UpRun, ConfirmInstalled(r) PROVE UpgradeInv'
  <2>1. CASE Finish(r)
    BY <1>6, <2>1, FinishUpgradeInv DEF ConfirmInstalled
  <2>2. CASE ~Finish(r)
    <3>1. /\ upInstalled # UpNone /\ upSource = upLatest[r]
          /\ Goes(r, "cleaning") /\ upPc[r] \in Holding
      BY <1>6, <2>2 DEF ConfirmInstalled, UpgradeInv, OnlyReleased, Holding
    <3>2. QED
      BY <1>6, <3>1, GoesInv DEF ConfirmInstalled, Holding
  <2>3. QED
    BY <2>1, <2>2
<1>7. ASSUME NEW r \in UpRun, AbandonUpgrade(r) PROVE UpgradeInv'
  BY <1>7, FinishUpgradeInv DEF AbandonUpgrade
<1>8. CASE UNCHANGED upVars
  BY <1>8 DEF upVars, UpgradeInv, UpgradeTypes, Knows, OnlyReleased, OneRelease,
     ArchiveExists, RecordedArchiveStays
<1>9. QED
  BY <1>1, <1>2, <1>3, <1>4, <1>5, <1>6, <1>7, <1>8, ResolvesInv, DownloadsInv,
     RemovesInv, CleansInv DEF UpgradeNext

\* However many runs overlap, for one release, and however they end: pnpm can
\* read the archive it has recorded again, and it is the package.
THEOREM UpgradeKeepsItsArchive == UpgradeSpec => []RecordedArchiveStays
<1>1. UpgradeInv => RecordedArchiveStays
  BY DEF UpgradeInv
<1>2. QED
  BY <1>1, InitUpgradeInv, NextUpgradeInv, PTL DEF UpgradeSpec

\* Short of a race of releases, krx goes away only to be installed again where
\* pnpm 10 could not replace it, and never gives way to an older version.
THEOREM UpgradeNeitherLosesNorDowngrades == UpgradeSpec => NoLossNoDowngrade
<1> DEFINE Kept ==
      upInstalled # UpNone =>
          IF upInstalled' = UpNone
          THEN /\ upRecords
               /\ \E r \in UpRun :
                     /\ upPc[r] = "removing"
                     /\ \/ ~ArchiveExists(upSource) \/ upPackage[r] # upSource
                        \/ upRaced
          ELSE upRaced \/ upInstalled'.version >= upInstalled.version
<1>1. ASSUME UpgradeInv, [UpgradeNext]_upVars PROVE Kept
  <2>1. SUFFICES ASSUME upInstalled # UpNone, upInstalled' # upInstalled PROVE Kept
    <3>1. CASE upInstalled = UpNone
      BY <3>1
    <3>2. CASE upInstalled # UpNone /\ upInstalled' = upInstalled
      BY <1>1, <3>2 DEF UpgradeInv, UpgradeTypes, Version
    <3>3. QED
      BY <2>1, <3>1, <3>2
  <2>2. PICK r \in UpRun :
            InstallRelease(r) \/ ReinstallRelease(r) \/ RemovePackage(r)
    BY <1>1, <2>1 DEF UpgradeNext, upVars, PublishRelease, LoseOriginal, UserAdds,
       BeginUpgrade, LocatePackage, ResolveRelease, DownloadAndPersist,
       ConfirmInstalled, RemoveOtherArchives, AbandonUpgrade
  <2>3. CASE RemovePackage(r)
    <3>1. upInstalled' = UpNone /\ upPc[r] = "removing"
      BY <2>1, <2>3 DEF RemovePackage
    <3>2. upRecords /\ (~upRaced => ~ArchiveExists(upPackage[r]))
      BY <1>1, <3>1 DEF UpgradeInv, Knows, OneRelease
    <3>3. QED
      BY <3>1, <3>2
  <2>4. CASE InstallRelease(r) \/ ReinstallRelease(r)
    <3> DEFINE v == upLatest[r]
    <3>1. PnpmAdd(v) /\ upPc[r] \in Holding
      BY <2>1, <2>4 DEF InstallRelease, ReinstallRelease, Holding
    <3>2. v \in Version \ {0} /\ v # UpNone
      BY <1>1, <3>1, UpgradeNone DEF UpgradeInv, UpgradeTypes, Knows
    <3>3. ~upRaced => upSource <= v /\ upInstalled.version = upSource
      BY <1>1, <2>1, <3>2 DEF UpgradeInv, OneRelease, OnlyReleased
    <3>4. upSource \in Version
      BY <1>1 DEF UpgradeInv, UpgradeTypes
    <3> HIDE DEF v
    <3>5. upInstalled' # UpNone /\ upInstalled'.version = v
      BY <1>1, <3>1, <3>2, Adds
    <3>6. QED
      BY <3>2, <3>3, <3>4, <3>5 DEF Version
  <2>5. QED
    BY <2>2, <2>3, <2>4
<1>2. UpgradeInv /\ [UpgradeNext]_upVars => [Kept]_upVars
  BY <1>1
<1>3. QED
  BY <1>2, InitUpgradeInv, NextUpgradeInv, PTL DEF UpgradeSpec, NoLossNoDowngrade

-----------------------------------------------------------------------------
(* The calendar                                                            *)

\* A set of days that is not empty has a last one.
LEMMA LastOfDays ==
    ASSUME NEW D \in SUBSET CaDay, D # {}
    PROVE  \E d \in D : \A e \in D : e <= d
<1> DEFINE n == CaYears * CaYearDays
<1>1. n \in Nat
  BY CalendarConstants
<1>2. CaDay = 0 .. (n - 1)
  BY DEF CaDay
<1> HIDE DEF n
<1> DEFINE T == {n - d : d \in D}
<1>3. T \in SUBSET Nat /\ T # {}
  <2>1. \A d \in D : n - d \in Nat
    BY <1>1, <1>2
  <2>2. QED
    BY <2>1
<1>4. PICK x \in T : \A y \in T : x <= y
  BY <1>3, LeastNatural
<1>5. PICK d \in D : x = n - d
  BY <1>4
<1>6. ASSUME NEW e \in D PROVE e <= d
  <2>1. n - d <= n - e
    BY <1>4, <1>5
  <2>2. QED
    BY <1>1, <1>2, <2>1
<1>7. QED
  BY <1>6

\* The last weekday of a year is the last.
LEMMA YearEndIsLast ==
    ASSUME NEW day \in CaDay, ~Weekend(day)
    PROVE  \A e \in Weekdays(Year(day)) : e <= YearEnd(Year(day))
<1> DEFINE W == Weekdays(Year(day))
<1>1. W \in SUBSET CaDay /\ W # {}
  BY DEF Weekdays
<1> HIDE DEF W
<1>2. \E d \in W : \A e \in W : e <= d
  BY <1>1, LastOfDays
<1>3. QED
  BY <1>2 DEF YearEnd, W

\* What the exchange is known to be open on is within the law, and the years
\* that the snapshot covers are any.
Lawful == caOpen \in SUBSET {d \in CaDay : ~ReallyClosed(d)}

\* A session is never taken for a day without one, nor another day for one.
LEMMA StatusOfSession ==
    ASSUME Lawful, NEW day \in CaDay
    PROVE  /\ Status(day) \in {"Trading", "NonTrading", "Unknown"}
           /\ day \in caOpen => Status(day) # "NonTrading"
           /\ Status(day) = "Trading" => day \in caOpen
           /\ Status(day) = "Unknown" => Year(day) \notin caCovered
           /\ day \in caOpen /\ Year(day) \in caCovered => Status(day) = "Trading"
<1>1. CASE Weekend(day)
  BY <1>1 DEF Status, Lawful, ReallyClosed
<1>2. CASE ~Weekend(day) /\ Year(day) \in caCovered
  BY <1>2 DEF Status
<1>3. CASE ~Weekend(day) /\ Year(day) \notin caCovered
  <2>1. Status(day) = IF Holiday(day) /\ \A y \in caCovered : Year(day) > y
                      THEN "NonTrading" ELSE "Unknown"
    BY <1>3 DEF Status
  <2>2. ASSUME day \in caOpen PROVE ~Holiday(day)
    <3>1. /\ ~(/\ day % CaYearDays \in DOMAIN CaLaw
               /\ Year(day) >= CaLaw[day % CaYearDays])
          /\ \E e \in CaDay : e > day /\ Year(e) = Year(day) /\ ~Weekend(e)
      BY <2>2 DEF Lawful, ReallyClosed
    <3>2. PICK e \in CaDay : e > day /\ Year(e) = Year(day) /\ ~Weekend(e)
      BY <3>1
    <3>3. e \in Weekdays(Year(day))
      BY <3>2 DEF Weekdays
    <3>4. e <= YearEnd(Year(day))
      BY <1>3, <3>3, YearEndIsLast
    <3>5. day # YearEnd(Year(day))
      <4>1. day \in Int /\ e \in Int
        BY CalendarConstants DEF CaDay
      <4>2. QED
        BY <3>2, <3>4, <4>1
    <3>6. QED
      BY <3>1, <3>5 DEF Holiday
  <2>3. QED
    BY <1>3, <2>1, <2>2
<1>4. QED
  BY <1>1, <1>2, <1>3

\* An answer that parts what was asked by what is known of each day.
LEMMA RangeParts ==
    ASSUME Lawful, NEW asked \in SUBSET CaDay, NEW days \in SUBSET asked,
           \A d \in days : Status(d) # "NonTrading",
           \A d \in asked \ days : Status(d) = "NonTrading",
           caAnswer' = [kind |-> "range", asked |-> asked, days |-> days,
                        skipped |-> asked \ days, calendar |-> About(asked)],
           UNCHANGED <<caOpen, caCovered>>
    PROVE  NoSessionIsGuessedAway'
<1>1. \A d \in asked : d \in About(asked).unverified <=> Status(d) = "Unknown"
  BY DEF About
<1>2. (asked \ days) \cap caOpen = {}
  BY StatusOfSession
<1>3. days \ caOpen \subseteq About(asked).unverified
  BY <1>1, StatusOfSession
<1>4. About(asked).unverified # {} => About(asked).fallback # {}
  <2>1. SUFFICES ASSUME NEW d \in asked, Status(d) = "Unknown"
                 PROVE  Year(d) \in About(asked).fallback
    BY DEF About
  <2>2. QED
    BY <2>1, StatusOfSession DEF About
<1> DEFINE about == About(asked)
<1> HIDE DEF about
<1>5. /\ caAnswer'.days = days /\ caAnswer'.skipped = asked \ days
      /\ caAnswer'.asked = asked /\ caAnswer'.calendar = about
      /\ caAnswer'.kind = "range"
  BY DEF about
<1>6. caOpen' = caOpen
  OBVIOUS
<1>7. QED
  BY <1>2, <1>3, <1>4, <1>5, <1>6 DEF NoSessionIsGuessedAway, RangeLosesNothing, about

\* Going back over days none of which is known to be a session passes over none
\* of a year that the snapshot covers.
LEMMA PassesOverUncovered ==
    ASSUME Lawful, NEW days \in SUBSET CaDay, \A d \in days : Status(d) # "Trading"
    PROVE  PassesOver(days)
BY StatusOfSession DEF PassesOver

\* Whatever the years, the holidays and the sessions: no range loses a session,
\* and neither the recent date nor its error passes over one that is known.
THEOREM CalendarGuessesNoSessionAway == CalendarSpec => []NoSessionIsGuessedAway
<1> DEFINE Inv == Lawful /\ NoSessionIsGuessedAway
<1>1. CalendarInit => Inv
  BY DEF CalendarInit, Lawful, NoSessionIsGuessedAway
<1>2. ASSUME Inv, SelectRange, UNCHANGED <<caOpen, caCovered>>
      PROVE  NoSessionIsGuessedAway'
  <2>1. PICK from \in CaDay, to \in CaDay :
            caAnswer' = [kind |-> "range",
                         asked |-> from..to,
                         days |-> {d \in from..to : Status(d) # "NonTrading"},
                         skipped |-> {d \in from..to : Status(d) = "NonTrading"},
                         calendar |-> About(from..to)]
    BY <1>2 DEF SelectRange
  <2> DEFINE asked == from..to
             days == {d \in asked : Status(d) # "NonTrading"}
  <2>2. asked \in SUBSET CaDay
    BY CalendarConstants DEF CaDay
  <2>3. {d \in asked : Status(d) = "NonTrading"} = asked \ days
    OBVIOUS
  <2>4. caAnswer' = [kind |-> "range", asked |-> asked, days |-> days,
                     skipped |-> asked \ days, calendar |-> About(asked)]
    BY <2>1, <2>3
  <2>5. days \in SUBSET asked /\ \A d \in days : Status(d) # "NonTrading"
    OBVIOUS
  <2>6. \A d \in asked \ days : Status(d) = "NonTrading"
    OBVIOUS
  <2> HIDE DEF asked, days
  <2>7. QED
    BY <1>2, <2>2, <2>4, <2>5, <2>6, RangeParts
<1>3. ASSUME Inv, ResolveRecent, UNCHANGED <<caOpen, caCovered>>
      PROVE  NoSessionIsGuessedAway'
  <2>1. PICK today \in CaDay :
          LET sessions == {d \in DaysBack(today) : Status(d) = "Trading"}
          IN  \/ \E d \in sessions :
                    /\ \A e \in sessions : e <= d
                    /\ caAnswer' = [kind |-> "recent", today |-> today, date |-> d]
              \/ /\ sessions = {}
                 /\ caAnswer' = [kind |-> "CalendarInvalid", today |-> today]
    BY <1>3 DEF ResolveRecent
  <2> DEFINE sessions == {d \in DaysBack(today) : Status(d) = "Trading"}
  <2>2. DaysBack(today) \in SUBSET CaDay
    BY DEF DaysBack
  <2>3. CASE sessions = {}
    <3>1. caAnswer' = [kind |-> "CalendarInvalid", today |-> today]
      BY <2>1, <2>3
    <3>2. caAnswer'.kind = "CalendarInvalid" /\ caAnswer'.today = today
      BY <3>1
    <3>3. PassesOver(DaysBack(today))
      BY <1>3, <2>2, <2>3, PassesOverUncovered
    <3>4. PassesOver(DaysBack(today))'
      BY <1>3, <3>3 DEF PassesOver, DaysBack
    <3>5. QED
      BY <3>2, <3>4 DEF NoSessionIsGuessedAway
  <2>4. CASE sessions # {}
    <3>1. PICK d \in sessions :
              /\ \A e \in sessions : e <= d
              /\ caAnswer' = [kind |-> "recent", today |-> today, date |-> d]
      BY <2>1, <2>4
    <3>2. /\ caAnswer'.kind = "recent" /\ caAnswer'.today = today
          /\ caAnswer'.date = d
      BY <3>1
    <3> DEFINE later == {e \in DaysBack(today) : e > d}
    <3>3. d \in DaysBack(today) /\ d \in caOpen
      BY <1>3, <2>2, StatusOfSession
    <3>4. \A e \in later : Status(e) # "Trading"
      <4>1. ASSUME NEW e \in later, Status(e) = "Trading" PROVE FALSE
        <5>1. e \in sessions /\ e > d
          BY <4>1
        <5>2. e <= d
          BY <3>1, <5>1
        <5>3. e \in Int /\ d \in Int
          BY <2>2, <3>3, CalendarConstants DEF CaDay
        <5>4. QED
          BY <5>1, <5>2, <5>3
      <4>2. QED
        BY <4>1
    <3>5. PassesOver(later)
      BY <1>3, <2>2, <3>4, PassesOverUncovered
    <3>6. later \cap caOpen = later \cap caOpen' /\ caCovered' = caCovered
      BY <1>3
    <3>7. PassesOver({e \in DaysBack(today) : e > d})'
      BY <3>5, <3>6 DEF PassesOver, DaysBack
    <3>8. QED
      BY <1>3, <3>2, <3>3, <3>7 DEF NoSessionIsGuessedAway, DaysBack
  <2>5. QED
    BY <2>3, <2>4
<1>4. ASSUME Inv, [CalendarNext]_caVars PROVE Inv'
  <2>1. CASE CalendarNext
    BY <1>2, <1>3, <1>4, <2>1 DEF CalendarNext, Lawful
  <2>2. CASE UNCHANGED caVars
    BY <1>4, <2>2 DEF caVars, Lawful, NoSessionIsGuessedAway, RangeLosesNothing,
       PassesOver
  <2>3. QED
    BY <1>4, <2>1, <2>2
<1>5. QED
  BY <1>1, <1>4, PTL DEF CalendarSpec

-----------------------------------------------------------------------------
(* Cache maintenance                                                       *)

\* What a scan records of an entry and of a temporary file.
MtRead == [path : MtPath, id : 0..mtWrites, fetched : 0..mtWrites + 1]
          \cup [path : MtPath, temp : {"stale"}]

MtTypes ==
    /\ mtWrites \in Nat
    /\ mtDisk \in [MtPath -> [id : 0..mtWrites, fetched : 0..mtWrites + 1]
                             \cup {MtNone}]
    /\ mtTemp \in [MtPath -> {"none", "young", "stale"}]
    /\ mtPc \in [MtJob -> {"idle", "scanning", "removing", "unlinking", "done"}]
    /\ mtRule \in [MtJob -> Rule]
    /\ mtLeft \in [MtJob -> SUBSET MtPath]
    /\ mtSeen \in [MtJob -> SUBSET MtRead]
    /\ mtTargets \in [MtJob -> SUBSET MtRead]
    /\ mtQuiet \in [MtJob -> BOOLEAN]
    /\ mtReplaced \in BOOLEAN

\* What a call has read is finite, and the write that left an entry says when
\* it was fetched.
MtRecords ==
    \A m \in MtJob :
        /\ IsFiniteSet(mtSeen[m])
        /\ mtPc[m] = "idle" => mtRule[m] = "max"
        /\ \A e \in Entries(mtSeen[m] \cup mtTargets[m]) :
              Unchanged(e) => mtDisk[e.path].fetched = e.fetched

\* The entry at a path, as a scan records it.
EntryAt(path) ==
    [path |-> path, id |-> mtDisk[path].id, fetched |-> mtDisk[path].fetched]

\* What has been read is there, or something that comes before it; before what
\* is to go there is something.
Surpassed(e) == \E q \in Present : Precedes(EntryAt(q), e)

Matched(e) == e.path \in Present /\ mtDisk[e.path].fetched = e.fetched

PrunesOnly == (\A m \in MtJob : mtRule[m] = "max") /\ ~mtReplaced

NewestKept ==
    \A m \in MtJob :
        /\ \A e \in Entries(mtSeen[m]) : Matched(e) \/ Surpassed(e)
        /\ \A e \in Entries(mtTargets[m]) : Surpassed(e)

NewestStays == PrunesOnly => NewestKept

\* While nobody writes, a call has still to read, or has read, or is to remove
\* all that is there, but for entries that its rule lets it keep.
MayKeep(rule, paths) ==
    /\ IsFiniteSet(paths) /\ (rule = "max" => Cardinality(paths) <= MtBound)
    /\ rule = "clear" => paths = {}
    /\ rule = "older" =>
          \A path \in paths \cap Present : mtDisk[path].fetched >= MtBound

StaleTemp(path) == [path |-> path, temp |-> "stale"]

QuietCall(m) ==
    /\ mtPc[m] = "scanning" =>
          /\ \A path \in Present : path \in mtLeft[m] \/ EntryAt(path) \in mtSeen[m]
          /\ \A path \in MtPath :
                mtTemp[path] = "stale" =>
                    path \in mtLeft[m] \/ StaleTemp(path) \in mtSeen[m]
    /\ mtPc[m] \in {"removing", "unlinking"} =>
          /\ \E kept \in SUBSET MtPath :
                /\ MayKeep(mtRule[m], kept)
                /\ \A path \in Present :
                      path \in kept \/ EntryAt(path) \in mtTargets[m]
          /\ \A path \in MtPath :
                mtTemp[path] = "stale" => StaleTemp(path) \in mtTargets[m]

QuietCalls == \A m \in MtJob : mtQuiet[m] => QuietCall(m)

MtInv == MtTypes /\ MtRecords /\ NewestStays /\ QuietCalls

\* There is a listing of the paths in order, so that MtOrder is one.
LEMMA ListingExists ==
    /\ IsFiniteSet(MtPath)
    /\ \E s \in SetToSeqs(MtPath) :
          \A i, j \in DOMAIN s : s[i][1] = "v1" /\ s[j][1] = "v2" => i < j
<1> DEFINE A == {"v1"} \X MtLegacy
           B == {"v2"} \X MtKey
           a == Cardinality(A)
           b == Cardinality(B)
<1>1. IsFiniteSet(MtKey) /\ IsFiniteSet(MtLegacy)
  BY MaintenanceConstants, FS_Subset
<1>2. IsFiniteSet(A) /\ IsFiniteSet(B)
  <2>1. IsFiniteSet({"v1"}) /\ IsFiniteSet({"v2"})
    BY FS_Singleton
  <2>2. QED
    BY <1>1, <2>1, FS_Product
<1>3. MtPath = A \cup B
  BY DEF MtPath
<1>4. /\ \A x \in A : x[1] = "v1"
      /\ \A x \in B : x[1] = "v2"
  OBVIOUS
<1>5. A \cap B = {}
  BY <1>4
<1> HIDE DEF A, B
<1>6. a \in Nat /\ b \in Nat
  BY <1>2, FS_CardinalityType
<1>7. PICK f \in Bijection(1..a, A) : TRUE
  BY <1>2, FS_CardinalityType DEF ExistsBijection
<1>8. PICK g \in Bijection(1..b, B) : TRUE
  BY <1>2, FS_CardinalityType DEF ExistsBijection
<1>9. IsFiniteSet(MtPath) /\ Cardinality(MtPath) = a + b
  <2>1. /\ IsFiniteSet(A \cup B)
        /\ Cardinality(A \cup B) = a + b - Cardinality(A \cap B)
    BY <1>2, FS_Union
  <2>2. Cardinality(A \cap B) = 0
    BY <1>5, FS_EmptySet
  <2>3. QED
    BY <2>1, <2>2, <1>3, <1>6
<1> HIDE DEF a, b
<1> DEFINE s == [i \in 1..a + b |-> IF i <= a THEN f[i] ELSE g[i - a]]
<1>10. /\ \A i \in 1..a : f[i] \in A
       /\ \A i, j \in 1..a : f[i] = f[j] => i = j
  BY <1>7 DEF Bijection, Injection, IsInjective, Surjection
<1>11. /\ \A i \in 1..b : g[i] \in B
       /\ \A i, j \in 1..b : g[i] = g[j] => i = j
  BY <1>8 DEF Bijection, Injection, IsInjective, Surjection
<1>12. \A i \in 1..a + b :
          IF i <= a THEN i \in 1..a /\ s[i] = f[i] /\ s[i] \in A
          ELSE i - a \in 1..b /\ s[i] = g[i - a] /\ s[i] \in B
  BY <1>6, <1>10, <1>11
<1>13. \A i, j \in 1..a + b : i # j => s[i] # s[j]
  <2>1. SUFFICES ASSUME NEW i \in 1..a + b, NEW j \in 1..a + b, s[i] = s[j]
                 PROVE  i = j
    OBVIOUS
  <2>2. CASE i <= a
    <3>1. j <= a
      BY <1>12, <1>5, <2>1, <2>2
    <3>2. QED
      BY <1>10, <1>12, <2>1, <2>2, <3>1
  <2>3. CASE ~(i <= a)
    <3>1. ~(j <= a)
      BY <1>12, <1>5, <2>1, <2>3
    <3>2. i - a = j - a
      BY <1>11, <1>12, <2>1, <2>3, <3>1
    <3>3. QED
      BY <3>2, <1>6
  <2>4. QED
    BY <2>2, <2>3
<1>14. s \in [1..a + b -> MtPath]
  BY <1>3, <1>12
<1>15. s \in SetToSeqs(MtPath)
  BY <1>9, <1>13, <1>14 DEF SetToSeqs
<1>16. ASSUME NEW i \in DOMAIN s, NEW j \in DOMAIN s,
              s[i][1] = "v1", s[j][1] = "v2"
       PROVE  i < j
  <2>1. i \in 1..a + b /\ j \in 1..a + b
    OBVIOUS
  <2>2. i <= a
    BY <1>4, <1>12, <1>16, <2>1
  <2>3. ~(j <= a)
    BY <1>4, <1>12, <1>16, <2>1
  <2>4. QED
    BY <1>6, <2>1, <2>2, <2>3
<1> HIDE DEF s
<1>17. QED
  BY <1>9, <1>15, <1>16

\* The listing is a strict order of the paths.
LEMMA EarlierOrders ==
    /\ \A p \in MtPath : ~Earlier(p, p)
    /\ \A p, q, r \in MtPath : Earlier(p, q) /\ Earlier(q, r) => Earlier(p, r)
    /\ \A p, q \in MtPath : p # q => Earlier(p, q) \/ Earlier(q, p)
<1> DEFINE n == Cardinality(MtPath)
<1>1. n \in Nat /\ IsFiniteSet(MtPath)
  BY ListingExists, FS_CardinalityType
<1>2. MtOrder \in SetToSeqs(MtPath)
  BY ListingExists DEF MtOrder
<1>3. /\ MtOrder \in [1..n -> MtPath]
      /\ \A i, j \in 1..n : i # j => MtOrder[i] # MtOrder[j]
  BY <1>2 DEF SetToSeqs
<1>4. MtOrder \in Injection(1..n, MtPath)
  BY <1>3 DEF Injection, IsInjective
<1>5. Cardinality(1..n) = n
  BY <1>1, FS_Interval
<1>6. MtOrder \in Surjection(1..n, MtPath)
  BY <1>1, <1>4, <1>5, FS_Injection
<1> HIDE DEF n
<1>7. \A p \in MtPath : \E i \in 1..n : MtOrder[i] = p
  BY <1>6 DEF Surjection
<1>8. DOMAIN MtOrder = 1..n
  BY <1>3
<1>9. ASSUME NEW p, NEW q
      PROVE  Earlier(p, q) <=> \E i, j \in 1..n : i < j /\ MtOrder[i] = p /\ MtOrder[j] = q
  BY <1>8 DEF Earlier
<1>10. \A p \in MtPath : ~Earlier(p, p)
  BY <1>1, <1>3, <1>9
<1>11. ASSUME NEW p \in MtPath, NEW q \in MtPath, NEW r \in MtPath,
              Earlier(p, q), Earlier(q, r)
       PROVE  Earlier(p, r)
  <2>1. PICK i, j \in 1..n : i < j /\ MtOrder[i] = p /\ MtOrder[j] = q
    BY <1>9, <1>11
  <2>2. PICK k, l \in 1..n : k < l /\ MtOrder[k] = q /\ MtOrder[l] = r
    BY <1>9, <1>11
  <2>3. j = k
    BY <1>3, <2>1, <2>2
  <2>4. i < l
    BY <1>1, <2>1, <2>2, <2>3
  <2>5. QED
    BY <1>9, <2>1, <2>2, <2>4
<1>12. ASSUME NEW p \in MtPath, NEW q \in MtPath, p # q
       PROVE  Earlier(p, q) \/ Earlier(q, p)
  <2>1. PICK i \in 1..n : MtOrder[i] = p
    BY <1>7
  <2>2. PICK j \in 1..n : MtOrder[j] = q
    BY <1>7
  <2>3. i < j \/ j < i
    BY <1>1, <1>12, <2>1, <2>2
  <2>4. QED
    BY <1>9, <2>1, <2>2, <2>3
<1>13. QED
  BY <1>10, <1>11, <1>12

\* What a record that is ranked has.
Ranked(e) == e.path \in MtPath /\ e.fetched \in Nat

\* The ranking of prune is a strict order, total between different paths.
LEMMA PrecedesOrders ==
    ASSUME NEW e, NEW f, NEW g, Ranked(e), Ranked(f), Ranked(g)
    PROVE  /\ e.path = f.path /\ Precedes(e, f) => f.fetched < e.fetched
           /\ Precedes(e, f) => f.fetched <= e.fetched
           /\ Precedes(e, f) /\ Precedes(f, g) => Precedes(e, g)
           /\ e.path # f.path => Precedes(e, f) \/ Precedes(f, e)
<1>1. /\ e.path \in MtPath /\ f.path \in MtPath /\ g.path \in MtPath
      /\ e.fetched \in Nat /\ f.fetched \in Nat /\ g.fetched \in Nat
  BY DEF Ranked
<1>2. \A p \in MtPath : p[1] \in {"v1", "v2"}
  BY DEF MtPath
<1>3. e.path = f.path /\ Precedes(e, f) => f.fetched < e.fetched
  BY <1>1, <1>2, EarlierOrders DEF Precedes
<1>4. Precedes(e, f) => f.fetched <= e.fetched
  BY <1>1 DEF Precedes
<1>5. ASSUME Precedes(e, f), Precedes(f, g) PROVE Precedes(e, g)
  <2>1. CASE e.fetched > f.fetched \/ f.fetched > g.fetched
    BY <1>1, <1>5, <2>1 DEF Precedes
  <2>2. CASE e.fetched = f.fetched /\ f.fetched = g.fetched
    <3>1. /\ \/ e.path[1] = "v2" /\ f.path[1] = "v1"
             \/ e.path[1] = f.path[1] /\ Earlier(e.path, f.path)
          /\ \/ f.path[1] = "v2" /\ g.path[1] = "v1"
             \/ f.path[1] = g.path[1] /\ Earlier(f.path, g.path)
      BY <1>1, <1>5, <2>2 DEF Precedes
    <3>2. Earlier(e.path, f.path) /\ Earlier(f.path, g.path)
          => Earlier(e.path, g.path)
      BY <1>1, EarlierOrders
    <3>3. QED
      BY <2>2, <3>1, <3>2 DEF Precedes
  <2>3. QED
    BY <1>1, <1>5, <2>1, <2>2 DEF Precedes
<1>6. ASSUME e.path # f.path PROVE Precedes(e, f) \/ Precedes(f, e)
  <2>1. Earlier(e.path, f.path) \/ Earlier(f.path, e.path)
    BY <1>1, <1>6, EarlierOrders
  <2>2. CASE e.fetched # f.fetched
    BY <1>1, <2>2 DEF Precedes
  <2>3. CASE e.fetched = f.fetched
    BY <1>1, <1>2, <2>1, <2>3 DEF Precedes
  <2>4. QED
    BY <2>2, <2>3
<1>7. QED
  BY <1>3, <1>4, <1>5, <1>6

\* What is there can be ranked, and so can what has been read.
LEMMA EntriesRanked ==
    ASSUME MtTypes
    PROVE  /\ \A q \in Present :
                  /\ mtDisk[q].id \in 0..mtWrites
                  /\ mtDisk[q].fetched \in 0..mtWrites + 1
                  /\ Ranked(EntryAt(q))
                  /\ EntryAt(q).path = q /\ EntryAt(q).fetched = mtDisk[q].fetched
                  /\ EntryAt(q) \in MtRead
           /\ \A e \in Entries(MtRead) :
                  Ranked(e) /\ e.id \in 0..mtWrites
                  /\ e.path \in MtPath /\ e.fetched \in 0..mtWrites + 1
           /\ \A path \in MtPath :
                  StaleTemp(path) \in MtRead /\ StaleTemp(path) \notin Entries(MtRead)
<1>1. ASSUME NEW q \in Present
      PROVE  /\ mtDisk[q].id \in 0..mtWrites
             /\ mtDisk[q].fetched \in 0..mtWrites + 1
             /\ Ranked(EntryAt(q))
             /\ EntryAt(q).path = q /\ EntryAt(q).fetched = mtDisk[q].fetched
             /\ EntryAt(q) \in MtRead
  <2>1. q \in MtPath /\ mtDisk[q] \in [id : 0..mtWrites, fetched : 0..mtWrites + 1]
    BY DEF MtTypes, Present
  <2>2. mtWrites \in Nat
    BY DEF MtTypes
  <2>3. QED
    BY <2>1, <2>2 DEF Ranked, EntryAt, MtRead
<1>2. ASSUME NEW e \in Entries(MtRead)
      PROVE  Ranked(e) /\ e.id \in 0..mtWrites
             /\ e.path \in MtPath /\ e.fetched \in 0..mtWrites + 1
  <2>1. e \in [path : MtPath, id : 0..mtWrites, fetched : 0..mtWrites + 1]
    <3>1. e \notin [path : MtPath, temp : {"stale"}]
      BY DEF Entries
    <3>2. QED
      BY <3>1 DEF Entries, MtRead
  <2>2. QED
    BY <2>1 DEF Ranked, MtTypes
<1>3. ASSUME NEW path \in MtPath
      PROVE  StaleTemp(path) \in MtRead /\ StaleTemp(path) \notin Entries(MtRead)
  BY DEF StaleTemp, MtRead, Entries
<1>4. QED
  BY <1>1, <1>2, <1>3

\* A scan records what MtObserved says, in terms of EntryAt.
LEMMA ObservedIs ==
    ASSUME MtTypes, NEW path \in MtPath
    PROVE  /\ MtObserved(path) \subseteq MtRead
           /\ IsFiniteSet(MtObserved(path))
           /\ path \in Present => EntryAt(path) \in MtObserved(path)
           /\ mtTemp[path] = "stale" => StaleTemp(path) \in MtObserved(path)
           /\ \A e \in Entries(MtObserved(path)) :
                 path \in Present /\ e = EntryAt(path)
<1> DEFINE E == {[path |-> path, id |-> e.id, fetched |-> e.fetched] :
                    e \in {mtDisk[path]} \ {MtNone}}
           T == {[path |-> path, temp |-> t] : t \in {mtTemp[path]} \cap {"stale"}}
<1>1. MtObserved(path) = E \cup T
  BY DEF MtObserved
<1>2. E = IF path \in Present THEN {EntryAt(path)} ELSE {}
  BY DEF Present, EntryAt
<1>3. T = IF mtTemp[path] = "stale" THEN {StaleTemp(path)} ELSE {}
  BY DEF StaleTemp
<1> HIDE DEF E, T
<1>4. IsFiniteSet(E) /\ IsFiniteSet(T)
  BY <1>2, <1>3, FS_EmptySet, FS_Singleton
<1>5. IsFiniteSet(E \cup T)
  BY <1>4, FS_Union
<1>6. E \cup T \subseteq MtRead
  BY <1>2, <1>3, EntriesRanked
<1>7. ASSUME NEW e \in Entries(E \cup T) PROVE path \in Present /\ e = EntryAt(path)
  <2>1. e \in E \cup T /\ e \in Entries(MtRead)
    BY <1>6 DEF Entries
  <2>2. e # StaleTemp(path)
    BY <2>1, EntriesRanked
  <2>3. QED
    BY <2>1, <2>2, <1>2, <1>3
<1>8. QED
  BY <1>1, <1>2, <1>3, <1>5, <1>6, <1>7

\* The invariant of maintenance holds in the beginning.
LEMMA InitMtInv == MaintenanceInit => MtInv
<1> SUFFICES ASSUME MaintenanceInit PROVE MtInv
  OBVIOUS
<1> USE DEF MaintenanceInit
<1>1. MtTypes
  <2>1. [id : {0}, fetched : 0..1]
        \subseteq [id : 0..mtWrites, fetched : 0..mtWrites + 1]
    OBVIOUS
  <2>2. mtDisk \in [MtPath -> [id : 0..mtWrites, fetched : 0..mtWrites + 1]
                               \cup {MtNone}]
    BY <2>1
  <2>3. QED
    BY <2>2 DEF MtTypes, Rule
<1>2. MtRecords
  BY FS_EmptySet DEF MtRecords, Entries
<1>3. NewestStays
  BY DEF NewestStays, NewestKept, Entries
<1>4. QuietCalls
  BY DEF QuietCalls
<1>5. QED
  BY <1>1, <1>2, <1>3, <1>4 DEF MtInv

\* The variables of the entries after a write: a new one, above all.
LEMMA WriteTypes ==
    ASSUME MtTypes, NEW path \in MtPath, NEW fetched \in 0..mtWrites + 2,
           Write(path, fetched)
    PROVE  /\ mtWrites' \in Nat
           /\ mtDisk' \in [MtPath -> [id : 0..mtWrites', fetched : 0..mtWrites' + 1]
                                     \cup {MtNone}]
           /\ MtRead \subseteq MtRead'
<1>1. mtWrites \in Nat /\ mtWrites' = mtWrites + 1
  BY DEF MtTypes, Write
<1>2. \A n : n \in 0..mtWrites => n \in 0..mtWrites'
  BY <1>1
<1>3. \A n : n \in 0..mtWrites + 1 => n \in 0..mtWrites' + 1
  BY <1>1
<1>4. [id |-> mtWrites + 1, fetched |-> fetched]
      \in [id : 0..mtWrites', fetched : 0..mtWrites' + 1]
  BY <1>1
<1>5. \A x : x \in [id : 0..mtWrites, fetched : 0..mtWrites + 1]
             => x \in [id : 0..mtWrites', fetched : 0..mtWrites' + 1]
  BY <1>2, <1>3
<1>6. mtDisk' \in [MtPath -> [id : 0..mtWrites', fetched : 0..mtWrites' + 1]
                             \cup {MtNone}]
  BY <1>4, <1>5 DEF MtTypes, Write
<1>7. MtRead \subseteq MtRead'
  BY <1>2, <1>3 DEF MtRead
<1>8. QED
  BY <1>1, <1>6, <1>7

\* What a call does to the types, when no write is made.
LEMMA NoWriteTypes ==
    ASSUME MtTypes, mtWrites' = mtWrites
    PROVE  MtRead' = MtRead
  BY DEF MtRead

LEMMA NextMtTypes ==
    ASSUME MtTypes, [MaintenanceNext]_mtVars
    PROVE  MtTypes'
<1> USE DEF MtTypes
<1>1. ASSUME NEW m \in MtJob, MtStart(m) PROVE MtTypes'
  BY <1>1 DEF MtStart, MtRead
<1>2. ASSUME NEW m \in MtJob, MtScan(m) PROVE MtTypes'
  <2>1. PICK path \in mtLeft[m] :
            /\ mtSeen' = [mtSeen EXCEPT ![m] = @ \cup MtObserved(path)]
            /\ mtLeft' = [mtLeft EXCEPT ![m] = @ \ {path}]
    BY <1>2 DEF MtScan
  <2>2. MtObserved(path) \subseteq MtRead
    BY ObservedIs
  <2>3. MtRead' = MtRead
    BY <1>2, NoWriteTypes DEF MtScan
  <2> HIDE DEF MtTypes
  <2>4. mtSeen' \in [MtJob -> SUBSET MtRead]
    BY <2>1, <2>2 DEF MtTypes
  <2>5. mtLeft' \in [MtJob -> SUBSET MtPath]
    BY <2>1 DEF MtTypes
  <2>6. QED
    BY <1>2, <2>3, <2>4, <2>5 DEF MtTypes, MtScan
<1>3. ASSUME NEW m \in MtJob, MtChoose(m) PROVE MtTypes'
  <2>1. Selected(mtRule[m], mtSeen[m]) \cup (mtSeen[m] \ Entries(mtSeen[m]))
        \subseteq mtSeen[m]
    BY DEF Selected, Entries
  <2>2. MtRead' = MtRead
    BY <1>3, NoWriteTypes DEF MtChoose
  <2>3. mtTargets' \in [MtJob -> SUBSET MtRead] /\ mtSeen' \in [MtJob -> SUBSET MtRead]
    BY <1>3, <2>1 DEF MtChoose
  <2>4. QED
    BY <1>3, <2>2, <2>3 DEF MtChoose
<1>4. ASSUME NEW m \in MtJob, MtRemoveHandle(m) PROVE MtTypes'
  <2>1. PICK e \in mtTargets[m] :
            /\ NextTarget(m, e)
            /\ IF Unchanged(e) THEN Delete(e.path) ELSE UNCHANGED mtDisk
            /\ Skip(m, e)
    BY <1>4 DEF MtRemoveHandle
  <2>2. QED
    BY <1>4, <2>1 DEF MtRemoveHandle, Delete, Skip, MtRead
<1>5. ASSUME NEW m \in MtJob, MtCompare(m) PROVE MtTypes'
  BY <1>5 DEF MtCompare, Skip, MtRead
<1>6. ASSUME NEW m \in MtJob, MtUnlink(m) PROVE MtTypes'
  <2>1. mtReplaced' \in BOOLEAN
    BY <1>6 DEF MtUnlink, Replaced
  <2>2. QED
    BY <1>6, <2>1 DEF MtUnlink, Delete, Skip, MtRead
<1>7. ASSUME NEW m \in MtJob, MtRemoveTemp(m) PROVE MtTypes'
  BY <1>7 DEF MtRemoveTemp, Skip, MtRead
<1>8. ASSUME NEW m \in MtJob, MtForget(m) PROVE MtTypes'
  BY <1>8 DEF MtForget, MtRead
<1>9. ASSUME NEW k \in MtKey, MtRefresh(k) PROVE MtTypes'
  <2>1. <<"v2", k>> \in MtPath
    BY DEF MtPath
  <2>2. mtWrites + 2 \in 0..mtWrites + 2
    OBVIOUS
  <2>3. /\ mtWrites' \in Nat
        /\ mtDisk' \in [MtPath -> [id : 0..mtWrites', fetched : 0..mtWrites' + 1]
                                     \cup {MtNone}]
        /\ MtRead \subseteq MtRead'
    BY <1>9, <2>1, <2>2, WriteTypes DEF MtRefresh
  <2>4. QED
    BY <1>9, <2>3 DEF MtRefresh, Write, Disturb, mtCall
<1>10. ASSUME NEW k \in MtLegacy, MtPromote(k) PROVE MtTypes'
  <2>1. <<"v2", k>> \in MtPath /\ <<"v1", k>> \in MtPath
    BY MaintenanceConstants DEF MtPath
  <2>2. mtDisk[<<"v1", k>>].fetched \in 0..mtWrites + 2
    <3>1. mtDisk[<<"v1", k>>] \in [id : 0..mtWrites, fetched : 0..mtWrites + 1]
      BY <1>10, <2>1 DEF MtPromote
    <3>2. QED
      BY <3>1
  <2>3. /\ mtWrites' \in Nat
        /\ mtDisk' \in [MtPath -> [id : 0..mtWrites', fetched : 0..mtWrites' + 1]
                                     \cup {MtNone}]
        /\ MtRead \subseteq MtRead'
    BY <1>10, <2>1, <2>2, WriteTypes DEF MtPromote
  <2>4. QED
    BY <1>10, <2>3 DEF MtPromote, Write, Disturb, mtCall
<1>11. ASSUME NEW k \in MtLegacy, MtDropLegacy(k) PROVE MtTypes'
  BY <1>11 DEF MtDropLegacy, Delete, Disturb, mtCall, MtRead
<1>12. ASSUME NEW k \in MtKey, MtOrphanTemp(k) PROVE MtTypes'
  <2>1. mtWrites' = mtWrites + 1 /\ mtDisk' = mtDisk
    BY <1>12 DEF MtOrphanTemp
  <2>2. 0..mtWrites \subseteq 0..mtWrites' /\ 0..mtWrites + 1 \subseteq 0..mtWrites' + 1
    BY <2>1
  <2>3. MtRead \subseteq MtRead'
    BY <2>2 DEF MtRead
  <2>4. mtDisk' \in [MtPath -> [id : 0..mtWrites', fetched : 0..mtWrites' + 1]
                               \cup {MtNone}]
    <3>1. [id : 0..mtWrites, fetched : 0..mtWrites + 1]
          \subseteq [id : 0..mtWrites', fetched : 0..mtWrites' + 1]
      BY <2>2
    <3>2. QED
      BY <2>1, <3>1
  <2>5. mtTemp' \in [MtPath -> {"none", "young", "stale"}]
    BY <1>12 DEF MtOrphanTemp
  <2>6. QED
    BY <1>12, <2>1, <2>3, <2>4, <2>5 DEF MtOrphanTemp, Disturb, mtCall
<1>13. ASSUME NEW k \in MtKey, MtTempAges(k) PROVE MtTypes'
  BY <1>13 DEF MtTempAges, Disturb, mtCall, MtRead
<1>14. CASE UNCHANGED mtVars
  BY <1>14 DEF mtVars, MtRead
<1>15. QED
  BY <1>1, <1>2, <1>3, <1>4, <1>5, <1>6, <1>7, <1>8, <1>9, <1>10, <1>11, <1>12,
     <1>13, <1>14 DEF MaintenanceNext, MtFinish, MtFail

\* Records of a call: what it has read was there when it read it.
LEMMA NextMtRecords ==
    ASSUME MtTypes, MtRecords, [MaintenanceNext]_mtVars
    PROVE  MtRecords'
<1> DEFINE Agrees(e) == Unchanged(e) => mtDisk[e.path].fetched = e.fetched
           Of(m) == /\ IsFiniteSet(mtSeen[m])
                    /\ mtPc[m] = "idle" => mtRule[m] = "max"
                    /\ \A e \in Entries(mtSeen[m] \cup mtTargets[m]) : Agrees(e)
<1>0. \A m \in MtJob : Of(m)
  BY DEF MtRecords
<1>a. \A m \in MtJob : Entries(mtSeen[m] \cup mtTargets[m]) \subseteq Entries(MtRead)
  BY DEF MtTypes, Entries
\* An entry is deleted, or nothing is.
<1>b. ASSUME NEW e \in Entries(MtRead), Agrees(e),
             mtDisk' = mtDisk \/ \E path \in MtPath : Delete(path)
      PROVE  Agrees(e)'
  BY <1>b, EntriesRanked DEF Delete, Unchanged, MtTypes
<1>c. ASSUME NEW e \in Entries(MtRead), Agrees(e),
             NEW path \in MtPath, NEW fetched \in Nat, Write(path, fetched)
      PROVE  Agrees(e)'
  <2>1. e.id \in 0..mtWrites /\ e.path \in MtPath /\ mtWrites \in Nat
    BY EntriesRanked DEF MtTypes
  <2>2. CASE e.path = path
    <3>1. mtDisk'[e.path] = [id |-> mtWrites + 1, fetched |-> fetched]
      BY <1>c, <2>1, <2>2 DEF Write, MtTypes
    <3>2. ~Unchanged(e)'
      BY <2>1, <3>1 DEF Unchanged
    <3>3. QED
      BY <3>2
  <2>3. CASE e.path # path
    <3>1. mtDisk'[e.path] = mtDisk[e.path]
      BY <1>c, <2>1, <2>3 DEF Write, MtTypes
    <3>2. QED
      BY <1>c, <3>1 DEF Unchanged
  <2>4. QED
    BY <2>2, <2>3
<1> HIDE DEF Agrees
\* Calls that read nothing more.
<1>d. ASSUME \A e \in Entries(MtRead) : Agrees(e) => Agrees(e)',
             \A m \in MtJob :
                /\ mtSeen'[m] = mtSeen[m] \/ mtSeen'[m] = {}
                /\ mtSeen'[m] \cup mtTargets'[m] \subseteq mtSeen[m] \cup mtTargets[m]
                /\ mtPc'[m] = "idle" => mtPc[m] = "idle" /\ mtRule'[m] = mtRule[m]
      PROVE  MtRecords'
  <2>1. SUFFICES ASSUME NEW m \in MtJob PROVE Of(m)'
    BY DEF MtRecords, Agrees
  <2>2. IsFiniteSet(mtSeen'[m])
    BY <1>0, <1>d, FS_EmptySet
  <2>3. mtPc'[m] = "idle" => mtRule'[m] = "max"
    BY <1>0, <1>d
  <2>4. ASSUME NEW e \in Entries(mtSeen'[m] \cup mtTargets'[m]) PROVE Agrees(e)'
    <3>1. e \in Entries(mtSeen[m] \cup mtTargets[m])
      BY <1>d DEF Entries
    <3>2. QED
      BY <3>1, <1>0, <1>a, <1>d
  <2>5. QED
    BY <2>2, <2>3, <2>4
<1>e. mtDisk' = mtDisk \/ (\E path \in MtPath : Delete(path))
      => \A e \in Entries(MtRead) : Agrees(e) => Agrees(e)'
  BY <1>b
<1>1. ASSUME NEW m \in MtJob, MtStart(m) PROVE MtRecords'
  BY <1>1, <1>d, <1>e DEF MtStart, MtTypes
<1>2. ASSUME NEW m \in MtJob, MtScan(m) PROVE MtRecords'
  <2>1. PICK path \in mtLeft[m] :
            mtSeen' = [mtSeen EXCEPT ![m] = @ \cup MtObserved(path)]
    BY <1>2 DEF MtScan
  <2>2. path \in MtPath
    BY DEF MtTypes
  <2>3. SUFFICES ASSUME NEW j \in MtJob PROVE Of(j)'
    BY DEF MtRecords, Agrees
  <2>4. mtPc' = mtPc /\ mtRule' = mtRule /\ mtTargets' = mtTargets /\ mtDisk' = mtDisk
    BY <1>2 DEF MtScan
  <2>5. mtSeen'[j] = mtSeen[j] \/ mtSeen'[j] = mtSeen[j] \cup MtObserved(path)
    BY <2>1 DEF MtTypes
  <2>6. IsFiniteSet(mtSeen'[j])
    BY <1>0, <2>2, <2>5, ObservedIs, FS_Union
  <2>7. ASSUME NEW e \in Entries(mtSeen'[j] \cup mtTargets'[j]) PROVE Agrees(e)'
    <3>1. CASE e \in Entries(mtSeen[j] \cup mtTargets[j])
      BY <3>1, <1>0, <1>a, <1>e, <2>4
    <3>2. CASE e \in Entries(MtObserved(path))
      <4>1. e = EntryAt(path)
        BY <2>2, <3>2, ObservedIs
      <4>2. QED
        BY <2>4, <4>1 DEF EntryAt, Agrees, Unchanged
    <3>3. QED
      BY <2>4, <2>5, <3>1, <3>2 DEF Entries
  <2>8. QED
    BY <1>0, <2>4, <2>6, <2>7
<1>3. ASSUME NEW m \in MtJob, MtChoose(m) PROVE MtRecords'
  <2>1. Selected(mtRule[m], mtSeen[m]) \cup (mtSeen[m] \ Entries(mtSeen[m]))
        \subseteq mtSeen[m]
    BY DEF Selected, Entries
  <2>2. QED
    BY <1>3, <1>d, <1>e, <2>1 DEF MtChoose, MtTypes
<1>4. ASSUME NEW m \in MtJob, MtRemoveHandle(m) PROVE MtRecords'
  <2>1. PICK e \in mtTargets[m] :
            /\ NextTarget(m, e)
            /\ IF Unchanged(e) THEN Delete(e.path) ELSE UNCHANGED mtDisk
            /\ Skip(m, e)
    BY <1>4 DEF MtRemoveHandle
  <2>2. e.path \in MtPath
    BY <2>1, <1>a, EntriesRanked DEF NextTarget, Entries
  <2>3. QED
    BY <1>4, <1>d, <1>e, <2>1, <2>2 DEF MtRemoveHandle, MtTypes, Skip
<1>5. ASSUME NEW m \in MtJob, MtCompare(m) PROVE MtRecords'
  BY <1>5, <1>d, <1>e DEF MtCompare, MtTypes, Skip
<1>6. ASSUME NEW m \in MtJob, MtUnlink(m) PROVE MtRecords'
  <2>1. PICK e \in mtTargets[m] :
            NextTarget(m, e) /\ Delete(e.path) /\ Skip(m, e)
    BY <1>6 DEF MtUnlink
  <2>2. e.path \in MtPath
    BY <2>1, <1>a, EntriesRanked DEF NextTarget, Entries
  <2>3. QED
    BY <1>6, <1>d, <1>e, <2>1, <2>2 DEF MtUnlink, MtTypes, Skip
<1>7. ASSUME NEW m \in MtJob, MtRemoveTemp(m) PROVE MtRecords'
  BY <1>7, <1>d, <1>e DEF MtRemoveTemp, MtTypes, Skip
<1>8. ASSUME NEW m \in MtJob, MtForget(m) PROVE MtRecords'
  BY <1>8, <1>d, <1>e DEF MtForget, MtTypes
<1>9. ASSUME UNCHANGED mtCall, \A e \in Entries(MtRead) : Agrees(e) => Agrees(e)'
      PROVE  MtRecords'
  BY <1>9, <1>d DEF mtCall
<1>10. ASSUME NEW k \in MtKey, MtRefresh(k) PROVE MtRecords'
  <2>1. <<"v2", k>> \in MtPath /\ mtWrites + 2 \in Nat
    BY DEF MtPath, MtTypes
  <2>2. QED
    BY <1>10, <1>9, <1>c, <2>1 DEF MtRefresh
<1>11. ASSUME NEW k \in MtLegacy, MtPromote(k) PROVE MtRecords'
  <2>1. <<"v2", k>> \in MtPath /\ <<"v1", k>> \in Present
    BY <1>11, MaintenanceConstants DEF MtPath, MtPromote, Present
  <2>2. mtDisk[<<"v1", k>>].fetched \in Nat
    BY <2>1, EntriesRanked DEF MtTypes
  <2>3. QED
    BY <1>11, <1>9, <1>c, <2>1, <2>2 DEF MtPromote
<1>12. ASSUME NEW k \in MtLegacy, MtDropLegacy(k) PROVE MtRecords'
  <2>1. <<"v1", k>> \in MtPath
    BY DEF MtPath
  <2>2. QED
    BY <1>12, <1>9, <1>e, <2>1 DEF MtDropLegacy
<1>13. ASSUME NEW k \in MtKey, MtOrphanTemp(k) \/ MtTempAges(k) PROVE MtRecords'
  BY <1>13, <1>9, <1>e DEF MtOrphanTemp, MtTempAges
<1>14. CASE UNCHANGED mtVars
  BY <1>14, <1>9, <1>e DEF mtVars, mtCall
<1>15. QED
  BY <1>1, <1>2, <1>3, <1>4, <1>5, <1>6, <1>7, <1>8, <1>10, <1>11, <1>12, <1>13,
     <1>14 DEF MaintenanceNext, MtFinish, MtFail

\* For whatever is there before a step, it or something that comes before it is
\* there after it.
Higher ==
    \A q \in Present :
        \E r \in Present' :
            \/ r = q /\ mtDisk'[q].fetched = mtDisk[q].fetched
            \/ Precedes(EntryAt(r)', EntryAt(q))

LEMMA SurpassedStays ==
    ASSUME MtTypes, MtTypes', Higher, NEW e, Ranked(e)
    PROVE  /\ Surpassed(e) => Surpassed(e)'
           /\ Matched(e) => Matched(e)' \/ Surpassed(e)'
<1>1. \A q \in Present : Ranked(EntryAt(q))
  BY EntriesRanked
<1>2. \A r \in Present' : Ranked(EntryAt(r)')
  <2>1. ASSUME NEW r \in Present' PROVE Ranked(EntryAt(r)')
    BY DEF Ranked, EntryAt, Present, MtTypes
  <2>2. QED
    BY <2>1
<1>3. ASSUME Surpassed(e) PROVE Surpassed(e)'
  <2>1. PICK q \in Present : Precedes(EntryAt(q), e)
    BY <1>3 DEF Surpassed
  <2>2. PICK r \in Present' :
            \/ r = q /\ mtDisk'[q].fetched = mtDisk[q].fetched
            \/ Precedes(EntryAt(r)', EntryAt(q))
    BY DEF Higher
  <2>3. CASE r = q /\ mtDisk'[q].fetched = mtDisk[q].fetched
    BY <2>1, <2>2, <2>3 DEF Surpassed, Precedes, EntryAt
  <2>4. CASE Precedes(EntryAt(r)', EntryAt(q))
    <3>1. Precedes(EntryAt(r)', e)
      BY <1>1, <1>2, <2>1, <2>2, <2>4, PrecedesOrders
    <3>2. QED
      BY <3>1 DEF Surpassed
  <2>5. QED
    BY <2>2, <2>3, <2>4
<1>4. ASSUME Matched(e) PROVE Matched(e)' \/ Surpassed(e)'
  <2>1. e.path \in Present /\ mtDisk[e.path].fetched = e.fetched
    BY <1>4 DEF Matched
  <2>2. PICK r \in Present' :
            \/ r = e.path /\ mtDisk'[e.path].fetched = mtDisk[e.path].fetched
            \/ Precedes(EntryAt(r)', EntryAt(e.path))
    BY <2>1 DEF Higher
  <2>3. CASE r = e.path /\ mtDisk'[e.path].fetched = mtDisk[e.path].fetched
    BY <2>1, <2>2, <2>3 DEF Matched
  <2>4. CASE Precedes(EntryAt(r)', EntryAt(e.path))
    <3>1. EntryAt(e.path).path = e.path /\ EntryAt(e.path).fetched = e.fetched
      BY <2>1 DEF EntryAt
    <3>2. Precedes(EntryAt(r)', e)
      BY <2>4, <3>1 DEF Precedes
    <3>3. QED
      BY <3>2 DEF Surpassed
  <2>5. QED
    BY <2>2, <2>3, <2>4
<1>5. QED
  BY <1>3, <1>4

\* A removal of what is surpassed, and a write of what surpasses what is there.
LEMMA DeleteHigher ==
    ASSUME MtTypes, NEW path \in MtPath, Delete(path),
           path \in Present => Surpassed(EntryAt(path))
    PROVE  Higher
<1>1. SUFFICES ASSUME NEW q \in Present
               PROVE  \E r \in Present' :
                         \/ r = q /\ mtDisk'[q].fetched = mtDisk[q].fetched
                         \/ Precedes(EntryAt(r)', EntryAt(q))
  BY DEF Higher
<1>2. \A r \in Present : r # path => r \in Present' /\ mtDisk'[r] = mtDisk[r]
  BY DEF Delete, Present, MtTypes
<1>3. CASE q # path
  BY <1>2, <1>3
<1>4. CASE q = path
  <2>1. PICK g \in Present : Precedes(EntryAt(g), EntryAt(q))
    BY <1>4 DEF Surpassed
  <2>2. g # q
    BY <2>1, EntriesRanked, PrecedesOrders
  <2>3. g \in Present' /\ EntryAt(g)' = EntryAt(g)
    BY <1>2, <1>4, <2>2 DEF EntryAt
  <2>4. QED
    BY <2>1, <2>3
<1>5. QED
  BY <1>3, <1>4

LEMMA WriteHigher ==
    ASSUME MtTypes, NEW path \in MtPath, NEW fetched \in Nat, Write(path, fetched),
           path \in Present => mtDisk[path].fetched < fetched
    PROVE  Higher
<1>1. SUFFICES ASSUME NEW q \in Present
               PROVE  \E r \in Present' :
                         \/ r = q /\ mtDisk'[q].fetched = mtDisk[q].fetched
                         \/ Precedes(EntryAt(r)', EntryAt(q))
  BY DEF Higher
<1>2. CASE q # path
  <2>1. mtDisk'[q] = mtDisk[q]
    BY <1>2 DEF Write, MtTypes
  <2>2. q \in Present'
    BY <2>1 DEF Present
  <2>3. QED
    BY <2>1, <2>2
<1>3. CASE q = path
  <2>1. mtDisk'[q] = [id |-> mtWrites + 1, fetched |-> fetched]
    BY <1>3 DEF Write, MtTypes
  <2>2. mtDisk'[q] # MtNone
    BY <2>1, MaintenanceConstants DEF MtTypes
  <2>3. q \in Present'
    BY <2>2 DEF Present
  <2>4. EntryAt(q).fetched = mtDisk[q].fetched /\ EntryAt(q)'.fetched = fetched
    BY <2>1 DEF EntryAt
  <2>5. Precedes(EntryAt(q)', EntryAt(q))
    BY <1>3, <2>4, EntriesRanked DEF Precedes
  <2>6. QED
    BY <2>3, <2>5
<1>4. QED
  BY <1>2, <1>3

\* Of all that prune selects, something else that was seen comes before it.
LEMMA SelectedSurpassed ==
    ASSUME MtTypes, MtRecords, PrunesOnly, NewestKept, NEW m \in MtJob,
           NEW e \in Selected("max", mtSeen[m])
    PROVE  Surpassed(e)
<1>1. e \in Entries(mtSeen[m])
  BY DEF Selected
<1>2. Cardinality({f \in Entries(mtSeen[m]) : Precedes(f, e)}) >= MtBound
  BY DEF Selected
<1>3. {f \in Entries(mtSeen[m]) : Precedes(f, e)} # {}
  BY <1>2, FS_EmptySet, MaintenanceConstants
<1>4. PICK f \in Entries(mtSeen[m]) : Precedes(f, e)
  BY <1>3
<1>5. Ranked(e) /\ Ranked(f)
  <2>1. Entries(mtSeen[m]) \subseteq Entries(MtRead)
    BY DEF MtTypes, Entries
  <2>2. QED
    BY <1>1, <2>1, EntriesRanked
<1>6. Matched(f) \/ Surpassed(f)
  BY DEF NewestKept
<1>7. CASE Matched(f)
  <2>1. f.path \in Present /\ EntryAt(f.path).path = f.path
        /\ EntryAt(f.path).fetched = f.fetched
    BY <1>7 DEF Matched, EntryAt
  <2>2. Precedes(EntryAt(f.path), e)
    BY <1>4, <2>1 DEF Precedes
  <2>3. QED
    BY <2>1, <2>2 DEF Surpassed
<1>8. CASE Surpassed(f)
  <2>1. PICK q \in Present : Precedes(EntryAt(q), f)
    BY <1>8 DEF Surpassed
  <2>2. Precedes(EntryAt(q), e)
    BY <1>4, <1>5, <2>1, EntriesRanked, PrecedesOrders
  <2>3. QED
    BY <2>2 DEF Surpassed
<1>9. QED
  BY <1>6, <1>7, <1>8

\* Steps at which nothing is read or chosen but what is there, or surpassed.
LEMMA NewestFrame ==
    ASSUME MtTypes, MtTypes', NewestKept, Higher,
           \A m \in MtJob :
              /\ \A e \in Entries(mtSeen'[m]) : e \in Entries(mtSeen[m]) \/ Matched(e)
              /\ \A e \in Entries(mtTargets'[m]) :
                    e \in Entries(mtTargets[m]) \/ (Ranked(e) /\ Surpassed(e))
    PROVE  NewestKept'
<1> SUFFICES ASSUME NEW m \in MtJob
             PROVE  /\ \A e \in Entries(mtSeen'[m]) : Matched(e)' \/ Surpassed(e)'
                    /\ \A e \in Entries(mtTargets'[m]) : Surpassed(e)'
  BY DEF NewestKept
<1>1. \A e \in Entries(mtSeen'[m]) \cup Entries(mtTargets'[m]) : Ranked(e)
  BY DEF MtTypes, MtRead, Entries, Ranked
<1>2. ASSUME NEW e \in Entries(mtSeen'[m]) PROVE Matched(e)' \/ Surpassed(e)'
  <2>1. Matched(e) \/ Surpassed(e)
    BY <1>2 DEF NewestKept
  <2>2. QED
    BY <1>1, <2>1, SurpassedStays
<1>3. ASSUME NEW e \in Entries(mtTargets'[m]) PROVE Surpassed(e)'
  <2>1. Surpassed(e)
    BY <1>3 DEF NewestKept
  <2>2. QED
    BY <1>1, <2>1, SurpassedStays
<1>4. QED
  BY <1>2, <1>3

\* What a call removes is surpassed.
LEMMA RemovalHigher ==
    ASSUME MtTypes, MtRecords, NewestKept, NEW m \in MtJob,
           NEW e \in Entries(mtTargets[m]), Unchanged(e), Delete(e.path)
    PROVE  /\ e.path \in Present
           /\ Surpassed(EntryAt(e.path))
           /\ Higher
<1>1. e \in Entries(MtRead) /\ e \in Entries(mtSeen[m] \cup mtTargets[m])
  BY DEF MtTypes, Entries
<1>2. e.path \in Present
  BY <1>1, EntriesRanked DEF Unchanged, Present
<1>3. EntryAt(e.path).path = e.path /\ EntryAt(e.path).fetched = e.fetched
  BY <1>1 DEF MtRecords, EntryAt
<1>4. PICK q \in Present : Precedes(EntryAt(q), e)
  BY DEF NewestKept, Surpassed
<1>5. Precedes(EntryAt(q), EntryAt(e.path))
  BY <1>3, <1>4 DEF Precedes
<1>6. Surpassed(EntryAt(e.path))
  BY <1>5 DEF Surpassed
<1>7. QED
  BY <1>1, <1>2, <1>6, DeleteHigher, EntriesRanked

LEMMA NextNewest ==
    ASSUME MtTypes, MtTypes', MtRecords, NewestStays, [MaintenanceNext]_mtVars
    PROVE  NewestStays'
<1> SUFFICES ASSUME PrunesOnly' PROVE NewestKept'
  BY DEF NewestStays
<1>1. PrunesOnly
  <2>1. ASSUME NEW j \in MtJob PROVE mtRule[j] = "max"
    <3>1. mtRule'[j] = "max"
      BY DEF PrunesOnly
    <3>2. CASE mtRule' = mtRule
      BY <3>1, <3>2
    <3>3. CASE \E m \in MtJob : MtStart(m)
      <4>1. PICK m \in MtJob : MtStart(m)
        BY <3>3
      <4>2. mtRule[m] = "max"
        BY <4>1 DEF MtStart, MtRecords
      <4>3. j # m => mtRule'[j] = mtRule[j]
        BY <4>1 DEF MtStart, MtTypes
      <4>4. QED
        BY <3>1, <4>2, <4>3
    <3>4. QED
      BY <3>2, <3>3 DEF MaintenanceNext, mtVars, mtCall, MtScan, MtChoose,
         MtRemoveHandle, MtCompare, MtUnlink, MtRemoveTemp, MtFinish, MtFail,
         MtForget, MtRefresh, MtPromote, MtDropLegacy, MtOrphanTemp, MtTempAges
  <2>2. ~mtReplaced
    <3>1. ~mtReplaced'
      BY DEF PrunesOnly
    <3>2. mtReplaced => mtReplaced'
      BY DEF MaintenanceNext, mtVars, mtCall, MtStart, MtScan, MtChoose,
         MtRemoveHandle, MtCompare, MtUnlink, MtRemoveTemp, MtFinish, MtFail,
         MtForget, MtRefresh, MtPromote, MtDropLegacy, MtOrphanTemp, MtTempAges
    <3>3. QED
      BY <3>1, <3>2
  <2>3. QED
    BY <2>1, <2>2 DEF PrunesOnly
<1>2. NewestKept
  BY <1>1 DEF NewestStays
<1>3. mtDisk' = mtDisk => Higher
  BY DEF Higher, Present
<1> DEFINE Fewer == \A m \in MtJob :
              /\ mtSeen'[m] \subseteq mtSeen[m]
              /\ mtTargets'[m] \subseteq mtTargets[m]
<1>4. Higher /\ Fewer => NewestKept'
  BY <1>2, NewestFrame DEF Entries
<1>5. ASSUME NEW m \in MtJob, MtStart(m) PROVE NewestKept'
  BY <1>5, <1>3, <1>4 DEF MtStart
<1>6. ASSUME NEW m \in MtJob, MtScan(m) PROVE NewestKept'
  <2>1. PICK path \in mtLeft[m] :
            mtSeen' = [mtSeen EXCEPT ![m] = @ \cup MtObserved(path)]
    BY <1>6 DEF MtScan
  <2>2. path \in MtPath
    BY DEF MtTypes
  <2>3. ASSUME NEW e \in Entries(MtObserved(path)) PROVE Matched(e)
    <3>1. path \in Present /\ e = EntryAt(path)
      BY <2>2, ObservedIs
    <3>2. QED
      BY <3>1, EntriesRanked DEF Matched
  <2>4. ASSUME NEW j \in MtJob, NEW e \in Entries(mtSeen'[j])
        PROVE  e \in Entries(mtSeen[j]) \/ Matched(e)
    BY <2>1, <2>3 DEF Entries, MtTypes
  <2>5. QED
    BY <1>2, <1>3, <1>6, <2>4, NewestFrame DEF MtScan
<1>7. ASSUME NEW m \in MtJob, MtChoose(m) PROVE NewestKept'
  <2>1. mtRule[m] = "max"
    BY <1>1 DEF PrunesOnly
  <2>2. ASSUME NEW j \in MtJob, NEW e \in Entries(mtTargets'[j])
        PROVE  e \in Entries(mtTargets[j]) \/ (Ranked(e) /\ Surpassed(e))
    <3>1. CASE e \in Entries(mtTargets[j])
      BY <3>1
    <3>2. CASE e \notin Entries(mtTargets[j])
      <4>1. j = m /\ e \in Selected("max", mtSeen[m])
        BY <1>7, <2>1, <3>2 DEF MtChoose, MtTypes, Entries
      <4>2. e \in Entries(MtRead)
        BY <4>1 DEF Selected, Entries, MtTypes
      <4>3. QED
        BY <1>1, <1>2, <4>1, <4>2, SelectedSurpassed, EntriesRanked
    <3>3. QED
      BY <3>1, <3>2
  <2>3. \A j \in MtJob : mtSeen'[j] \subseteq mtSeen[j]
    BY <1>7 DEF MtChoose, MtTypes
  <2>4. QED
    BY <1>2, <1>3, <1>7, <2>2, <2>3, NewestFrame DEF MtChoose, Entries
<1>8. ASSUME NEW m \in MtJob, MtRemoveHandle(m) PROVE NewestKept'
  <2>1. PICK e \in mtTargets[m] :
            /\ NextTarget(m, e)
            /\ IF Unchanged(e) THEN Delete(e.path) ELSE UNCHANGED mtDisk
            /\ Skip(m, e)
    BY <1>8 DEF MtRemoveHandle
  <2>2. Higher
    BY <1>2, <1>3, <2>1, RemovalHigher DEF NextTarget
  <2>3. QED
    BY <1>4, <1>8, <2>1, <2>2 DEF MtRemoveHandle, Skip, MtTypes
<1>9. ASSUME NEW m \in MtJob, MtCompare(m) PROVE NewestKept'
  BY <1>9, <1>3, <1>4 DEF MtCompare, Skip, MtTypes
<1>10. ASSUME NEW m \in MtJob, MtUnlink(m) PROVE NewestKept'
  <2>1. PICK e \in mtTargets[m] :
            NextTarget(m, e) /\ Delete(e.path) /\ Skip(m, e)
    BY <1>10 DEF MtUnlink
  <2>2. Unchanged(e)
    BY <1>10, <2>1 DEF MtUnlink, Replaced, PrunesOnly
  <2>3. Higher
    BY <1>2, <2>1, <2>2, RemovalHigher DEF NextTarget
  <2>4. QED
    BY <1>4, <1>10, <2>1, <2>3 DEF MtUnlink, Skip, MtTypes
<1>11. ASSUME NEW m \in MtJob, MtRemoveTemp(m) PROVE NewestKept'
  BY <1>11, <1>3, <1>4 DEF MtRemoveTemp, Skip, MtTypes
<1>12. ASSUME NEW m \in MtJob, MtForget(m) PROVE NewestKept'
  BY <1>12, <1>3, <1>4 DEF MtForget, MtTypes
<1>13. Higher /\ UNCHANGED mtCall => NewestKept'
  BY <1>4 DEF mtCall
<1>14. ASSUME NEW k \in MtKey, MtRefresh(k) PROVE NewestKept'
  <2>1. <<"v2", k>> \in MtPath /\ mtWrites + 2 \in Nat
    BY DEF MtPath, MtTypes
  <2>2. <<"v2", k>> \in Present => mtDisk[<<"v2", k>>].fetched < mtWrites + 2
    BY EntriesRanked DEF MtTypes
  <2>3. QED
    BY <1>13, <1>14, <2>1, <2>2, WriteHigher DEF MtRefresh
<1>15. ASSUME NEW k \in MtLegacy, MtPromote(k) PROVE NewestKept'
  <2>1. <<"v2", k>> \in MtPath /\ <<"v1", k>> \in Present
    BY <1>15, MaintenanceConstants DEF MtPath, MtPromote, Present
  <2>2. mtDisk[<<"v1", k>>].fetched \in Nat
    BY <2>1, EntriesRanked DEF MtTypes
  <2>3. <<"v2", k>> \notin Present
    BY <1>15 DEF MtPromote, Present
  <2>4. QED
    BY <1>13, <1>15, <2>1, <2>2, <2>3, WriteHigher DEF MtPromote
<1>16. ASSUME NEW k \in MtLegacy, MtDropLegacy(k) PROVE NewestKept'
  <2>1. <<"v1", k>> \in Present /\ <<"v2", k>> \in Present /\ <<"v1", k>> \in MtPath
    BY <1>16, MaintenanceConstants DEF MtPath, MtDropLegacy, Present
  <2>2. mtDisk[<<"v1", k>>].fetched <= mtDisk[<<"v2", k>>].fetched
    BY <1>16 DEF MtDropLegacy
  <2>3. Precedes(EntryAt(<<"v2", k>>), EntryAt(<<"v1", k>>))
    BY <2>1, <2>2, EntriesRanked DEF Precedes
  <2>4. Surpassed(EntryAt(<<"v1", k>>))
    BY <2>1, <2>3 DEF Surpassed
  <2>5. QED
    BY <1>13, <1>16, <2>1, <2>4, DeleteHigher DEF MtDropLegacy
<1>17. ASSUME NEW k \in MtKey, MtOrphanTemp(k) \/ MtTempAges(k) PROVE NewestKept'
  BY <1>17, <1>3, <1>13 DEF MtOrphanTemp, MtTempAges
<1>18. CASE UNCHANGED mtVars
  BY <1>18, <1>3, <1>13 DEF mtVars, mtCall
<1>19. QED
  BY <1>5, <1>6, <1>7, <1>8, <1>9, <1>10, <1>11, <1>12, <1>14, <1>15, <1>16,
     <1>17, <1>18 DEF MaintenanceNext, MtFinish, MtFail

\* Something there is as recent as any.
LEMMA SomeRecent ==
    ASSUME MtTypes, Present # {}
    PROVE  \E r \in Present : Recent(mtDisk, r)
<1> DEFINE W == mtWrites + 1
           T == {W - mtDisk[q].fetched : q \in Present}
<1>1. W \in Nat
  BY DEF MtTypes
<1>2. \A q \in Present : mtDisk[q].fetched \in 0..W
  BY EntriesRanked
<1> HIDE DEF W
<1>3. T \in SUBSET Nat /\ T # {}
  BY <1>1, <1>2
<1>4. PICK x \in T : \A y \in T : x <= y
  BY <1>3, LeastNatural
<1>5. PICK r \in Present : x = W - mtDisk[r].fetched
  BY <1>4
<1>6. ASSUME NEW q \in Present PROVE mtDisk[q].fetched <= mtDisk[r].fetched
  <2>1. W - mtDisk[r].fetched <= W - mtDisk[q].fetched
    BY <1>4, <1>5
  <2>2. QED
    BY <1>1, <1>2, <2>1
<1>7. Recent(mtDisk, r)
  BY <1>6 DEF Recent, Present
<1>8. QED
  BY <1>7

\* A removal of what is surpassed leaves something as recent as any.
LEMMA RemovalKeepsRecent ==
    ASSUME MtTypes, MtRecords, NewestKept, NEW m \in MtJob,
           NEW e \in Entries(mtTargets[m]), Unchanged(e), Delete(e.path)
    PROVE  \E path \in MtPath : Recent(mtDisk, path) /\ mtDisk'[path] = mtDisk[path]
<1>1. e.path \in Present /\ Surpassed(EntryAt(e.path))
  BY RemovalHigher
<1>2. PICK q \in Present : Precedes(EntryAt(q), EntryAt(e.path))
  BY <1>1 DEF Surpassed
<1>3. q # e.path /\ mtDisk[e.path].fetched <= mtDisk[q].fetched
  BY <1>1, <1>2, EntriesRanked, PrecedesOrders
<1>4. PICK r \in Present : Recent(mtDisk, r)
  BY <1>1, SomeRecent
<1>5. \A p \in Present : p # e.path => p \in MtPath /\ mtDisk'[p] = mtDisk[p]
  BY DEF Delete, Present, MtTypes
<1>6. CASE r # e.path
  BY <1>4, <1>5, <1>6
<1>7. CASE r = e.path
  <2>1. \A p \in Present : mtDisk[p].fetched \in Nat
    BY EntriesRanked DEF MtTypes
  <2>2. Recent(mtDisk, q)
    BY <1>1, <1>3, <1>4, <1>7, <2>1 DEF Recent, Present
  <2>3. QED
    BY <1>3, <1>5, <2>2
<1>8. QED
  BY <1>6, <1>7

\* The job whose targets change as the entries do is the one that removes.
LEMMA StepKeepsNewest ==
    ASSUME MtTypes, MtRecords, NewestStays, [MaintenanceNext]_mtVars,
           NEW m \in MtJob, mtDisk' # mtDisk, mtTargets'[m] # mtTargets[m],
           \A j \in MtJob : mtRule[j] = "max", ~mtReplaced'
    PROVE  \E path \in MtPath : Recent(mtDisk, path) /\ mtDisk'[path] = mtDisk[path]
<1>1. CASE \E j \in MtJob : MtRemoveHandle(j)
  <2>1. PICK j \in MtJob : MtRemoveHandle(j)
    BY <1>1
  <2>2. ~mtReplaced
    BY <2>1 DEF MtRemoveHandle
  <2>3. NewestKept
    BY <2>2 DEF NewestStays, PrunesOnly
  <2>4. PICK e \in mtTargets[j] :
            /\ NextTarget(j, e)
            /\ IF Unchanged(e) THEN Delete(e.path) ELSE UNCHANGED mtDisk
    BY <2>1 DEF MtRemoveHandle
  <2>5. QED
    BY <2>3, <2>4, RemovalKeepsRecent DEF NextTarget
<1>2. CASE \E j \in MtJob : MtUnlink(j)
  <2>1. PICK j \in MtJob : MtUnlink(j)
    BY <1>2
  <2>2. ~mtReplaced /\ ~Replaced(j)
    BY <2>1 DEF MtUnlink
  <2>3. NewestKept
    BY <2>2 DEF NewestStays, PrunesOnly
  <2>4. PICK e \in mtTargets[j] : NextTarget(j, e) /\ Delete(e.path)
    BY <2>1 DEF MtUnlink
  <2>5. Unchanged(e)
    BY <2>1, <2>2, <2>4 DEF Replaced, MtUnlink
  <2>6. QED
    BY <2>3, <2>4, <2>5, RemovalKeepsRecent DEF NextTarget
<1>3. QED
  BY <1>1, <1>2 DEF MaintenanceNext, mtVars, mtCall, MtStart, MtScan, MtChoose,
     MtCompare, MtRemoveTemp, MtFinish, MtFail, MtForget, MtRefresh, MtPromote,
     MtDropLegacy, MtOrphanTemp, MtTempAges

\* Of entries that are ranked one way or the other and have each fewer than n
\* before them in a finite set there are n at most.
LEMMA FewAreRankedFirst ==
    ASSUME NEW E, IsFiniteSet(E), NEW R \in SUBSET E, NEW n \in Nat \ {0},
           \A e \in E : Ranked(e),
           \A e, f \in R : e # f => e.path # f.path,
           \A e \in R : Cardinality({f \in E : Precedes(f, e)}) < n
    PROVE  IsFiniteSet(R) /\ Cardinality(R) <= n
<1> DEFINE Before(e) == {f \in E : Precedes(f, e)}
           c == [e \in R |-> Cardinality(Before(e))]
<1>1. \A e \in R : IsFiniteSet(Before(e)) /\ Cardinality(Before(e)) \in 0..n - 1
  BY FS_Subset, FS_CardinalityType
<1>2. ASSUME NEW e \in R, NEW f \in R, Precedes(e, f)
      PROVE  Cardinality(Before(e)) < Cardinality(Before(f))
  <2>1. Before(e) \subseteq Before(f)
    BY <1>2, PrecedesOrders
  <2>2. e \in Before(f)
    BY <1>2
  <2>3. e \notin Before(e)
    BY PrecedesOrders DEF Ranked
  <2>4. /\ Cardinality(Before(e)) <= Cardinality(Before(f))
        /\ Cardinality(Before(e)) # Cardinality(Before(f))
    BY <1>1, <2>1, <2>2, <2>3, FS_Subset
  <2> HIDE DEF Before
  <2>5. Cardinality(Before(e)) \in Int /\ Cardinality(Before(f)) \in Int
    BY <1>1
  <2>6. QED
    BY <2>4, <2>5
<1> HIDE DEF Before
<1>3. ASSUME NEW e \in R, NEW f \in R, e # f
      PROVE  Cardinality(Before(e)) # Cardinality(Before(f))
  <2>1. Precedes(e, f) \/ Precedes(f, e)
    BY <1>3, PrecedesOrders
  <2>2. \/ Cardinality(Before(e)) < Cardinality(Before(f))
        \/ Cardinality(Before(f)) < Cardinality(Before(e))
    BY <1>2, <2>1
  <2>3. Cardinality(Before(e)) \in Int /\ Cardinality(Before(f)) \in Int
    BY <1>1
  <2>4. QED
    BY <2>2, <2>3
<1>4. c \in Injection(R, 0..n - 1)
  BY <1>1, <1>3 DEF Injection, IsInjective
<1>5. IsFiniteSet(0..n - 1) /\ Cardinality(0..n - 1) = n
  BY FS_Interval
<1>6. QED
  BY <1>4, <1>5, FS_Injection

\* What prune keeps of all that is there is within its rule.
LEMMA ChosenKeeps ==
    ASSUME MtTypes, MtRecords, NEW m \in MtJob,
           \A path \in Present : EntryAt(path) \in mtSeen[m]
    PROVE  \E kept \in SUBSET MtPath :
              /\ MayKeep(mtRule[m], kept)
              /\ \A path \in Present :
                    path \in kept \/ EntryAt(path) \in Selected(mtRule[m], mtSeen[m])
<1> DEFINE E == Entries(mtSeen[m])
           S == Selected(mtRule[m], mtSeen[m])
           kept == {path \in Present : EntryAt(path) \notin S}
           R == {EntryAt(path) : path \in kept}
<1>1. \A path \in Present : EntryAt(path) \in E
  BY DEF Entries, EntryAt
<1>2. \A e \in E : Ranked(e)
  <2>1. E \subseteq Entries(MtRead)
    BY DEF MtTypes, Entries
  <2>2. QED
    BY <2>1, EntriesRanked
<1>3. IsFiniteSet(E)
  BY FS_Subset DEF MtRecords, Entries
<1>4. kept \in SUBSET MtPath /\ kept \subseteq Present /\ IsFiniteSet(kept)
  BY ListingExists, FS_Subset DEF Present
<1>5. mtRule[m] = "clear" => kept = {}
  BY <1>1 DEF Selected
<1>6. mtRule[m] = "older" =>
          \A path \in kept \cap Present : mtDisk[path].fetched >= MtBound
  BY <1>1, EntriesRanked, MaintenanceConstants DEF Selected, MtTypes
<1>7. ASSUME mtRule[m] = "max" PROVE Cardinality(kept) <= MtBound
  <2>1. R \in SUBSET E
    BY <1>1, <1>4
  <2>2. \A path \in kept : EntryAt(path).path = path
    BY <1>4, EntriesRanked
  <2>3. \A e, f \in R : e # f => e.path # f.path
    BY <2>2
  <2>4. ASSUME NEW e \in R
        PROVE  Cardinality({f \in E : Precedes(f, e)}) < MtBound
    <3>1. e \in E /\ e \notin S
      BY <1>1, <1>4
    <3>2. ~(Cardinality({f \in E : Precedes(f, e)}) >= MtBound)
      BY <1>7, <3>1 DEF Selected
    <3>3. Cardinality({f \in E : Precedes(f, e)}) \in Nat
      BY <1>3, FS_Subset, FS_CardinalityType
    <3>4. QED
      BY <3>2, <3>3, MaintenanceConstants
  <2>5. IsFiniteSet(R) /\ Cardinality(R) <= MtBound
    BY <1>2, <1>3, <2>1, <2>3, <2>4, FewAreRankedFirst, MaintenanceConstants
  <2> DEFINE at == [path \in kept |-> EntryAt(path)]
  <2>6. at \in Injection(kept, R)
    BY <2>2 DEF Injection, IsInjective
  <2>7. Cardinality(kept) <= Cardinality(R)
    BY <2>5, <2>6, FS_Injection
  <2>8. Cardinality(kept) \in Nat /\ Cardinality(R) \in Nat
    BY <1>4, <2>5, FS_CardinalityType
  <2>9. QED
    BY <2>5, <2>7, <2>8, MaintenanceConstants
<1>8. MayKeep(mtRule[m], kept)
  BY <1>4, <1>5, <1>6, <1>7 DEF MayKeep
<1>9. \A path \in Present :
          path \in kept \/ EntryAt(path) \in Selected(mtRule[m], mtSeen[m])
  OBVIOUS
<1> HIDE DEF kept
<1>10. QED
  BY <1>4, <1>8, <1>9

\* Of a call that is not at the step itself: entries go, or nothing does, and
\* no temporary becomes stale.
LEMMA QuietFrame ==
    ASSUME MtTypes, MtRecords, NEW m \in MtJob, QuietCall(m),
           mtPc'[m] = mtPc[m]
              \/ (mtPc[m] \in {"removing", "unlinking"}
                  /\ mtPc'[m] \in {"removing", "unlinking"}),
           mtRule'[m] = mtRule[m], mtLeft'[m] = mtLeft[m], mtSeen'[m] = mtSeen[m],
           \A path \in Present' : path \in Present /\ mtDisk'[path] = mtDisk[path],
           \A path \in MtPath : mtTemp'[path] = "stale" => mtTemp[path] = "stale",
           \A path \in Present' :
              EntryAt(path) \in mtTargets[m] => EntryAt(path) \in mtTargets'[m],
           \A path \in MtPath :
              mtTemp'[path] = "stale" /\ StaleTemp(path) \in mtTargets[m]
                 => StaleTemp(path) \in mtTargets'[m]
    PROVE  QuietCall(m)'
<1>1. \A path \in Present' : EntryAt(path)' = EntryAt(path)
  BY DEF EntryAt
<1>2. ASSUME mtPc'[m] = "scanning"
      PROVE  /\ \A path \in Present' :
                    path \in mtLeft'[m] \/ EntryAt(path)' \in mtSeen'[m]
             /\ \A path \in MtPath :
                    mtTemp'[path] = "stale" =>
                        path \in mtLeft'[m] \/ StaleTemp(path) \in mtSeen'[m]
  <2>1. mtPc[m] = "scanning"
    BY <1>2
  <2>2. QED
    BY <1>1, <2>1 DEF QuietCall
<1>3. ASSUME mtPc'[m] \in {"removing", "unlinking"}
      PROVE  /\ \E kept \in SUBSET MtPath :
                    /\ MayKeep(mtRule[m], kept)'
                    /\ \A path \in Present' :
                          path \in kept \/ EntryAt(path)' \in mtTargets'[m]
             /\ \A path \in MtPath :
                    mtTemp'[path] = "stale" => StaleTemp(path) \in mtTargets'[m]
  <2>1. mtPc[m] \in {"removing", "unlinking"}
    BY <1>3
  <2>2. PICK kept \in SUBSET MtPath :
            /\ MayKeep(mtRule[m], kept)
            /\ \A path \in Present : path \in kept \/ EntryAt(path) \in mtTargets[m]
    BY <2>1 DEF QuietCall
  <2>3. MayKeep(mtRule[m], kept)'
    BY <2>2 DEF MayKeep
  <2>4. \A path \in Present' : path \in kept \/ EntryAt(path)' \in mtTargets'[m]
    BY <1>1, <2>2
  <2>5. \A path \in MtPath :
            mtTemp'[path] = "stale" => StaleTemp(path) \in mtTargets'[m]
    BY <2>1 DEF QuietCall
  <2>6. QED
    BY <2>3, <2>4, <2>5
<1>4. QED
  BY <1>2, <1>3 DEF QuietCall

\* A step of another call, which deletes an entry or a temporary, or neither.
LEMMA OthersQuiet ==
    ASSUME MtTypes, MtRecords, QuietCalls, NEW j \in MtJob,
           mtQuiet' = mtQuiet \/ ~mtQuiet'[j],
           \A m \in MtJob : m # j =>
              /\ mtQuiet'[m] = mtQuiet[m] /\ mtPc'[m] = mtPc[m]
              /\ mtRule'[m] = mtRule[m] /\ mtLeft'[m] = mtLeft[m]
              /\ mtSeen'[m] = mtSeen[m] /\ mtTargets'[m] = mtTargets[m],
           \A path \in Present' : path \in Present /\ mtDisk'[path] = mtDisk[path],
           \A path \in MtPath : mtTemp'[path] = "stale" => mtTemp[path] = "stale",
           mtQuiet'[j] => QuietCall(j)'
    PROVE  QuietCalls'
<1>1. SUFFICES ASSUME NEW m \in MtJob, mtQuiet'[m], m # j PROVE QuietCall(m)'
  BY DEF QuietCalls
<1>2. QuietCall(m)
  BY <1>1 DEF QuietCalls
<1>3. QED
  BY <1>1, <1>2, QuietFrame

LEMMA DeleteKeeps ==
    ASSUME MtTypes, mtDisk' = mtDisk \/ \E path \in MtPath : Delete(path)
    PROVE  \A path \in Present' : path \in Present /\ mtDisk'[path] = mtDisk[path]
  BY DEF Delete, Present, MtTypes

LEMMA NextQuietCalls ==
    ASSUME MtTypes, MtRecords, QuietCalls, [MaintenanceNext]_mtVars
    PROVE  QuietCalls'
<1>0. \A m \in MtJob : mtTargets[m] \subseteq MtRead
                       /\ Entries(mtTargets[m]) \subseteq Entries(MtRead)
  BY DEF MtTypes, Entries
<1>1. ASSUME NEW m \in MtJob, MtStart(m) PROVE QuietCalls'
  <2>1. mtPc'[m] = "scanning" /\ mtDisk' = mtDisk /\ mtTemp' = mtTemp
    BY <1>1 DEF MtStart, MtTypes
  <2>2. mtLeft'[m] = {path \in MtPath : path \in Present \/ mtTemp[path] # "none"}
    BY <1>1 DEF MtStart, MtTypes
  <2>3. QuietCall(m)'
    BY <2>1, <2>2 DEF QuietCall, Present
  <2>4. QED
    <3>1. \A j \in MtJob : j # m =>
              /\ mtQuiet'[j] = mtQuiet[j] /\ mtPc'[j] = mtPc[j]
              /\ mtRule'[j] = mtRule[j] /\ mtLeft'[j] = mtLeft[j]
              /\ mtSeen'[j] = mtSeen[j] /\ mtTargets'[j] = mtTargets[j]
      BY <1>1 DEF MtStart, MtTypes
    <3>2. SUFFICES ASSUME NEW j \in MtJob, mtQuiet'[j], j # m PROVE QuietCall(j)'
      BY <2>3 DEF QuietCalls
    <3>3. QuietCall(j)
      BY <3>1, <3>2 DEF QuietCalls
    <3>4. QED
      BY <2>1, <3>1, <3>2, <3>3, QuietFrame DEF Present
<1>2. ASSUME NEW m \in MtJob, MtScan(m) PROVE QuietCalls'
  <2>1. PICK read \in mtLeft[m] :
            /\ mtSeen' = [mtSeen EXCEPT ![m] = @ \cup MtObserved(read)]
            /\ mtLeft' = [mtLeft EXCEPT ![m] = @ \ {read}]
    BY <1>2 DEF MtScan
  <2>2. read \in MtPath
    BY DEF MtTypes
  <2>3. /\ mtSeen'[m] = mtSeen[m] \cup MtObserved(read)
        /\ mtLeft'[m] = mtLeft[m] \ {read}
    BY <2>1 DEF MtTypes
  <2>4. mtPc[m] = "scanning" /\ mtPc' = mtPc /\ mtDisk' = mtDisk /\ mtTemp' = mtTemp
        /\ mtQuiet' = mtQuiet
    BY <1>2 DEF MtScan
  <2>5. ASSUME QuietCall(m) PROVE QuietCall(m)'
    <3>1. Present' = Present /\ \A path \in MtPath : EntryAt(path)' = EntryAt(path)
      BY <2>4 DEF Present, EntryAt
    <3>2. ASSUME NEW path \in Present
          PROVE  path \in mtLeft'[m] \/ EntryAt(path) \in mtSeen'[m]
      <4>1. path \in mtLeft[m] \/ EntryAt(path) \in mtSeen[m]
        BY <2>4, <2>5 DEF QuietCall
      <4>2. path = read => EntryAt(path) \in MtObserved(read)
        BY <2>2, ObservedIs
      <4>3. QED
        BY <2>3, <4>1, <4>2
    <3>3. ASSUME NEW path \in MtPath, mtTemp[path] = "stale"
          PROVE  path \in mtLeft'[m] \/ StaleTemp(path) \in mtSeen'[m]
      <4>1. path \in mtLeft[m] \/ StaleTemp(path) \in mtSeen[m]
        BY <2>4, <2>5, <3>3 DEF QuietCall
      <4>2. path = read => StaleTemp(path) \in MtObserved(read)
        BY <2>2, <3>3, ObservedIs
      <4>3. QED
        BY <2>3, <4>1, <4>2
    <3>4. \A path \in Present : path \in MtPath
      BY DEF Present
    <3>5. QED
      BY <2>4, <3>1, <3>2, <3>3, <3>4 DEF QuietCall
  <2>6. mtQuiet'[m] => QuietCall(m)'
    BY <2>4, <2>5 DEF QuietCalls
  <2>7. QED
    BY <1>2, <2>1, <2>4, <2>6, OthersQuiet DEF MtScan, MtTypes, Present
<1>3. ASSUME NEW m \in MtJob, MtChoose(m) PROVE QuietCalls'
  <2>1. mtPc[m] = "scanning" /\ mtPc'[m] = "removing" /\ mtLeft[m] = {}
        /\ mtDisk' = mtDisk /\ mtTemp' = mtTemp /\ mtRule' = mtRule
        /\ mtQuiet' = mtQuiet
    BY <1>3 DEF MtChoose, MtTypes
  <2>2. mtTargets'[m] = Selected(mtRule[m], mtSeen[m])
                          \cup (mtSeen[m] \ Entries(mtSeen[m]))
    BY <1>3 DEF MtChoose, MtTypes
  <2>3. Present' = Present /\ \A path \in MtPath : EntryAt(path)' = EntryAt(path)
    BY <2>1 DEF Present, EntryAt
  <2>4. ASSUME QuietCall(m) PROVE QuietCall(m)'
    <3>1. \A path \in Present : EntryAt(path) \in mtSeen[m]
      BY <2>1, <2>4 DEF QuietCall
    <3>2. PICK kept \in SUBSET MtPath :
              /\ MayKeep(mtRule[m], kept)
              /\ \A path \in Present :
                    path \in kept \/ EntryAt(path) \in Selected(mtRule[m], mtSeen[m])
      BY <3>1, ChosenKeeps
    <3>3. MayKeep(mtRule[m], kept)'
      BY <2>1, <2>3, <3>2 DEF MayKeep
    <3>4. \A path \in Present' : path \in kept \/ EntryAt(path)' \in mtTargets'[m]
      BY <2>2, <2>3, <3>2 DEF Present
    <3>5. ASSUME NEW path \in MtPath, mtTemp[path] = "stale"
          PROVE  StaleTemp(path) \in mtTargets'[m]
      <4>1. StaleTemp(path) \in mtSeen[m]
        BY <2>1, <2>4, <3>5 DEF QuietCall
      <4>2. StaleTemp(path) \notin Entries(mtSeen[m])
        BY EntriesRanked DEF Entries
      <4>3. QED
        BY <2>2, <4>1, <4>2
    <3>6. QED
      BY <2>1, <3>3, <3>4, <3>5 DEF QuietCall
  <2>5. mtQuiet'[m] => QuietCall(m)'
    BY <2>1, <2>4 DEF QuietCalls
  <2>6. QED
    BY <1>3, <2>1, <2>5, OthersQuiet DEF MtChoose, MtTypes, Present
\* A target is gone, or was no longer there, once it has been taken out.
<1>a. ASSUME NEW m \in MtJob, NEW e \in Entries(mtTargets[m]), Skip(m, e),
             \/ Delete(e.path)
             \/ ~Unchanged(e) /\ UNCHANGED mtDisk,
             mtTemp' = mtTemp, mtRule' = mtRule, mtLeft' = mtLeft, mtSeen' = mtSeen,
             mtQuiet' = mtQuiet, mtPc[m] \in {"removing", "unlinking"},
             mtPc' = mtPc \/ mtPc' = [mtPc EXCEPT ![m] = "removing"]
      PROVE  QuietCalls'
  <2>1. e.path \in MtPath /\ e \in Entries(MtRead)
    BY <1>0, EntriesRanked
  <2>2. \A path \in Present' : path \in Present /\ mtDisk'[path] = mtDisk[path]
    BY <1>a, <2>1, DeleteKeeps
  <2>3. mtTargets'[m] = mtTargets[m] \ {e}
    BY <1>a DEF Skip, MtTypes
  <2>4. ASSUME NEW path \in Present' PROVE EntryAt(path) # e
    <3>1. SUFFICES ASSUME EntryAt(path) = e PROVE FALSE
      OBVIOUS
    <3>2. e.path = path /\ e.id = mtDisk[path].id
      BY <3>1 DEF EntryAt
    <3>3. Unchanged(e)
      BY <2>2, <3>2 DEF Unchanged, Present
    <3>4. mtDisk'[path] = MtNone
      BY <1>a, <2>1, <3>2, <3>3 DEF Delete, MtTypes
    <3>5. QED
      BY <3>4 DEF Present
  <2>5. \A path \in MtPath : StaleTemp(path) # e
    BY <2>1, EntriesRanked
  <2>6. mtPc'[m] \in {"removing", "unlinking"}
    BY <1>a DEF MtTypes
  <2>7. mtQuiet'[m] => QuietCall(m)'
    <3>1. QuietCall(m) => QuietCall(m)'
      BY <1>a, <2>2, <2>3, <2>4, <2>5, <2>6, QuietFrame
    <3>2. QED
      BY <1>a, <3>1 DEF QuietCalls
  <2>8. QED
    BY <1>a, <2>2, <2>7, OthersQuiet DEF Skip, MtTypes
<1>4. ASSUME NEW m \in MtJob, MtRemoveHandle(m) PROVE QuietCalls'
  <2>1. PICK e \in mtTargets[m] :
            /\ NextTarget(m, e)
            /\ IF Unchanged(e) THEN Delete(e.path) ELSE UNCHANGED mtDisk
            /\ Skip(m, e)
    BY <1>4 DEF MtRemoveHandle
  <2>2. QED
    BY <1>4, <1>a, <2>1 DEF MtRemoveHandle, NextTarget
<1>5. ASSUME NEW m \in MtJob, MtCompare(m) PROVE QuietCalls'
  <2>1. PICK e \in mtTargets[m] :
            /\ NextTarget(m, e)
            /\ IF Unchanged(e)
               THEN mtPc' = [mtPc EXCEPT ![m] = "unlinking"] /\ UNCHANGED mtTargets
               ELSE Skip(m, e) /\ UNCHANGED mtPc
    BY <1>5 DEF MtCompare
  <2>2. CASE ~Unchanged(e)
    BY <1>5, <1>a, <2>1, <2>2 DEF MtCompare, NextTarget
  <2>3. CASE Unchanged(e)
    <3>1. mtPc' = [mtPc EXCEPT ![m] = "unlinking"] /\ mtTargets' = mtTargets
          /\ mtPc[m] = "removing"
      BY <1>5, <2>1, <2>3 DEF MtCompare
    <3>2. mtPc'[m] = "unlinking"
      BY <3>1 DEF MtTypes
    <3>3. UNCHANGED <<mtDisk, mtTemp, mtRule, mtLeft, mtSeen, mtQuiet>>
      BY <1>5 DEF MtCompare
    <3>4. mtQuiet'[m] => QuietCall(m)'
      <4>1. QuietCall(m) => QuietCall(m)'
        BY <3>1, <3>2, <3>3, QuietFrame DEF Present
      <4>2. QED
        BY <3>3, <4>1 DEF QuietCalls
    <3>5. QED
      BY <3>1, <3>3, <3>4, OthersQuiet DEF MtTypes, Present
  <2>4. QED
    BY <2>2, <2>3
<1>6. ASSUME NEW m \in MtJob, MtUnlink(m) PROVE QuietCalls'
  <2>1. PICK e \in mtTargets[m] :
            NextTarget(m, e) /\ Delete(e.path) /\ Skip(m, e)
    BY <1>6 DEF MtUnlink
  <2>2. QED
    BY <1>6, <1>a, <2>1 DEF MtUnlink, NextTarget
<1>7. ASSUME NEW m \in MtJob, MtRemoveTemp(m) PROVE QuietCalls'
  <2>1. PICK e \in mtTargets[m] :
            /\ mtTemp' = [mtTemp EXCEPT ![e.path] = IF @ = "stale" THEN "none" ELSE @]
            /\ Skip(m, e)
    BY <1>7 DEF MtRemoveTemp
  <2>2. mtTargets'[m] = mtTargets[m] \ {e} /\ Entries(mtTargets[m]) = {}
        /\ UNCHANGED <<mtDisk, mtPc, mtRule, mtLeft, mtSeen, mtQuiet>>
        /\ mtPc[m] = "removing"
    BY <1>7, <2>1 DEF MtRemoveTemp, Skip, MtTypes
  <2>3. \A path \in MtPath : mtTemp'[path] = "stale" => mtTemp[path] = "stale"
    BY <2>1 DEF MtTypes
  <2>4. ASSUME NEW path \in MtPath, mtTemp'[path] = "stale" PROVE StaleTemp(path) # e
    BY <2>1, <2>4 DEF StaleTemp, MtTypes
  <2>5. \A path \in Present' : EntryAt(path) \notin mtTargets[m]
    BY <2>2 DEF Entries, EntryAt
  <2>6. mtQuiet'[m] => QuietCall(m)'
    <3>1. QuietCall(m) => QuietCall(m)'
      BY <2>2, <2>3, <2>4, <2>5, QuietFrame DEF Present
    <3>2. QED
      BY <2>2, <3>1 DEF QuietCalls
  <2>7. QED
    BY <2>1, <2>2, <2>3, <2>6, OthersQuiet DEF Skip, MtTypes, Present
<1>8. ASSUME NEW m \in MtJob, MtForget(m) PROVE QuietCalls'
  <2>1. ~mtQuiet'[m]
    BY <1>8 DEF MtForget, MtTypes
  <2>2. QED
    BY <1>8, <2>1, OthersQuiet DEF MtForget, MtTypes, Present
<1>9. Disturb => QuietCalls'
  BY DEF Disturb, QuietCalls
<1>10. CASE UNCHANGED mtVars
  <2>1. SUFFICES ASSUME NEW m \in MtJob, mtQuiet'[m] PROVE QuietCall(m)'
    BY DEF QuietCalls
  <2>2. QuietCall(m)
    BY <1>10, <2>1 DEF QuietCalls, mtVars
  <2>3. QED
    BY <1>10, <2>2, QuietFrame DEF mtVars, Present
<1>11. QED
  BY <1>1, <1>2, <1>3, <1>4, <1>5, <1>6, <1>7, <1>8, <1>9, <1>10
     DEF MaintenanceNext, MtFinish, MtFail, MtRefresh, MtPromote, MtDropLegacy,
     MtOrphanTemp, MtTempAges, Write

\* With nothing left to remove, all that is there is what the rule keeps.
LEMMA MtInvMeetsRule ==
    ASSUME MtInv
    PROVE  UndisturbedMeetsRule
<1>1. SUFFICES ASSUME NEW m \in MtJob, mtPc[m] = "removing", mtTargets[m] = {},
                      mtQuiet[m]
               PROVE  /\ mtRule[m] = "max" => Cardinality(Present) <= MtBound
                      /\ mtRule[m] = "older" =>
                            \A path \in Present : mtDisk[path].fetched >= MtBound
                      /\ mtRule[m] = "clear" => Present = {}
                      /\ \A path \in MtPath : mtTemp[path] # "stale"
  BY DEF UndisturbedMeetsRule
<1>2. QuietCall(m)
  BY <1>1 DEF MtInv, QuietCalls
<1>3. PICK kept \in SUBSET MtPath :
          /\ MayKeep(mtRule[m], kept)
          /\ \A path \in Present : path \in kept \/ EntryAt(path) \in mtTargets[m]
  BY <1>1, <1>2 DEF QuietCall
<1>4. Present \subseteq kept /\ IsFiniteSet(kept)
  BY <1>1, <1>3 DEF MayKeep
<1>5. ASSUME mtRule[m] = "max" PROVE Cardinality(Present) <= MtBound
  <2>1. Cardinality(kept) <= MtBound
    BY <1>3, <1>5 DEF MayKeep
  <2>2. Cardinality(Present) <= Cardinality(kept) /\ IsFiniteSet(Present)
    BY <1>4, FS_Subset
  <2>3. Cardinality(Present) \in Nat /\ Cardinality(kept) \in Nat
    BY <1>4, <2>2, FS_CardinalityType
  <2>4. QED
    BY <2>1, <2>2, <2>3, MaintenanceConstants
<1>6. mtRule[m] = "older" => \A path \in Present : mtDisk[path].fetched >= MtBound
  BY <1>3, <1>4 DEF MayKeep
<1>7. mtRule[m] = "clear" => Present = {}
  BY <1>3, <1>4 DEF MayKeep
<1>8. \A path \in MtPath : mtTemp[path] # "stale"
  BY <1>1, <1>2 DEF QuietCall
<1>9. QED
  BY <1>5, <1>6, <1>7, <1>8

LEMMA NextMtInv ==
    ASSUME MtInv, [MaintenanceNext]_mtVars
    PROVE  MtInv'
<1>1. MtTypes'
  BY NextMtTypes DEF MtInv
<1>2. QED
  BY <1>1, NextMtRecords, NextNewest, NextQuietCalls DEF MtInv

\* prune of cache.rs, beside refreshes, promotions and other prunes: none
\* removes the last of the most recent entries, however stale the scan it goes
\* by, unless an unlink by name hits a replacement.
THEOREM PruneLeavesNewest == MaintenanceSpec => PruneKeepsNewest
<1>1. MtInv /\ [MaintenanceNext]_mtVars
      => [\A m \in MtJob :
             /\ mtPc[m] \in {"removing", "unlinking"} /\ mtDisk' # mtDisk
             /\ mtTargets'[m] # mtTargets[m]
             /\ \A j \in MtJob : mtRule[j] = "max"
             => \/ mtReplaced'
                \/ \E path \in MtPath :
                      Recent(mtDisk, path) /\ mtDisk'[path] = mtDisk[path]]_mtVars
  BY StepKeepsNewest DEF MtInv
<1>2. QED
  BY InitMtInv, NextMtInv, <1>1, PTL DEF MaintenanceSpec, PruneKeepsNewest

\* prune and clear of cache.rs: a call beside which nobody writes leaves what
\* its rule promises.
THEOREM CallMeetsRule == MaintenanceSpec => []UndisturbedMeetsRule
<1>1. MtInv => UndisturbedMeetsRule
  BY MtInvMeetsRule
<1>2. QED
  BY InitMtInv, NextMtInv, <1>1, PTL DEF MaintenanceSpec
=============================================================================
