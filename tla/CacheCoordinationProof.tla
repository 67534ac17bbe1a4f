----------------------- MODULE CacheCoordinationProof -----------------------
(***************************************************************************)
(* What the refresh lease protects, for any calls, processes and old       *)
(* files.                                                                  *)
(*                                                                         *)
(* The argument: the lease is one (OneLease), since a call gets it only    *)
(* when it is free and its blocking task keeps it after a cancellation.    *)
(* Only its holder writes v2.  So what a holder saw there, and that its    *)
(* fetch is later than all it saw, stays true until it writes (Ahead).     *)
(* What it found may go away under it only by the hand of an offline read, *)
(* which quarantines without the lease; without such reads what it found   *)
(* stays (Stays).                                                          *)
(*                                                                         *)
(* A refresh that has its process to itself, with nothing to promote,      *)
(* takes an entry for the work of another only if it differs from the      *)
(* baseline; and an entry that comes after the baseline is newer than all  *)
(* that was there when the refresh was called (Renews).                    *)
(***************************************************************************)
EXTENDS CacheCoordination, SequenceTheorems, TLAPS

\* A task is awaited or was left behind; an offline call only reads; a call
\* with a hit to write or to clean up after has one.
PhaseOf(c) ==
    /\ worker[c] # "none" => pc[c] \in {"awaiting", "returned"}
    /\ worker[c] \in Reading \/ pc[c] = "idle" => hit[c] = None
    /\ worker[c] \in Writing \/ pc[c] = "done" => hit[c] # None
    /\ worker[c] = "write" => hit[c].from # "v2"
    /\ pc[c] = "deciding" /\ hit[c] # None => hit[c].from # "network"
    /\ pc[c] = "awaiting" => worker[c] # "none"
    /\ pc[c] \in {"queued", "leasing"} \cup Leased => InFlight(c)
    /\ pc[c] = "awaiting" /\ PolicyOf[c] # "Offline" => InFlight(c)
    /\ PolicyOf[c] = "Offline" =>
          /\ pc[c] \notin {"queued", "leasing"} \cup Leased \cup Probing
          /\ worker[c] \notin Writing

Phases == \A c \in Call : PhaseOf(c)

OneLease == \A c, d \in Call : HoldsLease(c) /\ HoldsLease(d) => c = d

\* Nothing is newer than the last fetch.
Ages ==
    /\ \A v \in {"v1", "v2"} : file[v] \in Result => file[v] <= fetched
    /\ \A c \in Call : hit[c] # None => hit[c].result <= fetched

\* What a fetch is about to replace is older than it; what a promotion is about
\* to write replaces no entry.
Ahead ==
    \A c \in Call : file["v2"] \in Result =>
        /\ worker[c] = "write" => hit[c].from = "network" /\ file["v2"] < hit[c].result
        /\ pc[c] = "deciding" /\ hit[c] # None => hit[c].from = "v2"
        /\ PolicyOf[c] # "Offline" => worker[c] \notin {"move v2", "read v1", "move v1"}

CoordInv == TypeOK /\ Phases /\ OneLease /\ Ages /\ Ahead

\* No offline read of the key is under way (README, limit 3).
LeasedOnly == \A c \in Call : PolicyOf[c] # "Offline"

\* What the holder of the lease found or wrote is there.
StaysOf(c) ==
    /\ worker[c] = "move v1" => file["v1"] \notin Result
    /\ worker[c] \in {"sync", "legacy"} => file["v2"] \in Result
    /\ pc[c] = "deciding" /\ hit[c] # None /\ hit[c].from = "v2" => file["v2"] \in Result
    /\ worker[c] = "legacy" /\ hit[c].from # "v2" => durable \in Result

Stays == \A c \in Call : StaysOf(c)

\* A refresh shares its process with offline reads at most (README, limit 6),
\* and no v1 entry can be promoted (README, limit 2).
RefreshesAlone ==
    \A c, d \in Call :
        /\ PolicyOf[c] = "Refresh" /\ PolicyOf[d] # "Offline"
        /\ ProcessOf[c] = ProcessOf[d]
        => c = d

NothingToPromote == OldV1 \cap Result = {}

\* What is at v2 and is not the baseline of c came after the call.
Newer(c) ==
    file["v2"] \in Result /\ (baseline[c] = None \/ file["v2"] # baseline[c].result)
        => file["v2"] \notin known[c]

\* The hit of c came after the call.
NewHit(c) == hit[c].result \notin known[c]

\* Nothing at v2 is older than what c knew, and what will be written is newer.
KnownIsOld(c) ==
    \A g \in known[c] :
        /\ g <= fetched
        /\ file["v2"] \in Result => g <= file["v2"]
        /\ \A d \in Call : worker[d] = "write" => g < hit[d].result

\* The flight of c is its own.
OwnFlight(c) ==
    /\ \A i \in DOMAIN line[ProcessOf[c]] : line[ProcessOf[c]][i] = c
    /\ c \notin waited

\* Nothing comes from v1.
NoLegacy ==
    /\ file["v1"] \notin Result
    /\ \A c \in Call : hit[c] # None => hit[c].from # "v1"

\* How a refresh goes on.
CourseOf(c) ==
    /\ pc[c] # "probe legacy"
    /\ pc[c] = "idle" => answer[c] = None /\ ~InFlight(c)
    /\ pc[c] \in {"idle"} \cup Probing /\ ~InFlight(c) => baseline[c] = None
    /\ pc[c] = "probe v1" \/ InFlight(c) => Newer(c)
    /\ pc[c] = "deciding" /\ hit[c] # None /\ Accepts(c, hit[c]) => NewHit(c)
    /\ worker[c] \in Writing \/ pc[c] = "done" => NewHit(c)
    /\ answer[c] \notin known[c]

RenewsOf(c) == OwnFlight(c) /\ KnownIsOld(c) /\ CourseOf(c)

Renews == NoLegacy /\ \A c \in Call : PolicyOf[c] = "Refresh" => RenewsOf(c)

-----------------------------------------------------------------------------
(* The flight                                                              *)

\* Without keeps a sequence one of its elements, and keeps those other than c.
LEMMA WithoutSeq ==
    ASSUME NEW S, NEW s \in Seq(S), NEW c
    PROVE  /\ Without(s, c) \in Seq(S)
           /\ \A i \in DOMAIN Without(s, c) : \E j \in DOMAIN s : Without(s, c)[i] = s[j]
           /\ \A j \in DOMAIN s : s[j] # c =>
                 \E i \in DOMAIN Without(s, c) : Without(s, c)[i] = s[j]
<1>1. CASE ~ \E i \in DOMAIN s : s[i] = c
  BY <1>1 DEF Without
<1>2. CASE \E i \in DOMAIN s : s[i] = c
  <2> DEFINE k == CHOOSE i \in DOMAIN s : s[i] = c
             l == SubSeq(s, 1, k - 1)
             r == SubSeq(s, k + 1, Len(s))
  <2>1. k \in 1 .. Len(s) /\ s[k] = c
    BY <1>2
  <2> HIDE DEF k
  <2>2. /\ l \in Seq(S) /\ Len(l) = k - 1
        /\ \A i \in 1 .. k - 1 : l[i] = s[i]
    BY <2>1
  <2>3. /\ r \in Seq(S) /\ Len(r) = Len(s) - k
        /\ \A i \in 1 .. Len(s) - k : r[i] = s[k + i]
    BY <2>1
  <2>4. Without(s, c) = l \o r
    BY <1>2 DEF Without, RemoveAt, k
  <2> HIDE DEF l, r
  <2>5. l \o r \in Seq(S) /\ DOMAIN (l \o r) = 1 .. Len(s) - 1
    BY <2>1, <2>2, <2>3
  <2>a. ASSUME NEW i \in 1 .. Len(s) - 1
        PROVE  (l \o r)[i] = IF i < k THEN s[i] ELSE s[i + 1]
    <3>1. CASE i < k
      BY <2>1, <2>2, <2>3, <3>1
    <3>2. CASE i >= k
      <4>1. (l \o r)[i] = r[i - (k - 1)]
        BY <2>1, <2>2, <2>3, <3>2
      <4>2. i - (k - 1) \in 1 .. Len(s) - k /\ k + (i - (k - 1)) = i + 1
        BY <2>1, <3>2
      <4>3. r[i - (k - 1)] = s[i + 1]
        BY <2>3, <4>2
      <4>4. QED
        BY <2>1, <3>2, <4>1, <4>3
    <3>3. i < k \/ i >= k
      BY <2>1
    <3>4. QED
      BY <3>1, <3>2, <3>3
  <2>6. ASSUME NEW j \in DOMAIN s, s[j] # c
        PROVE  \E i \in DOMAIN (l \o r) : (l \o r)[i] = s[j]
    <3>1. CASE j < k
      <4>1. j \in DOMAIN (l \o r) /\ (l \o r)[j] = s[j]
        BY <3>1, <2>1, <2>5, <2>a
      <4>2. QED
        BY <4>1
    <3>2. CASE j > k
      <4>1. j - 1 \in DOMAIN (l \o r) /\ (l \o r)[j - 1] = s[j]
        <5>1. j - 1 \in 1 .. Len(s) - 1 /\ ~ (j - 1 < k) /\ (j - 1) + 1 = j
          BY <3>2, <2>1
        <5>2. QED
          BY <5>1, <2>5, <2>a
      <4>2. QED
        BY <4>1
    <3>3. QED
      BY <2>1, <2>6, <3>1, <3>2
  <2>7. ASSUME NEW i \in DOMAIN (l \o r)
        PROVE  \E j \in DOMAIN s : (l \o r)[i] = s[j]
    <3>1. (l \o r)[i] = s[i] \/ (l \o r)[i] = s[i + 1]
      BY <2>5, <2>7, <2>a
    <3>2. i \in DOMAIN s /\ i + 1 \in DOMAIN s
      BY <2>1, <2>5, <2>7
    <3>3. QED
      BY <3>1, <3>2
  <2>8. QED
    BY <2>4, <2>5, <2>6, <2>7
<1>3. QED
  BY <1>1, <1>2

\* A call that leaves the flight changes only its own place in the line.
LEMMA LeaveLine ==
    ASSUME TypeOK, NEW c \in Call, NEW published \in Result \cup {None},
           Leave(c, published)
    PROVE  /\ line' \in [Process -> Seq(Call)]
           /\ waited' \subseteq waited
           /\ shared' \in [Process -> Result \cup {None}]
           /\ \A d \in Call : d # c /\ InFlight(d) => InFlight(d)'
           /\ \A p \in Process : \A i \in DOMAIN line'[p] :
                 \E j \in DOMAIN line[p] : line'[p][i] = line[p][j]
<1>1. ProcessOf \in [Call -> Process]
  BY CoordinationConstants
<1> DEFINE p == ProcessOf[c]
<1>2. /\ p \in Process /\ line[p] \in Seq(Call)
      /\ line' = [line EXCEPT ![p] = Without(line[p], c)]
      /\ waited' \subseteq waited
  BY <1>1 DEF TypeOK, Leave
<1>3. line' \in [Process -> Seq(Call)]
  BY <1>2, WithoutSeq DEF TypeOK
<1>4. shared' \in [Process -> Result \cup {None}]
  BY <1>1 DEF TypeOK, Leave
<1>5. ASSUME NEW d \in Call, d # c, InFlight(d)
      PROVE  InFlight(d)'
  <2>1. PICK j \in DOMAIN line[ProcessOf[d]] : line[ProcessOf[d]][j] = d
    BY <1>5 DEF InFlight
  <2>2. CASE ProcessOf[d] = p
    <3>1. PICK i \in DOMAIN Without(line[p], c) : Without(line[p], c)[i] = d
      <4>1. line[p] \in Seq(Call) /\ j \in DOMAIN line[p] /\ line[p][j] = d /\ d # c
        BY <1>2, <1>5, <2>1, <2>2
      <4> DEFINE s == line[p]
      <4> HIDE DEF s
      <4>2. s \in Seq(Call) /\ j \in DOMAIN s /\ s[j] = d /\ d # c
        BY <4>1 DEF s
      <4>3. \E i \in DOMAIN Without(s, c) : Without(s, c)[i] = s[j]
        BY <4>2, WithoutSeq
      <4>4. QED
        BY <4>2, <4>3 DEF s
    <3>2. QED
      BY <1>2, <2>2, <3>1 DEF InFlight, TypeOK
  <2>3. CASE ProcessOf[d] # p
    BY <1>1, <1>2, <2>1, <2>3 DEF InFlight, TypeOK
  <2>4. QED
    BY <2>2, <2>3
<1>6. ASSUME NEW q \in Process, NEW i \in DOMAIN line'[q]
      PROVE  \E j \in DOMAIN line[q] : line'[q][i] = line[q][j]
  BY <1>2, WithoutSeq DEF TypeOK
<1>7. QED
  BY <1>2, <1>3, <1>4, <1>5, <1>6

\* A call that joins is in the line, and nobody leaves it.
LEMMA JoinLine ==
    ASSUME TypeOK, NEW c \in Call, Join(c)
    PROVE  /\ line' \in [Process -> Seq(Call)]
           /\ waited' \subseteq Call
           /\ \A d \in Call : InFlight(d) => InFlight(d)'
           /\ InFlight(c)'
<1>1. ProcessOf \in [Call -> Process]
  BY CoordinationConstants
<1> DEFINE p == ProcessOf[c]
<1>2. /\ p \in Process /\ line[p] \in Seq(Call)
      /\ line' = [line EXCEPT ![p] = Append(line[p], c)]
      /\ waited' \subseteq Call
  BY <1>1 DEF TypeOK, Join
<1>3. /\ Append(line[p], c) \in Seq(Call)
      /\ DOMAIN Append(line[p], c) = 1 .. Len(line[p]) + 1
      /\ \A j \in DOMAIN line[p] : Append(line[p], c)[j] = line[p][j]
      /\ Append(line[p], c)[Len(line[p]) + 1] = c
  BY <1>2
<1>4. line' \in [Process -> Seq(Call)]
  BY <1>2, <1>3 DEF TypeOK
<1>5. ASSUME NEW d \in Call, InFlight(d)
      PROVE  InFlight(d)'
  <2>1. PICK j \in DOMAIN line[ProcessOf[d]] : line[ProcessOf[d]][j] = d
    BY <1>5 DEF InFlight
  <2>2. CASE ProcessOf[d] = p
    <3>1. j \in DOMAIN Append(line[p], c) /\ Append(line[p], c)[j] = d
      BY <1>2, <1>3, <2>1, <2>2
    <3>2. QED
      BY <1>2, <2>2, <3>1 DEF InFlight, TypeOK
  <2>3. CASE ProcessOf[d] # p
    BY <1>1, <1>2, <2>1, <2>3 DEF InFlight, TypeOK
  <2>4. QED
    BY <2>2, <2>3
<1>6. InFlight(c)'
  <2>1. /\ Len(line[p]) + 1 \in DOMAIN line'[p]
        /\ line'[p][Len(line[p]) + 1] = c
    BY <1>2, <1>3 DEF TypeOK
  <2>2. QED
    BY <2>1 DEF InFlight
<1>7. QED
  BY <1>2, <1>4, <1>5, <1>6

-----------------------------------------------------------------------------
(* Types and phases                                                        *)

\* The part of TypeOK that does not follow from Phases.
Typed ==
    /\ file \in [{"v1", "v2"} -> Content]
    /\ durable \in Content
    /\ pc \in [Call -> PC]
    /\ worker \in [Call -> {"none"} \cup Reading \cup Writing]
    /\ hit \in [Call -> Hit \cup {None}]
    /\ baseline \in [Call -> Hit \cup {None}]
    /\ line \in [Process -> Seq(Call)]
    /\ waited \subseteq Call
    /\ shared \in [Process -> Result \cup {None}]
    /\ fetched \in Result
    /\ known \in [Call -> SUBSET Result]
    /\ answer \in [Call -> Result \cup {None}]

Base == TypeOK /\ Phases

\* What a step of c does to no other call.
Spares(c) ==
    \A d \in Call \ {c} :
        /\ pc'[d] = pc[d] /\ worker'[d] = worker[d] /\ hit'[d] = hit[d]
        /\ baseline'[d] = baseline[d] /\ known'[d] = known[d] /\ answer'[d] = answer[d]
        /\ InFlight(d) => InFlight(d)'

\* To show of a step of c.
StepOf(c) == Typed' /\ Spares(c) /\ PhaseOf(c)'

LEMMA StepOfBase ==
    ASSUME Base, NEW c \in Call, StepOf(c)
    PROVE  Base'
<1>1. ASSUME NEW d \in Call, d # c
      PROVE  PhaseOf(d)'
  BY <1>1 DEF StepOf, Spares, Base, Phases, PhaseOf
<1>2. Phases'
  BY <1>1 DEF StepOf, Phases
<1>3. QED
  <2>1. TypeOK'
    BY <1>2 DEF StepOf, Typed, Phases, PhaseOf, TypeOK, Writing
  <2>2. QED
    BY <1>2, <2>1 DEF Base

LEMMA InitBase == Init => Base
  BY CoordinationConstants DEF Init, Base, TypeOK, Phases, PhaseOf, InFlight, Result,
     Content, PC, Reading, Writing, Leased, Probing

\* A call that returns, with or without an answer.
LEMMA ReturnStep ==
    ASSUME Base, NEW c \in Call,
           NEW result \in Result \cup {None}, NEW published \in Result \cup {None},
           Return(c, result, published), pc[c] # "idle",
           UNCHANGED <<file, durable, worker, fetched, known>>,
           hit' \in [Call -> Hit \cup {None}],
           \A d \in Call \ {c} : hit'[d] = hit[d],
           worker[c] # "none" => hit'[c] = hit[c],
           UNCHANGED baseline
    PROVE  StepOf(c)
<1>1. Leave(c, published) /\ pc' = [pc EXCEPT ![c] = "returned"]
      /\ answer' = [answer EXCEPT ![c] = result]
  BY DEF Return, Goto
<1>2. Typed'
  BY <1>1, LeaveLine DEF Base, TypeOK, Typed, PC
<1>3. Spares(c)
  BY <1>1, LeaveLine DEF Base, TypeOK, Spares
<1>4. PhaseOf(c)'
  BY <1>1 DEF Base, TypeOK, Phases, PhaseOf, Leased, Probing, Reading, Writing
<1>5. QED
  BY <1>2, <1>3, <1>4 DEF StepOf

-----------------------------------------------------------------------------
(* Each step of a call is one of it.                                       *)

LEMMA CalledStep ==
    ASSUME Base, NEW c \in Call, Called(c)
    PROVE  StepOf(c)
<1> DEFINE k == {file[v] : v \in {"v1", "v2"}} \cap Result
<1>1. k \in SUBSET Result /\ known' = [known EXCEPT ![c] = k]
  BY DEF Called
<1> HIDE DEF k
<1>2. /\ PolicyOf[c] = "Offline" => /\ pc' = [pc EXCEPT ![c] = "awaiting"]
                                    /\ worker' = [worker EXCEPT ![c] = "read v2"]
      /\ PolicyOf[c] # "Offline" => /\ pc' = [pc EXCEPT ![c] = "probe v2"]
                                    /\ worker' = worker
      /\ pc[c] = "idle"
      /\ UNCHANGED <<file, durable, hit, baseline, line, waited, shared, fetched, answer>>
  BY DEF Called, Start, Goto, flight
<1>3. Typed'
  BY <1>1, <1>2 DEF Base, TypeOK, Typed, PC, Probing, Reading
<1>4. Spares(c)
  <2>1. ASSUME NEW d \in Call \ {c}
        PROVE  /\ pc'[d] = pc[d] /\ worker'[d] = worker[d] /\ hit'[d] = hit[d]
               /\ baseline'[d] = baseline[d] /\ known'[d] = known[d]
               /\ answer'[d] = answer[d]
    BY <1>1, <1>2 DEF Base, TypeOK
  <2>2. ASSUME NEW d \in Call PROVE InFlight(d)' = InFlight(d)
    BY <1>2 DEF InFlight
  <2>3. QED
    BY <2>1, <2>2 DEF Spares
<1>5. PhaseOf(c)'
  <2>1. worker[c] = "none" /\ hit'[c] = None
    BY <1>2 DEF Base, Phases, PhaseOf
  <2>2. CASE PolicyOf[c] = "Offline"
    <3>1. pc'[c] = "awaiting" /\ worker'[c] = "read v2"
      BY <1>2, <2>2 DEF Base, TypeOK
    <3>2. QED
      BY <2>1, <2>2, <3>1 DEF PhaseOf, Leased, Probing, Reading, Writing
  <2>3. CASE PolicyOf[c] # "Offline"
    <3>1. pc'[c] = "probe v2" /\ worker'[c] = "none"
      BY <1>2, <2>1, <2>3 DEF Base, TypeOK
    <3>2. QED
      BY <2>3, <3>1 DEF PhaseOf, Leased, Reading, Writing
  <2>4. QED
    BY <2>2, <2>3
<1>6. QED
  BY <1>3, <1>4, <1>5 DEF StepOf

\* A probe that looks further: its own place changes, and its hit.
LEMMA LookFurther ==
    ASSUME Base, NEW c \in Call, NEW label \in Probing, NEW h \in Hit \cup {None},
           pc[c] \in Probing, Goto(c, label), See(c, h),
           UNCHANGED <<file, durable, worker, baseline, flight, past, answer>>
    PROVE  StepOf(c)
<1>1. Typed'
  BY DEF Goto, See, flight, past, Base, TypeOK, Typed, PC
<1>2. Spares(c)
  BY DEF Goto, See, flight, past, Base, TypeOK, Spares, InFlight
<1>3. PhaseOf(c)'
  BY DEF Goto, See, Base, TypeOK, Phases, PhaseOf, Leased, Probing, Reading, Writing
<1>4. QED
  BY <1>1, <1>2, <1>3 DEF StepOf

\* A probe has come to an end.
LEMMA ProbedStep ==
    ASSUME Base, NEW c \in Call, NEW h \in Hit \cup {None}, NEW legacy \in BOOLEAN,
           pc[c] \in Probing, Probed(c, h, legacy), hit' = [hit EXCEPT ![c] = h],
           UNCHANGED <<file, durable, worker, past>>
    PROVE  StepOf(c)
<1>1. worker[c] = "none" /\ PolicyOf[c] # "Offline"
  BY DEF Base, Phases, PhaseOf, Probing
<1>2. CASE Settles(c, h, legacy)
  <2>1. Return(c, h.result, shared[ProcessOf[c]]) /\ UNCHANGED baseline
    BY <1>2 DEF Probed
  <2>2. h.result \in Result /\ shared[ProcessOf[c]] \in Result \cup {None}
    BY <1>2, CoordinationConstants DEF Settles, Base, TypeOK, Hit
  <2>3. QED
    BY <1>1, <2>1, <2>2, ReturnStep DEF past, Base, TypeOK, Probing
<1>3. CASE ~Settles(c, h, legacy) /\ InFlight(c)
  <2>1. /\ pc' = [pc EXCEPT ![c] = "leasing"]
        /\ UNCHANGED <<baseline, line, waited, shared, answer>>
    BY <1>3 DEF Probed, Goto, flight
  <2>2. Typed'
    BY <2>1 DEF past, Base, TypeOK, Typed, PC
  <2>3. Spares(c)
    BY <2>1 DEF past, Base, TypeOK, Spares, InFlight
  <2>4. PhaseOf(c)'
    BY <1>1, <1>3, <2>1 DEF Base, TypeOK, PhaseOf, Leased, Probing, Reading, Writing, InFlight
  <2>5. QED
    BY <2>2, <2>3, <2>4 DEF StepOf
<1>4. CASE ~Settles(c, h, legacy) /\ ~InFlight(c)
  <2>1. /\ Join(c) /\ pc' = [pc EXCEPT ![c] = "queued"] /\ shared' = shared
        /\ baseline' = [baseline EXCEPT ![c] = h]
        /\ UNCHANGED answer
    BY <1>4 DEF Probed, Join, Goto
  <2>2. Typed'
    BY <2>1, JoinLine DEF past, Base, TypeOK, Typed, PC
  <2>3. Spares(c)
    BY <2>1, JoinLine DEF past, Base, TypeOK, Spares
  <2>4. PhaseOf(c)'
    BY <1>1, <2>1, JoinLine DEF Base, TypeOK, PhaseOf, Leased, Probing, Reading, Writing
  <2>5. QED
    BY <2>2, <2>3, <2>4 DEF StepOf
<1>5. QED
  BY <1>2, <1>3, <1>4

LEMMA ProbeStep ==
    ASSUME Base, NEW c \in Call, ProbeV2(c) \/ ProbeV1(c) \/ ProbeLegacy(c)
    PROVE  StepOf(c)
<1>1. CASE ProbeV2(c)
  <2> DEFINE h == [result |-> file["v2"], from |-> "v2"]
  <2>1. file["v2"] \in Result => h \in Hit
    BY DEF Hit
  <2> HIDE DEF h
  <2>2. \/ /\ file["v2"] \notin Result /\ Goto(c, "probe v1") /\ See(c, None)
           /\ UNCHANGED <<baseline, flight, answer>>
        \/ /\ file["v2"] \in Result /\ Goto(c, "probe legacy") /\ See(c, h)
           /\ UNCHANGED <<baseline, flight, answer>>
        \/ /\ file["v2"] \in Result /\ Probed(c, h, FALSE) /\ See(c, h)
    BY <1>1 DEF ProbeV2, h
  <2>3. pc[c] \in Probing /\ UNCHANGED <<file, durable, worker, past>>
    BY <1>1 DEF ProbeV2, Probing
  <2>4. CASE file["v2"] \in Result /\ Probed(c, h, FALSE) /\ See(c, h)
    BY <2>1, <2>3, <2>4, ProbedStep DEF See
  <2>5. QED
    BY <2>1, <2>2, <2>3, <2>4, LookFurther DEF Probing
<1>2. CASE ProbeV1(c)
  <2> DEFINE h == IF file["v1"] \in Result
                  THEN [result |-> file["v1"], from |-> "v1"] ELSE None
  <2>1. h \in Hit \cup {None}
    BY DEF Hit
  <2>2. Probed(c, h, FALSE) /\ See(c, h)
    BY <1>2 DEF ProbeV1
  <2> HIDE DEF h
  <2>3. pc[c] \in Probing /\ UNCHANGED <<file, durable, worker, past>>
    BY <1>2 DEF ProbeV1, Probing
  <2>4. QED
    BY <2>1, <2>2, <2>3, ProbedStep DEF See
<1>3. CASE ProbeLegacy(c)
  <2>1. hit[c] \in Hit \cup {None} /\ hit' = [hit EXCEPT ![c] = hit[c]]
    BY <1>3 DEF ProbeLegacy, Base, TypeOK
  <2>2. PICK legacy \in BOOLEAN : Probed(c, hit[c], legacy)
    BY <1>3 DEF ProbeLegacy
  <2>3. pc[c] \in Probing /\ UNCHANGED <<file, durable, worker, past>>
    BY <1>3 DEF ProbeLegacy, Probing
  <2>4. QED
    BY <2>1, <2>2, <2>3, ProbedStep
<1>4. QED
  BY <1>1, <1>2, <1>3

LEMMA EnterStep ==
    ASSUME Base, NEW c \in Call, Enter(c)
    PROVE  StepOf(c)
<1> DEFINE p == ProcessOf[c]
<1>1. p \in Process /\ shared[p] \in Result \cup {None} /\ pc[c] = "queued"
  BY CoordinationConstants DEF Base, TypeOK, Enter
<1>2. UNCHANGED <<file, durable, worker, hit, baseline, fetched, known>>
  BY DEF Enter, past
<1>3. CASE Return(c, shared[p], shared[p])
  BY <1>1, <1>2, <1>3, ReturnStep DEF Base, TypeOK
<1>4. CASE /\ shared' = [shared EXCEPT ![p] = None]
           /\ pc' = [pc EXCEPT ![c] = "leasing"]
           /\ UNCHANGED <<line, waited, answer>>
  <2>1. Typed'
    BY <1>1, <1>2, <1>4 DEF Base, TypeOK, Typed, PC
  <2>2. Spares(c)
    BY <1>2, <1>4 DEF Base, TypeOK, Spares, InFlight
  <2>3. PhaseOf(c)'
    <3>1. worker'[c] = "none" /\ pc'[c] = "leasing" /\ PolicyOf[c] # "Offline"
      BY <1>1, <1>2, <1>4 DEF Base, TypeOK, Phases, PhaseOf
    <3>2. InFlight(c)'
      BY <1>1, <1>4 DEF Base, Phases, PhaseOf, InFlight
    <3>3. QED
      BY <3>1, <3>2 DEF PhaseOf, Leased, Probing, Reading, Writing
  <2>4. QED
    BY <2>1, <2>2, <2>3 DEF StepOf
<1>5. QED
  BY <1>3, <1>4 DEF Enter, Goto

LEMMA EndStep ==
    ASSUME Base, NEW c \in Call, Reply(c) \/ Fail(c) \/ Stop(c)
    PROVE  StepOf(c)
<1>1. shared[ProcessOf[c]] \in Result \cup {None}
  BY CoordinationConstants DEF Base, TypeOK
<1>2. pc[c] = "done" => hit[c] \in Hit /\ hit[c].result \in Result
  BY DEF Base, TypeOK, Phases, PhaseOf, Hit
<1>3. UNCHANGED <<file, durable, worker, hit, baseline, fetched, known>> /\ pc[c] # "idle"
  BY DEF Reply, Fail, Stop, past, Leased, Probing
<1>4. \E result \in Result \cup {None}, published \in Result \cup {None} :
         Return(c, result, published)
  <2>1. CASE Reply(c)
    BY <1>1, <1>2, <2>1 DEF Reply
  <2>2. CASE Fail(c) \/ Stop(c)
    BY <1>1, <2>2 DEF Fail, Stop
  <2>3. QED
    BY <2>1, <2>2
<1>5. QED
  BY <1>3, <1>4, ReturnStep DEF Base, TypeOK

\* Work under the lease, or of a task: c moves on, the flight stays.
LEMMA WorkStep ==
    ASSUME Base, NEW c \in Call,
           NEW label \in PC, NEW phase \in {"none"} \cup Reading \cup Writing,
           NEW h \in Hit \cup {None},
           pc' = [pc EXCEPT ![c] = label], worker' = [worker EXCEPT ![c] = phase],
           hit' = [hit EXCEPT ![c] = h],
           file' \in [{"v1", "v2"} -> Content], durable' \in Content, fetched' \in Result,
           UNCHANGED <<baseline, flight, known, answer>>,
           PhaseOf(c)'
    PROVE  StepOf(c)
<1>1. Typed'
  BY DEF flight, Base, TypeOK, Typed
<1>2. Spares(c)
  BY DEF flight, Base, TypeOK, Spares, InFlight
<1>3. QED
  BY <1>1, <1>2 DEF StepOf

\* The same of a task that goes on ...
LEMMA ProceedStep ==
    ASSUME Base, NEW c \in Call,
           NEW phase \in (Reading \cup Writing) \ {"write"}, Proceed(c, phase), hit' = hit,
           worker[c] # "none",
           phase \in Reading => hit[c] = None,
           phase \in Writing => PolicyOf[c] # "Offline" /\ hit[c] # None,
           file' \in [{"v1", "v2"} -> Content], durable' \in Content, fetched' = fetched,
           UNCHANGED <<baseline, flight, known, answer>>
    PROVE  StepOf(c)
<1>1. pc[c] \in {"awaiting", "returned"} /\ pc[c] \in PC /\ hit[c] \in Hit \cup {None}
  BY DEF Base, TypeOK, Phases, PhaseOf
<1>2. InFlight(c)' = InFlight(c)
  BY DEF InFlight, flight
<1>3. /\ pc' = [pc EXCEPT ![c] = pc[c]] /\ worker' = [worker EXCEPT ![c] = phase]
      /\ hit' = [hit EXCEPT ![c] = hit[c]]
  BY DEF Proceed, Base, TypeOK
<1>4. pc'[c] = pc[c] /\ worker'[c] = phase /\ hit'[c] = hit[c]
  BY <1>3 DEF Base, TypeOK
<1>5. PhaseOf(c)'
  BY <1>1, <1>2, <1>4 DEF Base, Phases, PhaseOf, Leased, Probing, Reading, Writing
<1>6. QED
  BY <1>1, <1>3, <1>5, WorkStep DEF Base, TypeOK

\* ... or ends.
LEMMA FinishStep ==
    ASSUME Base, NEW c \in Call,
           NEW label \in {"deciding", "done", "failed"}, Finish(c, label),
           NEW h \in Hit \cup {None}, hit' = [hit EXCEPT ![c] = h],
           worker[c] # "none",
           label = "done" => h # None,
           label = "deciding" => PolicyOf[c] # "Offline" /\ (h # None => h.from # "network"),
           file' \in [{"v1", "v2"} -> Content], durable' \in Content, fetched' = fetched,
           UNCHANGED <<baseline, flight, known, answer>>
    PROVE  StepOf(c)
<1>1. pc[c] \in {"awaiting", "returned"} /\ pc[c] \in PC /\ hit'[c] = h
  BY DEF Base, TypeOK, Phases, PhaseOf
<1>2. InFlight(c)' = InFlight(c)
  BY DEF InFlight, flight
<1> DEFINE l == IF pc[c] = "awaiting" THEN label ELSE pc[c]
<1>3. pc' = [pc EXCEPT ![c] = l] /\ worker' = [worker EXCEPT ![c] = "none"]
  BY DEF Finish, Base, TypeOK
<1>4. pc'[c] = l /\ worker'[c] = "none"
  BY <1>3 DEF Base, TypeOK
<1>5. l \in PC
  BY <1>1 DEF PC, Leased
<1>6. PhaseOf(c)'
  BY <1>1, <1>2, <1>4 DEF Base, Phases, PhaseOf, Leased, Probing, Reading, Writing
<1>7. QED
  BY <1>3, <1>5, <1>6, WorkStep DEF Base, TypeOK

LEMMA LeaseStep ==
    ASSUME Base, NEW c \in Call, Lease(c) \/ LeaseBusy(c)
    PROVE  StepOf(c)
<1>1. /\ pc[c] = "leasing" /\ worker[c] = "none" /\ PolicyOf[c] # "Offline"
      /\ InFlight(c) /\ InFlight(c)'
      /\ UNCHANGED <<file, durable, baseline, flight, fetched, known, answer>>
  <2>1. /\ pc[c] = "leasing"
        /\ UNCHANGED <<file, durable, baseline, flight, fetched, known, answer>>
    BY DEF Lease, LeaseBusy, past
  <2>2. worker[c] = "none" /\ PolicyOf[c] # "Offline" /\ InFlight(c)
    BY <2>1 DEF Base, Phases, PhaseOf
  <2>3. InFlight(c)'
    BY <2>1, <2>2 DEF InFlight, flight
  <2>4. QED
    BY <2>1, <2>2, <2>3
<1>2. CASE Lease(c)
  <2>1. /\ pc' = [pc EXCEPT ![c] = "awaiting"] /\ worker' = [worker EXCEPT ![c] = "read v2"]
        /\ hit' = [hit EXCEPT ![c] = None]
    BY <1>2 DEF Lease, Start, Goto, See
  <2>2. pc'[c] = "awaiting" /\ worker'[c] = "read v2" /\ hit'[c] = None
    BY <2>1 DEF Base, TypeOK
  <2>3. PhaseOf(c)'
    BY <1>1, <2>2 DEF PhaseOf, Leased, Probing, Reading, Writing
  <2>4. QED
    BY <1>1, <2>1, <2>3, WorkStep DEF Base, TypeOK, PC, Reading
<1>3. CASE LeaseBusy(c)
  <2>1. /\ pc' = [pc EXCEPT ![c] = "probe v2"] /\ worker' = [worker EXCEPT ![c] = "none"]
        /\ hit' = [hit EXCEPT ![c] = hit[c]]
    BY <1>1, <1>3 DEF LeaseBusy, Goto, Base, TypeOK
  <2>2. pc'[c] = "probe v2" /\ worker'[c] = "none"
    BY <2>1 DEF Base, TypeOK
  <2>3. PhaseOf(c)'
    BY <1>1, <2>2 DEF PhaseOf, Leased, Probing, Reading, Writing
  <2>4. "probe v2" \in PC /\ hit[c] \in Hit \cup {None}
    BY DEF PC, Probing, Base, TypeOK
  <2>5. QED
    BY <1>1, <2>1, <2>3, <2>4, WorkStep DEF Base, TypeOK
<1>4. QED
  BY <1>2, <1>3

LEMMA DecideStep ==
    ASSUME Base, NEW c \in Call, Decide(c)
    PROVE  StepOf(c)
<1>1. /\ pc[c] = "deciding" /\ worker[c] = "none" /\ PolicyOf[c] # "Offline"
      /\ InFlight(c) /\ InFlight(c)'
      /\ hit[c] \in Hit \cup {None} /\ hit[c] # None => hit[c].from \in {"v1", "v2"}
      /\ UNCHANGED <<file, durable, hit, baseline, flight, fetched, known, answer>>
  BY DEF Decide, past, flight, InFlight, Base, TypeOK, Hit, Phases, PhaseOf, Leased
<1>2. hit' = [hit EXCEPT ![c] = hit[c]]
  BY <1>1 DEF Base, TypeOK
<1>3. ASSUME hit[c] # None, NEW phase \in {"write", "legacy"}, Start(c, phase),
             phase = "write" => hit[c].from = "v1"
      PROVE  StepOf(c)
  <2>1. pc' = [pc EXCEPT ![c] = "awaiting"] /\ worker' = [worker EXCEPT ![c] = phase]
    BY <1>3 DEF Start, Goto
  <2>2. pc'[c] = "awaiting" /\ worker'[c] = phase /\ hit'[c] = hit[c]
    BY <1>1, <2>1 DEF Base, TypeOK
  <2>3. PhaseOf(c)'
    BY <1>1, <1>3, <2>2 DEF PhaseOf, Leased, Probing, Reading, Writing
  <2>4. QED
    BY <1>1, <1>2, <2>1, <2>3, WorkStep DEF Base, TypeOK, PC, Writing
<1>4. ASSUME Goto(c, "fetching"), worker' = worker
      PROVE  StepOf(c)
  <2>1. pc' = [pc EXCEPT ![c] = "fetching"] /\ worker' = [worker EXCEPT ![c] = "none"]
    BY <1>1, <1>4 DEF Goto, Base, TypeOK
  <2>2. pc'[c] = "fetching" /\ worker'[c] = "none"
    BY <2>1 DEF Base, TypeOK
  <2>3. PhaseOf(c)'
    BY <1>1, <2>2 DEF PhaseOf, Leased, Probing, Reading, Writing
  <2>4. QED
    BY <1>1, <1>2, <2>1, <2>3, WorkStep DEF Base, TypeOK, PC, Leased
<1>5. QED
  BY <1>3, <1>4 DEF Decide

LEMMA FetchStep ==
    ASSUME Base, NEW c \in Call, Fetch(c) \/ FetchSkipped(c) \/ FetchFails(c)
    PROVE  StepOf(c)
<1>1. /\ pc[c] = "fetching" /\ worker[c] = "none" /\ PolicyOf[c] # "Offline"
      /\ InFlight(c) /\ InFlight(c)'
      /\ UNCHANGED <<file, durable, baseline, flight, known, answer>>
  BY DEF Fetch, FetchSkipped, FetchFails, past, flight, InFlight, Base, Phases, PhaseOf, Leased
<1> DEFINE h == [result |-> fetched + 1, from |-> "network"]
<1>2. fetched < MaxFetch => fetched + 1 \in Result /\ h \in Hit /\ h.from = "network" /\ h # None
  BY CoordinationConstants, CoordinationNone DEF Base, TypeOK, Result, Hit
<1> HIDE DEF h
<1>3. CASE Fetch(c)
  <2>1. /\ pc' = [pc EXCEPT ![c] = "awaiting"] /\ worker' = [worker EXCEPT ![c] = "write"]
        /\ hit' = [hit EXCEPT ![c] = h] /\ fetched' = fetched + 1 /\ fetched < MaxFetch
    BY <1>3 DEF Fetch, Start, Goto, See, h
  <2>2. pc'[c] = "awaiting" /\ worker'[c] = "write" /\ hit'[c] = h
    BY <2>1 DEF Base, TypeOK
  <2>3. PhaseOf(c)'
    BY <1>1, <1>2, <2>1, <2>2 DEF PhaseOf, Leased, Probing, Reading, Writing
  <2>4. QED
    BY <1>1, <1>2, <2>1, <2>3, WorkStep DEF Base, TypeOK, PC, Writing
<1>4. CASE FetchSkipped(c)
  <2>1. /\ pc' = [pc EXCEPT ![c] = "done"] /\ worker' = [worker EXCEPT ![c] = "none"]
        /\ hit' = [hit EXCEPT ![c] = h] /\ fetched' = fetched + 1 /\ fetched < MaxFetch
    BY <1>1, <1>4 DEF FetchSkipped, Goto, See, h, Base, TypeOK
  <2>2. pc'[c] = "done" /\ worker'[c] = "none" /\ hit'[c] = h
    BY <2>1 DEF Base, TypeOK
  <2>3. PhaseOf(c)'
    BY <1>1, <1>2, <2>1, <2>2 DEF PhaseOf, Leased, Probing, Reading, Writing
  <2>4. QED
    BY <1>1, <1>2, <2>1, <2>3, WorkStep DEF Base, TypeOK, PC
<1>5. CASE FetchFails(c)
  <2>1. /\ pc' = [pc EXCEPT ![c] = "failed"] /\ worker' = [worker EXCEPT ![c] = "none"]
        /\ hit' = [hit EXCEPT ![c] = hit[c]] /\ fetched' = fetched
    BY <1>1, <1>5 DEF FetchFails, Goto, past, Base, TypeOK
  <2>2. pc'[c] = "failed" /\ worker'[c] = "none"
    BY <2>1 DEF Base, TypeOK
  <2>3. PhaseOf(c)'
    BY <1>1, <2>2 DEF PhaseOf, Leased, Probing, Reading, Writing
  <2>4. QED
    BY <1>1, <2>1, <2>3, WorkStep DEF Base, TypeOK, PC
<1>6. QED
  BY <1>3, <1>4, <1>5

LEMMA TaskBase ==
    ASSUME Base, NEW c \in Call, Task(c)
    PROVE  StepOf(c)
<1> USE DEF Base, TypeOK
<1>1. /\ hit[c] \in Hit \cup {None} /\ hit = [hit EXCEPT ![c] = hit[c]]
      /\ UNCHANGED <<baseline, flight, known, answer>> /\ worker[c] # "none"
      /\ PhaseOf(c)
  BY DEF Phases, Task, ReadV2, MoveV2, ReadV1, MoveV1, Write, WriteFails, Sync, SyncFails,
     DropLegacy, DropFails, past
<1>2. CASE ReadV2(c)
  <2> DEFINE h == [result |-> file["v2"], from |-> "v2"]
  <2>1. file["v2"] \in Result => h \in Hit /\ h # None /\ h.from = "v2"
    BY CoordinationNone DEF Hit
  <2> HIDE DEF h
  <2>2. /\ UNCHANGED <<file, durable, fetched>> /\ hit[c] = None
        /\ \/ /\ file["v2"] \in Result /\ hit' = [hit EXCEPT ![c] = h]
              /\ Finish(c, IF PolicyOf[c] = "Offline" THEN "done" ELSE "deciding")
           \/ Proceed(c, "move v2") /\ hit' = hit
           \/ Proceed(c, "read v1") /\ hit' = hit
    BY <1>1, <1>2 DEF ReadV2, See, past, PhaseOf, Reading, h
  <2>3. QED
    BY <1>1, <2>1, <2>2, ProceedStep, FinishStep DEF Reading, Writing
<1>3. CASE MoveV2(c)
  <2>1. /\ file' \in [{"v1", "v2"} -> Content] /\ durable' \in Content
        /\ fetched' = fetched /\ hit' = hit /\ hit[c] = None /\ Proceed(c, "read v1")
    <3>1. worker[c] = "move v2" /\ fetched' = fetched /\ hit' = hit /\ Proceed(c, "read v1")
      BY <1>3 DEF MoveV2, past
    <3>2. file' \in [{"v1", "v2"} -> Content] /\ durable' \in Content
      BY <1>3 DEF MoveV2, Content
    <3>3. hit[c] = None
      BY <1>1, <3>1 DEF PhaseOf, Reading
    <3>4. QED
      BY <3>1, <3>2, <3>3
  <2>2. QED
    BY <1>1, <2>1, ProceedStep DEF Reading, Writing
<1>4. CASE ReadV1(c)
  <2> DEFINE h == [result |-> file["v1"], from |-> "v1"]
  <2>1. file["v1"] \in Result => h \in Hit /\ h # None /\ h.from = "v1"
    BY CoordinationNone DEF Hit
  <2>2. None \notin Result /\ Corrupt \notin Result
    BY CoordinationNone
  <2> HIDE DEF h
  <2>3. /\ UNCHANGED <<file, durable, fetched>> /\ hit[c] = None
        /\ \/ /\ file["v1"] \in Result /\ hit' = [hit EXCEPT ![c] = h]
              /\ Finish(c, IF PolicyOf[c] # "Offline" THEN "deciding" ELSE "done")
           \/ Proceed(c, "move v1") /\ hit' = hit
           \/ /\ Finish(c, IF PolicyOf[c] # "Offline" THEN "deciding" ELSE "failed")
              /\ hit' = hit
    BY <1>1, <1>4, <2>2 DEF ReadV1, See, past, PhaseOf, Reading, h
  <2>4. QED
    BY <1>1, <2>1, <2>3, ProceedStep, FinishStep DEF Reading, Writing
<1>5. CASE MoveV1(c)
  <2>1. /\ file' \in [{"v1", "v2"} -> Content] /\ durable' = durable
        /\ fetched' = fetched /\ hit' = hit /\ hit[c] = None
        /\ Finish(c, IF PolicyOf[c] = "Offline" THEN "failed" ELSE "deciding")
    BY <1>1, <1>5 DEF MoveV1, past, Content, PhaseOf, Reading
  <2>2. QED
    BY <1>1, <2>1, FinishStep DEF Reading, Writing
<1>6. CASE Write(c)
  <2>1. hit[c] # None /\ hit[c].result \in Content /\ PolicyOf[c] # "Offline"
    BY <1>1, <1>6 DEF Write, PhaseOf, Writing, Hit, Content
  <2>2. /\ file' \in [{"v1", "v2"} -> Content] /\ durable' = durable
        /\ fetched' = fetched /\ hit' = hit /\ Proceed(c, "sync")
    BY <1>6, <2>1 DEF Write, past
  <2>3. QED
    BY <1>1, <2>1, <2>2, ProceedStep DEF Reading, Writing
<1>7. CASE WriteFails(c) \/ DropFails(c)
  <2>1. /\ UNCHANGED <<file, durable, fetched>> /\ hit' = hit /\ Finish(c, "failed")
        /\ hit[c] # None /\ PolicyOf[c] # "Offline"
    BY <1>1, <1>7 DEF WriteFails, DropFails, past, PhaseOf, Writing
  <2>2. QED
    BY <1>1, <2>1, FinishStep DEF Reading, Writing
<1>8. CASE Sync(c)
  <2>1. /\ UNCHANGED <<file, fetched>> /\ durable' \in Content /\ hit' = hit
        /\ Proceed(c, "legacy") /\ hit[c] # None /\ PolicyOf[c] # "Offline"
    BY <1>1, <1>8 DEF Sync, past, PhaseOf, Writing
  <2>2. QED
    BY <1>1, <2>1, ProceedStep DEF Reading, Writing
<1>9. CASE SyncFails(c)
  <2>1. /\ UNCHANGED <<file, durable, fetched>> /\ hit' = hit /\ Finish(c, "done")
        /\ hit[c] # None /\ PolicyOf[c] # "Offline"
    BY <1>1, <1>9 DEF SyncFails, past, PhaseOf, Writing
  <2>2. QED
    BY <1>1, <2>1, FinishStep DEF Reading, Writing
<1>10. CASE DropLegacy(c)
  <2>1. /\ file' \in [{"v1", "v2"} -> Content] /\ UNCHANGED <<durable, fetched>>
        /\ hit' = hit /\ Finish(c, "done")
        /\ hit[c] # None /\ PolicyOf[c] # "Offline"
    BY <1>1, <1>10 DEF DropLegacy, past, PhaseOf, Writing, Content
  <2>2. QED
    BY <1>1, <2>1, FinishStep DEF Reading, Writing
<1>11. QED
  BY <1>2, <1>3, <1>4, <1>5, <1>6, <1>7, <1>8, <1>9, <1>10 DEF Task

LEMMA CallStep ==
    ASSUME Base, NEW c \in Call, Query(c) \/ Task(c) \/ Stop(c)
    PROVE  StepOf(c)
  BY CalledStep, ProbeStep, EnterStep, LeaseStep, DecideStep, FetchStep, EndStep, TaskBase
  DEF Query

LEMMA CrashBase ==
    ASSUME Base, NEW p \in Process, Crash(p)
    PROVE  Base'
<1> USE DEF Base, TypeOK
<1>1. UNCHANGED <<file, durable, hit, baseline, fetched, known, answer>>
  BY DEF Crash, past
<1>2. /\ pc' \in [Call -> PC] /\ worker' \in [Call -> {"none"} \cup Reading \cup Writing]
      /\ line' \in [Process -> Seq(Call)] /\ waited' \subseteq Call
      /\ shared' \in [Process -> Result \cup {None}]
  BY DEF Crash, PC
<1>3. ASSUME NEW c \in Call
      PROVE  PhaseOf(c)'
  <2>1. CASE ProcessOf[c] = p
    <3>1. pc'[c] = "dead" /\ worker'[c] = "none"
      BY <2>1 DEF Crash
    <3>2. QED
      BY <3>1 DEF PhaseOf, Reading, Writing, Leased, Probing
  <2>2. CASE ProcessOf[c] # p
    <3>1. pc'[c] = pc[c] /\ worker'[c] = worker[c] /\ hit'[c] = hit[c]
      BY <2>2 DEF Crash
    <3>2. InFlight(c)' = InFlight(c)
      BY <2>2, CoordinationConstants DEF Crash, InFlight
    <3>3. QED
      BY <3>1, <3>2 DEF Phases, PhaseOf
  <2>3. QED
    BY <2>1, <2>2
<1>4. Phases'
  BY <1>3 DEF Phases
<1>5. TypeOK'
  BY <1>1, <1>2, <1>4 DEF Phases, PhaseOf, Writing
<1>6. QED
  BY <1>4, <1>5

LEMMA NextBase ==
    ASSUME Base, [Next]_vars
    PROVE  Base'
<1>1. CASE UNCHANGED vars
  BY <1>1 DEF vars, Base, TypeOK, Phases, PhaseOf, InFlight
<1>2. ASSUME NEW c \in Call, Query(c) \/ Task(c) \/ Stop(c)
      PROVE  Base'
  BY <1>2, CallStep, StepOfBase
<1>3. ASSUME NEW p \in Process, Crash(p)
      PROVE  Base'
  BY <1>3, CrashBase
<1>4. QED
  BY <1>1, <1>2, <1>3 DEF Next

-----------------------------------------------------------------------------
(* The lease                                                               *)

\* What a step of c does to the lease: it gets it when it is free, or has it.
LEMMA CallLease ==
    ASSUME Base, NEW c \in Call, Query(c) \/ Task(c) \/ Stop(c), HoldsLease(c)'
    PROVE  HoldsLease(c) \/ LeaseFree
<1> USE DEF Base, TypeOK, HoldsLease
<1>1. CASE Called(c) \/ ProbeV2(c) \/ ProbeV1(c) \/ ProbeLegacy(c)
  <2>1. PhaseOf(c) /\ pc[c] \in {"idle"} \cup Probing /\ worker[c] = "none"
    BY <1>1 DEF Called, ProbeV2, ProbeV1, ProbeLegacy, Probing, Phases, PhaseOf
  <2>2. /\ PolicyOf[c] # "Offline" => worker'[c] = "none"
        /\ pc'[c] \notin Leased
    BY <1>1, <2>1 DEF Called, ProbeV2, ProbeV1, ProbeLegacy, Probed, Return, Goto, Join, Start,
       Leased
  <2>3. QED
    BY <2>2
<1>2. CASE Enter(c) \/ LeaseBusy(c)
  <2>1. worker[c] = "none" /\ worker' = worker
    BY <1>2 DEF Enter, LeaseBusy, Phases, PhaseOf
  <2>2. pc'[c] \notin Leased
    BY <1>2 DEF Enter, LeaseBusy, Return, Goto, Leased
  <2>3. QED
    BY <2>1, <2>2
<1>3. CASE Lease(c)
  BY <1>3 DEF Lease
<1>4. CASE Decide(c) \/ Fetch(c) \/ FetchSkipped(c) \/ FetchFails(c)
  BY <1>4 DEF Decide, Fetch, FetchSkipped, FetchFails, Leased
<1>5. CASE Reply(c) \/ Fail(c) \/ Stop(c)
  BY <1>5 DEF Reply, Fail, Stop, Return, Goto, Leased
<1>6. CASE Task(c)
  BY <1>6 DEF Task, ReadV2, MoveV2, ReadV1, MoveV1, Write, WriteFails, Sync, SyncFails,
     DropLegacy, DropFails
<1>7. QED
  BY <1>1, <1>2, <1>3, <1>4, <1>5, <1>6 DEF Query

LEMMA NextLease ==
    ASSUME Base, OneLease, [Next]_vars
    PROVE  OneLease'
<1> USE DEF Base, TypeOK
<1>1. CASE UNCHANGED vars
  BY <1>1 DEF vars, OneLease, HoldsLease
<1>2. ASSUME NEW c \in Call, Query(c) \/ Task(c) \/ Stop(c)
      PROVE  OneLease'
  <2>1. \A d \in Call \ {c} : HoldsLease(d)' = HoldsLease(d)
    BY <1>2, CallStep DEF StepOf, Spares, HoldsLease
  <2>2. HoldsLease(c)' => HoldsLease(c) \/ LeaseFree
    BY <1>2, CallLease
  <2>3. QED
    BY <2>1, <2>2 DEF OneLease, LeaseFree
<1>3. ASSUME NEW p \in Process, Crash(p)
      PROVE  OneLease'
  <2>1. \A d \in Call : HoldsLease(d)' => HoldsLease(d)
    BY <1>3 DEF Crash, HoldsLease, Leased
  <2>2. QED
    BY <2>1 DEF OneLease
<1>4. QED
  BY <1>1, <1>2, <1>3 DEF Next

-----------------------------------------------------------------------------
(* The entries                                                             *)

\* What a step of c finds or fetches, and what it does to a file.
LEMMA CallHit ==
    ASSUME Base, NEW c \in Call, Query(c) \/ Task(c) \/ Stop(c)
    PROVE  /\ \/ hit'[c] \in {hit[c], None}
              \/ \E v \in {"v1", "v2"} :
                    file[v] \in Result /\ hit'[c] = [result |-> file[v], from |-> v]
              \/ /\ fetched' = fetched + 1
                 /\ hit'[c] = [result |-> fetched + 1, from |-> "network"]
           /\ fetched' \in {fetched, fetched + 1}
<1> USE DEF Base, TypeOK
<1>1. CASE Called(c) \/ Enter(c) \/ Lease(c) \/ LeaseBusy(c) \/ Decide(c) \/ Reply(c)
           \/ Fail(c) \/ Stop(c)
  BY <1>1 DEF Called, Enter, Lease, LeaseBusy, Decide, Reply, Fail, Stop, past, See
<1>2. CASE ProbeV2(c)
  BY <1>2 DEF ProbeV2, past, See
<1>3. CASE ProbeV1(c) \/ ProbeLegacy(c)
  BY <1>3 DEF ProbeV1, ProbeLegacy, past, See
<1>4. CASE Fetch(c) \/ FetchSkipped(c) \/ FetchFails(c)
  BY <1>4 DEF Fetch, FetchSkipped, FetchFails, past, See
<1>5. CASE ReadV2(c) \/ ReadV1(c)
  BY <1>5 DEF ReadV2, ReadV1, past, See
<1>6. CASE MoveV2(c) \/ MoveV1(c) \/ Write(c) \/ WriteFails(c) \/ Sync(c) \/ SyncFails(c)
           \/ DropLegacy(c) \/ DropFails(c)
  BY <1>6 DEF MoveV2, MoveV1, Write, WriteFails, Sync, SyncFails, DropLegacy, DropFails, past
<1>7. QED
  BY <1>1, <1>2, <1>3, <1>4, <1>5, <1>6 DEF Query, Task

LEMMA CallFile ==
    ASSUME Base, NEW c \in Call, Query(c) \/ Task(c) \/ Stop(c)
    PROVE  /\ file'["v1"] \in {file["v1"], None}
           /\ \/ file'["v2"] \in {file["v2"], None}
              \/ Write(c) /\ file'["v2"] = hit[c].result
           /\ Query(c) \/ Stop(c) => UNCHANGED <<file, durable>>
<1> USE DEF Base, TypeOK
<1>1. CASE Query(c) \/ Stop(c)
  BY <1>1 DEF Query, Called, ProbeV2, ProbeV1, ProbeLegacy, Enter, Lease, LeaseBusy, Decide,
     Fetch, FetchSkipped, FetchFails, Reply, Fail, Stop
<1>2. CASE Task(c)
  <2>1. ~ (Query(c) \/ Stop(c)) \/ UNCHANGED <<file, durable>>
    BY <1>1 DEF Query, Called, ProbeV2, ProbeV1, ProbeLegacy, Enter, Lease, LeaseBusy, Decide,
       Fetch, FetchSkipped, FetchFails, Reply, Fail, Stop
  <2>2. CASE ReadV2(c) \/ ReadV1(c) \/ WriteFails(c) \/ Sync(c) \/ SyncFails(c) \/ DropFails(c)
    BY <2>1, <2>2 DEF ReadV2, ReadV1, WriteFails, Sync, SyncFails, DropFails
  <2>3. CASE MoveV2(c) \/ MoveV1(c) \/ DropLegacy(c)
    BY <2>1, <2>3 DEF MoveV2, MoveV1, DropLegacy
  <2>4. CASE Write(c)
    BY <2>1, <2>4 DEF Write
  <2>5. QED
    BY <1>2, <2>2, <2>3, <2>4 DEF Task
<1>3. QED
  BY <1>1, <1>2

LEMMA NextAges ==
    ASSUME Base, Ages, [Next]_vars
    PROVE  Ages'
<1> USE DEF Base, TypeOK
<1>1. CASE UNCHANGED vars
  BY <1>1 DEF vars, Ages
<1>2. ASSUME NEW c \in Call, Query(c) \/ Task(c) \/ Stop(c)
      PROVE  Ages'
  <2>1. fetched \in Int /\ fetched' \in Int /\ fetched <= fetched' /\ None \notin Result
    BY <1>2, CallHit, CoordinationNone, CoordinationConstants DEF Result
  <2>2. ASSUME NEW v \in {"v1", "v2"}, file'[v] \in Result
        PROVE  file'[v] <= fetched'
    <3>1. file'[v] = file[v] \/ (Write(c) /\ file'[v] = hit[c].result)
      BY <1>2, <2>1, <2>2, CallFile
    <3>2. CASE Write(c) /\ file'[v] = hit[c].result
      <4>1. hit[c] # None /\ hit[c].result \in Result
        BY <3>2 DEF Write, Phases, PhaseOf, Writing, Hit
      <4>2. QED
        BY <2>1, <3>2, <4>1 DEF Ages, Result
    <3>3. QED
      BY <2>1, <2>2, <3>1, <3>2 DEF Ages, Result
  <2>3. ASSUME NEW d \in Call, hit'[d] # None
        PROVE  hit'[d].result <= fetched'
    <3>1. CASE hit'[d] = hit[d]
      <4>1. hit[d].result \in Int /\ hit[d].result <= fetched
        BY <2>3, <3>1 DEF Ages, Hit, Result
      <4>2. QED
        BY <2>1, <3>1, <4>1
    <3>2. CASE hit'[d] # hit[d]
      <4>1. d = c
        BY <1>2, <3>2, CallStep DEF StepOf, Spares
      <4>2. CASE fetched' = fetched + 1 /\ hit'[c] = [result |-> fetched + 1, from |-> "network"]
        BY <2>1, <4>1, <4>2
      <4>3. CASE \E v \in {"v1", "v2"} :
                   file[v] \in Result /\ hit'[c] = [result |-> file[v], from |-> v]
        <5>1. PICK v \in {"v1", "v2"} :
                   file[v] \in Result /\ hit'[c] = [result |-> file[v], from |-> v]
          BY <4>3
        <5>2. hit'[d].result = file[v] /\ file[v] <= fetched /\ file[v] \in Int
          BY <4>1, <5>1 DEF Ages, Result
        <5>3. QED
          BY <2>1, <5>2
      <4>4. QED
        BY <1>2, <2>3, <3>2, <4>1, <4>2, <4>3, CallHit
    <3>3. QED
      BY <3>1, <3>2
  <2>4. QED
    BY <2>2, <2>3 DEF Ages
<1>3. ASSUME NEW p \in Process, Crash(p)
      PROVE  Ages'
  BY <1>3 DEF Crash, past, Ages
<1>4. QED
  BY <1>1, <1>2, <1>3 DEF Next

\* To show of c: its part of Ahead.
AheadOf(c) ==
    file["v2"] \in Result =>
        /\ worker[c] = "write" => hit[c].from = "network" /\ file["v2"] < hit[c].result
        /\ pc[c] = "deciding" /\ hit[c] # None => hit[c].from = "v2"
        /\ PolicyOf[c] # "Offline" => worker[c] \notin {"move v2", "read v1", "move v1"}

\* A call that depends on Ahead holds the lease.
LEMMA AheadHolds ==
    ASSUME Base, NEW c \in Call, ~HoldsLease(c)
    PROVE  AheadOf(c)
  BY DEF Base, Phases, PhaseOf, AheadOf, HoldsLease, Leased, Writing, Probing

LEMMA CallAhead ==
    ASSUME CoordInv, NEW c \in Call, Query(c) \/ Task(c) \/ Stop(c), Base'
    PROVE  AheadOf(c)'
<1> USE DEF CoordInv, TypeOK, Hit
<1>0. /\ Base /\ PhaseOf(c) /\ PhaseOf(c)' /\ AheadOf(c)
      /\ None \notin Result /\ Corrupt \notin Result
  BY CoordinationNone DEF Base, Phases, Ahead, AheadOf
<1>1. CASE Called(c) \/ ProbeV2(c) \/ ProbeV1(c) \/ ProbeLegacy(c) \/ Enter(c) \/ LeaseBusy(c)
  <2>1. PolicyOf[c] # "Offline" => worker'[c] = "none"
    BY <1>0, <1>1 DEF Called, ProbeV2, ProbeV1, ProbeLegacy, Enter, LeaseBusy, Start, PhaseOf,
       Probing
  <2>2. pc'[c] # "deciding"
    BY <1>0, <1>1 DEF Called, ProbeV2, ProbeV1, ProbeLegacy, Enter, LeaseBusy, Probed, Return,
       Goto, Join, Start
  <2>3. QED
    BY <1>0, <2>1, <2>2 DEF AheadOf, PhaseOf, Writing
<1>2. CASE Lease(c)
  BY <1>2 DEF Lease, Start, Goto, AheadOf
<1>3. CASE Decide(c)
  BY <1>0, <1>3 DEF Decide, Start, Goto, AheadOf, PhaseOf
<1>4. CASE Fetch(c)
  <2>1. /\ worker'[c] = "write" /\ pc'[c] = "awaiting" /\ file' = file
        /\ hit'[c] = [result |-> fetched + 1, from |-> "network"]
    BY <1>4 DEF Fetch, Start, Goto, See
  <2>2. file["v2"] \in Result => file["v2"] < fetched + 1
    BY DEF Ages, Result
  <2>3. QED
    BY <2>1, <2>2 DEF AheadOf
<1>5. CASE FetchSkipped(c) \/ FetchFails(c) \/ Reply(c) \/ Fail(c) \/ Stop(c)
  <2>1. pc'[c] \in {"done", "failed", "returned"} /\ UNCHANGED <<file, worker>>
    BY <1>5 DEF FetchSkipped, FetchFails, Reply, Fail, Stop, Return, Goto
  <2>2. worker[c] # "none" => hit' = hit
    BY <1>0, <1>5 DEF FetchSkipped, FetchFails, Reply, Fail, Stop, PhaseOf
  <2>3. QED
    BY <1>0, <2>1, <2>2 DEF AheadOf
<1>6. CASE ReadV2(c)
  <2>1. \/ file["v2"] \notin Result
        \/ worker'[c] = "none" /\ hit'[c].from = "v2"
    <3>1. CASE file["v2"] \in Result
      <4> DEFINE l == IF PolicyOf[c] = "Offline" THEN "done" ELSE "deciding"
      <4>1. See(c, [result |-> file["v2"], from |-> "v2"]) /\ Finish(c, l)
        BY <1>0, <1>6, <3>1 DEF ReadV2
      <4>2. hit'[c] = [result |-> file["v2"], from |-> "v2"]
        BY <4>1 DEF See
      <4>3. worker'[c] = "none"
        BY <4>1 DEF Finish
      <4>4. QED
        BY <4>2, <4>3
    <3>2. QED
      BY <3>1
  <2>2. file' = file
    BY <1>6 DEF ReadV2
  <2>3. QED
    BY <2>1, <2>2 DEF AheadOf
<1>7. CASE MoveV2(c)
  <2>1. /\ worker'[c] = "read v1" /\ pc' = pc /\ hit' = hit /\ worker[c] = "move v2"
        /\ file'["v2"] \in {None, file["v2"]}
    BY <1>7 DEF MoveV2, Proceed
  <2>2. pc[c] # "deciding"
    BY <1>0, <2>1 DEF PhaseOf
  <2>3. QED
    BY <1>0, <2>1, <2>2 DEF AheadOf
<1>8. CASE ReadV1(c)
  <2>1. worker[c] = "read v1" /\ file' = file
    BY <1>8 DEF ReadV1
  <2>2. CASE PolicyOf[c] # "Offline"
    BY <1>0, <2>1, <2>2 DEF AheadOf
  <2>3. CASE PolicyOf[c] = "Offline"
    BY <1>0, <2>3 DEF AheadOf, PhaseOf, Leased, Writing
  <2>4. QED
    BY <2>2, <2>3
<1>9. CASE MoveV1(c)
  <2>1. worker'[c] = "none" /\ hit' = hit /\ hit[c] = None
    BY <1>0, <1>9 DEF MoveV1, Finish, PhaseOf, Reading
  <2>2. QED
    BY <2>1 DEF AheadOf
<1>10. CASE Write(c) \/ WriteFails(c) \/ Sync(c) \/ SyncFails(c) \/ DropLegacy(c) \/ DropFails(c)
  <2>1. worker'[c] \in {"none", "sync", "legacy"} /\ pc'[c] # "deciding"
    BY <1>0, <1>10 DEF Write, WriteFails, Sync, SyncFails, DropLegacy, DropFails, Proceed,
       Finish, PhaseOf
  <2>2. QED
    BY <2>1 DEF AheadOf
<1>11. QED
  BY <1>1, <1>2, <1>3, <1>4, <1>5, <1>6, <1>7, <1>8, <1>9, <1>10 DEF Query, Task

LEMMA NextAhead ==
    ASSUME CoordInv, [Next]_vars, Base'
    PROVE  Ahead'
<1> USE DEF CoordInv, TypeOK
<1>0. Base /\ None \notin Result /\ \A d \in Call : AheadOf(d)
  BY CoordinationNone DEF Base, Ahead, AheadOf
<1>1. SUFFICES ASSUME NEW d \in Call PROVE AheadOf(d)'
  BY DEF Ahead, AheadOf
<1>2. CASE UNCHANGED vars
  BY <1>0, <1>2 DEF vars, AheadOf
<1>3. ASSUME NEW c \in Call, Query(c) \/ Task(c) \/ Stop(c), d # c
      PROVE  AheadOf(d)'
  <2>1. pc'[d] = pc[d] /\ worker'[d] = worker[d] /\ hit'[d] = hit[d]
    BY <1>0, <1>3, CallStep DEF StepOf, Spares
  <2>2. CASE file'["v2"] \in {file["v2"], None}
    BY <1>0, <2>1, <2>2 DEF AheadOf
  <2>3. CASE Write(c)
    <3>1. HoldsLease(c)
      BY <2>3 DEF Write, Phases, PhaseOf, Writing, HoldsLease
    <3>2. ~HoldsLease(d)
      BY <1>3, <3>1 DEF OneLease
    <3>3. ~HoldsLease(d)'
      BY <2>1, <3>2 DEF HoldsLease
    <3>4. QED
      BY <3>3 DEF Base, Phases, PhaseOf, AheadOf, HoldsLease, Leased, Writing
  <2>4. QED
    BY <1>0, <1>3, <2>2, <2>3, CallFile
<1>4. ASSUME NEW p \in Process, Crash(p)
      PROVE  AheadOf(d)'
  BY <1>0, <1>4 DEF Crash, AheadOf
<1>5. QED
  BY <1>0, <1>2, <1>3, <1>4, CallAhead DEF Next

-----------------------------------------------------------------------------
(* The invariant, and what follows from it                                 *)

LEMMA InitCoordInv == Init => CoordInv
<1> SUFFICES ASSUME Init PROVE CoordInv
  OBVIOUS
<1>1. Base
  BY InitBase
<1>2. OneLease
  BY DEF Init, OneLease, HoldsLease, Leased
<1>3. Ages
  BY CoordinationConstants, CoordinationNone DEF Init, Ages, Result
<1>4. Ahead
  BY DEF Init, Ahead
<1>5. QED
  BY <1>1, <1>2, <1>3, <1>4 DEF CoordInv, Base

LEMMA NextCoordInv ==
    ASSUME CoordInv, [Next]_vars
    PROVE  CoordInv'
<1>1. Base /\ OneLease /\ Ages /\ Ahead
  BY DEF CoordInv, Base
<1>2. Base'
  BY <1>1, NextBase
<1>3. OneLease' /\ Ages' /\ Ahead'
  BY <1>1, <1>2, NextLease, NextAges, NextAhead
<1>4. QED
  BY <1>2, <1>3 DEF CoordInv, Base

\* The variables of the coordination keep their types, and the invariant of the
\* lease holds in every reachable state.
THEOREM CoordinationInvariant == Spec => []CoordInv
<1>1. Init => CoordInv
  BY InitCoordInv
<1>2. CoordInv /\ [Next]_vars => CoordInv'
  BY NextCoordInv
<1>3. QED
  BY <1>1, <1>2, PTL DEF Spec

\* A call has its lease, awaits its task and stands in the line of its flight as
\* query_until has it, and every variable is of its type.
THEOREM CoordinationTypeCorrect == Spec => []TypeOK
<1>1. CoordInv => TypeOK
  BY DEF CoordInv
<1>2. QED
  BY <1>1, CoordinationInvariant, PTL

\* One call at a time has the refresh lease of the key, with its blocking task,
\* whoever was cancelled or died meanwhile (client.rs, coordinated_query).
THEOREM LeaseIsOne == Spec => []OneLease
<1>1. CoordInv => OneLease
  BY DEF CoordInv
<1>2. QED
  BY <1>1, CoordinationInvariant, PTL

LEMMA StepNeverGoesBack ==
    ASSUME CoordInv, [Next]_vars, file["v2"] \in Result, file'["v2"] \in Result
    PROVE  file'["v2"] >= file["v2"]
<1> USE DEF CoordInv, TypeOK
<1>1. file["v2"] >= file["v2"] /\ None \notin Result
  BY CoordinationNone DEF Result
<1>2. CASE UNCHANGED vars
  BY <1>1, <1>2 DEF vars
<1>3. ASSUME NEW c \in Call, Query(c) \/ Task(c) \/ Stop(c)
      PROVE  file'["v2"] >= file["v2"]
  <2>1. CASE file'["v2"] \in {file["v2"], None}
    BY <1>1, <2>1
  <2>2. CASE Write(c) /\ file'["v2"] = hit[c].result
    <3>1. file["v2"] < hit[c].result
      BY <2>2 DEF Write, Ahead
    <3>2. file["v2"] \in Int /\ file'["v2"] \in Int
      BY DEF Result
    <3>3. QED
      BY <2>2, <3>1, <3>2
  <2>3. QED
    BY <1>3, <2>1, <2>2, CallFile DEF Base
<1>4. ASSUME NEW p \in Process, Crash(p)
      PROVE  file'["v2"] >= file["v2"]
  BY <1>1, <1>4 DEF Crash
<1>5. QED
  BY <1>2, <1>3, <1>4 DEF Next

\* An entry is never replaced by an older result, not even by the blocking task
\* of a call that was cancelled long ago (cache.rs, promote_v1 and
\* write_v2_after_refresh under the lease).
THEOREM EntryNeverGoesBack == Spec => NeverGoesBack
<1>1. CoordInv /\ [Next]_vars =>
         (file["v2"] \in Result /\ file'["v2"] \in Result => file'["v2"] >= file["v2"])
  BY StepNeverGoesBack
<1>2. QED
  BY <1>1, CoordinationInvariant, PTL DEF Spec, NeverGoesBack

-----------------------------------------------------------------------------
(* Without offline reads, what the holder of the lease found stays.        *)

LEMMA CallStays ==
    ASSUME LeasedOnly, CoordInv, Stays, NEW c \in Call, Query(c) \/ Task(c) \/ Stop(c)
    PROVE  StaysOf(c)'
<1> USE DEF CoordInv, TypeOK, Hit
<1>0. /\ Base /\ PhaseOf(c) /\ StaysOf(c) /\ PolicyOf[c] # "Offline"
      /\ None \notin Result /\ Corrupt \notin Result
  BY CoordinationNone DEF Base, Phases, Stays, LeasedOnly
<1>1. CASE Query(c) \/ Stop(c)
  <2>1. UNCHANGED <<file, durable>>
    BY <1>0, <1>1, CallFile
  <2>2. CASE Decide(c)
    BY <1>0, <2>1, <2>2 DEF Decide, Start, Goto, StaysOf, PhaseOf
  <2>3. CASE ~Decide(c)
    <3>1. pc'[c] # "deciding"
      BY <1>0, <1>1, <2>3 DEF Query, Called, ProbeV2, ProbeV1, ProbeLegacy, Enter, Lease, LeaseBusy,
         Fetch, FetchSkipped, FetchFails, Reply, Fail, Stop, Probed, Return, Goto, Join, Start
    <3>2. \/ worker'[c] = worker[c] /\ (worker[c] # "none" => hit'[c] = hit[c])
          \/ worker'[c] \in {"read v2", "write"}
      BY <1>0, <1>1, <2>3 DEF Query, Called, ProbeV2, ProbeV1, ProbeLegacy, Enter, Lease, LeaseBusy,
         Fetch, FetchSkipped, FetchFails, Reply, Fail, Stop, Start, PhaseOf, Probing
    <3>3. QED
      BY <1>0, <2>1, <3>1, <3>2 DEF StaysOf
  <2>4. QED
    BY <2>2, <2>3
<1>2. CASE ReadV2(c)
  <2>1. file' = file
    BY <1>2 DEF ReadV2
  <2>2. CASE file["v2"] \in Result
    <3>1. worker'[c] = "none"
      BY <1>0, <1>2, <2>2 DEF ReadV2, Finish
    <3>2. QED
      BY <2>1, <2>2, <3>1 DEF StaysOf
  <2>3. CASE file["v2"] \notin Result
    <3>1. worker'[c] \in {"move v2", "read v1"} /\ pc'[c] = pc[c]
      BY <1>2, <2>3 DEF ReadV2, Proceed
    <3>2. QED
      BY <1>0, <1>2, <3>1 DEF StaysOf, PhaseOf, ReadV2
  <2>4. QED
    BY <2>2, <2>3
<1>3. CASE MoveV2(c)
  BY <1>0, <1>3 DEF MoveV2, Proceed, StaysOf, PhaseOf
<1>4. CASE ReadV1(c)
  <2>1. file' = file
    BY <1>4 DEF ReadV1
  <2>2. CASE file["v1"] \in Result
    <3>1. worker'[c] = "none" /\ hit'[c] = [result |-> file["v1"], from |-> "v1"]
      BY <1>0, <1>4, <2>2 DEF ReadV1, Finish, See
    <3>2. hit'[c].from # "v2"
      BY <3>1
    <3>3. QED
      BY <3>1, <3>2 DEF StaysOf
  <2>3. CASE file["v1"] \notin Result
    <3>1. worker'[c] \in {"none", "move v1"} /\ hit'[c] = None
      BY <1>0, <1>4, <2>3 DEF ReadV1, Finish, Proceed, PhaseOf, Reading
    <3>2. QED
      BY <2>1, <2>3, <3>1 DEF StaysOf
  <2>4. QED
    BY <2>2, <2>3
<1>5. CASE MoveV1(c)
  <2>1. worker'[c] = "none" /\ hit'[c] = None
    BY <1>0, <1>5 DEF MoveV1, Finish, PhaseOf, Reading
  <2>2. QED
    BY <2>1 DEF StaysOf
<1>6. CASE Write(c)
  <2>1. worker'[c] = "sync" /\ pc'[c] # "deciding" /\ file'["v2"] = hit[c].result
    BY <1>0, <1>6 DEF Write, Proceed, PhaseOf
  <2>2. hit[c].result \in Result
    BY <1>0, <1>6 DEF Write, PhaseOf, Writing
  <2>3. QED
    BY <2>1, <2>2 DEF StaysOf
<1>7. CASE Sync(c)
  <2>1. worker'[c] = "legacy" /\ pc'[c] # "deciding" /\ durable' = file["v2"] /\ file' = file
    BY <1>0, <1>7 DEF Sync, Proceed, PhaseOf
  <2>2. file["v2"] \in Result
    BY <1>0, <1>7 DEF Sync, StaysOf
  <2>3. QED
    BY <2>1, <2>2 DEF StaysOf
<1>8. CASE WriteFails(c) \/ SyncFails(c) \/ DropLegacy(c) \/ DropFails(c)
  <2>1. worker'[c] = "none" /\ pc'[c] # "deciding"
    BY <1>0, <1>8 DEF WriteFails, SyncFails, DropLegacy, DropFails, Finish, PhaseOf
  <2>2. QED
    BY <2>1 DEF StaysOf
<1>9. QED
  BY <1>1, <1>2, <1>3, <1>4, <1>5, <1>6, <1>7, <1>8 DEF Task

LEMMA NextStays ==
    ASSUME LeasedOnly, CoordInv, Stays, [Next]_vars
    PROVE  Stays'
<1> USE DEF CoordInv, TypeOK
<1>0. Base /\ None \notin Result /\ \A d \in Call : StaysOf(d)
  BY CoordinationNone DEF Base, Stays
<1>1. SUFFICES ASSUME NEW d \in Call PROVE StaysOf(d)'
  BY DEF Stays
<1>2. CASE UNCHANGED vars
  BY <1>0, <1>2 DEF vars, StaysOf
<1>3. ASSUME NEW c \in Call, Query(c) \/ Task(c) \/ Stop(c), d # c
      PROVE  StaysOf(d)'
  <2>1. pc'[d] = pc[d] /\ worker'[d] = worker[d] /\ hit'[d] = hit[d]
    BY <1>0, <1>3, CallStep DEF StepOf, Spares
  <2>2. file'["v1"] \in {file["v1"], None}
    BY <1>0, <1>3, CallFile
  <2>3. CASE HoldsLease(d)
    <3>1. worker[c] = "none"
      BY <1>3, <2>3 DEF OneLease, HoldsLease, LeasedOnly
    <3>2. ~Task(c)
      BY <3>1 DEF Task, ReadV2, MoveV2, ReadV1, MoveV1, Write, WriteFails, Sync, SyncFails,
         DropLegacy, DropFails
    <3>3. UNCHANGED <<file, durable>>
      BY <1>0, <1>3, <3>2, CallFile
    <3>4. QED
      BY <1>0, <2>1, <3>3 DEF StaysOf
  <2>4. CASE ~HoldsLease(d)
    BY <2>1, <2>4 DEF HoldsLease, LeasedOnly, StaysOf, Leased
  <2>5. QED
    BY <2>3, <2>4
<1>4. ASSUME NEW p \in Process, Crash(p)
      PROVE  StaysOf(d)'
  BY <1>0, <1>4 DEF Crash, StaysOf
<1>5. QED
  BY <1>0, <1>2, <1>3, <1>4, CallStays DEF Next

LEMMA StaysInvariant ==
    ASSUME LeasedOnly
    PROVE  Spec => [](CoordInv /\ Stays)
<1>1. Init => CoordInv /\ Stays
  <2>1. Init => Stays
    BY DEF Init, Stays, StaysOf
  <2>2. QED
    BY <2>1, InitCoordInv
<1>2. CoordInv /\ Stays /\ [Next]_vars => (CoordInv /\ Stays)'
  BY NextCoordInv, NextStays
<1>3. QED
  BY <1>1, <1>2, PTL DEF Spec

LEMMA StepKeepsEntry ==
    ASSUME LeasedOnly, CoordInv, Stays, [Next]_vars, HasEntry
    PROVE  HasEntry'
<1> USE DEF CoordInv, TypeOK
<1>0. None \notin Result /\ Corrupt \notin Result
  BY CoordinationNone
<1>1. CASE UNCHANGED vars
  BY <1>1 DEF vars, HasEntry
<1>2. ASSUME NEW c \in Call, Query(c) \/ Task(c) \/ Stop(c)
      PROVE  HasEntry'
  <2>1. CASE Query(c) \/ Stop(c)
    BY <2>1, CallFile DEF HasEntry, Base
  <2>2. CASE MoveV2(c)
    <3>1. file["v2"] \notin Result /\ file'["v1"] = file["v1"]
      BY <2>2 DEF MoveV2, Ahead, LeasedOnly
    <3>2. QED
      BY <3>1 DEF HasEntry
  <2>3. CASE MoveV1(c)
    <3>1. file["v1"] \notin Result /\ file'["v2"] = file["v2"]
      BY <2>3 DEF MoveV1, Stays, StaysOf
    <3>2. QED
      BY <3>1 DEF HasEntry
  <2>4. CASE DropLegacy(c)
    <3>1. file'["v2"] \in Result
      BY <2>4 DEF DropLegacy, Stays, StaysOf
    <3>2. QED
      BY <3>1 DEF HasEntry
  <2>5. CASE Write(c)
    <3>1. file'["v2"] \in Result
      BY <2>5 DEF Write, Phases, PhaseOf, Writing, Hit
    <3>2. QED
      BY <3>1 DEF HasEntry
  <2>6. CASE ReadV2(c) \/ ReadV1(c) \/ WriteFails(c) \/ Sync(c) \/ SyncFails(c) \/ DropFails(c)
    BY <2>6 DEF ReadV2, ReadV1, WriteFails, Sync, SyncFails, DropFails, HasEntry
  <2>7. QED
    BY <1>2, <2>1, <2>2, <2>3, <2>4, <2>5, <2>6 DEF Task
<1>3. ASSUME NEW p \in Process, Crash(p)
      PROVE  HasEntry'
  BY <1>3 DEF Crash, HasEntry
<1>4. QED
  BY <1>1, <1>2, <1>3 DEF Next

\* Among calls that take the lease, a valid entry is not lost, by whatever mix of
\* promotions, refreshes, quarantines, failed writes, cancellations and deaths
\* (cache.rs, read, promote_v1 and remove_legacy).
THEOREM EntryIsNeverLost ==
    ASSUME LeasedOnly
    PROVE  Spec => EntryNeverLost
<1>1. CoordInv /\ Stays /\ [Next]_vars => (HasEntry => HasEntry')
  BY StepKeepsEntry
<1>2. QED
  BY <1>1, StaysInvariant, PTL DEF Spec, EntryNeverLost

\* Among calls that take the lease, the call that wrote v2 removes the valid v1
\* only once its own write is durable (cache.rs, promote_v1).
THEOREM LegacyOutlivesTheWrite ==
    ASSUME LeasedOnly
    PROVE  Spec => WriterRemovesWhenDurable
<1>1. CoordInv /\ Stays =>
         \A c \in Call :
            /\ worker[c] = "legacy" /\ hit[c].from # "v2"
            /\ file["v1"] \in Result /\ file'["v1"] = None
            => durable \in Result
  BY DEF Stays, StaysOf
<1>2. QED
  BY <1>1, StaysInvariant, PTL DEF Spec, WriterRemovesWhenDurable

-----------------------------------------------------------------------------
(* A refresh that has its process to itself, with nothing to promote       *)

Joins(c) == Join(c) /\ pc[c] \in Probing /\ ~InFlight(c)

\* Who is in a line was there or has joined it.
LEMMA CallLine ==
    ASSUME Base, NEW c \in Call, Query(c) \/ Task(c) \/ Stop(c)
    PROVE  \/ Joins(c)
           \/ /\ waited' \subseteq waited
              /\ \A p \in Process : \A i \in DOMAIN line'[p] :
                    \E j \in DOMAIN line[p] : line'[p][i] = line[p][j]
<1> USE DEF Base
<1>1. CASE UNCHANGED <<line, waited>>
  BY <1>1
<1>2. ASSUME NEW result, NEW published, Return(c, result, published),
             published \in Result \cup {None}
      PROVE  /\ waited' \subseteq waited
             /\ \A p \in Process : \A i \in DOMAIN line'[p] :
                   \E j \in DOMAIN line[p] : line'[p][i] = line[p][j]
  BY <1>2, LeaveLine DEF Return
<1>3. shared[ProcessOf[c]] \in Result \cup {None}
  BY CoordinationConstants DEF TypeOK
<1>4. CASE ProbeV2(c) \/ ProbeV1(c) \/ ProbeLegacy(c)
  <2>1. \/ UNCHANGED flight
        \/ \E h, legacy : Probed(c, h, legacy)
    BY <1>4 DEF ProbeV2, ProbeV1, ProbeLegacy
  <2>2. ASSUME NEW h, NEW legacy, Probed(c, h, legacy)
        PROVE  \/ UNCHANGED flight
               \/ Return(c, h.result, shared[ProcessOf[c]])
               \/ Join(c) /\ ~InFlight(c)
    BY <2>2 DEF Probed
  <2>3. pc[c] \in Probing
    BY <1>4 DEF ProbeV2, ProbeV1, ProbeLegacy, Probing
  <2>4. QED
    BY <1>1, <1>2, <1>3, <2>1, <2>2, <2>3 DEF flight, Joins
<1>5. CASE Enter(c)
  BY <1>1, <1>2, <1>3, <1>5 DEF Enter
<1>6. CASE Reply(c) \/ Fail(c) \/ Stop(c)
  <2>1. pc[c] = "done" => hit[c].result \in Result
    BY DEF TypeOK, Phases, PhaseOf, Hit
  <2>2. \E result : \E published \in Result \cup {None} : Return(c, result, published)
    BY <1>3, <1>6, <2>1 DEF Reply, Fail, Stop
  <2>3. QED
    BY <1>2, <2>2
<1>7. CASE Called(c) \/ Lease(c) \/ LeaseBusy(c) \/ Decide(c) \/ Fetch(c) \/ FetchSkipped(c)
           \/ FetchFails(c) \/ Task(c)
  BY <1>1, <1>7 DEF Called, Lease, LeaseBusy, Decide, Fetch, FetchSkipped, FetchFails, Task, ReadV2,
     MoveV2, ReadV1, MoveV1, Write, WriteFails, Sync, SyncFails, DropLegacy, DropFails, flight
<1>8. QED
  BY <1>4, <1>5, <1>6, <1>7 DEF Query

LEMMA NextOwnFlight ==
    ASSUME RefreshesAlone, Base, [Next]_vars, NEW c \in Call, PolicyOf[c] = "Refresh", OwnFlight(c)
    PROVE  /\ OwnFlight(c)'
           /\ InFlight(c)' => InFlight(c) \/ Joins(c)
<1> USE DEF Base
<1> DEFINE p == ProcessOf[c]
<1>0. p \in Process /\ line[p] \in Seq(Call)
  BY CoordinationConstants DEF TypeOK
<1>1. CASE UNCHANGED vars
  BY <1>1 DEF vars, OwnFlight, InFlight
<1>2. ASSUME NEW d \in Call, Query(d) \/ Task(d) \/ Stop(d),
             waited' \subseteq waited,
             \A i \in DOMAIN line'[p] : \E j \in DOMAIN line[p] : line'[p][i] = line[p][j]
      PROVE  OwnFlight(c)' /\ (InFlight(c)' => InFlight(c))
  BY <1>2 DEF OwnFlight, InFlight
<1>3. ASSUME NEW d \in Call, Joins(d), ProcessOf[d] # p
      PROVE  OwnFlight(c)' /\ (InFlight(c)' => InFlight(c))
  <2>1. line'[p] = line[p] /\ d # c
    BY <1>0, <1>3 DEF Joins, Join, TypeOK
  <2>2. c \notin waited'
    BY <1>3, <2>1 DEF Joins, Join, OwnFlight
  <2>3. QED
    BY <2>1, <2>2 DEF OwnFlight, InFlight
<1>4. ASSUME NEW d \in Call, Joins(d), ProcessOf[d] = p
      PROVE  OwnFlight(c)' /\ Joins(c)
  <2>1. d = c
    BY <1>4 DEF Joins, Phases, PhaseOf, RefreshesAlone
  <2>2. \A i \in DOMAIN line[p] : FALSE
    BY <1>4, <2>1 DEF Joins, OwnFlight, InFlight
  <2>3. line[p] = <<>>
    <3>0. DOMAIN line[p] = 1 .. Len(line[p])
      BY <1>0
    <3>1. 1 \notin 1 .. Len(line[p]) /\ Len(line[p]) \in Nat
      BY <1>0, <2>2, <3>0
    <3>2. Len(line[p]) = 0
      BY <3>1
    <3>3. QED
      BY <1>0, <3>2, EmptySeq
  <2>4. line'[p] = <<c>> /\ waited' = waited
    BY <1>0, <1>4, <2>1, <2>3 DEF Joins, Join, TypeOK
  <2>5. QED
    BY <1>4, <2>1, <2>4 DEF OwnFlight
<1>5. ASSUME NEW q \in Process, Crash(q)
      PROVE  OwnFlight(c)' /\ (InFlight(c)' => InFlight(c))
  <2>1. line'[p] = line[p] \/ line'[p] = <<>>
    BY <1>0, <1>5 DEF Crash, TypeOK
  <2>2. waited' \subseteq waited
    BY <1>5 DEF Crash
  <2>3. QED
    BY <2>1, <2>2 DEF OwnFlight, InFlight
<1>6. QED
  BY <1>0, <1>1, <1>2, <1>3, <1>4, <1>5, CallLine DEF Next

LEMMA NextNoLegacy ==
    ASSUME Base, NoLegacy, [Next]_vars
    PROVE  NoLegacy'
<1> USE DEF Base, TypeOK
<1>1. CASE UNCHANGED vars
  BY <1>1 DEF vars, NoLegacy
<1>2. ASSUME NEW c \in Call, Query(c) \/ Task(c) \/ Stop(c)
      PROVE  NoLegacy'
  <2>1. file'["v1"] \notin Result
    BY <1>2, CallFile, CoordinationNone DEF NoLegacy
  <2>2. ASSUME NEW d \in Call, hit'[d] # None
        PROVE  hit'[d].from # "v1"
    <3>1. CASE hit'[d] = hit[d]
      BY <2>2, <3>1 DEF NoLegacy
    <3>2. CASE hit'[d] # hit[d]
      <4>1. d = c
        BY <1>2, <3>2, CallStep DEF StepOf, Spares
      <4>2. hit'[c] = [result |-> file["v2"], from |-> "v2"]
              \/ hit'[c] = [result |-> fetched + 1, from |-> "network"]
        BY <1>2, <2>2, <3>2, <4>1, CallHit DEF NoLegacy
      <4>3. QED
        BY <4>1, <4>2
    <3>3. QED
      BY <3>1, <3>2
  <2>3. QED
    BY <2>1, <2>2 DEF NoLegacy
<1>3. ASSUME NEW p \in Process, Crash(p)
      PROVE  NoLegacy'
  BY <1>3 DEF Crash, NoLegacy
<1>4. QED
  BY <1>1, <1>2, <1>3 DEF Next

\* A task about to write was, or the call has just decided or fetched.
LEMMA CallWrite ==
    ASSUME Base, NEW c \in Call, Query(c) \/ Task(c) \/ Stop(c), worker'[c] = "write"
    PROVE  \/ worker[c] = "write" /\ hit'[c] = hit[c]
           \/ Decide(c) /\ hit[c] # None /\ hit[c].from = "v1"
           \/ Fetch(c)
<1> USE DEF Base, TypeOK
<1>1. PhaseOf(c)
  BY DEF Phases
<1>2. CASE Query(c)
  <2>1. CASE Decide(c)
    BY <1>1, <2>1 DEF Decide, Start, PhaseOf, Leased
  <2>2. CASE Called(c) \/ Lease(c)
    BY <1>1, <2>2 DEF Called, Lease, Start, PhaseOf
  <2>3. CASE ProbeV2(c) \/ ProbeV1(c) \/ ProbeLegacy(c) \/ LeaseBusy(c) \/ FetchSkipped(c)
             \/ FetchFails(c) \/ Enter(c) \/ Reply(c) \/ Fail(c)
    BY <1>1, <2>3 DEF ProbeV2, ProbeV1, ProbeLegacy, LeaseBusy, FetchSkipped, FetchFails, Enter,
       Reply, Fail, PhaseOf, Probing
  <2>4. QED
    BY <1>2, <2>1, <2>2, <2>3 DEF Query
<1>3. CASE Task(c)
  BY <1>3 DEF Task, ReadV2, MoveV2, ReadV1, MoveV1, Write, WriteFails, Sync, SyncFails,
     DropLegacy, DropFails, Proceed, Finish
<1>4. CASE Stop(c)
  BY <1>4 DEF Stop
<1>5. QED
  BY <1>2, <1>3, <1>4

\* What c knows changes when it is called.
LEMMA CallKnown ==
    ASSUME Base, NEW c \in Call, Query(c) \/ Task(c) \/ Stop(c)
    PROVE  \/ known' = known
           \/ /\ Called(c) /\ UNCHANGED <<file, hit, fetched>>
              /\ known'[c] = {file[v] : v \in {"v1", "v2"}} \cap Result
<1> USE DEF Base, TypeOK
<1>1. CASE Called(c)
  BY <1>1 DEF Called
<1>2. CASE ~Called(c)
  BY <1>2 DEF Query, ProbeV2, ProbeV1, ProbeLegacy, Enter, Lease, LeaseBusy, Decide, Fetch,
     FetchSkipped, FetchFails, Reply, Fail, Stop, Task, ReadV2, MoveV2, ReadV1, MoveV1, Write,
     WriteFails, Sync, SyncFails, DropLegacy, DropFails, past
<1>3. QED
  BY <1>1, <1>2

LEMMA NextKnown ==
    ASSUME CoordInv, NoLegacy, [Next]_vars, NEW c \in Call, KnownIsOld(c), Base'
    PROVE  KnownIsOld(c)'
<1> USE DEF CoordInv, TypeOK
<1>0. Base /\ None \notin Result /\ known[c] \subseteq Result /\ Result \subseteq Int
  BY CoordinationNone DEF Base, Result
<1>1. CASE UNCHANGED vars
  BY <1>1 DEF vars, KnownIsOld
<1>2. ASSUME NEW d \in Call, Query(d) \/ Task(d) \/ Stop(d), known'[c] = known[c]
      PROVE  KnownIsOld(c)'
  <2>1. SUFFICES ASSUME NEW g \in known[c]
                 PROVE  /\ g <= fetched'
                        /\ file'["v2"] \in Result => g <= file'["v2"]
                        /\ \A e \in Call : worker'[e] = "write" => g < hit'[e].result
    BY <1>2 DEF KnownIsOld
  <2>2. g \in Int /\ fetched \in Int /\ g <= fetched
    BY <1>0 DEF KnownIsOld
  <2>3. g <= fetched'
    BY <1>0, <1>2, <2>2, CallHit
  <2>4. ASSUME file'["v2"] \in Result
        PROVE  g <= file'["v2"]
    <3>1. CASE file'["v2"] = file["v2"]
      BY <2>4, <3>1 DEF KnownIsOld
    <3>2. CASE Write(d) /\ file'["v2"] = hit[d].result
      <4>1. g < hit[d].result
        BY <3>2 DEF Write, KnownIsOld
      <4>2. QED
        BY <1>0, <2>2, <2>4, <3>2, <4>1
    <3>3. QED
      BY <1>0, <1>2, <2>4, <3>1, <3>2, CallFile
  <2>5. ASSUME NEW e \in Call, worker'[e] = "write"
        PROVE  g < hit'[e].result
    <3>1. CASE e # d
      <4>1. worker[e] = "write" /\ hit'[e] = hit[e]
        BY <1>0, <1>2, <2>5, <3>1, CallStep DEF StepOf, Spares
      <4>2. QED
        BY <4>1 DEF KnownIsOld
    <3>2. CASE e = d
      <4>1. CASE worker[d] = "write" /\ hit'[d] = hit[d]
        BY <3>2, <4>1 DEF KnownIsOld
      <4>2. CASE Fetch(d)
        <5>1. hit'[d] = [result |-> fetched + 1, from |-> "network"]
          BY <4>2 DEF Fetch, See
        <5>2. QED
          BY <2>2, <3>2, <5>1
      <4>3. QED
        BY <1>0, <1>2, <2>5, <3>2, <4>1, <4>2, CallWrite DEF NoLegacy
    <3>3. QED
      BY <3>1, <3>2
  <2>6. QED
    BY <2>3, <2>4, <2>5
<1>3. CASE /\ Called(c) /\ UNCHANGED <<file, hit, fetched>>
           /\ known'[c] = {file[v] : v \in {"v1", "v2"}} \cap Result
  <2>1. SUFFICES ASSUME NEW g \in known'[c]
                 PROVE  /\ g <= fetched'
                        /\ file'["v2"] \in Result => g <= file'["v2"]
                        /\ \A e \in Call : worker'[e] = "write" => g < hit'[e].result
    BY DEF KnownIsOld
  <2>2. g = file["v2"] /\ file["v2"] \in Result
    BY <1>3, <2>1 DEF NoLegacy
  <2>3. \A e \in Call : worker'[e] = "write" => worker[e] = "write"
    BY <1>3 DEF Called, Start
  <2>4. g <= fetched' /\ g <= file["v2"] /\ file' = file
    <3>1. file["v2"] <= fetched
      BY <2>2 DEF Ages
    <3>2. file["v2"] \in Int
      BY <1>0, <2>2
    <3>3. QED
      BY <1>3, <2>2, <3>1, <3>2
  <2>5. ASSUME NEW e \in Call, worker'[e] = "write"
        PROVE  g < hit'[e].result
    BY <1>3, <2>2, <2>3, <2>5 DEF Ahead
  <2>6. QED
    BY <2>4, <2>5, <2>2
<1>4. ASSUME NEW p \in Process, Crash(p)
      PROVE  KnownIsOld(c)'
  <2>1. UNCHANGED <<file, hit, fetched, known>>
    BY <1>4 DEF Crash, past
  <2>2. \A e \in Call : worker'[e] = "write" => worker[e] = "write"
    BY <1>4 DEF Crash
  <2>3. QED
    BY <2>1, <2>2 DEF KnownIsOld
<1>5. ASSUME NEW d \in Call, Query(d) \/ Task(d) \/ Stop(d)
      PROVE  KnownIsOld(c)'
  <2>1. CASE d # c
    <3>1. known'[c] = known[c]
      BY <1>0, <1>5, <2>1, CallStep DEF StepOf, Spares
    <3>2. QED
      BY <1>2, <1>5, <3>1
  <2>2. CASE d = c
    BY <1>0, <1>2, <1>3, <1>5, <2>2, CallKnown
  <2>3. QED
    BY <2>1, <2>2
<1>6. QED
  BY <1>1, <1>4, <1>5 DEF Next

\* A step of another call leaves the refresh its course.
LEMMA OthersCourse ==
    ASSUME CoordInv, NEW c \in Call, KnownIsOld(c), CourseOf(c),
           pc'[c] = pc[c], worker'[c] = worker[c], hit'[c] = hit[c], baseline'[c] = baseline[c],
           known'[c] = known[c], answer'[c] = answer[c],
           InFlight(c)' = InFlight(c),
           \/ file'["v2"] \in {file["v2"], None}
           \/ \E d \in Call : Write(d) /\ file'["v2"] = hit[d].result
    PROVE  CourseOf(c)'
<1>1. Newer(c) => Newer(c)'
  <2>1. CASE file'["v2"] \in {file["v2"], None}
    BY <2>1, CoordinationNone DEF Newer
  <2>2. ASSUME NEW d \in Call, Write(d), file'["v2"] = hit[d].result
        PROVE  file'["v2"] \notin known[c]
    <3>1. \A g \in known[c] : g < hit[d].result /\ g \in Int
      BY <2>2 DEF Write, KnownIsOld, CoordInv, TypeOK, Result
    <3>2. QED
      BY <2>2, <3>1
  <2>3. QED
    BY <2>1, <2>2 DEF Newer
<1>2. QED
  BY <1>1 DEF CourseOf, NewHit, Accepts

\* The refresh returns something new, or nothing.
LEMMA ReturnCourse ==
    ASSUME CoordInv, NEW c \in Call, CourseOf(c),
           NEW result, NEW published, Return(c, result, published), result \notin known[c],
           UNCHANGED <<file, worker, baseline, known>>,
           worker[c] # "none" => hit'[c] = hit[c],
           InFlight(c)' => InFlight(c) \/ Joins(c)
    PROVE  CourseOf(c)'
<1> USE DEF CoordInv, TypeOK
<1>1. pc'[c] = "returned" /\ answer'[c] = result
  BY DEF Return, Goto
<1>2. InFlight(c)' => InFlight(c)
  BY <1>1 DEF Joins, Join, Goto
<1>3. Newer(c)' = Newer(c)
  BY DEF Newer
<1>4. worker'[c] \in Writing => NewHit(c)'
  BY DEF CourseOf, NewHit, Writing
<1>5. QED
  BY <1>1, <1>2, <1>3, <1>4 DEF CourseOf, Probing

\* A probe of the refresh at an end.
LEMMA ProbedCourse ==
    ASSUME CoordInv, NEW c \in Call, PolicyOf[c] = "Refresh", CourseOf(c), PhaseOf(c),
           NEW h, Probed(c, h, FALSE), pc[c] \in Probing,
           \/ h = None /\ pc[c] = "probe v1"
           \/ h = [result |-> file["v2"], from |-> "v2"] /\ file["v2"] \in Result,
           UNCHANGED <<file, worker, known>>,
           InFlight(c)' => InFlight(c) \/ Joins(c)
    PROVE  CourseOf(c)'
<1> USE DEF CoordInv, TypeOK
<1>1. worker[c] = "none"
  BY DEF PhaseOf, Probing
<1>2. CASE Settles(c, h, FALSE)
  <2>1. InFlight(c) /\ h.from = "v2" /\ h = [result |-> file["v2"], from |-> "v2"]
        /\ (baseline[c] = None \/ h.result # baseline[c].result)
    BY <1>2 DEF Settles, AcceptsWithoutLease, Accepts
  <2>2. h.result \notin known[c]
    BY <2>1 DEF CourseOf, Newer
  <2>3. QED
    BY <1>1, <1>2, <2>2, ReturnCourse DEF Probed
<1>3. CASE ~Settles(c, h, FALSE) /\ InFlight(c)
  <2>1. pc'[c] = "leasing" /\ UNCHANGED <<baseline, answer>>
    BY <1>3 DEF Probed, Goto
  <2>2. Newer(c)'
    BY <1>3, <2>1 DEF CourseOf, Newer
  <2>3. QED
    BY <1>1, <2>1, <2>2 DEF CourseOf, Probing, Writing
<1>4. CASE ~Settles(c, h, FALSE) /\ ~InFlight(c)
  <2>1. pc'[c] = "queued" /\ answer' = answer /\ baseline'[c] = h
    BY <1>4 DEF Probed, Join, Goto
  <2>2. CASE h = None /\ pc[c] = "probe v1"
    <3>1. Newer(c) /\ baseline[c] = None
      BY <1>4, <2>2 DEF CourseOf
    <3>2. Newer(c)'
      BY <2>1, <2>2, <3>1 DEF Newer
    <3>3. QED
      BY <1>1, <2>1, <3>2 DEF CourseOf, Probing, Writing
  <2>3. CASE h = [result |-> file["v2"], from |-> "v2"] /\ file["v2"] \in Result
    <3>1. Newer(c)'
      <4>1. h \in Hit /\ h.result = file["v2"]
        BY <2>3 DEF Hit
      <4>2. h # None
        BY <4>1, CoordinationNone
      <4>3. QED
        BY <2>1, <4>1, <4>2 DEF Newer
    <3>2. QED
      BY <1>1, <2>1, <3>1 DEF CourseOf, Probing, Writing
  <2>4. QED
    BY <2>2, <2>3
<1>5. QED
  BY <1>2, <1>3, <1>4

LEMMA CallCourse ==
    ASSUME CoordInv, NoLegacy, NEW c \in Call, PolicyOf[c] = "Refresh",
           RenewsOf(c), Query(c) \/ Task(c) \/ Stop(c),
           InFlight(c)' => InFlight(c) \/ Joins(c)
    PROVE  CourseOf(c)'
<1> USE DEF CoordInv, TypeOK, Hit
<1>0. /\ Base /\ PhaseOf(c) /\ CourseOf(c) /\ known[c] \subseteq Result
      /\ None \notin Result /\ Corrupt \notin Result
      /\ PolicyOf[c] # "Offline" /\ PolicyOf[c] # "Prefer"
  BY CoordinationNone DEF Base, Phases, RenewsOf
<1>a. InFlight(c)' => InFlight(c) \/ pc[c] \in Probing
  BY DEF Joins
<1>1. CASE Called(c)
  BY <1>0, <1>a, <1>1 DEF Called, Goto, CourseOf, PhaseOf, Newer, Probing, Writing
<1>2. CASE ProbeV2(c)
  <2>1. pc[c] \in Probing /\ UNCHANGED <<file, worker, known>> /\ worker[c] = "none"
    BY <1>0, <1>2 DEF ProbeV2, past, Probing, PhaseOf
  <2>2. CASE file["v2"] \notin Result
    <3>1. /\ pc'[c] = "probe v1" /\ UNCHANGED <<baseline, flight, answer>>
      BY <1>2, <2>2 DEF ProbeV2, Goto
    <3>2. Newer(c)' /\ InFlight(c)' = InFlight(c)
      BY <2>1, <2>2, <3>1 DEF Newer, flight, InFlight
    <3>3. QED
      BY <1>0, <2>1, <3>1, <3>2 DEF CourseOf, Probing, Writing
  <2>3. CASE file["v2"] \in Result
    <3>1. Probed(c, [result |-> file["v2"], from |-> "v2"], FALSE)
      BY <1>0, <1>2, <2>3 DEF ProbeV2
    <3>2. QED
      BY <1>0, <2>1, <2>3, <3>1, ProbedCourse
  <2>4. QED
    BY <2>2, <2>3
<1>3. CASE ProbeV1(c)
  <2>1. /\ pc[c] = "probe v1" /\ UNCHANGED <<file, worker, known>>
        /\ Probed(c, None, FALSE)
    BY <1>3 DEF ProbeV1, past, NoLegacy
  <2>2. QED
    BY <1>0, <2>1, ProbedCourse DEF Probing
<1>4. CASE ProbeLegacy(c)
  BY <1>0, <1>4 DEF ProbeLegacy, CourseOf
<1>5. CASE Enter(c)
  <2>1. c \notin waited
    BY DEF RenewsOf, OwnFlight
  <2>2. /\ pc[c] = "queued" /\ pc'[c] = "leasing" /\ worker[c] = "none"
        /\ UNCHANGED <<file, worker, hit, baseline, known, line, answer>>
    BY <1>0, <1>5, <2>1 DEF Enter, Goto, past, PhaseOf
  <2>3. Newer(c)' = Newer(c) /\ InFlight(c)' = InFlight(c)
    BY <2>2 DEF Newer, InFlight
  <2>4. QED
    BY <1>0, <2>2, <2>3 DEF CourseOf, Probing, Writing
<1>6. CASE Lease(c) \/ LeaseBusy(c)
  <2>1. /\ pc[c] = "leasing" /\ worker[c] = "none" /\ InFlight(c)
        /\ pc'[c] \in {"awaiting", "probe v2"} /\ worker'[c] \in {"none", "read v2"}
        /\ UNCHANGED <<file, baseline, known, line, answer>>
    BY <1>0, <1>6 DEF Lease, LeaseBusy, Start, Goto, flight, past, PhaseOf
  <2>2. Newer(c)' = Newer(c) /\ InFlight(c)' = InFlight(c)
    BY <2>1 DEF Newer, InFlight
  <2>3. QED
    BY <1>0, <2>1, <2>2 DEF CourseOf, Probing, Writing
<1>7. CASE Decide(c)
  <2>1. /\ pc[c] = "deciding" /\ worker[c] = "none" /\ InFlight(c)
        /\ UNCHANGED <<file, hit, baseline, known, line, answer>>
    BY <1>0, <1>7 DEF Decide, flight, past, PhaseOf, Leased
  <2>2. \/ pc'[c] = "awaiting" /\ hit[c] # None /\ Accepts(c, hit[c])
        \/ pc'[c] = "fetching" /\ worker'[c] = "none"
    BY <1>7, <2>1 DEF Decide, Start, Goto
  <2>3. Newer(c)' = Newer(c) /\ InFlight(c)' = InFlight(c) /\ NewHit(c)' = NewHit(c)
    BY <2>1 DEF Newer, InFlight, NewHit
  <2>4. QED
    BY <1>0, <2>1, <2>2, <2>3 DEF CourseOf, Probing, Writing
<1>8. CASE Fetch(c) \/ FetchSkipped(c)
  <2>1. /\ pc[c] = "fetching" /\ InFlight(c) /\ pc'[c] \in {"awaiting", "done"}
        /\ hit'[c] = [result |-> fetched + 1, from |-> "network"]
        /\ UNCHANGED <<file, baseline, known, line, answer>>
    BY <1>0, <1>8 DEF Fetch, FetchSkipped, Start, Goto, See, flight, PhaseOf, Leased
  <2>2. Newer(c)' = Newer(c) /\ InFlight(c)' = InFlight(c)
    BY <2>1 DEF Newer, InFlight
  <2>3. fetched + 1 \notin known[c]
    <3>1. \A g \in known[c] : g \in Int /\ fetched \in Int /\ g <= fetched
      BY <1>0 DEF RenewsOf, KnownIsOld, Result
    <3>2. QED
      BY <3>1
  <2>4. NewHit(c)'
    BY <2>1, <2>3 DEF NewHit
  <2>5. QED
    BY <1>0, <2>1, <2>2, <2>4 DEF CourseOf, Probing
<1>9. CASE FetchFails(c)
  <2>1. /\ pc[c] = "fetching" /\ pc'[c] = "failed" /\ worker[c] = "none"
        /\ UNCHANGED <<file, worker, baseline, known, line, answer>>
    BY <1>0, <1>9 DEF FetchFails, Goto, flight, past, PhaseOf, Leased
  <2>2. Newer(c)' = Newer(c) /\ InFlight(c)' = InFlight(c)
    BY <2>1 DEF Newer, InFlight
  <2>3. QED
    BY <1>0, <2>1, <2>2 DEF CourseOf, Probing, Writing
<1>10. CASE Reply(c) \/ Fail(c) \/ Stop(c)
  <2>1. \E result, published : Return(c, result, published) /\ result \notin known[c]
    <3>1. CASE Reply(c)
      <4>1. hit[c].result \notin known[c]
        BY <1>0, <3>1 DEF Reply, CourseOf, NewHit
      <4>2. QED
        BY <3>1, <4>1 DEF Reply
    <3>2. CASE Fail(c) \/ Stop(c)
      BY <1>0, <3>2 DEF Fail, Stop
    <3>3. QED
      BY <1>10, <3>1, <3>2
  <2>2. UNCHANGED <<file, worker, hit, baseline, known>>
    BY <1>10 DEF Reply, Fail, Stop, past
  <2>3. QED
    BY <1>0, <2>1, <2>2, ReturnCourse
<1>11. CASE Task(c)
  <2>1. /\ pc[c] \in {"awaiting", "returned"} /\ (pc[c] = "awaiting" => InFlight(c))
        /\ UNCHANGED <<baseline, known, line, answer>>
    BY <1>0, <1>11 DEF Task, ReadV2, MoveV2, ReadV1, MoveV1, Write, WriteFails, Sync, SyncFails,
       DropLegacy, DropFails, flight, past, PhaseOf
  <2>2. InFlight(c)' = InFlight(c)
    BY <2>1 DEF InFlight
  <2>3. Newer(c) => Newer(c)'
    <3>1. CASE file'["v2"] \in {file["v2"], None}
      BY <1>0, <2>1, <3>1 DEF Newer
    <3>2. CASE Write(c) /\ file'["v2"] = hit[c].result
      <4>1. hit[c].result \notin known[c]
        BY <1>0, <3>2 DEF Write, CourseOf, NewHit, Writing
      <4>2. QED
        BY <2>1, <3>2, <4>1 DEF Newer
    <3>3. QED
      BY <1>0, <1>11, <3>1, <3>2, CallFile
  <2>4. CASE ReadV2(c)
    <3>1. CASE file["v2"] \in Result
      <4>1. /\ hit'[c].result = file["v2"] /\ pc'[c] \in {"deciding", "returned"}
            /\ pc'[c] = "deciding" => pc[c] = "awaiting"
            /\ worker'[c] = "none"
        <5> DEFINE l == IF PolicyOf[c] = "Offline" THEN "done" ELSE "deciding"
        <5>1. See(c, [result |-> file["v2"], from |-> "v2"]) /\ Finish(c, l)
          BY <1>0, <2>4, <3>1 DEF ReadV2
        <5>2. hit'[c] = [result |-> file["v2"], from |-> "v2"]
          BY <5>1 DEF See
        <5>3. worker'[c] = "none" /\ pc'[c] = IF pc[c] = "awaiting" THEN l ELSE pc[c]
          BY <5>1 DEF Finish
        <5>4. QED
          BY <1>0, <2>1, <5>2, <5>3
      <4>2. ASSUME pc'[c] = "deciding", Accepts(c, hit[c])'
            PROVE  NewHit(c)'
        <5>1. baseline[c] = None \/ file["v2"] # baseline[c].result
          BY <1>0, <2>1, <4>1, <4>2 DEF Accepts
        <5>2. Newer(c)
          BY <1>0, <2>1, <4>1, <4>2 DEF CourseOf
        <5>3. QED
          BY <2>1, <3>1, <4>1, <5>1, <5>2 DEF Newer, NewHit
      <4>3. QED
        BY <1>0, <2>1, <2>2, <2>3, <4>1, <4>2 DEF CourseOf, Probing, Writing
    <3>2. CASE file["v2"] \notin Result
      <4>1. worker'[c] \in {"move v2", "read v1"} /\ pc'[c] = pc[c]
        BY <2>4, <3>2 DEF ReadV2, Proceed
      <4>2. QED
        BY <1>0, <2>1, <2>2, <2>3, <4>1 DEF CourseOf, Probing, Writing
    <3>3. QED
      BY <3>1, <3>2
  <2>5. CASE MoveV2(c) \/ ReadV1(c) \/ MoveV1(c)
    <3>1. worker[c] \in Reading /\ hit'[c] = None
      BY <1>0, <2>5 DEF MoveV2, ReadV1, MoveV1, NoLegacy, Reading, PhaseOf
    <3>2. worker'[c] \in {"none", "read v1", "move v1"}
      BY <2>5 DEF MoveV2, ReadV1, MoveV1, Proceed, Finish
    <3>3. pc'[c] \in {pc[c], "deciding"}
      BY <1>0, <2>5 DEF MoveV2, ReadV1, MoveV1, Proceed, Finish, NoLegacy
    <3>4. QED
      BY <1>0, <2>1, <2>2, <2>3, <3>1, <3>2, <3>3 DEF CourseOf, Probing, Writing
  <2>6. CASE Write(c) \/ WriteFails(c) \/ Sync(c) \/ SyncFails(c) \/ DropLegacy(c) \/ DropFails(c)
    <3>1. worker[c] \in Writing /\ hit' = hit
      BY <2>6 DEF Write, WriteFails, Sync, SyncFails, DropLegacy, DropFails, Writing
    <3>2. NewHit(c)'
      BY <1>0, <2>1, <3>1 DEF CourseOf, NewHit
    <3>3. pc'[c] \in {pc[c], "done", "failed"}
      BY <2>6 DEF Write, WriteFails, Sync, SyncFails, DropLegacy, DropFails, Proceed, Finish
    <3>4. QED
      BY <1>0, <2>1, <2>2, <2>3, <3>2, <3>3 DEF CourseOf, Probing
  <2>7. QED
    BY <1>11, <2>4, <2>5, <2>6 DEF Task
<1>12. QED
  BY <1>1, <1>2, <1>3, <1>4, <1>5, <1>6, <1>7, <1>8, <1>9, <1>10, <1>11 DEF Query

LEMMA NextRenews ==
    ASSUME RefreshesAlone, CoordInv, Renews, [Next]_vars
    PROVE  Renews'
<1>0. Base /\ Base' /\ NoLegacy
  BY NextBase DEF CoordInv, Base, Renews
<1>1. NoLegacy'
  BY <1>0, NextNoLegacy
<1>2. SUFFICES ASSUME NEW c \in Call, PolicyOf[c] = "Refresh"
               PROVE  RenewsOf(c)'
  BY <1>1 DEF Renews
<1>3. RenewsOf(c)
  BY <1>2 DEF Renews
<1>4. OwnFlight(c)' /\ KnownIsOld(c)' /\ (InFlight(c)' => InFlight(c) \/ Joins(c))
  BY <1>0, <1>2, <1>3, NextOwnFlight, NextKnown DEF RenewsOf
<1>5. CourseOf(c)'
  <2>1. CASE UNCHANGED vars
    BY <1>3, <2>1 DEF vars, RenewsOf, CourseOf, InFlight, Newer, NewHit, Accepts
  <2>2. ASSUME Query(c) \/ Task(c) \/ Stop(c)
        PROVE  CourseOf(c)'
    BY <1>0, <1>2, <1>3, <1>4, <2>2, CallCourse
  <2>3. ASSUME NEW d \in Call, d # c, Query(d) \/ Task(d) \/ Stop(d)
        PROVE  CourseOf(c)'
    <3>1. Spares(d)
      BY <1>0, <2>3, CallStep DEF StepOf
    <3>2. ~Joins(c)
      <4>1. pc'[c] = pc[c]
        BY <2>3, <3>1 DEF Spares
      <4>2. Joins(c) => pc'[c] = "queued" /\ pc[c] # "queued"
        BY DEF Joins, Join, Goto, Probing, CoordInv, TypeOK
      <4>3. QED
        BY <4>1, <4>2
    <3>3. InFlight(c)' = InFlight(c)
      BY <1>4, <2>3, <3>1, <3>2 DEF Spares, InFlight
    <3>4. \/ file'["v2"] \in {file["v2"], None}
          \/ Write(d) /\ file'["v2"] = hit[d].result
      BY <1>0, <2>3, CallFile
    <3>5. QED
      BY <1>3, <2>3, <3>1, <3>3, <3>4, OthersCourse DEF Spares, RenewsOf
  <2>4. ASSUME NEW p \in Process, Crash(p)
        PROVE  CourseOf(c)'
    <3>1. UNCHANGED <<file, hit, baseline, known, answer>>
      BY <2>4 DEF Crash, past
    <3>2. Newer(c)' = Newer(c) /\ NewHit(c)' = NewHit(c) /\ (Accepts(c, hit[c])' = Accepts(c, hit[c]))
      BY <3>1 DEF Newer, NewHit, Accepts
    <3>3. CASE ProcessOf[c] = p
      <4>1. pc'[c] = "dead" /\ worker'[c] = "none" /\ line'[p] = <<>>
        BY <2>4, <3>3 DEF Crash, CoordInv, TypeOK
      <4>2. ~InFlight(c)'
        BY <3>3, <4>1 DEF InFlight
      <4>3. QED
        BY <1>3, <3>1, <4>1, <4>2 DEF RenewsOf, CourseOf, Probing, Writing
    <3>4. CASE ProcessOf[c] # p
      <4>1. pc'[c] = pc[c] /\ worker'[c] = worker[c]
        BY <2>4, <3>4 DEF Crash
      <4>2. InFlight(c)' = InFlight(c)
        BY <2>4, <3>4, CoordinationConstants DEF Crash, InFlight, CoordInv, TypeOK
      <4>3. QED
        BY <1>3, <3>1, <3>2, <4>1, <4>2 DEF RenewsOf, CourseOf
    <3>5. QED
      BY <3>3, <3>4
  <2>5. QED
    BY <2>1, <2>2, <2>3, <2>4 DEF Next
<1>6. QED
  BY <1>4, <1>5 DEF RenewsOf

LEMMA InitRenews ==
    ASSUME NothingToPromote, Init
    PROVE  Renews
<1>1. file["v1"] \notin Result
  BY DEF Init, NothingToPromote
<1>2. \A c \in Call : line[ProcessOf[c]] = <<>>
  BY CoordinationConstants DEF Init
<1>3. QED
  BY <1>1, <1>2 DEF Init, Renews, NoLegacy, RenewsOf, OwnFlight, KnownIsOld, CourseOf, InFlight,
     Probing, Writing

\* A refresh that shares its process with offline reads at most, with no v1
\* entry to promote, does not return what was in the cache when it was called
\* (client.rs, Coordination::accepts with same_refresh_generation).
THEOREM RefreshReturnsNew ==
    ASSUME RefreshesAlone, NothingToPromote
    PROVE  Spec => []RefreshIsNew
<1>1. Init => CoordInv /\ Renews
  BY InitCoordInv, InitRenews
<1>2. CoordInv /\ Renews /\ [Next]_vars => (CoordInv /\ Renews)'
  BY NextCoordInv, NextRenews
<1>3. CoordInv /\ Renews => RefreshIsNew
  BY DEF Renews, RenewsOf, CourseOf, RefreshIsNew
<1>4. QED
  BY <1>1, <1>2, <1>3, PTL DEF Spec
=============================================================================
