----------------------------- MODULE QuotaProof -----------------------------
(***************************************************************************)
(* The quota counts every unit, for every number of calls, credentials and *)
(* days and every limit, as long as no reservation spans midnight.         *)
(*                                                                         *)
(* The argument is the classical one of a critical section: one worker at  *)
(* a time is between its read and its write, so what it writes is one unit *)
(* more than what is there; and since its day is the clock's day, pruning  *)
(* takes nothing that counts.                                              *)
(*                                                                         *)
(* The retry engine on top of the quota: its steps are the quota's steps,  *)
(* so that what is shown of the quota carries over, and every attempt it   *)
(* sends has a committed unit of its own.                                  *)
(***************************************************************************)
EXTENDS Transport, FiniteSetTheorems, TLAPS

QInv ==
    /\ QuotaTypeOK
    /\ OneWriter
    /\ BufferIsCurrent

DayInv ==
    /\ DaysAreFresh
    /\ NothingCommittedAhead
    /\ CountsEveryUnit

-----------------------------------------------------------------------------
(* What the helpers return                                                 *)

\* Reading never fails to give data, whichever format is on disk.
LEMMA ObservedType ==
    ASSUME QuotaTypeOK, NEW p \in Call
    PROVE  Observed(p) \in Data
BY QuotaConstants DEF QuotaTypeOK, Observed, Data, Empty

\* A count is a natural number within the limit.
LEMMA CountOnType ==
    ASSUME NEW data \in Data, NEW k \in Key, NEW d \in Day
    PROVE  CountOn(data, k, d) \in 0 .. Limit
<1>1. CASE data[k] # None /\ data[k].date = d
  <2>1. data[k] \in Entry
    BY <1>1 DEF Data
  <2>2. QED
    BY <1>1, <2>1 DEF CountOn, Entry
<1>2. CASE ~(data[k] # None /\ data[k].date = d)
  BY <1>2, QuotaConstants DEF CountOn
<1>3. QED
  BY <1>1, <1>2

\* Below the limit there is an entry with one unit more.
LEMMA ReservedType ==
    ASSUME NEW p \in Call, NEW data \in Data, QuotaTypeOK,
           Existing(data, p) < Limit
    PROVE  Reserved(data, p) \in Data
<1>1. KeyOf[p] \in Key /\ date[p] \in Day
  BY QuotaConstants DEF QuotaTypeOK
<1>2. Existing(data, p) + 1 \in 0 .. Limit
  BY <1>1, CountOnType, QuotaConstants DEF Existing
<1>3. [date |-> date[p], count |-> Existing(data, p) + 1] \in Entry
  BY <1>1, <1>2 DEF Entry
<1>4. Retained(data, date[p]) \in Data
  BY DEF Retained, Data
<1>5. QED
  BY <1>1, <1>3, <1>4 DEF Reserved, Data

\* A reservation adds one unit to its own count of its day, and keeps the
\* count of every other credential for that day.
LEMMA ReservedCounts ==
    ASSUME NEW p \in Call, NEW data \in Data, QuotaTypeOK,
           Existing(data, p) < Limit, NEW k \in Key
    PROVE  CountOn(Reserved(data, p), k, date[p]) =
             IF k = KeyOf[p] THEN CountOn(data, k, date[p]) + 1
                             ELSE CountOn(data, k, date[p])
<1>1. KeyOf[p] \in Key /\ date[p] \in Day
  BY QuotaConstants DEF QuotaTypeOK
<1> DEFINE e == [date |-> date[p], count |-> Existing(data, p) + 1]
<1>2. e # None
  <2>1. Existing(data, p) + 1 \in 0 .. Limit
    BY <1>1, CountOnType, QuotaConstants DEF Existing
  <2>2. e \in Entry
    BY <1>1, <2>1 DEF Entry
  <2>3. QED
    BY <2>2, QuotaNone
<1>3. CASE k = KeyOf[p]
  <2>1. Reserved(data, p)[k] = e
    BY <1>1, <1>3 DEF Reserved, Retained
  <2>2. QED
    BY <1>2, <1>3, <2>1 DEF CountOn, Existing
<1>4. CASE k # KeyOf[p]
  <2>1. Reserved(data, p)[k] = Retained(data, date[p])[k]
    BY <1>4 DEF Reserved, Retained
  <2>2. QED
    BY <1>4, <2>1 DEF CountOn, Retained
<1>5. QED
  BY <1>3, <1>4

-----------------------------------------------------------------------------
(* Types, mutual exclusion and the buffer: no assumption on midnight        *)

LEMMA InitQInv == QuotaInit => QInv
BY QuotaConstants, QuotaNone
   DEF QuotaInit, QInv, QuotaTypeOK, OneWriter, BufferIsCurrent, Data, Empty,
       Entry, Day, Underway, Answers, Locked

\* A worker that has read the ledger keeps it to itself until it is done.
LEMMA NextQInv ==
    ASSUME QInv, [QuotaNext]_quotaVars
    PROVE  QInv'
<1> USE QuotaConstants, QuotaNone
    DEF QInv, QuotaTypeOK, OneWriter, Underway, Locked, Answers, Answer
<1>1. ASSUME NEW p \in Call, Request(p) PROVE QInv'
  <2>1. QuotaTypeOK' /\ OneWriter'
    BY <1>1 DEF Request
  <2>2. BufferIsCurrent'
    BY <1>1 DEF Request, BufferIsCurrent, Reserved, Existing, Observed
  <2>3. QED
    BY <2>1, <2>2
<1>2. ASSUME NEW p \in Call, Collect(p) PROVE QInv'
  <2>1. QuotaTypeOK' /\ OneWriter'
    BY <1>2 DEF Collect
  <2>2. BufferIsCurrent'
    BY <1>2 DEF Collect, BufferIsCurrent, Reserved, Existing, Observed
  <2>3. QED
    BY <2>1, <2>2
<1>3. ASSUME NEW p \in Call, GiveUp(p) PROVE QInv'
  <2>1. QuotaTypeOK' /\ OneWriter'
    BY <1>3 DEF GiveUp
  <2>2. BufferIsCurrent'
    BY <1>3 DEF GiveUp, BufferIsCurrent, Reserved, Existing, Observed
  <2>3. QED
    BY <2>1, <2>2
<1>4. ASSUME NEW p \in Call, Acquire(p) PROVE QInv'
  <2>1. QuotaTypeOK'
    BY <1>4 DEF Acquire
  <2>2. ASSUME NEW q \in Call, worker[q] \in Locked PROVE q = p
    BY <1>4, <2>2 DEF Acquire, Free
  <2>3. OneWriter'
    BY <1>4, <2>2 DEF Acquire
  <2>4. BufferIsCurrent'
    BY <1>4 DEF Acquire, BufferIsCurrent, Reserved, Existing, Observed
  <2>5. QED
    BY <2>1, <2>3, <2>4
<1>5. ASSUME NEW p \in Call, ReadFails(p) PROVE QInv'
  <2>1. QuotaTypeOK' /\ OneWriter'
    BY <1>5 DEF ReadFails, Finish, Data, Empty
  <2>2. BufferIsCurrent'
    BY <1>5 DEF ReadFails, BufferIsCurrent, Reserved, Existing, Observed, Finish
  <2>3. QED
    BY <2>1, <2>2
<1>6. ASSUME NEW p \in Call, ReadExhausted(p) PROVE QInv'
  <2>1. QuotaTypeOK' /\ OneWriter'
    BY <1>6 DEF ReadExhausted, Finish, Data, Empty
  <2>2. BufferIsCurrent'
    BY <1>6 DEF ReadExhausted, BufferIsCurrent, Reserved, Existing, Observed, Finish
  <2>3. QED
    BY <2>1, <2>2
<1>7. ASSUME NEW p \in Call, ReadAdmits(p) PROVE QInv'
  <2>1. Reserved(Observed(p), p) \in Data
    BY <1>7, ObservedType, ReservedType DEF ReadAdmits
  <2>2. QuotaTypeOK'
    BY <1>7, <2>1 DEF ReadAdmits
  <2>3. OneWriter'
    BY <1>7 DEF ReadAdmits
  <2>4. BufferIsCurrent'
    BY <1>7, <2>1 DEF ReadAdmits, BufferIsCurrent, Reserved, Existing, Observed
  <2>5. QED
    BY <2>2, <2>3, <2>4
<1>8. ASSUME NEW p \in Call, WriteFails(p) PROVE QInv'
  <2>1. QuotaTypeOK' /\ OneWriter'
    BY <1>8 DEF WriteFails, Finish, Data, Empty
  <2>2. BufferIsCurrent'
    BY <1>8 DEF WriteFails, BufferIsCurrent, Reserved, Existing, Observed, Finish
  <2>3. QED
    BY <2>1, <2>2
<1>9. ASSUME NEW p \in Call, Write(p) PROVE QInv'
  <2>1. QuotaTypeOK'
    BY <1>9 DEF Write, Finish, Data, Empty
  <2>2. ASSUME NEW q \in Call, q # p PROVE worker'[q] \notin Locked
    BY <1>9, <2>2 DEF Write, Finish
  <2>3. worker'[p] \notin Locked
    BY <1>9 DEF Write, Finish
  <2>4. OneWriter' /\ BufferIsCurrent'
    BY <1>9, <2>2, <2>3 DEF BufferIsCurrent
  <2>5. QED
    BY <2>1, <2>4
<1>10. ASSUME NEW p \in Call, Stop(p) PROVE QInv'
  <2>1. QuotaTypeOK' /\ OneWriter'
    BY <1>10 DEF Stop
  <2>2. BufferIsCurrent'
    BY <1>10 DEF Stop, BufferIsCurrent, Reserved, Existing, Observed
  <2>3. QED
    BY <2>1, <2>2
<1>11. ASSUME NEW p \in Call, Crash(p) PROVE QInv'
  <2>1. QuotaTypeOK' /\ OneWriter'
    BY <1>11 DEF Crash
  <2>2. BufferIsCurrent'
    BY <1>11 DEF Crash, BufferIsCurrent, Reserved, Existing, Observed
  <2>3. QED
    BY <2>1, <2>2
<1>12. CASE Tomorrow
  <2>1. QuotaTypeOK' /\ OneWriter'
    BY <1>12 DEF Tomorrow, Day
  <2>2. BufferIsCurrent'
    BY <1>12 DEF Tomorrow, BufferIsCurrent, Reserved, Existing, Observed
  <2>3. QED
    BY <2>1, <2>2
<1>13. CASE UNCHANGED quotaVars
  BY <1>13 DEF quotaVars, BufferIsCurrent, Reserved, Existing, Observed
<1>14. QED
  BY <1>1, <1>2, <1>3, <1>4, <1>5, <1>6, <1>7, <1>8, <1>9, <1>10, <1>11,
     <1>12, <1>13 DEF QuotaNext, Work

\* The variables stay in their sets: in particular a count on disk never
\* passes DAILY_LIMIT, whatever midnights and crashes happen.
THEOREM QuotaTypeCorrect == QuotaSpec => []QuotaTypeOK
<1>1. QInv => QuotaTypeOK
  BY DEF QInv
<1>2. QED
  BY <1>1, InitQInv, NextQInv, PTL DEF QuotaSpec

-----------------------------------------------------------------------------
(* No reservation spans midnight: today's count covers today's units        *)

LEMMA InitDayInv == QuotaInit => DayInv
BY QuotaConstants, QuotaNone
   DEF QuotaInit, DayInv, DaysAreFresh, NothingCommittedAhead, CountsEveryUnit,
       CountOn, Empty, Day, Underway

\* A unit is written on top of every unit of the day.
LEMMA WriteDayInv ==
    ASSUME QInv, DayInv, NEW p \in Call, Write(p)
    PROVE  DayInv'
<1> USE QuotaConstants, QuotaNone DEF QInv, QuotaTypeOK
<1> DEFINE seenData == Observed(p)
<1>1. /\ worker[p] = "writing" /\ date[p] = today
      /\ ledger' = Reserved(seenData, p)
      /\ Existing(seenData, p) < Limit
  BY DEF Write, DayInv, DaysAreFresh, BufferIsCurrent, Underway
<1>2. seenData \in Data
  BY ObservedType
<1>3. KeyOf[p] \in Key /\ today \in Day /\ today' = today
  BY DEF Write
<1>4. commits' = [commits EXCEPT ![KeyOf[p]][today] = @ + 1]
  BY <1>1 DEF Write
<1>5. DaysAreFresh'
  BY DEF DayInv, DaysAreFresh, Write, Finish, Answer, Underway
<1>6. NothingCommittedAhead'
  <2>1. legacy' = None
    BY DEF Write
  <2>2. ASSUME NEW k \in Key, NEW d \in Day, d > today
        PROVE  commits'[k][d] = 0
    BY <1>3, <1>4, <2>2 DEF DayInv, NothingCommittedAhead, Day
  <2>3. QED
    BY <1>3, <2>1, <2>2 DEF NothingCommittedAhead
<1>7. ASSUME NEW k \in Key
      PROVE  /\ commits'[k][today] <= CountOn(ledger', k, today)
             /\ CountOn(ledger', k, today) <= Limit
  <2>1. commits[k][today] <= CountOn(seenData, k, today)
    <3>1. CASE legacy = None
      BY <3>1 DEF Observed, DayInv, CountsEveryUnit
    <3>2. CASE legacy # None
      <4>1. commits[k][today] = 0
        BY <1>3, <3>2 DEF DayInv, NothingCommittedAhead
      <4>2. CountOn(seenData, k, today) \in 0 .. Limit
        BY <1>2, <1>3, CountOnType
      <4>3. QED
        BY <4>1, <4>2
    <3>3. QED
      BY <3>1, <3>2
  <2>2. CountOn(seenData, k, today) \in 0 .. Limit
    BY <1>2, <1>3, CountOnType
  <2>3. commits[k][today] \in Nat
    BY <1>3
  <2>4. CASE k = KeyOf[p]
    <3>1. CountOn(ledger', k, today) = CountOn(seenData, k, today) + 1
      BY <1>1, <1>2, <2>4, ReservedCounts
    <3>2. commits'[k][today] = commits[k][today] + 1
      BY <1>3, <1>4, <2>4
    <3>3. CountOn(seenData, k, today) < Limit
      BY <1>1, <2>4 DEF Existing
    <3>4. QED
      BY <2>1, <2>2, <2>3, <3>1, <3>2, <3>3
  <2>5. CASE k # KeyOf[p]
    <3>1. CountOn(ledger', k, today) = CountOn(seenData, k, today)
      BY <1>1, <1>2, <2>5, ReservedCounts
    <3>2. commits'[k][today] = commits[k][today]
      BY <1>3, <1>4, <2>5
    <3>3. QED
      BY <2>1, <2>2, <3>1, <3>2
  <2>6. QED
    BY <2>4, <2>5
<1>8. QED
  BY <1>3, <1>5, <1>6, <1>7 DEF DayInv, CountsEveryUnit

\* Midnight finds no reservation under way and no unit of the new day.
LEMMA TomorrowDayInv ==
    ASSUME QInv, DayInv, Tomorrow, MidnightRaces = FALSE
    PROVE  DayInv'
<1> USE QuotaConstants, QuotaNone DEF QInv, QuotaTypeOK
<1>1. /\ today' = today + 1 /\ today' \in Day
      /\ UNCHANGED <<ledger, legacy, worker, date, commits>>
  BY DEF Tomorrow, Day
<1>2. DaysAreFresh'
  BY <1>1 DEF Tomorrow, DaysAreFresh
<1>3. NothingCommittedAhead'
  BY <1>1 DEF DayInv, NothingCommittedAhead, Day
<1>4. ASSUME NEW k \in Key
      PROVE  /\ commits[k][today'] = 0
             /\ CountOn(ledger, k, today') \in 0 .. Limit
  <2>1. today' > today
    BY <1>1 DEF Day
  <2>2. commits[k][today'] = 0
    BY <1>1, <2>1 DEF DayInv, NothingCommittedAhead
  <2>3. ledger \in Data
    OBVIOUS
  <2> HIDE DEF QInv, QuotaTypeOK
  <2>4. CountOn(ledger, k, today') \in 0 .. Limit
    BY <1>1, <2>3, CountOnType
  <2>5. QED
    BY <2>2, <2>4
<1>5. CountsEveryUnit'
  BY <1>1, <1>4 DEF CountsEveryUnit, CountOn
<1>6. QED
  BY <1>2, <1>3, <1>5 DEF DayInv

LEMMA NextDayInv ==
    ASSUME QInv, DayInv, [QuotaNext]_quotaVars, MidnightRaces = FALSE
    PROVE  DayInv'
<1>1. ASSUME NEW p \in Call, Request(p) PROVE DayInv'
  <2>1. DaysAreFresh'
    BY <1>1 DEF QInv, QuotaTypeOK, DayInv, DaysAreFresh, Request, Answer
  <2>2. NothingCommittedAhead' /\ CountsEveryUnit'
    BY <1>1 DEF DayInv, NothingCommittedAhead, CountsEveryUnit, CountOn, Request
  <2>3. QED
    BY <2>1, <2>2 DEF DayInv
<1>2. ASSUME NEW p \in Call,
             \/ Collect(p) \/ GiveUp(p) \/ Acquire(p) \/ ReadFails(p)
             \/ ReadExhausted(p) \/ ReadAdmits(p) \/ WriteFails(p)
             \/ Stop(p) \/ Crash(p)
      PROVE  DayInv'
  <2>1. UNCHANGED <<ledger, legacy, today, date, commits>>
    BY <1>2 DEF Collect, GiveUp, Acquire, ReadFails, ReadExhausted, ReadAdmits,
       WriteFails, Stop, Crash
  <2>2. ASSUME NEW q \in Call, worker'[q] \in Underway
        PROVE  worker[q] \in Underway
    BY <1>2, <2>2 DEF QInv, QuotaTypeOK, Collect, GiveUp, Acquire, ReadFails,
       ReadExhausted, ReadAdmits, WriteFails, Stop, Crash, Finish, Answer,
       Underway
  <2>3. DaysAreFresh'
    BY <2>1, <2>2 DEF DayInv, DaysAreFresh
  <2>4. NothingCommittedAhead' /\ CountsEveryUnit'
    BY <2>1 DEF DayInv, NothingCommittedAhead, CountsEveryUnit, CountOn
  <2>5. QED
    BY <2>3, <2>4 DEF DayInv
<1>3. CASE UNCHANGED quotaVars
  BY <1>3 DEF quotaVars, DayInv, DaysAreFresh, NothingCommittedAhead,
     CountsEveryUnit, CountOn
<1>4. QED
  BY <1>1, <1>2, <1>3, WriteDayInv, TomorrowDayInv DEF QuotaNext, Work

\* "Must never undercount", for every number of calls and credentials: when no
\* reservation spans midnight, today's count covers every unit of today.
THEOREM QuotaCountsEveryUnit ==
    ASSUME MidnightRaces = FALSE
    PROVE  QuotaSpec => []CountsEveryUnit
<1>1. QInv /\ DayInv /\ [QuotaNext]_quotaVars => (QInv /\ DayInv)'
  BY NextQInv, NextDayInv
<1>2. DayInv => CountsEveryUnit
  BY DEF DayInv
<1>3. QED
  BY <1>1, <1>2, InitQInv, InitDayInv, PTL DEF QuotaSpec

\* And no count of today ever goes down.
THEOREM QuotaNeverDecrements ==
    ASSUME MidnightRaces = FALSE
    PROVE  QuotaSpec => NeverDecrements
<1> DEFINE Grows == \A k \in Key :
              CountOn(ledger', k, today) >= CountOn(ledger, k, today)
<1>1. ASSUME QInv, DayInv, [QuotaNext]_quotaVars PROVE Grows
  <2>1. CASE \E p \in Call : Write(p)
    <3>1. PICK p \in Call : Write(p)
      BY <2>1
    <3>2. /\ date[p] = today /\ ledger' = Reserved(Observed(p), p)
          /\ Existing(Observed(p), p) < Limit
      BY <1>1, <3>1 DEF QInv, Write, DayInv, DaysAreFresh, BufferIsCurrent,
         Underway
    <3>3. Observed(p) \in Data /\ today \in Day /\ ledger \in Data
      BY <1>1, ObservedType DEF QInv, QuotaTypeOK
    <3>4. ASSUME NEW k \in Key
          PROVE  CountOn(ledger', k, today) >= CountOn(ledger, k, today)
      <4>1. CountOn(Observed(p), k, today) >= CountOn(ledger, k, today)
        <5>1. CASE legacy = None
          BY <3>3, <5>1, CountOnType, QuotaConstants DEF Observed
        <5>2. CASE legacy # None
          <6>1. CountOn(ledger, k, today) = 0
            BY <1>1, <5>2 DEF DayInv, NothingCommittedAhead, CountOn, Empty
          <6>2. QED
            BY <3>3, <6>1, CountOnType, QuotaConstants
        <5>3. QED
          BY <5>1, <5>2
      <4>2. CountOn(ledger', k, today) >= CountOn(Observed(p), k, today)
        <5>1. CountOn(Observed(p), k, today) \in 0 .. Limit
          BY <3>3, CountOnType
        <5>2. CountOn(ledger', k, today)
                \in {CountOn(Observed(p), k, today),
                     CountOn(Observed(p), k, today) + 1}
          BY <1>1, <3>2, <3>3, ReservedCounts DEF QInv
        <5>3. QED
          BY <5>1, <5>2, QuotaConstants
      <4>3. CountOn(ledger, k, today) \in 0 .. Limit
        BY <3>3, CountOnType
      <4>4. CountOn(Observed(p), k, today) \in 0 .. Limit
        BY <3>3, CountOnType
      <4>5. CountOn(ledger', k, today) \in 0 .. (Limit + 1)
        BY <1>1, <3>2, <3>3, <4>4, ReservedCounts, QuotaConstants DEF QInv
      <4>6. QED
        BY <4>1, <4>2, <4>3, <4>4, <4>5, QuotaConstants
    <3>5. QED
      BY <3>4
  <2>2. CASE ~\E p \in Call : Write(p)
    <3>1. ledger' = ledger
      BY <1>1, <2>2 DEF QuotaNext, Work, Request, Collect, GiveUp, Acquire,
         ReadFails, ReadExhausted, ReadAdmits, WriteFails, Stop, Crash,
         Tomorrow, quotaVars
    <3>2. today \in Day /\ ledger \in Data
      BY <1>1 DEF QInv, QuotaTypeOK
    <3>3. QED
      BY <3>1, <3>2, CountOnType, QuotaConstants
  <2>3. QED
    BY <2>1, <2>2
<1>2. QInv /\ DayInv /\ [QuotaNext]_quotaVars => (QInv /\ DayInv)'
  BY NextQInv, NextDayInv
<1>3. QInv /\ DayInv /\ [QuotaNext]_quotaVars => [Grows]_quotaVars
  BY <1>1
<1>4. QED
  BY <1>2, <1>3, InitQInv, InitDayInv, PTL DEF QuotaSpec, NeverDecrements
-----------------------------------------------------------------------------
(* What is written can be read again: no assumption on midnight             *)

\* The credentials that have an entry.
Keys(data) == {k \in Key : data[k] # None}

Fits(data) == IsFiniteSet(Keys(data)) /\ Cardinality(Keys(data)) <= MaxKeys

\* The file is within MAX_CREDENTIALS, and so is what any worker writes next.
RoomInv ==
    /\ Fits(ledger)
    /\ \A p \in Call : worker[p] = "writing" => Fits(buffer[p])

\* A file of the previous format is one entry.
LEMMA ObservedFits ==
    ASSUME QuotaTypeOK, RoomInv, NEW p \in Call
    PROVE  IsFiniteSet(Keys(Observed(p)))
<1>1. CASE legacy = None
  BY <1>1 DEF RoomInv, Fits, Observed
<1>2. CASE legacy # None
  <2>1. Keys(Observed(p)) \subseteq {KeyOf[p]}
    BY <1>2, QuotaConstants DEF Observed, Empty, Keys
  <2>2. IsFiniteSet({KeyOf[p]})
    BY FS_Singleton
  <2>3. QED
    BY <2>1, <2>2, FS_Subset
<1>3. QED
  BY <1>1, <1>2

\* An entry replaced is no entry more.
LEMMA ReplacedFits ==
    ASSUME QuotaTypeOK, RoomInv, NEW p \in Call,
           Retained(Observed(p), date[p])[KeyOf[p]] # None
    PROVE  Fits(Reserved(Observed(p), p))
<1>1. Keys(Reserved(Observed(p), p)) \subseteq Keys(Observed(p))
  BY QuotaConstants DEF Keys, Reserved, Retained
<1>2. CASE legacy = None
  <2>1. Fits(Observed(p))
    BY <1>2 DEF Observed, RoomInv
  <2>2. QED
    BY <1>1, <2>1, FS_Subset, FS_CardinalityType, QuotaConstants DEF Fits
<1>3. CASE legacy # None
  <2>1. Keys(Reserved(Observed(p), p)) \subseteq {KeyOf[p]}
    BY <1>1, <1>3, QuotaConstants DEF Observed, Empty, Keys
  <2>2. IsFiniteSet({KeyOf[p]}) /\ Cardinality({KeyOf[p]}) = 1
    BY FS_Singleton
  <2>3. QED
    BY <2>1, <2>2, FS_Subset, FS_CardinalityType, QuotaConstants DEF Fits
<1>4. QED
  BY <1>2, <1>3

\* A credential that has no entry of the day takes a place only if there is
\* one; pruning never takes more.
LEMMA ReservedFits ==
    ASSUME QuotaTypeOK, RoomInv, NEW p \in Call,
           HasRoom(Retained(Observed(p), date[p]), KeyOf[p])
    PROVE  Fits(Reserved(Observed(p), p))
<1> DEFINE kept == Retained(Observed(p), date[p])
<1>1. Keys(kept) \subseteq Keys(Observed(p))
  BY DEF Keys, Retained
<1>2. IsFiniteSet(Keys(kept))
  BY <1>1, ObservedFits, FS_Subset
<1>3. Keys(Reserved(Observed(p), p)) \subseteq Keys(kept) \cup {KeyOf[p]}
  BY DEF Keys, Reserved, Retained
<1>4. CASE kept[KeyOf[p]] = None
  <2>1. Cardinality(Keys(kept)) < MaxKeys
    BY <1>4 DEF HasRoom, Keys
  <2>2. /\ IsFiniteSet(Keys(kept) \cup {KeyOf[p]})
        /\ Cardinality(Keys(kept) \cup {KeyOf[p]}) <= Cardinality(Keys(kept)) + 1
    <3> DEFINE s == Keys(kept)
    <3>1. IsFiniteSet(s)
      BY <1>2
    <3> HIDE DEF s
    <3>2. /\ IsFiniteSet(s \cup {KeyOf[p]})
          /\ \/ Cardinality(s \cup {KeyOf[p]}) = Cardinality(s)
             \/ Cardinality(s \cup {KeyOf[p]}) = Cardinality(s) + 1
      BY <3>1, FS_AddElement
    <3>3. Cardinality(s) \in Nat
      BY <3>1, FS_CardinalityType
    <3>4. QED
      BY <3>2, <3>3 DEF s
  <2>3. /\ IsFiniteSet(Keys(Reserved(Observed(p), p)))
        /\ Cardinality(Keys(Reserved(Observed(p), p)))
             <= Cardinality(Keys(kept) \cup {KeyOf[p]})
    BY <1>3, <2>2, FS_Subset
  <2>4. QED
    BY <1>2, <2>1, <2>2, <2>3, FS_CardinalityType, QuotaConstants DEF Fits
<1>5. CASE kept[KeyOf[p]] # None
  BY <1>5, ReplacedFits
<1>6. QED
  BY <1>4, <1>5

LEMMA InitRoomInv == QuotaInit => RoomInv
<1> SUFFICES ASSUME QuotaInit PROVE RoomInv
  OBVIOUS
<1>1. Keys(ledger) = {}
  BY DEF QuotaInit, Empty, Keys
<1>2. Fits(ledger)
  BY <1>1, FS_EmptySet, QuotaConstants DEF Fits
<1>3. QED
  BY <1>2 DEF QuotaInit, RoomInv

\* Only a worker that found room prepares a file, and only it writes it.
LEMMA NextRoomInv ==
    ASSUME QInv, RoomInv, [QuotaNext]_quotaVars
    PROVE  RoomInv'
<1> USE DEF QInv, QuotaTypeOK, Answer
<1>1. ASSUME NEW p \in Call, ReadAdmits(p) PROVE RoomInv'
  <2>1. Fits(Reserved(Observed(p), p))
    BY <1>1, ReservedFits DEF ReadAdmits
  <2>2. ledger' = ledger /\ buffer'[p] = Reserved(Observed(p), p)
    BY <1>1 DEF ReadAdmits
  <2>3. ASSUME NEW q \in Call, q # p
        PROVE  worker'[q] = worker[q] /\ buffer'[q] = buffer[q]
    BY <1>1, <2>3 DEF ReadAdmits
  <2>4. Fits(ledger)' /\ Fits(buffer[p])'
    BY <2>1, <2>2 DEF RoomInv, Fits, Keys
  <2>5. ASSUME NEW q \in Call, q # p, worker'[q] = "writing" PROVE Fits(buffer[q])'
    BY <2>3, <2>5 DEF RoomInv, Fits, Keys
  <2>6. QED
    BY <2>4, <2>5 DEF RoomInv
<1>2. ASSUME NEW p \in Call, Write(p) PROVE RoomInv'
  <2>1. ledger' = buffer[p] /\ Fits(buffer[p])
    BY <1>2 DEF Write, RoomInv
  <2>2. ASSUME NEW q \in Call, worker'[q] = "writing"
        PROVE  worker[q] = "writing" /\ buffer'[q] = buffer[q]
    BY <1>2, <2>2 DEF Write, Finish
  <2>3. QED
    BY <2>1, <2>2 DEF RoomInv, Fits, Keys
<1>3. CASE /\ [QuotaNext]_quotaVars
           /\ ~\E p \in Call : ReadAdmits(p) \/ Write(p)
  <2>1. ledger' = ledger
    BY <1>3 DEF QuotaNext, Work, Request, Collect, GiveUp, Acquire, ReadFails,
       ReadExhausted, WriteFails, Stop, Crash, Tomorrow, quotaVars
  <2>2. ASSUME NEW q \in Call, worker'[q] = "writing"
        PROVE  worker[q] = "writing" /\ buffer'[q] = buffer[q]
    BY <1>3, <2>2 DEF QuotaNext, Work, Request, Collect, GiveUp, Acquire,
       ReadFails, ReadExhausted, WriteFails, Stop, Crash, Tomorrow, Finish,
       quotaVars
  <2>3. QED
    BY <2>1, <2>2 DEF RoomInv, Fits, Keys
<1>4. QED
  BY <1>1, <1>2, <1>3

\* Whatever midnights and crashes happen and however many credentials there
\* are, validate_quota accepts what the last reservation wrote.
THEOREM QuotaStaysReadable == QuotaSpec => []WritesValidLedger
<1>1. QInv /\ RoomInv /\ [QuotaNext]_quotaVars => (QInv /\ RoomInv)'
  BY NextQInv, NextRoomInv
<1>2. QInv /\ RoomInv => WritesValidLedger
  BY DEF QInv, QuotaTypeOK, Data, RoomInv, Fits, Keys, WritesValidLedger
<1>3. QED
  BY <1>1, <1>2, InitQInv, InitRoomInv, PTL DEF QuotaSpec

-----------------------------------------------------------------------------
(* The retry engine implements the quota                                   *)

\* The engine implements the quota specification: it adds callers, nothing
\* else touches rate-limit.json.
LEMMA NextIsQuotaNext == [Next]_vars => [QuotaNext]_quotaVars
BY DEF Next, Caller, StopBefore, Reserve, LeaveWorker, Send, Reject, Finished,
   Retryable, BackOff, Worker, StopCall, Die, Midnight, QuotaNext, Work, vars,
   quotaVars

THEOREM ImplementsQuota == Spec => QuotaSpec
<1>1. Init => QuotaInit
  BY DEF Init
<1>2. QED
  BY <1>1, NextIsQuotaNext, PTL DEF Spec, QuotaSpec

-----------------------------------------------------------------------------
(* Every attempt has a unit of its own                                     *)

\* Counting one more attempt leaves the counts natural numbers.
LEMMA OneMoreSent ==
    ASSUME NEW f \in [Key -> [Day -> Nat]], NEW k \in Key, NEW d \in Day
    PROVE  [f EXCEPT ![k][d] = @ + 1] \in [Key -> [Day -> Nat]]
<1>1. [f[k] EXCEPT ![d] = f[k][d] + 1] \in [Day -> Nat]
  OBVIOUS
<1>2. QED
  BY <1>1

\* A retry that is left leads to an attempt within the limit.
LEMMA OneMoreAttempt ==
    ASSUME NEW n \in 0 .. Retries, n < Retries
    PROVE  n + 1 \in 0 .. Retries
BY RetriesAssumption

LEMMA InitTypeOK == Init => TypeOK /\ RetryLeft
<1>1. Init => QuotaTypeOK
  BY InitQInv DEF Init, QInv
<1>2. QED
  BY <1>1, RetriesAssumption DEF Init, TypeOK, RetryLeft

LEMMA NextTypeOK ==
    ASSUME QInv, TypeOK, RetryLeft, [Next]_vars
    PROVE  TypeOK' /\ RetryLeft'
<1> USE QuotaConstants, RetriesAssumption DEF TypeOK, RetryLeft, Goto, Return
<1>1. QuotaTypeOK'
  BY NextIsQuotaNext, NextQInv DEF QInv
<1>2. ASSUME NEW p \in Call, Send(p) PROVE TypeOK' /\ RetryLeft'
  <2>1. KeyOf[p] \in Key /\ date[p] \in Day
    BY DEF QuotaTypeOK
  <2>2. sent' \in [Key -> [Day -> Nat]]
    BY <1>2, <2>1, OneMoreSent DEF Send
  <2>3. QED
    BY <1>1, <1>2, <2>2 DEF Send
<1>3. ASSUME NEW p \in Call, BackOff(p) PROVE TypeOK' /\ RetryLeft'
  <2>1. pc[p] = "backing off" /\ sent' = sent
    BY <1>3 DEF BackOff
  <2>2. CASE Goto(p, "attempting") /\ attempt' = [attempt EXCEPT ![p] = @ + 1]
    <3>1. attempt[p] + 1 \in 0 .. Retries
      BY <2>1, OneMoreAttempt
    <3>2. attempt' \in [Call -> 0 .. Retries]
      BY <2>2, <3>1
    <3>3. QED
      BY <1>1, <2>1, <2>2, <3>2
  <2>3. CASE Return(p) /\ UNCHANGED attempt
    BY <1>1, <2>1, <2>3
  <2>4. QED
    BY <1>3, <2>2, <2>3 DEF BackOff
<1>4. ASSUME NEW p \in Call,
             \/ StopBefore(p) \/ Reserve(p) \/ LeaveWorker(p) \/ Reject(p)
             \/ Finished(p) \/ Retryable(p) \/ Worker(p) \/ StopCall(p) \/ Die(p)
      PROVE  TypeOK' /\ RetryLeft'
  BY <1>1, <1>4 DEF StopBefore, Reserve, LeaveWorker, Reject, Finished,
     Retryable, Worker, StopCall, Die, callVars
<1>5. CASE Midnight
  BY <1>1, <1>5 DEF Midnight, callVars
<1>6. CASE UNCHANGED vars
  BY <1>1, <1>6 DEF vars, callVars
<1>7. QED
  BY <1>2, <1>3, <1>4, <1>5, <1>6 DEF Next, Caller

\* The granted units of a credential and a day are finitely many.
LEMMA GrantedFinite ==
    ASSUME NEW k, NEW d
    PROVE  /\ IsFiniteSet(Granted(k, d))
           /\ Cardinality(Granted(k, d)) \in Nat
BY QuotaConstants, FS_Subset, FS_CardinalityType DEF Granted

\* A step that grants nothing and sends nothing keeps the cover.
LEMMA CoverKept ==
    ASSUME TypeOK, UnitsCoverAttempts, UNCHANGED <<sent, commits>>,
           \A p \in Call : worker'[p] = "granted" =>
               worker[p] = "granted" /\ date'[p] = date[p]
    PROVE  UnitsCoverAttempts'
<1>1. SUFFICES ASSUME NEW k \in Key, NEW d \in Day
               PROVE  sent[k][d] + Cardinality(Granted(k, d)') <= commits[k][d]
  BY DEF UnitsCoverAttempts
<1>2. Granted(k, d)' \in SUBSET Granted(k, d)
  BY DEF Granted
<1>3. /\ Cardinality(Granted(k, d)') <= Cardinality(Granted(k, d))
      /\ Cardinality(Granted(k, d)') \in Nat
  BY <1>2, GrantedFinite, FS_Subset, FS_CardinalityType
<1>4. sent[k][d] \in Nat /\ commits[k][d] \in Nat
  BY DEF TypeOK, QuotaTypeOK
<1>5. QED
  BY <1>3, <1>4, GrantedFinite DEF UnitsCoverAttempts

\* A commit pays for the grant it answers with.
LEMMA CoverWritten ==
    ASSUME TypeOK, UnitsCoverAttempts, NEW p \in Call, Write(p),
           UNCHANGED callVars
    PROVE  UnitsCoverAttempts'
<1>1. KeyOf[p] \in Key /\ date[p] \in Day
  BY QuotaConstants DEF TypeOK, QuotaTypeOK
<1>2. SUFFICES ASSUME NEW k \in Key, NEW d \in Day
               PROVE  sent'[k][d] + Cardinality(Granted(k, d)') <= commits'[k][d]
  BY DEF UnitsCoverAttempts
<1>3. /\ sent' = sent /\ date' = date
      /\ commits' = [commits EXCEPT ![KeyOf[p]][date[p]] = @ + 1]
      /\ \A q \in Call : q # p => worker'[q] = worker[q]
  BY DEF Write, Finish, Answer, callVars, TypeOK, QuotaTypeOK
<1>4. sent[k][d] \in Nat /\ commits[k][d] \in Nat
  BY DEF TypeOK, QuotaTypeOK
<1>5. sent[k][d] + Cardinality(Granted(k, d)) <= commits[k][d]
  BY DEF UnitsCoverAttempts
<1>6. CASE k = KeyOf[p] /\ d = date[p]
  <2>1. Granted(k, d)' \in SUBSET (Granted(k, d) \cup {p})
    BY <1>3 DEF Granted
  <2>2. /\ IsFiniteSet(Granted(k, d) \cup {p})
        /\ Cardinality(Granted(k, d) \cup {p}) <= Cardinality(Granted(k, d)) + 1
        /\ Cardinality(Granted(k, d) \cup {p}) \in Nat
    <3> DEFINE G == Granted(k, d)
    <3>1. IsFiniteSet(G) /\ Cardinality(G) \in Nat
      BY GrantedFinite
    <3> HIDE DEF G
    <3>2. /\ IsFiniteSet(G \cup {p})
          /\ Cardinality(G \cup {p}) =
                IF p \in G THEN Cardinality(G) ELSE Cardinality(G) + 1
      BY <3>1, FS_AddElement
    <3>3. QED
      BY <3>1, <3>2 DEF G
  <2>3. /\ Cardinality(Granted(k, d)') <= Cardinality(Granted(k, d) \cup {p})
        /\ Cardinality(Granted(k, d)') \in Nat
    BY <2>1, <2>2, FS_Subset, FS_CardinalityType
  <2>4. commits'[k][d] = commits[k][d] + 1
    BY <1>1, <1>3, <1>6 DEF TypeOK, QuotaTypeOK
  <2>5. QED
    BY <1>3, <1>4, <1>5, <2>2, <2>3, <2>4, GrantedFinite
<1>7. CASE ~(k = KeyOf[p] /\ d = date[p])
  <2>1. Granted(k, d)' = Granted(k, d)
    BY <1>3, <1>7 DEF Granted
  <2>2. commits'[k][d] = commits[k][d]
    BY <1>1, <1>3, <1>7 DEF TypeOK, QuotaTypeOK
  <2>3. QED
    BY <1>3, <1>5, <2>1, <2>2
<1>8. QED
  BY <1>6, <1>7

\* An attempt spends the grant it was sent for.
LEMMA CoverSent ==
    ASSUME TypeOK, UnitsCoverAttempts, NEW p \in Call, Send(p)
    PROVE  UnitsCoverAttempts'
<1>1. KeyOf[p] \in Key /\ date[p] \in Day
  BY QuotaConstants DEF TypeOK, QuotaTypeOK
<1>2. SUFFICES ASSUME NEW k \in Key, NEW d \in Day
               PROVE  sent'[k][d] + Cardinality(Granted(k, d)') <= commits'[k][d]
  BY DEF UnitsCoverAttempts
<1>3. /\ commits' = commits /\ date' = date /\ worker[p] = "granted"
      /\ sent' = [sent EXCEPT ![KeyOf[p]][date[p]] = @ + 1]
      /\ worker' = [worker EXCEPT ![p] = "idle"]
  BY DEF Send, Collect, Answer
<1>4. sent[k][d] \in Nat /\ commits[k][d] \in Nat
  BY DEF TypeOK, QuotaTypeOK
<1>5. sent[k][d] + Cardinality(Granted(k, d)) <= commits[k][d]
  BY DEF UnitsCoverAttempts
<1>6. Granted(k, d)' = Granted(k, d) \ {p}
  BY <1>3 DEF Granted, TypeOK, QuotaTypeOK
<1>7. CASE k = KeyOf[p] /\ d = date[p]
  <2>1. Cardinality(Granted(k, d)') = Cardinality(Granted(k, d)) - 1
    <3> DEFINE G == Granted(k, d)
    <3>1. p \in G
      BY <1>3, <1>7 DEF Granted
    <3>2. IsFiniteSet(G)
      BY GrantedFinite
    <3> HIDE DEF G
    <3>3. Cardinality(G \ {p}) = Cardinality(G) - 1
      BY <3>1, <3>2, FS_RemoveElement
    <3>4. QED
      BY <1>6, <3>3 DEF G
  <2>2. sent'[k][d] = sent[k][d] + 1
    BY <1>1, <1>3, <1>7 DEF TypeOK
  <2>3. QED
    BY <1>3, <1>4, <1>5, <2>1, <2>2, GrantedFinite
<1>8. CASE ~(k = KeyOf[p] /\ d = date[p])
  <2>1. Granted(k, d)' = Granted(k, d)
    BY <1>6, <1>8 DEF Granted
  <2>2. sent'[k][d] = sent[k][d]
    BY <1>1, <1>3, <1>8 DEF TypeOK
  <2>3. QED
    BY <1>3, <1>5, <2>1, <2>2
<1>9. QED
  BY <1>7, <1>8

LEMMA NextUnitsCover ==
    ASSUME TypeOK, UnitsCoverAttempts, [Next]_vars
    PROVE  UnitsCoverAttempts'
<1>1. ASSUME NEW p \in Call, Worker(p) PROVE UnitsCoverAttempts'
  <2>1. CASE Write(p)
    BY <1>1, <2>1, CoverWritten DEF Worker
  <2>2. CASE ~Write(p)
    BY <1>1, <2>2, CoverKept DEF Worker, Work, GiveUp, Acquire, ReadFails,
       ReadExhausted, ReadAdmits, WriteFails, Finish, Answer, callVars, TypeOK,
       QuotaTypeOK
  <2>3. QED
    BY <2>1, <2>2
<1>2. ASSUME NEW p \in Call,
             \/ StopBefore(p) \/ Reserve(p) \/ LeaveWorker(p) \/ Reject(p)
             \/ Finished(p) \/ Retryable(p) \/ BackOff(p) \/ StopCall(p)
             \/ Die(p)
      PROVE  UnitsCoverAttempts'
  BY <1>2, CoverKept DEF StopBefore, Reserve, Request, LeaveWorker, Reject,
     Collect, Finished, Retryable, BackOff, StopCall, Stop, Die, Crash, Answer,
     callVars, quotaVars, TypeOK, QuotaTypeOK
<1>3. CASE Midnight
  BY <1>3, CoverKept DEF Midnight, Tomorrow, callVars
<1>4. CASE UNCHANGED vars
  BY <1>4, CoverKept DEF vars, quotaVars, callVars
<1>5. QED
  BY <1>1, <1>2, <1>3, <1>4, CoverSent DEF Next, Caller

LEMMA AlwaysCovered == Spec => [](TypeOK /\ UnitsCoverAttempts)
<1> DEFINE TInv == QInv /\ TypeOK /\ RetryLeft /\ UnitsCoverAttempts
<1>1. Init => UnitsCoverAttempts
  <2>1. ASSUME Init, NEW k \in Key, NEW d \in Day
        PROVE  Granted(k, d) = {}
    BY <2>1 DEF Init, QuotaInit, Granted
  <2>2. QED
    <3>1. SUFFICES ASSUME Init, NEW k \in Key, NEW d \in Day
                   PROVE  sent[k][d] + Cardinality(Granted(k, d)) <= commits[k][d]
      BY DEF UnitsCoverAttempts
    <3>2. sent[k][d] = 0 /\ commits[k][d] = 0
      BY <3>1 DEF Init, QuotaInit
    <3>3. Cardinality(Granted(k, d)) = 0
      BY <2>1, <3>1, FS_EmptySet
    <3>4. QED
      BY <3>2, <3>3
<1>2. Init => TInv
  BY <1>1, InitQInv, InitTypeOK DEF Init
<1>3. TInv /\ [Next]_vars => TInv'
  BY NextIsQuotaNext, NextQInv, NextTypeOK, NextUnitsCover
<1>4. QED
  BY <1>2, <1>3, PTL DEF Spec

\* The variables stay in their sets, and no call makes more attempts than it
\* may retry.
THEOREM TransportTypeCorrect == Spec => []TypeOK
BY AlwaysCovered, PTL

\* No attempt reaches the wire without a committed unit: not after a crash, a
\* cancellation, an I/O error or a midnight, for every number of calls.
THEOREM EveryAttemptReserved == Spec => []AttemptsAreReserved
<1>1. TypeOK /\ UnitsCoverAttempts => AttemptsAreReserved
  <2>1. SUFFICES ASSUME TypeOK, UnitsCoverAttempts, NEW k \in Key, NEW d \in Day
                 PROVE  sent[k][d] <= commits[k][d]
    BY DEF AttemptsAreReserved
  <2>2. sent[k][d] \in Nat /\ commits[k][d] \in Nat
    BY <2>1 DEF TypeOK, QuotaTypeOK
  <2>3. sent[k][d] + Cardinality(Granted(k, d)) <= commits[k][d]
    BY <2>1 DEF UnitsCoverAttempts
  <2>4. QED
    BY <2>2, <2>3, GrantedFinite
<1>2. QED
  BY <1>1, AlwaysCovered, PTL

\* "Must never undercount", end to end: when no reservation spans midnight,
\* today's count on disk covers every attempt sent for today.
THEOREM QuotaNeverUndercounts ==
    ASSUME MidnightRaces = FALSE
    PROVE  Spec => []NeverUndercounts
<1>1. TypeOK /\ AttemptsAreReserved /\ CountsEveryUnit => NeverUndercounts
  <2>1. SUFFICES ASSUME TypeOK, AttemptsAreReserved, CountsEveryUnit,
                        NEW k \in Key
                 PROVE  sent[k][today] <= CountOn(ledger, k, today)
    BY DEF NeverUndercounts
  <2>2. today \in Day /\ ledger \in Data
    BY <2>1 DEF TypeOK, QuotaTypeOK
  <2>3. sent[k][today] \in Nat /\ commits[k][today] \in Nat
    BY <2>1, <2>2 DEF TypeOK, QuotaTypeOK
  <2>4. CountOn(ledger, k, today) \in 0 .. Limit
    BY <2>2, CountOnType
  <2>5. QED
    BY <2>1, <2>2, <2>3, <2>4 DEF AttemptsAreReserved, CountsEveryUnit
<1>2. QED
  BY <1>1, ImplementsQuota, QuotaCountsEveryUnit, TransportTypeCorrect,
     EveryAttemptReserved, PTL
=============================================================================
