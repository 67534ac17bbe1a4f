--------------------------- MODULE CompositeProof ---------------------------
(***************************************************************************)
(* Calls that fan out and the command line that reports them, for every    *)
(* number of days, every width and every order in which the units end.     *)
(*                                                                         *)
(* Lists: what a loop keeps of a list, keeps its order, and lists that do  *)
(* not overlap share out a list that holds what they hold.                 *)
(*                                                                         *)
(* Composite commands and ranges: the lists of a result share out the      *)
(* units of the call, as the outcomes do that were collected.              *)
(*                                                                         *)
(* The command line: an answer says of the outcomes what its state and its *)
(* error mean, and an exit status what an answer said.                     *)
(*                                                                         *)
(* Price adjustment: the factors of a history exist and follow from one    *)
(* another, so that a later row changes all of them alike; a larger price  *)
(* is not rounded to a smaller one.                                        *)
(*                                                                         *)
(* The request log: no two entries sort alike, so a sort of what the units *)
(* told has one outcome, which is to tell it unit by unit.                 *)
(***************************************************************************)
EXTENDS Composite, Command, PriceAdjustment, RequestLog, FiniteSetTheorems,
        FunctionTheorems, WellFoundedInduction, TLAPS

-----------------------------------------------------------------------------
(* Lists                                                                   *)

\* Every set of natural numbers that is not empty has a least one: what
\* induction comes down to where it is about a set.
LEMMA LeastNatural ==
    ASSUME NEW T \in SUBSET Nat, T # {}
    PROVE  \E x \in T : \A y \in T : x <= y
<1> DEFINE R == OpToRel(<, Nat)
<1>1. IsWellFoundedOn(R, Nat)
  BY NatLessThanWellFounded
<1>2. \A i, j \in Nat : i < j => <<i, j>> \in R
  BY DEF OpToRel
<1> HIDE DEF R
<1>3. PICK x \in T : \A y \in T : <<y, x>> \notin R
  BY <1>1, WFMin
<1>4. \A y \in T : ~(y < x)
  BY <1>2, <1>3
<1>5. QED
  BY <1>4

\* The indices kept, in order, lead the places of the sublist.
Leads(at, s, kept) ==
    /\ at \in [1..Cardinality(kept) -> kept]
    /\ \A p \in 1..Cardinality(kept) :
          Place(kept, at[p]) = p /\ ItemsAt(s, kept)[p] = s[at[p]]
    /\ \A p, q \in 1..Cardinality(kept) : p < q <=> at[p] < at[q]
    /\ \A i \in kept : \E p \in 1..Cardinality(kept) : at[p] = i

\* A sublist is as long as its indices are many, and each of its places has one of
\* them, in their order.
LEMMA SublistLed ==
    ASSUME NEW S, NEW s \in Seq(S), NEW kept \in SUBSET DOMAIN s
    PROVE  /\ IsFiniteSet(kept) /\ Cardinality(kept) \in 0..Len(s)
           /\ ItemsAt(s, kept) \in Seq(S)
           /\ Len(ItemsAt(s, kept)) = Cardinality(kept)
           /\ \E at : Leads(at, s, kept)
<1> DEFINE place(i) == Place(kept, i)
           n == Cardinality(kept)
           at == [p \in 1..n |-> CHOOSE i \in kept : place(i) = p]
<1>1. DOMAIN s = 1..Len(s) /\ Len(s) \in Nat /\ kept \subseteq Nat
  OBVIOUS
<1>2. IsFiniteSet(kept) /\ n \in 0..Len(s)
  <2> DEFINE l == Len(s)
  <2>1. l \in Nat /\ kept \in SUBSET (1..l)
    BY <1>1
  <2> HIDE DEF l
  <2>2. IsFiniteSet(1..l) /\ Cardinality(1..l) = l
    BY <2>1, FS_Interval
  <2>3. IsFiniteSet(kept) /\ n <= l
    BY <2>1, <2>2, FS_Subset
  <2>4. n \in Nat
    BY <2>3, FS_CardinalityType
  <2>5. QED
    BY <2>1, <2>3, <2>4 DEF l
<1>3. ASSUME NEW i \in kept
      PROVE  place(i) \in 1..n
  <2> DEFINE T == {j \in kept : j <= i}
  <2>1. T \subseteq kept /\ i \in T
    BY <1>1
  <2>2. IsFiniteSet(T) /\ Cardinality(T) <= n
    BY <1>2, <2>1, FS_Subset
  <2>3. Cardinality(T) \in Nat /\ Cardinality(T) # 0
    BY <2>1, <2>2, FS_CardinalityType, FS_EmptySet
  <2>4. place(i) = Cardinality(T)
    BY DEF Place
  <2> HIDE DEF T
  <2>5. QED
    BY <1>2, <2>2, <2>3, <2>4
<1>4. ASSUME NEW i \in kept, NEW k \in kept, i < k
      PROVE  place(i) < place(k)
  <2> DEFINE T == {j \in kept : j <= i}
             U == {j \in kept : j <= k}
  <2>1. T \subseteq U /\ k \in U /\ k \notin T
    BY <1>1, <1>4
  <2>2. IsFiniteSet(U)
    BY <1>2, FS_Subset
  <2>3. Cardinality(T) # Cardinality(U) /\ Cardinality(T) <= Cardinality(U)
    BY <2>1, <2>2, FS_Subset
  <2>4. place(i) = Cardinality(T) /\ place(k) = Cardinality(U)
    BY DEF Place
  <2>5. place(i) \in Int /\ place(k) \in Int
    BY <1>3
  <2> HIDE DEF T, U, place
  <2>6. QED
    BY <2>3, <2>4, <2>5
<1> HIDE DEF place, n
<1>5. \A i, k \in kept : place(i) < place(k) <=> i < k
  <2>1. SUFFICES ASSUME NEW i \in kept, NEW k \in kept
                 PROVE  place(i) < place(k) <=> i < k
    OBVIOUS
  <2>2. i \in Nat /\ k \in Nat /\ place(i) \in Int /\ place(k) \in Int
    BY <1>1, <1>3
  <2>3. CASE i < k
    BY <1>4, <2>3
  <2>4. CASE k < i
    <3>1. place(k) < place(i)
      BY <1>4, <2>4
    <3>2. QED
      BY <2>2, <2>4, <3>1
  <2>5. CASE i = k
    BY <2>2, <2>5
  <2>6. QED
    BY <2>2, <2>3, <2>4, <2>5
<1>6. \A i, k \in kept : place(i) = place(k) => i = k
  <2>1. SUFFICES ASSUME NEW i \in kept, NEW k \in kept, place(i) = place(k)
                 PROVE  i = k
    OBVIOUS
  <2>2. i \in Nat /\ k \in Nat /\ place(i) \in Int
    BY <1>1, <1>3
  <2>3. ~(i < k) /\ ~(k < i)
    BY <1>4, <2>1, <2>2
  <2>4. QED
    BY <2>2, <2>3
<1> DEFINE f == [i \in kept |-> place(i)]
<1>7. f \in Injection(kept, 1..n)
  BY <1>3, <1>6 DEF Injection, IsInjective
<1>8. Cardinality(1..n) = n /\ IsFiniteSet(1..n)
  BY <1>2, FS_Interval
<1>9. f \in Surjection(kept, 1..n)
  BY <1>7, <1>8, FS_Injection DEF n
<1>10. \A p \in 1..n : \E i \in kept : place(i) = p
  BY <1>9 DEF Surjection
<1>11. \A p \in 1..n : at[p] \in kept /\ place(at[p]) = p
  BY <1>10
<1>12. at \in [1..n -> kept]
  BY <1>11
<1>13. ItemsAt(s, kept) = [p \in 1..n |-> s[at[p]]]
  BY DEF ItemsAt, place, n
<1> HIDE DEF at, f
<1>14. \A p, q \in 1..n : p < q <=> at[p] < at[q]
  BY <1>5, <1>11
<1>15. \A i \in kept : \E p \in 1..n : at[p] = i
  <2>1. SUFFICES ASSUME NEW i \in kept PROVE \E p \in 1..n : at[p] = i
    OBVIOUS
  <2>2. at[place(i)] = i
    BY <1>3, <1>6, <1>11
  <2>3. QED
    BY <1>3, <2>2
<1>16. ItemsAt(s, kept) \in Seq(S) /\ Len(ItemsAt(s, kept)) = n
  BY <1>2, <1>12, <1>13
<1>17. \A p \in 1..n : place(at[p]) = p /\ ItemsAt(s, kept)[p] = s[at[p]]
  BY <1>11, <1>13
<1>18. Leads(at, s, kept)
  BY <1>12, <1>14, <1>15, <1>17 DEF Leads, n, place
<1>19. QED
  BY <1>2, <1>16, <1>18 DEF n

\* What a sublist holds; when it is empty and when it is the list.
LEMMA SublistHolds ==
    ASSUME NEW S, NEW s \in Seq(S), NEW kept \in SUBSET DOMAIN s
    PROVE  /\ ToSet(ItemsAt(s, kept)) = {s[i] : i \in kept}
           /\ ItemsAt(s, kept) = <<>> <=> kept = {}
           /\ kept = DOMAIN s => ItemsAt(s, kept) = s
           /\ (\A i, j \in kept : s[i] = s[j] => i = j)
              => IsInjective(ItemsAt(s, kept))
<1> DEFINE t == ItemsAt(s, kept)
           n == Cardinality(kept)
<1>1. PICK at : Leads(at, s, kept)
  BY SublistLed
<1>2. /\ n \in Nat /\ t \in Seq(S) /\ Len(t) = n /\ IsFiniteSet(kept)
      /\ at \in [1..n -> kept]
      /\ \A p \in 1..n : Place(kept, at[p]) = p /\ t[p] = s[at[p]]
      /\ \A p, q \in 1..n : p < q <=> at[p] < at[q]
      /\ \A i \in kept : \E p \in 1..n : at[p] = i
  BY <1>1, SublistLed DEF Leads
<1>3. n = 0 <=> kept = {}
  BY <1>2, FS_EmptySet
<1> HIDE DEF t, n
<1>4. DOMAIN t = 1..n
  BY <1>2
<1>5. ToSet(t) = {s[i] : i \in kept}
  <2>1. ToSet(t) = {t[p] : p \in 1..n}
    BY <1>4 DEF ToSet
  <2>2. \A p \in 1..n : \E i \in kept : t[p] = s[i]
    BY <1>2
  <2>3. \A i \in kept : \E p \in 1..n : t[p] = s[i]
    BY <1>2
  <2>4. QED
    BY <2>1, <2>2, <2>3
<1>6. t = <<>> <=> kept = {}
  BY <1>2, <1>3
<1>7. ASSUME kept = DOMAIN s PROVE t = s
  <2> DEFINE l == Len(s)
  <2>1. l \in Nat /\ kept = 1..l
    BY <1>7
  <2>2. n = l
    <3> HIDE DEF l
    <3>1. QED
      BY <2>1, FS_Interval DEF n
  <2>3. ASSUME NEW i \in 1..l PROVE Place(kept, i) = i
    <3> HIDE DEF l
    <3>1. {j \in kept : j <= i} = 1..i
      BY <2>1
    <3>2. Cardinality(1..i) = i
      BY <2>1, FS_Interval
    <3>3. QED
      BY <3>1, <3>2 DEF Place
  <2>4. \A p \in 1..n : at[p] = p
    <3> HIDE DEF l
    <3>1. QED
      BY <1>2, <2>1, <2>2, <2>3
  <2>5. \A p \in 1..l : t[p] = s[p]
    BY <1>2, <2>2, <2>4
  <2>6. QED
    BY <1>2, <2>2, <2>5
<1>8. ASSUME \A i, j \in kept : s[i] = s[j] => i = j PROVE IsInjective(t)
  <2>1. SUFFICES ASSUME NEW p \in 1..n, NEW q \in 1..n, t[p] = t[q] PROVE p = q
    BY <1>4 DEF IsInjective
  <2>2. at[p] = at[q]
    BY <1>2, <1>8, <2>1
  <2>3. QED
    BY <1>2, <2>2
<1>9. QED
  BY <1>5, <1>6, <1>7, <1>8 DEF t

\* A list without repetition has as many items as places.
LEMMA InjectiveLength ==
    ASSUME NEW S, NEW s \in Seq(S), IsInjective(s)
    PROVE  IsFiniteSet(ToSet(s)) /\ Cardinality(ToSet(s)) = Len(s)
<1> DEFINE l == Len(s)
           f == [i \in 1..l |-> s[i]]
<1>1. l \in Nat /\ DOMAIN s = 1..l
  OBVIOUS
<1>2. ToSet(s) = {s[i] : i \in 1..l} /\ \A i, j \in 1..l : s[i] = s[j] => i = j
  BY <1>1 DEF ToSet, IsInjective
<1> HIDE DEF l
<1>3. f \in Surjection(1..l, ToSet(s))
  BY <1>2 DEF Surjection
<1>4. f \in Injection(1..l, ToSet(s))
  BY <1>2 DEF Injection, IsInjective
<1>5. IsFiniteSet(1..l) /\ Cardinality(1..l) = l
  BY <1>1, FS_Interval
<1>6. QED
  BY <1>3, <1>4, <1>5, FS_Surjection DEF l

\* Two lists without a repeated item and with none in common, one after the other.
LEMMA Concatenates ==
    ASSUME NEW S, NEW s \in Seq(S), NEW t \in Seq(S), IsInjective(s), IsInjective(t),
           ToSet(s) \cap ToSet(t) = {}
    PROVE  /\ s \o t \in Seq(S) /\ IsInjective(s \o t)
           /\ ToSet(s \o t) = ToSet(s) \cup ToSet(t)
           /\ Len(s \o t) = Len(s) + Len(t)
<1> DEFINE l == Len(s)
           m == Len(t)
           c == s \o t
<1>1. /\ l \in Nat /\ m \in Nat /\ c \in Seq(S) /\ Len(c) = l + m
      /\ DOMAIN s = 1..l /\ DOMAIN t = 1..m /\ DOMAIN c = 1..l + m
      /\ \A i \in 1..l + m : c[i] = IF i <= l THEN s[i] ELSE t[i - l]
  OBVIOUS
<1> HIDE DEF l, m, c
<1>2. /\ \A i \in 1..l : s[i] \in ToSet(s)
      /\ \A i \in 1..m : t[i] \in ToSet(t)
  BY <1>1 DEF ToSet
<1>3. \A i \in 1..l + m :
          IF i <= l THEN i \in 1..l /\ c[i] = s[i] ELSE i - l \in 1..m /\ c[i] = t[i - l]
  BY <1>1
<1>4. ASSUME NEW i \in 1..l + m, NEW j \in 1..l + m, c[i] = c[j] PROVE i = j
  <2>1. CASE i <= l /\ j <= l
    BY <1>1, <1>3, <1>4, <2>1 DEF IsInjective
  <2>2. CASE ~(i <= l) /\ ~(j <= l)
    <3>1. i - l \in 1..m /\ j - l \in 1..m /\ t[i - l] = t[j - l]
      BY <1>3, <1>4, <2>2
    <3>2. i - l = j - l
      BY <1>1, <3>1 DEF IsInjective
    <3>3. QED
      BY <1>1, <3>2
  <2>3. CASE (i <= l) # (j <= l)
    BY <1>2, <1>3, <1>4, <2>3
  <2>4. QED
    BY <2>1, <2>2, <2>3
<1>5. ToSet(c) = ToSet(s) \cup ToSet(t)
  <2>1. ASSUME NEW i \in 1..l + m PROVE c[i] \in ToSet(s) \cup ToSet(t)
    BY <1>2, <1>3
  <2>2. ASSUME NEW i \in 1..l PROVE s[i] \in ToSet(c)
    <3>1. i \in 1..l + m /\ c[i] = s[i]
      BY <1>1, <1>3
    <3>2. QED
      BY <1>1, <3>1 DEF ToSet
  <2>3. ASSUME NEW i \in 1..m PROVE t[i] \in ToSet(c)
    <3>1. i + l \in 1..l + m /\ ~(i + l <= l) /\ (i + l) - l = i
      BY <1>1
    <3>2. c[i + l] = t[i]
      BY <1>3, <3>1
    <3>3. QED
      BY <1>1, <3>1, <3>2 DEF ToSet
  <2>4. /\ ToSet(c) = {c[i] : i \in 1..l + m}
        /\ ToSet(s) = {s[i] : i \in 1..l} /\ ToSet(t) = {t[i] : i \in 1..m}
    BY <1>1 DEF ToSet
  <2>5. ToSet(s) \subseteq ToSet(c)
    BY <2>2, <2>4
  <2>6. ToSet(t) \subseteq ToSet(c)
    BY <2>3, <2>4
  <2>7. ToSet(c) \subseteq ToSet(s) \cup ToSet(t)
    BY <2>1, <2>4
  <2>8. QED
    BY <2>5, <2>6, <2>7
<1>6. IsInjective(c)
  BY <1>1, <1>4 DEF IsInjective
<1>7. QED
  BY <1>1, <1>5, <1>6 DEF c, l, m

\* Three lists that share out what a fourth holds.
LEMMA SharedOut ==
    ASSUME NEW S, NEW w \in Seq(S), IsInjective(w),
           NEW s \in Seq(S), NEW t \in Seq(S), NEW u \in Seq(S),
           IsInjective(s), IsInjective(t), IsInjective(u),
           ToSet(s) \cap ToSet(t) = {}, ToSet(s) \cap ToSet(u) = {},
           ToSet(t) \cap ToSet(u) = {},
           ToSet(s) \cup ToSet(t) \cup ToSet(u) = ToSet(w)
    PROVE  /\ s \o t \o u \in [1..Len(w) -> ToSet(w)]
           /\ IsInjective(s \o t \o u)
<1>1. PICK b : b = s \o t
  OBVIOUS
<1>2. PICK c : c = b \o u
  OBVIOUS
<1>3. /\ c \in Seq(S) /\ IsInjective(c) /\ ToSet(c) = ToSet(w)
      /\ Len(c) = Len(s) + Len(t) + Len(u)
  <2>1. b \in Seq(S) /\ IsInjective(b) /\ ToSet(b) = ToSet(s) \cup ToSet(t)
    BY <1>1, Concatenates
  <2>2. Len(b) = Len(s) + Len(t)
    BY <1>1, Concatenates
  <2>3. ToSet(b) \cap ToSet(u) = {}
    BY <2>1
  <2>4. /\ c \in Seq(S) /\ IsInjective(c) /\ ToSet(c) = ToSet(b) \cup ToSet(u)
        /\ Len(c) = Len(b) + Len(u)
    BY <1>2, <2>1, <2>3, Concatenates
  <2>5. ToSet(c) = ToSet(w)
    BY <2>1, <2>4
  <2>6. QED
    BY <2>2, <2>4, <2>5
<1>4. Len(c) = Len(w)
  <2>1. Cardinality(ToSet(w)) = Len(w)
    BY InjectiveLength
  <2>2. Cardinality(ToSet(c)) = Len(c)
    BY <1>3, InjectiveLength
  <2>3. QED
    BY <1>3, <2>1, <2>2
<1>5. c \in [1..Len(w) -> ToSet(w)]
  <2>1. DOMAIN c = 1..Len(w) /\ c = [i \in 1..Len(w) |-> c[i]]
    BY <1>3, <1>4
  <2>2. \A i \in 1..Len(w) : c[i] \in ToSet(w)
    BY <1>3, <2>1 DEF ToSet
  <2>3. QED
    BY <2>1, <2>2
<1>6. QED
  BY <1>1, <1>2, <1>3, <1>4, <1>5

-----------------------------------------------------------------------------
(* What a call that fans out answers                                       *)

\* A call has units, none twice; only a range has closed days.
WellFormed(call) ==
    /\ call.units \in Seq(ToSet(call.units)) /\ IsInjective(call.units)
    /\ Len(call.units) # 0
    /\ ~IsRange(call) => call.closed = {}

\* Every call that a model makes has its units told apart.
LEMMA CallsWellFormed ==
    ASSUME NEW n \in Nat
    PROVE  \A call \in RangeCalls(n) \cup ComponentCalls : WellFormed(call)
<1>1. ASSUME NEW call \in RangeCalls(n) PROVE WellFormed(call)
  <2>1. PICK m \in 1..n :
            call \in [command : {"range", "adjusted"}, units : {[i \in 1..m |-> i]},
                      closed : SUBSET (1..m)]
    BY <1>1 DEF RangeCalls
  <2>2. call.units = [i \in 1..m |-> i] /\ call.command \in {"range", "adjusted"}
    BY <2>1
  <2>3. call.units \in Seq(ToSet(call.units)) /\ Len(call.units) = m
    BY <2>2 DEF ToSet
  <2>4. IsInjective(call.units)
    BY <2>2 DEF IsInjective
  <2>5. QED
    BY <2>2, <2>3, <2>4 DEF WellFormed, IsRange
<1>2. ASSUME NEW call \in ComponentCalls PROVE WellFormed(call)
  <2>1. PICK c \in {"search", "summary", "prices"} :
            call = [command |-> c, units |-> Components(c), closed |-> {}]
    BY <1>2 DEF ComponentCalls
  <2>2. call.units \in {Components("search"), Components("summary"),
                        Components("prices")}
    BY <2>1
  <2>3. /\ Components("search") = <<"kospi", "kosdaq">>
        /\ Components("summary")
             = <<"kospiIndex", "kosdaqIndex", "kospiStocks", "kosdaqStocks">>
        /\ Components("prices") = <<"kospi", "kosdaq", "konex">>
    BY DEF Components
  <2>4. call.units \in Seq(ToSet(call.units)) /\ Len(call.units) # 0
        /\ IsInjective(call.units)
    <3>1. CASE call.units = <<"kospi", "kosdaq">>
      BY <3>1 DEF ToSet, IsInjective
    <3>2. CASE call.units
                 = <<"kospiIndex", "kosdaqIndex", "kospiStocks", "kosdaqStocks">>
      BY <3>2 DEF ToSet, IsInjective
    <3>3. CASE call.units = <<"kospi", "kosdaq", "konex">>
      BY <3>3 DEF ToSet, IsInjective
    <3>4. QED
      BY <2>2, <2>3, <3>1, <3>2, <3>3
  <2>5. QED
    BY <2>1, <2>4 DEF WellFormed
<1>3. QED
  BY <1>1, <1>2

\* The kinds of outcomes.
Kind == Found \cup ToSet(COMPOSITE_PRIORITY)

\* The kinds of outcomes, one by one.
LEMMA KindsAre ==
    /\ ToSet(COMPOSITE_PRIORITY)
         = {"cancelled", "internal", "timeout", "approval", "local_state", "network"}
    /\ Found \cap ToSet(COMPOSITE_PRIORITY) = {}
    /\ CallWide \subseteq ToSet(COMPOSITE_PRIORITY)
    /\ ToSet(COMPOSITE_PRIORITY) \ CallWide = {"timeout", "approval", "network"}
<1>1. ToSet(COMPOSITE_PRIORITY)
        = {"cancelled", "internal", "timeout", "approval", "local_state", "network"}
  BY DEF ToSet, COMPOSITE_PRIORITY
<1>2. QED
  BY <1>1 DEF Found, CallWide

\* The error of a call is one that a unit met.
LEMMA PrimaryIsMet ==
    ASSUME NEW kinds, kinds \cap ToSet(COMPOSITE_PRIORITY) # {}
    PROVE  Primary(kinds) \in kinds
<1> DEFINE N == {i \in DOMAIN COMPOSITE_PRIORITY : COMPOSITE_PRIORITY[i] \in kinds}
<1>1. DOMAIN COMPOSITE_PRIORITY = 1..6
  BY DEF COMPOSITE_PRIORITY
<1>2. N # {} /\ N \in SUBSET Nat
  BY <1>1 DEF ToSet
<1>3. PICK i \in N : \A j \in N : i <= j
  BY <1>2, LeastNatural
<1>4. \A j \in 1..(i - 1) : COMPOSITE_PRIORITY[j] \notin kinds
  BY <1>1, <1>3
<1>5. QED
  BY <1>3, <1>4 DEF Primary

\* Items of a list of units that come in the order of the units.
InUnitOrder(call, s) ==
    \A i, j \in DOMAIN s :
        i < j => \E k, l \in DOMAIN call.units :
                    k < l /\ call.units[k] = s[i] /\ call.units[l] = s[j]

\* What is taken from a list in the order of the units is in that order.
LEMMA OrderStays ==
    ASSUME NEW call, NEW S, NEW s \in Seq(S), NEW kept \in SUBSET DOMAIN s,
           InUnitOrder(call, s)
    PROVE  InUnitOrder(call, ItemsAt(s, kept))
<1> DEFINE t == ItemsAt(s, kept)
           n == Cardinality(kept)
<1>1. PICK at : Leads(at, s, kept)
  BY SublistLed
<1>2. /\ n \in Nat /\ t \in Seq(S) /\ Len(t) = n
      /\ at \in [1..n -> kept]
      /\ \A p \in 1..n : t[p] = s[at[p]]
      /\ \A p, q \in 1..n : p < q => at[p] < at[q]
  BY <1>1, SublistLed DEF Leads
<1> HIDE DEF t, n
<1>3. DOMAIN t = 1..n
  BY <1>2
<1>4. ASSUME NEW p \in 1..n, NEW q \in 1..n, p < q
      PROVE  \E k, l \in DOMAIN call.units :
                k < l /\ call.units[k] = t[p] /\ call.units[l] = t[q]
  <2>1. at[p] \in DOMAIN s /\ at[q] \in DOMAIN s /\ at[p] < at[q]
    BY <1>2, <1>4
  <2>2. PICK k, l \in DOMAIN call.units :
            k < l /\ call.units[k] = s[at[p]] /\ call.units[l] = s[at[q]]
    BY <2>1 DEF InUnitOrder
  <2>3. QED
    BY <1>2, <2>2
<1>5. InUnitOrder(call, t)
  BY <1>3, <1>4 DEF InUnitOrder
<1>6. QED
  BY <1>5 DEF t

\* The days or components that are requested.
LEMMA FanoutIs ==
    ASSUME NEW call, WellFormed(call)
    PROVE  /\ Fanout(call) \in Seq(ToSet(call.units))
           /\ IsInjective(Fanout(call))
           /\ InUnitOrder(call, Fanout(call))
           /\ ToSet(Fanout(call)) = ToSet(call.units) \ call.closed
           /\ ~IsRange(call) => Fanout(call) = call.units
<1> DEFINE u == call.units
           open == {i \in DOMAIN u : u[i] \notin call.closed}
<1>1. u \in Seq(ToSet(u)) /\ IsInjective(u) /\ open \in SUBSET DOMAIN u
  BY DEF WellFormed
<1>2. Fanout(call) = ItemsAt(u, open)
  BY DEF Fanout
<1>3. InUnitOrder(call, u)
  BY DEF InUnitOrder
<1>4. ToSet(u) \ call.closed = {u[i] : i \in open}
  BY DEF ToSet
<1>5. ~IsRange(call) => open = DOMAIN u
  BY DEF WellFormed
<1>6. \A i, j \in open : u[i] = u[j] => i = j
  BY <1>1 DEF IsInjective
<1> HIDE DEF u, open
<1>7. QED
  BY <1>1, <1>2, <1>3, <1>4, <1>5, <1>6, SublistLed, SublistHolds, OrderStays DEF u

\* Outcomes, in the order of the units.
Told(call, outcomes) ==
    /\ outcomes \in Seq([unit : ToSet(call.units), outcome : Kind])
    /\ InOrder(call, outcomes)

With(outcomes, kinds) == {i \in DOMAIN outcomes : outcomes[i].outcome \in kinds}

\* What a reducer takes of the outcomes: the units that ended one of the given ways,
\* once each, in their order.
LEMMA ThoseAre ==
    ASSUME NEW call, WellFormed(call), NEW outcomes, Told(call, outcomes), NEW kinds
    PROVE  /\ Those(outcomes, kinds) \in Seq(ToSet(call.units))
           /\ IsInjective(Those(outcomes, kinds))
           /\ InUnitOrder(call, Those(outcomes, kinds))
           /\ ToSet(Those(outcomes, kinds))
                 = {outcomes[i].unit : i \in With(outcomes, kinds)}
           /\ Those(outcomes, kinds) = <<>> <=> With(outcomes, kinds) = {}
           /\ Len(Those(outcomes, kinds)) = Cardinality(With(outcomes, kinds))
           /\ With(outcomes, kinds) = DOMAIN outcomes
              => Those(outcomes, kinds) = Fanout(call)
<1> DEFINE f == Fanout(call)
           kept == With(outcomes, kinds)
<1>1. /\ f \in Seq(ToSet(call.units)) /\ IsInjective(f) /\ InUnitOrder(call, f)
  BY FanoutIs
<1>2. [i \in DOMAIN outcomes |-> outcomes[i].unit] = f
  BY DEF Told, InOrder
<1>3. DOMAIN f = DOMAIN outcomes /\ \A i \in DOMAIN outcomes : f[i] = outcomes[i].unit
  BY <1>2
<1>4. kept \in SUBSET DOMAIN f
  BY <1>3 DEF With
<1>5. Those(outcomes, kinds) = ItemsAt(f, kept)
  BY <1>2 DEF Those, With
<1>6. \A i, j \in kept : f[i] = f[j] => i = j
  BY <1>1, <1>4 DEF IsInjective
<1>7. {f[i] : i \in kept} = {outcomes[i].unit : i \in kept}
  BY <1>3, <1>4
<1> HIDE DEF f, kept
<1>8. QED
  BY <1>1, <1>3, <1>4, <1>5, <1>6, <1>7, SublistLed, SublistHolds, OrderStays
     DEF f, kept

\* Different outcomes are those of different units.
LEMMA ThoseDiffer ==
    ASSUME NEW call, WellFormed(call), NEW outcomes, Told(call, outcomes),
           NEW kinds, NEW others, kinds \cap others = {}
    PROVE  /\ ToSet(Those(outcomes, kinds)) \cap ToSet(Those(outcomes, others)) = {}
           /\ ToSet(Those(outcomes, kinds)) \subseteq ToSet(Fanout(call))
<1>1. /\ ToSet(Those(outcomes, kinds))
           = {outcomes[i].unit : i \in With(outcomes, kinds)}
      /\ ToSet(Those(outcomes, others))
           = {outcomes[i].unit : i \in With(outcomes, others)}
  BY ThoseAre
<1>2. [i \in DOMAIN outcomes |-> outcomes[i].unit] = Fanout(call)
  BY DEF Told, InOrder
<1>3. /\ DOMAIN Fanout(call) = DOMAIN outcomes
      /\ \A i \in DOMAIN outcomes : Fanout(call)[i] = outcomes[i].unit
  BY <1>2
<1>4. IsInjective(Fanout(call))
  BY FanoutIs
<1>5. \A i \in With(outcomes, kinds), j \in With(outcomes, others) :
          outcomes[i].unit # outcomes[j].unit
  BY <1>3, <1>4 DEF IsInjective, With
<1>6. \A i \in With(outcomes, kinds) : outcomes[i].unit \in ToSet(Fanout(call))
  BY <1>3 DEF With, ToSet
<1>7. QED
  BY <1>1, <1>5, <1>6

Failing == ToSet(COMPOSITE_PRIORITY)

\* Every unit is among what succeeded, what failed and what was skipped, once.
LEMMA UnitsAreParted ==
    ASSUME NEW call, WellFormed(call), NEW outcomes, Told(call, outcomes),
           NEW good, NEW void, good \cup void = Found, good \cap void = {},
           NEW closed \in Seq(ToSet(call.units)), IsInjective(closed),
           ToSet(closed) = ToSet(call.units) \cap call.closed,
           NEW s, s = Those(outcomes, good), NEW f, f = Those(outcomes, Failing),
           NEW k, k = closed \o Those(outcomes, void)
    PROVE  /\ s \o f \o k \in [1..Len(call.units) -> ToSet(call.units)]
           /\ IsInjective(s \o f \o k) /\ k \in Seq(ToSet(call.units))
<1> DEFINE U == ToSet(call.units)
           v == Those(outcomes, void)
           F == ToSet(Fanout(call))
<1>1. /\ Found \cap Failing = {} /\ good \cap Failing = {} /\ void \cap Failing = {}
      /\ Kind = good \cup void \cup Failing
  BY KindsAre DEF Kind, Failing
<1>2. /\ s \in Seq(U) /\ IsInjective(s) /\ f \in Seq(U) /\ IsInjective(f)
      /\ v \in Seq(U) /\ IsInjective(v)
  BY ThoseAre
<1>3. /\ ToSet(s) \cap ToSet(f) = {} /\ ToSet(s) \cap ToSet(v) = {}
      /\ ToSet(f) \cap ToSet(v) = {}
  <2>1. Failing \cap void = {}
    BY <1>1
  <2>2. QED
    BY <1>1, <2>1, ThoseDiffer
<1>4. ToSet(s) \subseteq F /\ ToSet(f) \subseteq F /\ ToSet(v) \subseteq F
  BY <1>1, ThoseDiffer
<1>5. F = U \ call.closed
  BY FanoutIs
<1>6. F \subseteq ToSet(s) \cup ToSet(f) \cup ToSet(v)
  <2>1. [i \in DOMAIN outcomes |-> outcomes[i].unit] = Fanout(call)
    BY DEF Told, InOrder
  <2>2. F = {outcomes[i].unit : i \in DOMAIN outcomes}
    BY <2>1 DEF ToSet
  <2>3. \A i \in DOMAIN outcomes : outcomes[i].outcome \in Kind
    <3> DEFINE R == [unit : ToSet(call.units), outcome : Kind]
    <3>1. outcomes \in Seq(R)
      BY DEF Told
    <3>2. \A r \in R : r.outcome \in Kind
      OBVIOUS
    <3> HIDE DEF R
    <3>3. \A i \in DOMAIN outcomes : outcomes[i] \in R
      BY <3>1
    <3>4. QED
      BY <3>2, <3>3
  <2>4. DOMAIN outcomes
          = With(outcomes, good) \cup With(outcomes, Failing) \cup With(outcomes, void)
    BY <1>1, <2>3 DEF With
  <2>5. /\ ToSet(s) = {outcomes[i].unit : i \in With(outcomes, good)}
        /\ ToSet(f) = {outcomes[i].unit : i \in With(outcomes, Failing)}
        /\ ToSet(v) = {outcomes[i].unit : i \in With(outcomes, void)}
    BY ThoseAre
  <2>6. QED
    BY <2>2, <2>4, <2>5
<1> HIDE DEF U, v, F
<1>7. /\ k \in Seq(U) /\ IsInjective(k) /\ ToSet(k) = ToSet(closed) \cup ToSet(v)
  <2>1. closed \in Seq(U) /\ ToSet(closed) \cap ToSet(v) = {} /\ k = closed \o v
    BY <1>4, <1>5 DEF U, v
  <2>2. QED
    BY <1>2, <2>1, Concatenates
<1>8. ToSet(s) \cap ToSet(k) = {} /\ ToSet(f) \cap ToSet(k) = {}
  BY <1>3, <1>4, <1>5, <1>7 DEF U
<1>9. ToSet(s) \cup ToSet(f) \cup ToSet(k) = ToSet(call.units)
  BY <1>4, <1>5, <1>6, <1>7 DEF U
<1>10. s \in Seq(U) /\ f \in Seq(U) /\ k \in Seq(U) /\ call.units \in Seq(U)
  BY <1>2, <1>7 DEF U, WellFormed
<1>11. /\ IsInjective(s) /\ IsInjective(f) /\ IsInjective(k)
       /\ IsInjective(call.units)
  BY <1>2, <1>7 DEF WellFormed
<1>12. ToSet(s) \cap ToSet(f) = {}
  BY <1>3
<1>13. QED
  <2>1. s \o f \o k \in [1..Len(call.units) -> ToSet(call.units)]
    BY <1>8, <1>9, <1>10, <1>11, <1>12, SharedOut
  <2>2. IsInjective(s \o f \o k)
    BY <1>8, <1>9, <1>10, <1>11, <1>12, SharedOut
  <2>3. QED
    BY <1>10, <2>1, <2>2 DEF U

\* What a result says of the outcomes.
Accounts(call, outcomes, result) ==
    /\ result.succeeded \o result.failed \o result.skipped
          \in [1..Len(call.units) -> ToSet(call.units)]
    /\ IsInjective(result.succeeded \o result.failed \o result.skipped)
    /\ ToSet(result.failed) = {outcomes[i].unit : i \in With(outcomes, Failing)}

Presents(call, outcomes, result) ==
    /\ result.data \in Seq(ToSet(call.units)) /\ InUnitOrder(call, result.data)
    /\ result.adjusted =>
          With(outcomes, {"match"}) = DOMAIN outcomes /\ result.data = Fanout(call)
    /\ result.stats =>
          \A u \in ToSet(Stocks) : \E i \in With(outcomes, Found) : outcomes[i].unit = u

Rates(call, outcomes, result) ==
    /\ result.state \in {"complete", "empty", "partial", "failed"}
    /\ result.state \in {"complete", "empty"} => With(outcomes, Failing) = {}
    /\ result.state = "complete" => result.data # <<>>
    /\ result.state \in {"empty", "failed"} => result.data = <<>>
    /\ result.state = "partial" =>
          /\ With(outcomes, Failing) # {}
          /\ Cardinality(With(outcomes, Failing)) < Len(call.units)
    /\ result.state = "failed" =>
          result.error = "integrity" \/ result.error \in Kinds(outcomes)

\* completeness::reduce, by cases.
LEMMA StateIs ==
    ASSUME NEW s, NEW f, NEW k, NEW d
    PROVE  State(s, f, k, d)
             = IF f = <<>> THEN (IF d # <<>> THEN "complete" ELSE "empty")
               ELSE IF s = <<>> /\ k = <<>> THEN "failed" ELSE "partial"
<1>1. CASE f = <<>> /\ d # <<>>
  BY <1>1 DEF State
<1>2. CASE f = <<>> /\ d = <<>>
  BY <1>2 DEF State
<1>3. CASE f # <<>> /\ s = <<>> /\ k = <<>>
  BY <1>3 DEF State
<1>4. CASE f # <<>> /\ ~(s = <<>> /\ k = <<>>)
  BY <1>4 DEF State
<1>5. QED
  BY <1>1, <1>2, <1>3, <1>4

\* A unit failed: its kind is one that the call may report.
LEMMA FailureIsMet ==
    ASSUME NEW outcomes, With(outcomes, Failing) # {}
    PROVE  Primary(Kinds(outcomes)) \in Kinds(outcomes)
<1>1. PICK i \in DOMAIN outcomes : outcomes[i].outcome \in Failing
  BY DEF With
<1>2. outcomes[i].outcome \in Kinds(outcomes)
  BY <1>1, KindsAre DEF Kinds, Failing
<1>3. QED
  BY <1>1, <1>2, PrimaryIsMet DEF Failing

\* What the reducers have in common: the lists of units, and the state that
\* completeness::reduce makes of them and of what there is to show.
LEMMA ResultIs ==
    ASSUME NEW call, WellFormed(call), NEW outcomes, Told(call, outcomes),
           NEW s \in Seq(ToSet(call.units)), NEW k \in Seq(ToSet(call.units)),
           NEW f, f = Those(outcomes, Failing),
           s \o f \o k \in [1..Len(call.units) -> ToSet(call.units)],
           IsInjective(s \o f \o k),
           NEW d, s = <<>> => d = <<>>,
           NEW r, r.succeeded = s, r.failed = f, r.skipped = k, r.data = d,
           r.state = State(s, f, k, d),
           r.state = "failed" => r.error = Primary(Kinds(outcomes))
    PROVE  Accounts(call, outcomes, r) /\ Rates(call, outcomes, r)
<1>1. r.state = IF f = <<>> THEN (IF d # <<>> THEN "complete" ELSE "empty")
                ELSE IF s = <<>> /\ k = <<>> THEN "failed" ELSE "partial"
  BY StateIs
<1>2. /\ ToSet(f) = {outcomes[i].unit : i \in With(outcomes, Failing)}
      /\ f = <<>> <=> With(outcomes, Failing) = {}
      /\ Len(f) = Cardinality(With(outcomes, Failing))
      /\ f \in Seq(ToSet(call.units))
  BY ThoseAre
<1>3. s # <<>> \/ k # <<>> => Len(f) < Len(call.units)
  <2>1. Len(s) + Len(f) + Len(k) = Len(call.units)
    <3>1. PICK n \in Nat : n = Len(call.units)
      BY DEF WellFormed
    <3>2. PICK c : c = s \o f \o k
      OBVIOUS
    <3>3. c \in Seq(ToSet(call.units)) /\ Len(c) = Len(s) + Len(f) + Len(k)
      BY <1>2, <3>2
    <3>4. DOMAIN c = 1..n
      BY <3>1, <3>2
    <3>5. Len(c) = n
      <4>1. PICK m \in Nat : m = Len(c) /\ 1..m = DOMAIN c
        BY <3>3
      <4>2. m <= n /\ n <= m
        <5>1. \A i \in Nat : i \in 1..m <=> i \in 1..n
          BY <3>4, <4>1
        <5>2. m # 0 => m \in 1..n
          BY <3>1, <4>1, <5>1
        <5>3. n # 0 => n \in 1..m
          BY <3>1, <4>1, <5>1
        <5>4. QED
          BY <3>1, <4>1, <5>2, <5>3
      <4>3. QED
        BY <3>1, <4>1, <4>2
    <3>6. QED
      BY <3>1, <3>3, <3>5
  <2>2. Len(s) \in Nat /\ Len(f) \in Nat /\ Len(k) \in Nat
        /\ (s # <<>> => Len(s) # 0) /\ (k # <<>> => Len(k) # 0)
    BY <1>2
  <2>3. QED
    BY <2>1, <2>2
<1>4. Accounts(call, outcomes, r)
  BY <1>2 DEF Accounts
<1>5. f # <<>> => Primary(Kinds(outcomes)) \in Kinds(outcomes)
  BY <1>2, FailureIsMet
<1>6. Rates(call, outcomes, r)
  <2>1. CASE f = <<>>
    BY <1>1, <1>2, <2>1 DEF Rates
  <2>2. CASE f # <<>> /\ s = <<>> /\ k = <<>>
    BY <1>1, <1>2, <1>5, <2>2 DEF Rates
  <2>3. CASE f # <<>> /\ ~(s = <<>> /\ k = <<>>)
    BY <1>1, <1>2, <1>3, <2>3 DEF Rates
  <2>4. QED
    BY <2>1, <2>2, <2>3
<1>7. QED
  BY <1>4, <1>6

\* range::reduce and apply_adjustment.
LEMMA RangeTells ==
    ASSUME NEW call, WellFormed(call), NEW outcomes, Told(call, outcomes),
           NEW consistent \in BOOLEAN,
           NEW result, result = RangeResult(call, outcomes, consistent)
    PROVE  /\ Accounts(call, outcomes, result) /\ Presents(call, outcomes, result)
           /\ Rates(call, outcomes, result)
<1> DEFINE u == call.units
           shut == {i \in DOMAIN u : u[i] \in call.closed}
           c == ItemsAt(u, shut)
           s == Those(outcomes, {"match", "other"})
           f == Those(outcomes, Failing)
           k == c \o Those(outcomes, {"empty"})
           st == State(s, f, k, s)
           r == [state |-> st, succeeded |-> s, failed |-> f, skipped |-> k,
                 data |-> IF st = "failed" THEN <<>> ELSE s,
                 adjusted |-> FALSE, stats |-> FALSE,
                 error |-> IF st = "failed" THEN Primary(Kinds(outcomes)) ELSE "none"]
<1>1. result = IF call.command = "adjusted" THEN AdjustedRange(r, outcomes, consistent)
               ELSE r
  BY DEF RangeResult, Failing
<1>2. c \in Seq(ToSet(u)) /\ IsInjective(c) /\ ToSet(c) = ToSet(u) \cap call.closed
  <2>1. u \in Seq(ToSet(u)) /\ IsInjective(u) /\ shut \in SUBSET DOMAIN u
    BY DEF WellFormed
  <2>2. \A i, j \in shut : u[i] = u[j] => i = j
    BY <2>1 DEF IsInjective
  <2>3. ToSet(u) \cap call.closed = {u[i] : i \in shut}
    BY DEF ToSet
  <2> HIDE DEF u, shut
  <2>4. QED
    BY <2>1, <2>2, <2>3, SublistLed, SublistHolds
<1>3. {"match", "other"} \cup {"empty"} = Found /\ {"match", "other"} \cap {"empty"} = {}
  BY DEF Found
<1>4. st = IF f = <<>> THEN (IF s # <<>> THEN "complete" ELSE "empty")
           ELSE IF s = <<>> /\ k = <<>> THEN "failed" ELSE "partial"
  BY StateIs
<1>5. s \in Seq(ToSet(u)) /\ InUnitOrder(call, s)
  BY ThoseAre
<1>6. /\ r.succeeded = s /\ r.failed = f /\ r.skipped = k /\ r.state = st
      /\ ~r.adjusted /\ ~r.stats
      /\ st = "failed" => r.error = Primary(Kinds(outcomes))
      /\ r.data = IF st = "failed" THEN <<>> ELSE s
  OBVIOUS
<1> HIDE DEF u, c, s, f, k, st, r
<1>7. r.data = s
  BY <1>4, <1>6
<1>8. Accounts(call, outcomes, r) /\ Rates(call, outcomes, r)
  <2>1. /\ s \o f \o k \in [1..Len(call.units) -> ToSet(call.units)]
        /\ IsInjective(s \o f \o k) /\ k \in Seq(ToSet(call.units))
    BY <1>2, <1>3, UnitsAreParted DEF c, s, f, k, u
  <2>2. QED
    BY <1>5, <1>6, <1>7, <2>1, ResultIs DEF f, st, u
<1>9. Presents(call, outcomes, r)
  BY <1>5, <1>6, <1>7 DEF Presents, u
<1>10. CASE result = r
  BY <1>8, <1>9, <1>10
<1>11. CASE /\ MayAdjust(r, outcomes)
            /\ result = [r EXCEPT !.adjusted = TRUE]
  <2>1. /\ r.state = "complete"
        /\ \A i \in DOMAIN outcomes : outcomes[i].outcome = "match"
    BY <1>11 DEF MayAdjust
  <2>2. With(outcomes, {"match"}) = DOMAIN outcomes
        /\ With(outcomes, {"match", "other"}) = DOMAIN outcomes
    BY <2>1 DEF With
  <2>3. s = Fanout(call)
    BY <2>2, ThoseAre DEF s
  <2>4. /\ result.succeeded = r.succeeded /\ result.failed = r.failed
        /\ result.skipped = r.skipped /\ result.state = r.state
        /\ result.data = r.data /\ result.error = r.error /\ ~result.stats
    BY <1>6, <1>11 DEF r
  <2>5. Accounts(call, outcomes, result) /\ Rates(call, outcomes, result)
    BY <1>8, <2>4 DEF Accounts, Rates
  <2>6. Presents(call, outcomes, result)
    BY <1>5, <1>7, <2>2, <2>3, <2>4 DEF Presents, u
  <2>7. QED
    BY <2>5, <2>6
<1>12. CASE result = [r EXCEPT !.state = "failed", !.data = <<>>, !.error = "integrity"]
  <2>1. /\ result.succeeded = r.succeeded /\ result.failed = r.failed
        /\ result.skipped = r.skipped /\ result.state = "failed"
        /\ result.data = <<>> /\ result.error = "integrity"
        /\ ~result.stats /\ ~result.adjusted
    BY <1>6, <1>12 DEF r
  <2>2. Accounts(call, outcomes, result)
    BY <1>8, <2>1 DEF Accounts
  <2>3. Rates(call, outcomes, result)
    BY <2>1 DEF Rates
  <2>4. result.data \in Seq(ToSet(call.units)) /\ InUnitOrder(call, result.data)
    BY <2>1 DEF InUnitOrder
  <2>5. Presents(call, outcomes, result)
    BY <2>1, <2>4 DEF Presents
  <2>6. QED
    BY <2>2, <2>3, <2>5
<1>13. QED
  BY <1>1, <1>10, <1>11, <1>12 DEF AdjustedRange

\* What a composite command shows, in the order of its components.
LEMMA ShownIs ==
    ASSUME NEW call, WellFormed(call), NEW outcomes, Told(call, outcomes)
    PROVE  /\ Shown(call, outcomes) \in Seq(ToSet(call.units))
           /\ InUnitOrder(call, Shown(call, outcomes))
           /\ Those(outcomes, Found) = <<>> => Shown(call, outcomes) = <<>>
<1> DEFINE whole == Those(outcomes, {"match", "other"})
           kept == {i \in DOMAIN whole :
                       whole[i] \notin ToSet(Stocks) \/ StatsOfBoth(Those(outcomes, Found))}
<1>1. \/ Shown(call, outcomes) = Those(outcomes, {"match"})
      \/ Shown(call, outcomes) = ItemsAt(whole, kept)
  BY DEF Shown
<1>2. whole \in Seq(ToSet(call.units)) /\ InUnitOrder(call, whole)
  BY ThoseAre
<1>3. kept \in SUBSET DOMAIN whole
  OBVIOUS
<1>4. Those(outcomes, Found) = <<>> => Those(outcomes, {"match"}) = <<>> /\ whole = <<>>
  <2>1. ASSUME With(outcomes, Found) = {}
        PROVE  With(outcomes, {"match"}) = {} /\ With(outcomes, {"match", "other"}) = {}
    BY <2>1 DEF With, Found
  <2>2. QED
    BY <2>1, ThoseAre
<1> HIDE DEF kept, whole
<1>5. /\ ItemsAt(whole, kept) \in Seq(ToSet(call.units))
      /\ InUnitOrder(call, ItemsAt(whole, kept))
      /\ whole = <<>> => ItemsAt(whole, kept) = <<>>
  <2>1. whole = <<>> => kept = {}
    BY <1>3
  <2>2. QED
    BY <1>2, <1>3, <2>1, SublistLed, SublistHolds, OrderStays
<1>6. /\ Those(outcomes, {"match"}) \in Seq(ToSet(call.units))
      /\ InUnitOrder(call, Those(outcomes, {"match"}))
  BY ThoseAre
<1>7. QED
  BY <1>1, <1>4, <1>5, <1>6

\* reduce_stock_search, reduce_market_summary and reduce_watchlist_prices.
LEMMA ComponentsTell ==
    ASSUME NEW call, WellFormed(call), ~IsRange(call),
           NEW outcomes, Told(call, outcomes),
           NEW result, result = ComponentsResult(call, outcomes)
    PROVE  /\ Accounts(call, outcomes, result) /\ Presents(call, outcomes, result)
           /\ Rates(call, outcomes, result)
<1> DEFINE s == Those(outcomes, Found)
           f == Those(outcomes, Failing)
           d == Shown(call, outcomes)
<1> PICK none, void, k :
        none = <<>> /\ void = {} /\ k = none \o Those(outcomes, void)
  OBVIOUS
<1>1. k = <<>>
  <2>1. With(outcomes, {}) = {}
    BY DEF With
  <2>2. Those(outcomes, {}) = <<>>
    BY <2>1, ThoseAre
  <2>3. QED
    BY <2>2
<1>2. /\ result.succeeded = s /\ result.failed = f /\ result.skipped = k
      /\ result.data = d /\ result.state = State(s, f, k, d)
      /\ result.state = "failed" => result.error = Primary(Kinds(outcomes))
      /\ ~result.adjusted
      /\ result.stats => StatsOfBoth(s)
  <2>1. result = [state |-> State(s, f, <<>>, d),
                  succeeded |-> s, failed |-> f, skipped |-> <<>>,
                  data |-> d, adjusted |-> FALSE,
                  stats |-> call.command = "summary" /\ StatsOfBoth(s),
                  error |-> IF State(s, f, <<>>, d) = "failed"
                            THEN Primary(Kinds(outcomes)) ELSE "none"]
    BY DEF ComponentsResult, Failing
  <2> HIDE DEF s, f, d
  <2>2. /\ result.succeeded = s /\ result.failed = f /\ result.skipped = <<>>
        /\ result.data = d /\ result.state = State(s, f, <<>>, d)
        /\ result.state = "failed" => result.error = Primary(Kinds(outcomes))
    BY <2>1
  <2>3. ~result.adjusted
    BY <2>1
  <2>4. result.stats => StatsOfBoth(s)
    <3> DEFINE both == call.command = "summary" /\ StatsOfBoth(s)
    <3>1. result.stats = both
      BY <2>1
    <3>2. QED
      BY <3>1, Zenon
  <2>5. QED
    BY <1>1, <2>2, <2>3, <2>4
<1>3. s = <<>> => d = <<>>
  BY ShownIs
<1>4. /\ none \in Seq(ToSet(call.units)) /\ IsInjective(none)
      /\ ToSet(none) = ToSet(call.units) \cap call.closed
  BY DEF WellFormed, IsInjective, ToSet
<1>5. Found \cup void = Found /\ Found \cap void = {}
  OBVIOUS
<1> HIDE DEF s, f, d
<1>6. Accounts(call, outcomes, result) /\ Rates(call, outcomes, result)
  <2>1. s = Those(outcomes, Found) /\ f = Those(outcomes, Failing)
    BY DEF s, f
  <2>2. k = none \o Those(outcomes, void)
    OBVIOUS
  <2>3. /\ s \o f \o k \in [1..Len(call.units) -> ToSet(call.units)]
        /\ IsInjective(s \o f \o k)
    <3>1. PICK good : good = Found
      OBVIOUS
    <3>2. s = Those(outcomes, good) /\ good \cup void = Found /\ good \cap void = {}
      BY <1>5, <2>1, <3>1
    <3>3. s \o f \o k \in [1..Len(call.units) -> ToSet(call.units)]
      BY <1>4, <2>1, <2>2, <3>2, UnitsAreParted
    <3>4. IsInjective(s \o f \o k)
      BY <1>4, <2>1, <2>2, <3>2, UnitsAreParted
    <3>5. QED
      BY <3>3, <3>4
  <2>4. s \in Seq(ToSet(call.units)) /\ k \in Seq(ToSet(call.units))
    BY <1>1, <2>1, ThoseAre
  <2>5. QED
    BY <1>2, <1>3, <2>1, <2>3, <2>4, ResultIs
<1>7. d \in Seq(ToSet(call.units)) /\ InUnitOrder(call, d)
  BY ShownIs DEF d
<1>8. StatsOfBoth(s) =>
        \A u \in ToSet(Stocks) : \E i \in With(outcomes, Found) : outcomes[i].unit = u
  BY ThoseAre DEF s, StatsOfBoth
<1>9. Presents(call, outcomes, result)
  BY <1>2, <1>7, <1>8 DEF Presents
<1>10. QED
  BY <1>6, <1>9

\* What a call makes of the outcomes.
Tells(call, outcomes, result) ==
    \/ result.state = "error" /\ result.error \in Kinds(outcomes)
    \/ /\ result.state # "error" /\ Kinds(outcomes) \cap CallWide = {}
       /\ Accounts(call, outcomes, result) /\ Presents(call, outcomes, result)
       /\ Rates(call, outcomes, result)

\* Each of the reducers tells of its outcomes what the invariants need, whatever
\* the outcomes are.
LEMMA ReducedTells ==
    ASSUME NEW call, WellFormed(call), NEW outcomes, Told(call, outcomes),
           NEW consistent \in BOOLEAN,
           NEW result, result = Reduced(call, outcomes, consistent)
    PROVE  Tells(call, outcomes, result)
<1>1. InOrder(call, outcomes)
  BY DEF Told
<1>2. CASE Kinds(outcomes) \cap CallWide # {}
  <2>1. result = CallError(Primary(Kinds(outcomes) \cap CallWide))
    BY <1>1, <1>2 DEF Reduced
  <2>2. (Kinds(outcomes) \cap CallWide) \cap ToSet(COMPOSITE_PRIORITY) # {}
    BY <1>2, KindsAre
  <2>3. Primary(Kinds(outcomes) \cap CallWide) \in Kinds(outcomes)
    BY <2>2, PrimaryIsMet
  <2>4. QED
    BY <2>1, <2>3 DEF Tells, CallError
<1>3. CASE Kinds(outcomes) \cap CallWide = {}
  <2>1. /\ Accounts(call, outcomes, result) /\ Presents(call, outcomes, result)
        /\ Rates(call, outcomes, result)
    <3>1. CASE IsRange(call)
      <4>1. result = RangeResult(call, outcomes, consistent)
        BY <1>1, <1>3, <3>1 DEF Reduced
      <4>2. QED
        BY <4>1, RangeTells
    <3>2. CASE ~IsRange(call)
      <4>1. result = ComponentsResult(call, outcomes)
        BY <1>1, <1>3, <3>2 DEF Reduced
      <4>2. QED
        BY <3>2, <4>1, ComponentsTell
    <3>3. QED
      BY <3>1, <3>2
  <2>2. result.state # "error"
    BY <2>1 DEF Rates
  <2>3. QED
    BY <1>3, <2>1, <2>2 DEF Tells
<1>4. QED
  BY <1>2, <1>3

-----------------------------------------------------------------------------
(* The fan-out of a call                                                   *)

\* What was collected is, of the first units, what became of them.
Collected ==
    /\ coYielded \in Seq([unit : ToSet(coCall.units), outcome : Kind])
    /\ Len(coYielded) <= Len(Fanout(coCall))
    /\ \A i \in DOMAIN coYielded :
          /\ coYielded[i].unit = Fanout(coCall)[i]
          /\ coYielded[i].outcome = coUnit[Fanout(coCall)[i]]

\* A call that was not cancelled is over when all of its units are collected.
Answered ==
    coPc = "done" =>
        IF coCancelled THEN coResult = CallError("cancelled")
        ELSE /\ Len(coYielded) = Len(Fanout(coCall))
             /\ \E consistent \in BOOLEAN :
                   coResult = Reduced(coCall, coYielded, consistent)

CoInv ==
    /\ WellFormed(coCall)
    /\ coUnit \in [ToSet(Fanout(coCall)) -> {"waiting", "running"} \cup Kind]
    /\ Collected
    /\ Answered

\* An outcome is none of the places a unit is in before it has one.
LEMMA KindsOfUnit ==
    /\ "waiting" \notin Kind /\ "running" \notin Kind
    /\ {"match", "other", "empty", "cancelled", "internal", "timeout", "approval",
        "local_state", "network"} = Kind
  BY KindsAre DEF Kind, Found

\* The invariant of the fan-out holds in the beginning.
LEMMA InitCoInv == CompositeInit => CoInv
<1> SUFFICES ASSUME CompositeInit PROVE CoInv
  OBVIOUS
<1>1. WellFormed(coCall)
  BY CallsWellFormed, CompositeConstants DEF CompositeInit
<1>2. coYielded = <<>> /\ coPc = "idle"
      /\ coUnit = [u \in ToSet(Fanout(coCall)) |-> "waiting"]
  BY DEF CompositeInit
<1>3. Fanout(coCall) \in Seq(ToSet(coCall.units))
  BY <1>1, FanoutIs
<1>4. Collected
  <2>1. Len(Fanout(coCall)) \in Nat
    BY <1>3
  <2>2. Len(coYielded) = 0 /\ DOMAIN coYielded = {}
    BY <1>2
  <2>3. QED
    BY <1>2, <2>1, <2>2 DEF Collected
<1>5. QED
  BY <1>1, <1>2, <1>4 DEF CoInv, Answered

\* A unit goes on that was not collected.
LEMMA UnitGoesOn ==
    ASSUME CoInv, NEW u \in DOMAIN coUnit, coUnit[u] \in {"waiting", "running"},
           NEW x \in {"running"} \cup Kind, coUnit' = [coUnit EXCEPT ![u] = x],
           UNCHANGED <<coCall, coYielded>>
    PROVE  /\ coUnit' \in [ToSet(Fanout(coCall)) -> {"waiting", "running"} \cup Kind]
           /\ Collected'
<1>1. coUnit \in [ToSet(Fanout(coCall)) -> {"waiting", "running"} \cup Kind]
  BY DEF CoInv
<1>2. coUnit' \in [ToSet(Fanout(coCall)) -> {"waiting", "running"} \cup Kind]
  BY <1>1
<1>3. ASSUME NEW i \in DOMAIN coYielded
      PROVE  coYielded[i].outcome = coUnit'[Fanout(coCall)[i]]
  <2> DEFINE R == [unit : ToSet(coCall.units), outcome : Kind]
  <2>1. coYielded \in Seq(R) /\ coYielded[i].outcome = coUnit[Fanout(coCall)[i]]
    BY DEF CoInv, Collected
  <2>2. \A r \in R : r.outcome \in Kind
    OBVIOUS
  <2> HIDE DEF R
  <2>3. coUnit[Fanout(coCall)[i]] \in Kind
    BY <2>1, <2>2
  <2>4. Fanout(coCall)[i] # u
    BY <2>3, KindsOfUnit
  <2>5. Fanout(coCall)[i] \in ToSet(Fanout(coCall))
    <3>1. Fanout(coCall) \in Seq(ToSet(coCall.units))
      BY FanoutIs DEF CoInv
    <3>2. Len(coYielded) <= Len(Fanout(coCall))
      BY DEF CoInv, Collected
    <3>3. i \in DOMAIN Fanout(coCall)
      BY <2>1, <3>1, <3>2
    <3>4. QED
      BY <3>3 DEF ToSet
  <2>6. QED
    BY <1>1, <2>1, <2>4
<1>4. Collected'
  BY <1>3 DEF CoInv, Collected
<1>5. QED
  BY <1>2, <1>4

\* Every step of the fan-out keeps it.
LEMMA NextCoInv ==
    ASSUME CoInv, [CompositeNext]_coVars
    PROVE  CoInv'
<1>1. CASE BeginCall
  <2>1. UNCHANGED <<coCall, coUnit, coYielded, coCancelled>>
    BY <1>1 DEF BeginCall
  <2>2. Answered'
    BY <1>1 DEF BeginCall, Answered
  <2>3. QED
    BY <2>1, <2>2 DEF CoInv, Collected
<1>2. CASE StartUnit
  <2>1. PICK i \in DOMAIN Fanout(coCall) :
            /\ Waiting(Fanout(coCall)[i])
            /\ coUnit' = [coUnit EXCEPT ![Fanout(coCall)[i]] =
                             IF coCancelled THEN "cancelled"
                             ELSE IF coExpired THEN "timeout" ELSE "running"]
    BY <1>2 DEF StartUnit
  <2>2. PICK u : u = Fanout(coCall)[i]
    OBVIOUS
  <2>3. PICK x : x = IF coCancelled THEN "cancelled"
                     ELSE IF coExpired THEN "timeout" ELSE "running"
    OBVIOUS
  <2>4. x \in {"running"} \cup Kind
    BY <2>3, KindsOfUnit
  <2>5. u \in DOMAIN coUnit
    BY <2>2 DEF CoInv, ToSet
  <2>6. coUnit[u] \in {"waiting", "running"}
    BY <2>1, <2>2 DEF Waiting
  <2>7. coUnit' = [coUnit EXCEPT ![u] = x]
    BY <2>1, <2>2, <2>3
  <2>8. UNCHANGED <<coCall, coPc, coYielded, coCancelled, coExpired, coResult>>
    BY <1>2 DEF StartUnit
  <2>9. /\ coUnit' \in [ToSet(Fanout(coCall)) -> {"waiting", "running"} \cup Kind]
        /\ Collected'
    BY <2>4, <2>5, <2>6, <2>7, <2>8, UnitGoesOn
  <2>10. QED
    BY <2>8, <2>9 DEF CoInv, Answered
<1>3. ASSUME NEW u \in DOMAIN coUnit, EndUnit(u) PROVE CoInv'
  <2>1. PICK x \in Found \cup {"internal", "approval", "local_state", "network"}
                   \cup (IF coCancelled THEN {"cancelled"} ELSE {})
                   \cup (IF coExpired THEN {"timeout"} ELSE {}) :
            coUnit' = [coUnit EXCEPT ![u] = x]
    BY <1>3 DEF EndUnit
  <2>2. x \in {"running"} \cup Kind
    BY <2>1, KindsOfUnit DEF Found
  <2>3. coUnit[u] \in {"waiting", "running"}
    BY <1>3 DEF EndUnit
  <2>4. UNCHANGED <<coCall, coPc, coYielded, coCancelled, coExpired, coResult>>
    BY <1>3 DEF EndUnit
  <2>5. /\ coUnit' \in [ToSet(Fanout(coCall)) -> {"waiting", "running"} \cup Kind]
        /\ Collected'
    BY <2>1, <2>2, <2>3, <2>4, UnitGoesOn
  <2>6. QED
    BY <2>4, <2>5 DEF CoInv, Answered
<1>4. ASSUME NEW u \in DOMAIN coUnit, CollectUnit(u) PROVE CoInv'
  <2> DEFINE R == [unit : ToSet(coCall.units), outcome : Kind]
             e == [unit |-> u, outcome |-> coUnit[u]]
             n == Len(coYielded)
  <2>1. /\ UNCHANGED <<coCall, coPc, coUnit, coCancelled, coExpired, coResult>>
        /\ coYielded' = Append(coYielded, e)
        /\ coPc = "fanning"
        /\ n < Len(Fanout(coCall)) /\ u = Fanout(coCall)[n + 1]
        /\ Ended(u)
    BY <1>4 DEF CollectUnit, NextInOrder
  <2>2. coUnit[u] \in Kind
    BY <2>1 DEF CoInv, Ended
  <2>3. u \in ToSet(coCall.units)
    <3>1. u \in ToSet(Fanout(coCall))
      BY DEF CoInv
    <3>2. QED
      BY <3>1, FanoutIs DEF CoInv
  <2>4. e \in R /\ coYielded \in Seq(R)
    BY <2>2, <2>3 DEF CoInv, Collected
  <2>5. Len(Fanout(coCall)) \in Nat
    BY FanoutIs DEF CoInv
  <2>6. n \in Nat
    BY <2>4
  <2> HIDE DEF R
  <2>7. /\ coYielded' \in Seq(R) /\ Len(coYielded') = n + 1
        /\ DOMAIN coYielded' = 1..n + 1 /\ DOMAIN coYielded = 1..n
        /\ \A i \in 1..n : coYielded'[i] = coYielded[i]
        /\ coYielded'[n + 1] = e
    <3> HIDE DEF e
    <3>1. QED
      BY <2>1, <2>4
  <2>8. ASSUME NEW i \in 1..n + 1
        PROVE  /\ coYielded'[i].unit = Fanout(coCall)[i]
               /\ coYielded'[i].outcome = coUnit[Fanout(coCall)[i]]
    <3> HIDE DEF n
    <3>1. CASE i \in 1..n
      BY <2>7, <3>1 DEF CoInv, Collected
    <3>2. CASE i = n + 1
      BY <2>1, <2>7, <3>2
    <3>3. QED
      BY <2>6, <3>1, <3>2
  <2>9. Collected'
    <3> HIDE DEF e, n
    <3>1. Len(coYielded') <= Len(Fanout(coCall))
      BY <2>1, <2>5, <2>6, <2>7
    <3>2. QED
      BY <2>1, <2>7, <2>8, <3>1 DEF Collected, R
  <2>10. QED
    BY <2>1, <2>9 DEF CoInv, Answered
<1>5. CASE FinishCall
  <2>1. /\ UNCHANGED <<coCall, coUnit, coYielded, coCancelled, coExpired>>
        /\ Len(coYielded) = Len(Fanout(coCall))
    BY <1>5 DEF FinishCall
  <2>2. PICK consistent \in BOOLEAN :
            coResult' = IF coCancelled THEN CallError("cancelled")
                        ELSE Reduced(coCall, coYielded, consistent)
    BY <1>5 DEF FinishCall
  <2>3. Answered'
    BY <2>1, <2>2 DEF Answered
  <2>4. QED
    BY <2>1, <2>3 DEF CoInv, Collected
<1>6. CASE Cancel \/ Expire
  BY <1>6 DEF Cancel, Expire, CoInv, Collected, Answered
<1>7. CASE UNCHANGED coVars
  BY <1>7 DEF coVars, CoInv, Collected, Answered
<1>8. QED
  BY <1>1, <1>2, <1>3, <1>4, <1>5, <1>6, <1>7 DEF CompositeNext

\* A call that answered was told of every unit.
LEMMA AnswerTellsUnits ==
    ASSUME CoInv, coPc = "done", ~coCancelled
    PROVE  /\ Told(coCall, coYielded) /\ Tells(coCall, coYielded, coResult)
           /\ \A kinds : {coYielded[i].unit : i \in With(coYielded, kinds)}
                          = {u \in DOMAIN coUnit : coUnit[u] \in kinds}
           /\ DOMAIN coUnit = ToSet(Fanout(coCall))
           /\ DOMAIN coYielded = DOMAIN Fanout(coCall)
<1> DEFINE R == [unit : ToSet(coCall.units), outcome : Kind]
           F == Fanout(coCall)
<1>1. /\ coYielded \in Seq(R) /\ F \in Seq(ToSet(coCall.units))
      /\ Len(coYielded) = Len(F) /\ WellFormed(coCall)
      /\ DOMAIN coUnit = ToSet(F)
  BY FanoutIs DEF CoInv, Collected, Answered
<1> HIDE DEF R, F
<1>2. DOMAIN coYielded = DOMAIN F
  BY <1>1
<1>3. \A i \in DOMAIN F : coYielded[i].unit = F[i] /\ coYielded[i].outcome = coUnit[F[i]]
  BY <1>2 DEF CoInv, Collected, F
<1>4. F = [i \in DOMAIN coYielded |-> coYielded[i].unit]
  <2>1. F = [i \in DOMAIN F |-> F[i]]
    BY <1>1
  <2>2. QED
    BY <1>2, <1>3, <2>1
<1>5. Told(coCall, coYielded)
  BY <1>1, <1>4 DEF Told, InOrder, F, R
<1>6. PICK consistent \in BOOLEAN : coResult = Reduced(coCall, coYielded, consistent)
  BY DEF CoInv, Answered
<1>7. Tells(coCall, coYielded, coResult)
  BY <1>1, <1>5, <1>6, ReducedTells
<1>8. ASSUME NEW kinds
      PROVE  {coYielded[i].unit : i \in With(coYielded, kinds)}
                = {u \in DOMAIN coUnit : coUnit[u] \in kinds}
  <2>1. \A u \in DOMAIN coUnit : \E i \in DOMAIN F : u = F[i]
    BY <1>1 DEF ToSet
  <2>2. \A i \in DOMAIN F : F[i] \in DOMAIN coUnit
    BY <1>1 DEF ToSet
  <2>3. With(coYielded, kinds) = {i \in DOMAIN F : coUnit[F[i]] \in kinds}
    BY <1>2, <1>3 DEF With
  <2>4. QED
    BY <1>3, <2>1, <2>2, <2>3
<1>9. QED
  BY <1>1, <1>2, <1>5, <1>7, <1>8 DEF F

\* range, search_stocks, market_summary and watchlist_prices: whatever the
\* order in which the units ended, and whenever the token or the deadline came
\* between, the result tells of each unit what became of it, in their order.
THEOREM CompositeTellsEachOutcome == CompositeSpec => []ResultTellsEachOutcome
<1>1. CoInv => ResultTellsEachOutcome
  <2> SUFFICES ASSUME CoInv PROVE ResultTellsEachOutcome
    OBVIOUS
  <2>1. CASE coPc # "done"
    BY <2>1 DEF ResultTellsEachOutcome, HasResult
  <2>2. CASE coPc = "done" /\ coCancelled
    <3>1. coResult = [state |-> "error", error |-> "cancelled"]
      BY <2>2 DEF CoInv, Answered, CallError
    <3>2. QED
      BY <2>2, <3>1 DEF ResultTellsEachOutcome, HasResult
  <2>3. CASE coPc = "done" /\ ~coCancelled /\ coResult.state = "error"
    <3>1. coResult.error \in Kinds(coYielded)
      BY <2>3, AnswerTellsUnits DEF Tells
    <3>2. PICK i \in DOMAIN coYielded : coResult.error = coYielded[i].outcome
      BY <3>1 DEF Kinds
    <3>3. DOMAIN coYielded = DOMAIN Fanout(coCall) /\ DOMAIN coUnit = ToSet(Fanout(coCall))
      BY <2>3, AnswerTellsUnits
    <3>4. coYielded[i].outcome = coUnit[Fanout(coCall)[i]]
      BY DEF CoInv, Collected
    <3>5. Fanout(coCall)[i] \in DOMAIN coUnit
      BY <3>2, <3>3 DEF ToSet
    <3>6. QED
      BY <2>3, <3>2, <3>4, <3>5 DEF ResultTellsEachOutcome, HasResult
  <2>4. CASE coPc = "done" /\ ~coCancelled /\ coResult.state # "error"
    <3>1. /\ Kinds(coYielded) \cap CallWide = {}
          /\ Accounts(coCall, coYielded, coResult)
          /\ Presents(coCall, coYielded, coResult)
      BY <2>4, AnswerTellsUnits DEF Tells
    <3>2. ToSet(coResult.failed) = {u \in DOMAIN coUnit : coUnit[u] \in Failing}
      BY <2>4, <3>1, AnswerTellsUnits DEF Accounts
    <3>3. \A u \in DOMAIN coUnit : coUnit[u] \in Kinds(coYielded) \/ coUnit[u] \in Found
      <4>1. SUFFICES ASSUME NEW u \in DOMAIN coUnit, coUnit[u] \notin Found
                     PROVE  coUnit[u] \in Kinds(coYielded)
        OBVIOUS
      <4>2. DOMAIN coYielded = DOMAIN Fanout(coCall)
            /\ DOMAIN coUnit = ToSet(Fanout(coCall))
        BY <2>4, AnswerTellsUnits
      <4>3. PICK i \in DOMAIN coYielded : u = Fanout(coCall)[i]
        BY <4>2 DEF ToSet
      <4>4. coUnit[u] = coYielded[i].outcome
        BY <4>3 DEF CoInv, Collected
      <4>5. QED
        BY <4>1, <4>3, <4>4 DEF Kinds
    <3>4. {u \in DOMAIN coUnit : coUnit[u] \in Failing}
            = {u \in DOMAIN coUnit : coUnit[u] \in {"timeout", "approval", "network"}}
      <4>1. \A u \in DOMAIN coUnit : coUnit[u] \notin CallWide
        BY <3>1, <3>3, KindsAre DEF CallWide, Found
      <4>2. \A x : x \in Failing /\ x \notin CallWide
                   <=> x \in {"timeout", "approval", "network"}
        BY KindsAre DEF Failing
      <4>3. QED
        BY <4>1, <4>2
    <3>5. /\ coResult.succeeded \o coResult.failed \o coResult.skipped
                \in [1..Len(coCall.units) -> ToSet(coCall.units)]
          /\ IsInjective(coResult.succeeded \o coResult.failed \o coResult.skipped)
      BY <3>1 DEF Accounts
    <3>6. \A i, j \in DOMAIN coResult.data :
              i < j => \E k, l \in DOMAIN coCall.units :
                          /\ k < l
                          /\ coCall.units[k] = coResult.data[i]
                          /\ coCall.units[l] = coResult.data[j]
      BY <3>1 DEF Presents, InUnitOrder
    <3>7. QED
      BY <2>4, <3>2, <3>4, <3>5, <3>6 DEF ResultTellsEachOutcome, HasResult
  <2>5. QED
    BY <2>1, <2>2, <2>3, <2>4
<1>2. QED
  BY InitCoInv, NextCoInv, <1>1, PTL DEF CompositeSpec

\* completeness::reduce, apply_adjustment and reduce_market_summary: partial
\* data is never presented as complete.
THEOREM PartialIsMarked == CompositeSpec => []PartialIsNeverComplete
<1>1. CoInv => PartialIsNeverComplete
  <2> SUFFICES ASSUME CoInv, coPc = "done", coResult.state # "error"
               PROVE  /\ coResult.state = "complete" =>
                            \A u \in DOMAIN coUnit : coUnit[u] \in Found
                      /\ coResult.adjusted =>
                            /\ \A u \in DOMAIN coUnit : coUnit[u] = "match"
                            /\ coResult.data = Fanout(coCall)
                      /\ coResult.stats =>
                            \A u \in ToSet(Stocks) : coUnit[u] \in Found
    BY DEF PartialIsNeverComplete, HasResult
  <2>1. ~coCancelled
    BY DEF CoInv, Answered, CallError
  <2>2. /\ Presents(coCall, coYielded, coResult) /\ Rates(coCall, coYielded, coResult)
        /\ DOMAIN coYielded = DOMAIN Fanout(coCall)
        /\ DOMAIN coUnit = ToSet(Fanout(coCall))
        /\ Told(coCall, coYielded)
    BY <2>1, AnswerTellsUnits DEF Tells
  <2>3. \A i \in DOMAIN coYielded :
            /\ coYielded[i].unit = Fanout(coCall)[i]
            /\ coYielded[i].outcome = coUnit[Fanout(coCall)[i]]
    BY DEF CoInv, Collected
  <2>4. \A u \in DOMAIN coUnit : \E i \in DOMAIN coYielded : u = Fanout(coCall)[i]
    BY <2>2 DEF ToSet
  <2>5. coResult.state = "complete" => \A u \in DOMAIN coUnit : coUnit[u] \in Found
    <3>1. SUFFICES ASSUME coResult.state = "complete", NEW u \in DOMAIN coUnit
                   PROVE  coUnit[u] \in Found
      OBVIOUS
    <3>2. PICK i \in DOMAIN coYielded : coUnit[u] = coYielded[i].outcome
      BY <2>3, <2>4
    <3>3. coYielded[i].outcome \notin Failing
      BY <2>2, <3>1 DEF Rates, With
    <3>4. coUnit[u] \in Kind
      <4> DEFINE R == [unit : ToSet(coCall.units), outcome : Kind]
      <4>1. \A r \in R : r.outcome \in Kind
        OBVIOUS
      <4>2. coYielded \in Seq(R)
        BY DEF CoInv, Collected
      <4> HIDE DEF R
      <4>3. QED
        BY <3>2, <4>1, <4>2
    <3>5. QED
      BY <3>2, <3>3, <3>4 DEF Kind, Failing
  <2>6. ASSUME coResult.adjusted
        PROVE  /\ \A u \in DOMAIN coUnit : coUnit[u] = "match"
               /\ coResult.data = Fanout(coCall)
    <3>1. With(coYielded, {"match"}) = DOMAIN coYielded /\ coResult.data = Fanout(coCall)
      BY <2>2, <2>6 DEF Presents
    <3>2. \A i \in DOMAIN coYielded : coYielded[i].outcome = "match"
      BY <3>1 DEF With
    <3>3. QED
      BY <2>3, <2>4, <3>1, <3>2
  <2>7. ASSUME coResult.stats, NEW u \in ToSet(Stocks)
        PROVE  coUnit[u] \in Found
    <3>1. PICK i \in With(coYielded, Found) : coYielded[i].unit = u
      BY <2>2, <2>7 DEF Presents
    <3>2. QED
      BY <2>3, <3>1 DEF With
  <2>8. QED
    BY <2>5, <2>6, <2>7
<1>2. QED
  BY InitCoInv, NextCoInv, <1>1, PTL DEF CompositeSpec

-----------------------------------------------------------------------------
(* The command line                                                        *)

\* The calls that a line may make.
LEMMA LineCalls ==
    ASSUME NEW line,
           line.command \in Endpoint \cup {"search", "summary", "show", "add"},
           NEW call \in CallsOf(line)
    PROVE  /\ WellFormed(call)
           /\ call.command = "direct" => line.command \in Endpoint /\ call.units = <<1>>
<1>1. CASE line.command \in Endpoint /\ "from" \in line.flags
  <2>1. CallsOf(line) = RangeCalls(CmDays)
    BY <1>1 DEF CallsOf, Endpoint
  <2>2. call.command # "direct"
    BY <2>1 DEF RangeCalls
  <2>3. QED
    BY <1>1, <2>1, <2>2, CallsWellFormed, CommandConstants
<1>2. CASE line.command \in Endpoint /\ "from" \notin line.flags
  <2>1. CallsOf(line) = {[command |-> "direct", units |-> <<1>>, closed |-> {}]}
    BY <1>2 DEF CallsOf, Endpoint
  <2>2. call.units = <<1>> /\ call.closed = {}
    BY <2>1
  <2>3. WellFormed(call)
    BY <2>2 DEF WellFormed, ToSet, IsInjective
  <2>4. QED
    BY <1>2, <2>2, <2>3
<1>3. CASE line.command \in {"search", "summary", "show", "add"}
  <2>1. \E c \in {"search", "summary", "prices"} :
            CallsOf(line) = {[command |-> c, units |-> Components(c), closed |-> {}]}
    <3>1. CASE line.command \in {"search", "add"}
      <4>1. line.command \notin Endpoint /\ line.command \notin {"summary", "show"}
        BY <3>1 DEF Endpoint
      <4>2. QED
        BY <3>1, <4>1 DEF CallsOf
    <3>2. CASE line.command = "summary"
      BY <3>2 DEF CallsOf, Endpoint
    <3>3. CASE line.command = "show"
      BY <3>3 DEF CallsOf, Endpoint
    <3>4. QED
      BY <1>3, <3>1, <3>2, <3>3
  <2>2. PICK c \in {"search", "summary", "prices"} :
            CallsOf(line) = {[command |-> c, units |-> Components(c), closed |-> {}]}
    BY <2>1
  <2>3. call \in ComponentCalls /\ call.command = c
    BY <2>2 DEF ComponentCalls
  <2>4. WellFormed(call)
    BY <2>3, CallsWellFormed, CommandConstants
  <2>5. QED
    BY <2>3, <2>4
<1>4. QED
  BY <1>1, <1>2, <1>3

\* The exit status of an answer, by cases.
LEMMA ExitIs ==
    ASSUME NEW state \in {"complete", "partial", "empty", "failed"}, NEW answer
    PROVE  /\ ExitOfResult(state, answer)
                = IF state = "complete" THEN 0 ELSE IF state = "partial" THEN 7
                  ELSE IF state = "empty" THEN 3 ELSE ExitOf(answer.error)
           /\ ExitOf(answer.error) = IF answer.error = "approval" THEN 6 ELSE 1
<1>1. CASE state = "complete"
  BY <1>1 DEF ExitOfResult, ExitOf
<1>2. CASE state = "partial"
  BY <1>2 DEF ExitOfResult, ExitOf
<1>3. CASE state = "empty"
  BY <1>3 DEF ExitOfResult, ExitOf
<1>4. CASE state = "failed"
  BY <1>4 DEF ExitOfResult, ExitOf
<1>5. QED
  BY <1>1, <1>2, <1>3, <1>4

\* The call was made, and nothing of its answer is out yet.
Made ==
    /\ WellFormed(cmCall)
    /\ cmOutcome \in [1..Len(Fanout(cmCall)) -> Kind]
    /\ cmCall.command = "direct" => cmLine.command \in Endpoint /\ cmCall.units = <<1>>
    /\ cmShown = <<>>

\* A unit that failed because of its approval.
Unapproved == \E i \in DOMAIN cmOutcome : cmOutcome[i] = "approval"

\* What an answer says of the outcomes.
Says(answer) ==
    /\ answer.state \in {"error", "complete", "partial", "empty", "failed"}
    /\ answer.state \in {"error", "failed"} /\ answer.error = "approval" => Unapproved
    /\ answer.state \in {"complete", "empty"} => Failed = {}
    /\ answer.state \in {"empty", "failed"} => answer.data = <<>>
    /\ answer.state = "complete" /\ cmCall.command # "direct" => answer.data # <<>>
    /\ answer.state = "partial" =>
          Failed # {} /\ Cardinality(Failed) < Len(cmCall.units)

\* The outcomes of the call that a line makes are told in the order of its units.
LEMMA OutcomesTold ==
    ASSUME Made
    PROVE  /\ Told(cmCall, Outcomes)
           /\ With(Outcomes, Failing) = Failed
           /\ \A x \in Kinds(Outcomes) : \E i \in DOMAIN cmOutcome : cmOutcome[i] = x
<1> DEFINE R == [unit : ToSet(cmCall.units), outcome : Kind]
           F == Fanout(cmCall)
           n == Len(F)
<1>1. F \in Seq(ToSet(cmCall.units)) /\ n \in Nat /\ DOMAIN F = 1..n
  BY FanoutIs DEF Made
<1>2. cmOutcome \in [1..n -> Kind] /\ DOMAIN cmOutcome = 1..n
  BY DEF Made
<1>3. Outcomes = [i \in 1..n |-> [unit |-> F[i], outcome |-> cmOutcome[i]]]
  BY <1>2 DEF Outcomes
<1> HIDE DEF F, n
<1>4. \A i \in 1..n : [unit |-> F[i], outcome |-> cmOutcome[i]] \in R
  BY <1>1, <1>2
<1> HIDE DEF R
<1>5. Outcomes \in Seq(R)
  BY <1>1, <1>3, <1>4
<1>6. DOMAIN Outcomes = 1..n
      /\ \A i \in 1..n : Outcomes[i].unit = F[i] /\ Outcomes[i].outcome = cmOutcome[i]
  BY <1>3
<1>7. [i \in DOMAIN Outcomes |-> Outcomes[i].unit] = F
  <2>1. F = [i \in 1..n |-> F[i]]
    BY <1>1
  <2>2. QED
    BY <1>6, <2>1
<1>8. Told(cmCall, Outcomes)
  BY <1>5, <1>7 DEF Told, InOrder, R, F
<1>9. With(Outcomes, Failing) = Failed
  <2>1. \A x \in Kind : x \in Failing <=> x \notin Found
    BY KindsAre DEF Kind, Failing
  <2>2. \A i \in 1..n : cmOutcome[i] \in Failing <=> cmOutcome[i] \notin Found
    BY <1>2, <2>1
  <2>3. QED
    BY <1>2, <1>6, <2>2 DEF With, Failed
<1>10. \A x \in Kinds(Outcomes) : \E i \in DOMAIN cmOutcome : cmOutcome[i] = x
  BY <1>2, <1>6 DEF Kinds
<1>11. QED
  BY <1>8, <1>9, <1>10

\* Whatever the outcomes, the answer says what the exit status needs.
LEMMA AnswerSays ==
    ASSUME Made, NEW consistent \in BOOLEAN
    PROVE  Says(Answer(consistent))
<1> DEFINE a == Answer(consistent)
<1>1. /\ Told(cmCall, Outcomes) /\ With(Outcomes, Failing) = Failed
      /\ "approval" \in Kinds(Outcomes) => Unapproved
  BY OutcomesTold DEF Unapproved
<1>2. CASE cmCall.command # "direct"
  <2>1. Tells(cmCall, Outcomes, a)
    BY <1>1, <1>2, ReducedTells DEF Made, Answer
  <2> HIDE DEF a
  <2>2. CASE a.state = "error" /\ a.error \in Kinds(Outcomes)
    <3>1. a.error = "approval" => Unapproved
      BY <1>1, <2>2
    <3>2. QED
      BY <2>2, <3>1 DEF Says, a
  <2>3. CASE a.state # "error" /\ Rates(cmCall, Outcomes, a)
    <3>1. a.state = "failed" /\ a.error = "approval" => Unapproved
      BY <1>1, <2>3 DEF Rates
    <3>2. QED
      BY <1>1, <2>3, <3>1 DEF Rates, Says, a
  <2>4. QED
    BY <2>1, <2>2, <2>3 DEF Tells, a
<1>3. CASE cmCall.command = "direct"
  <2>1. ~IsRange(cmCall)
    BY <1>3 DEF IsRange
  <2>2. Fanout(cmCall) = cmCall.units
    BY <2>1, FanoutIs DEF Made
  <2>3. DOMAIN cmOutcome = {1}
    <3>1. Fanout(cmCall) = <<1>>
      BY <1>3, <2>2 DEF Made
    <3>2. cmOutcome \in [1..1 -> Kind]
      BY <3>1 DEF Made
    <3>3. QED
      BY <3>2
  <2>4. CASE cmOutcome[1] \notin Found
    <3>1. a.state = "error" /\ a.error = cmOutcome[1]
      BY <1>3, <2>4 DEF Answer, CallError
    <3>2. a.error = "approval" => Unapproved
      BY <2>3, <3>1 DEF Unapproved
    <3> HIDE DEF a
    <3>3. QED
      BY <3>1, <3>2 DEF Says, a
  <2>5. CASE cmOutcome[1] \in Found
    <3>1. Failed = {}
      BY <2>3, <2>5 DEF Failed
    <3>2. a.state = "complete"
      BY <1>3, <2>5 DEF Answer
    <3> HIDE DEF a
    <3>3. QED
      BY <1>3, <3>1, <3>2 DEF Says, a
  <2>6. QED
    BY <2>4, <2>5
<1>4. QED
  BY <1>2, <1>3

\* What the exit status of a call tells.
Outcome(exit, shown) ==
    /\ exit = 0 => Failed = {} /\ shown # <<>>
    /\ exit = 3 => Failed = {} /\ shown = <<>>
    /\ exit = 7 => Failed # {} /\ Cardinality(Failed) < Len(cmCall.units)
    /\ exit = 6 => Unapproved
    /\ exit = 2 => cmLine.command = "add"
    /\ exit \in {1, 6} => shown = <<>> \/ cmLine.command = "add"

CmInv ==
    /\ cmPc \in {"line", "calling", "adding", "done"}
    /\ cmPc = "line" => cmCall = NoCall /\ cmShown = <<>>
    /\ cmPc = "calling" => Made
    /\ cmPc = "adding" =>
          /\ cmLine.command = "add" /\ cmMatches = 1
          /\ Failed = {} /\ cmShown # <<>>
    /\ cmPc = "done" /\ cmCall # NoCall /\ ~cmCaught => Outcome(cmExit, cmShown)
    /\ cmPc # "done" => ~cmAdded
    /\ cmAdded => Failed = {} /\ cmMatches = 1
    /\ cmLine \in Line

\* The invariant of a command line holds in the beginning.
LEMMA InitCmInv == CommandInit => CmInv
  BY DEF CommandInit, CmInv

\* Nothing is taken from an empty list.
LEMMA NothingSelected ==
    ASSUME NEW rows \in Pipelines(<<>>)
    PROVE  rows = <<>>
<1>1. CASE "select" \notin cmLine.flags
  BY <1>1 DEF Pipelines
<1>2. CASE "select" \in cmLine.flags
  <2>1. PICK kept \in SUBSET DOMAIN <<>> : rows = ItemsAt(<<>>, kept)
    BY <1>2 DEF Pipelines
  <2>2. kept = {} /\ <<>> \in Seq({})
    BY <2>1
  <2>3. QED
    BY <2>1, <2>2, SublistHolds
<1>3. QED
  BY <1>1, <1>2

\* Every step of a command line keeps it.
LEMMA NextCmInv ==
    ASSUME CmInv, [CommandNext]_cmVars
    PROVE  CmInv'
<1>1. CASE \/ RejectLine \/ FailsBeforeCall \/ NothingToShow \/ DryRun
           \/ LocalCommand
  <2>1. /\ cmPc = "line" /\ cmPc' = "done"
        /\ UNCHANGED <<cmLine, cmCall, cmOutcome, cmMatches, cmAdded>>
    BY <1>1 DEF RejectLine, FailsBeforeCall, NothingToShow, DryRun, LocalCommand, Exits
  <2>2. QED
    BY <2>1 DEF CmInv, Failed
<1>2. CASE CallEnds
  <2>1. /\ cmLine.command \notin {"local", "probe"} /\ cmLine \in Line
        /\ cmPc = "line" /\ cmShown = <<>> /\ ~cmAdded
        /\ cmPc' = "calling" /\ cmCall' \in CallsOf(cmLine)
        /\ cmOutcome' \in [1..Len(Fanout(cmCall')) -> CmOutcome]
        /\ UNCHANGED <<cmLine, cmShown, cmAdded>>
    BY <1>2 DEF CallEnds, CmInv
  <2>2. cmLine.command \in Endpoint \cup {"search", "summary", "show", "add"}
    BY <2>1 DEF Line
  <2>3. /\ WellFormed(cmCall')
        /\ cmCall'.command = "direct" => cmLine.command \in Endpoint
                                        /\ cmCall'.units = <<1>>
    BY <2>1, <2>2, LineCalls
  <2>4. cmOutcome' \in [1..Len(Fanout(cmCall')) -> Kind]
    <3>1. CmOutcome \subseteq Kind
      BY CommandConstants DEF Kind
    <3>2. QED
      BY <2>1, <3>1
  <2>5. Made'
    BY <2>1, <2>3, <2>4 DEF Made
  <2>6. QED
    BY <2>1, <2>5 DEF CmInv
<1>3. CASE CallFails
  <2>1. PICK consistent \in BOOLEAN :
            /\ Answer(consistent).state = "error"
            /\ Exits(ExitOf(Answer(consistent).error))
    BY <1>3 DEF CallFails
  <2>2. PICK a : a = Answer(consistent)
    OBVIOUS
  <2>3. Made /\ cmPc = "calling"
    BY <1>3 DEF CallFails, CmInv
  <2>4. Says(a)
    BY <2>2, <2>3, AnswerSays
  <2>5. /\ cmPc' = "done" /\ cmExit' \in {1, 6} /\ (cmExit' = 6 => Unapproved)
        /\ UNCHANGED <<cmLine, cmCall, cmOutcome, cmMatches, cmShown, cmAdded>>
    BY <1>3, <2>1, <2>2, <2>4 DEF CallFails, Exits, ExitOf, Says
  <2>6. Outcome(cmExit', cmShown')
    BY <2>3, <2>5 DEF Outcome, Made
  <2>7. QED
    BY <2>5, <2>6 DEF CmInv, Outcome, Unapproved, Failed
<1>4. CASE ReportEndpoint
  <2>1. PICK consistent \in BOOLEAN, saved \in BOOLEAN :
            LET answer == Answer(consistent)
            IN  /\ answer.state # "error"
                /\ \E rows \in Pipelines(answer.data) :
                      LET status == ExitOfResult(StateOfRows(answer.state, rows), answer)
                          written == \/ "save" \notin cmLine.flags \/ saved
                                     \/ cmCall.command = "direct" /\ rows = <<>>
                      IN  /\ Exits(IF written THEN status ELSE 1)
                          /\ cmShown' = IF written THEN rows ELSE <<>>
    BY <1>4 DEF ReportEndpoint
  <2>2. PICK a : a = Answer(consistent)
    OBVIOUS
  <2>3. PICK rows \in Pipelines(a.data) :
            /\ cmPc' = "done"
            /\ \/ /\ cmExit' = ExitOfResult(StateOfRows(a.state, rows), a)
                  /\ cmShown' = rows
               \/ cmExit' = 1 /\ cmShown' = <<>>
    BY <2>1, <2>2 DEF Exits
  <2>4. Made /\ cmPc = "calling"
        /\ UNCHANGED <<cmLine, cmCall, cmOutcome, cmMatches, cmAdded>>
    BY <1>4 DEF ReportEndpoint, CmInv
  <2>5. Says(a) /\ a.state # "error"
    BY <2>1, <2>2, <2>4, AnswerSays
  <2>6. a.data = <<>> => rows = <<>>
    BY <2>3, NothingSelected
  <2>7. PICK st : st = StateOfRows(a.state, rows)
    OBVIOUS
  <2>8. /\ st \in {"complete", "partial", "empty", "failed"}
        /\ st = "complete" => a.state = "complete" /\ rows # <<>>
        /\ st = "empty" => a.state \in {"complete", "empty"} /\ rows = <<>>
        /\ st \in {"partial", "failed"} => a.state = st
    BY <2>5, <2>6, <2>7 DEF StateOfRows, Says
  <2>9. Outcome(cmExit', cmShown')
    <3>1. CASE cmExit' = 1 /\ cmShown' = <<>>
      BY <3>1 DEF Outcome
    <3>2. CASE cmExit' = ExitOfResult(st, a) /\ cmShown' = rows
      BY <2>5, <2>6, <2>8, <3>2, ExitIs DEF Outcome, Says
    <3>3. QED
      BY <2>3, <2>7, <3>1, <3>2
  <2>10. QED
    BY <2>3, <2>4, <2>9 DEF CmInv, Outcome, Unapproved, Failed
<1>5. CASE ReportComposite
  <2>1. PICK a : a = Answer(TRUE)
    OBVIOUS
  <2>2. /\ cmPc = "calling" /\ a.state # "error" /\ cmPc' = "done"
        /\ cmExit' = ExitOfResult(a.state, a) /\ cmShown' = a.data
        /\ cmLine.command \in {"search", "summary", "show"}
        /\ UNCHANGED <<cmLine, cmCall, cmOutcome, cmMatches, cmAdded>>
    BY <1>5, <2>1 DEF ReportComposite, Exits
  <2>3. Made /\ cmCall.command # "direct"
    BY <2>2 DEF CmInv, Made, Endpoint
  <2>4. Says(a)
    BY <2>1, <2>3, AnswerSays
  <2>5. Outcome(cmExit', cmShown')
    BY <2>2, <2>3, <2>4, ExitIs DEF Outcome, Says
  <2>6. QED
    BY <2>2, <2>5 DEF CmInv, Outcome, Unapproved, Failed
<1>6. CASE AddLooksUp
  <2>1. PICK a : a = Answer(TRUE)
    OBVIOUS
  <2>2. /\ cmPc = "calling" /\ a.state # "error" /\ cmShown' = a.data
        /\ cmLine.command = "add"
        /\ UNCHANGED <<cmLine, cmCall, cmOutcome, cmMatches, cmAdded, cmCaught>>
    BY <1>6, <2>1 DEF AddLooksUp
  <2>3. Made /\ cmCall.command # "direct" /\ ~cmAdded
    BY <2>2 DEF CmInv, Made, Endpoint
  <2>4. Says(a)
    BY <2>1, <2>3, AnswerSays
  <2>5. CASE UniqueMatch(a)
    <3>1. cmPc' = "adding" /\ a.state = "complete" /\ cmMatches = 1
      BY <1>6, <2>1, <2>5 DEF AddLooksUp, UniqueMatch
    <3>2. QED
      BY <2>2, <2>3, <2>4, <3>1 DEF CmInv, Says, Failed
  <2>6. CASE ~UniqueMatch(a)
    <3>1. cmPc' = "done"
          /\ cmExit' = IF a.state = "complete" THEN 2 ELSE ExitOfResult(a.state, a)
      BY <1>6, <2>1, <2>6 DEF AddLooksUp, Exits
    <3>2. Outcome(cmExit', cmShown')
      BY <2>2, <2>3, <2>4, <3>1, ExitIs DEF Outcome, Says
    <3>3. QED
      BY <2>2, <2>3, <3>1, <3>2 DEF CmInv, Outcome, Unapproved, Failed
  <2>7. QED
    BY <2>5, <2>6
<1>7. CASE AddEntry
  BY <1>7 DEF AddEntry, Exits, CmInv, Outcome, Failed, Unapproved
<1>8. CASE Panic
  BY <1>8 DEF Panic, Exits, CmInv, Failed
<1>9. CASE Notice
  BY <1>9 DEF Notice, CmInv, Outcome, Failed, Unapproved
<1>10. CASE UNCHANGED cmVars
  BY <1>10 DEF cmVars, CmInv, Outcome, Failed, Unapproved, Made
<1>11. QED
  BY <1>1, <1>2, <1>3, <1>4, <1>5, <1>6, <1>7, <1>8, <1>9, <1>10 DEF CommandNext

\* output.rs and main.rs: the exit status of a command that called KRX tells a
\* script what it may rely on.
THEOREM ExitIsTold == CommandSpec => []ExitTellsTheOutcome
<1>1. CmInv => ExitTellsTheOutcome
  BY DEF CmInv, Outcome, Unapproved, ExitTellsTheOutcome
<1>2. QED
  BY InitCmInv, NextCmInv, <1>1, PTL DEF CommandSpec

\* watchlist add: an entry is added only for the one row that matches in both
\* markets, all of which answered.
THEOREM UniqueMatchIsAdded == CommandSpec => []AddsOnlyTheUniqueMatch
<1>1. CmInv => AddsOnlyTheUniqueMatch
  BY DEF CmInv, AddsOnlyTheUniqueMatch
<1>2. QED
  BY InitCmInv, NextCmInv, <1>1, PTL DEF CommandSpec

-----------------------------------------------------------------------------
(* Price adjustment                                                        *)

\* The numbers a ratio is made of.
Positive == Nat \ {0}

\* AdjustmentRatio, as the code keeps one.
Ratio == [numerator : Positive, denominator : Positive]

\* Division, for a divisor that is no constant.
LEMMA Quotient ==
    ASSUME NEW n \in Nat, NEW d \in Positive
    PROVE  /\ n \div d \in Nat
           /\ (n \div d) * d <= n
           /\ n < (n \div d) * d + d
           /\ n % d = 0 => (n \div d) * d = n
BY DEF Positive

\* There is a greatest common divisor, and it divides.
LEMMA GcdDivides ==
    ASSUME NEW a \in Positive, NEW b \in Positive
    PROVE  Gcd(a, b) \in Positive /\ a % Gcd(a, b) = 0 /\ b % Gcd(a, b) = 0
<1> DEFINE D == {d \in 1..a : a % d = 0 /\ b % d = 0}
           T == {a - d : d \in D}
<1>1. 1 \in D
  BY DEF Positive
<1>2. T \in SUBSET Nat /\ T # {}
  BY <1>1 DEF Positive
<1>3. PICK x \in T : \A y \in T : x <= y
  BY <1>2, LeastNatural
<1>4. PICK g \in D : x = a - g
  BY <1>3
<1>5. \A d \in D : g >= d
  <2>1. ASSUME NEW d \in D PROVE g >= d
    <3>1. a - d \in T
      BY <2>1
    <3>2. a - g <= a - d
      BY <3>1, <1>3, <1>4
    <3>3. a \in Nat /\ d \in Nat /\ g \in Nat
      BY DEF Positive
    <3>4. QED
      BY <3>2, <3>3
  <2>2. QED
    BY <2>1
<1>6. Gcd(a, b) \in D
  BY <1>4, <1>5 DEF Gcd, Max
<1>7. QED
  BY <1>6 DEF Positive

\* A common factor is taken off both sides.
LEMMA CancelFactor ==
    ASSUME NEW a \in Nat, NEW b \in Nat, NEW k \in Positive, a * k = b * k
    PROVE  a = b
BY DEF Positive

\* A product of positive numbers is positive.
LEMMA ProductPositive ==
    ASSUME NEW a \in Positive, NEW b \in Positive
    PROVE  a * b \in Positive
BY DEF Positive

\* reduce_ratio: the same ratio, of positive numbers.
LEMMA RationalIs ==
    ASSUME NEW n \in Positive, NEW d \in Positive
    PROVE  /\ Rational(n, d) \in Ratio
           /\ Rational(n, d).numerator * d = Rational(n, d).denominator * n
<1> DEFINE p == n \div Gcd(n, d)
           q == d \div Gcd(n, d)
<1>1. PICK g \in Positive : g = Gcd(n, d)
  BY GcdDivides
<1>2. n % g = 0 /\ d % g = 0
  BY <1>1, GcdDivides
<1>3. p \in Nat /\ q \in Nat /\ p * g = n /\ q * g = d
  BY <1>1, <1>2, Quotient DEF Positive
<1>4. Rational(n, d) = [numerator |-> p, denominator |-> q]
  BY DEF Rational
<1> HIDE DEF p, q
<1>5. p \in Positive /\ q \in Positive
  BY <1>3 DEF Positive
<1>6. p * d = q * n
  <2>1. p * d = p * (q * g) /\ q * n = q * (p * g)
    BY <1>3
  <2>2. p * (q * g) = q * (p * g)
    BY <1>3 DEF Positive
  <2>3. QED
    BY <2>1, <2>2
<1>7. QED
  BY <1>4, <1>5, <1>6 DEF Ratio

\* AdjustmentRatio::multiply: the product of two ratios, reduced.
LEMMA MultiplyIs ==
    ASSUME NEW r \in Ratio, NEW s \in Ratio
    PROVE  /\ Multiply(r, s) \in Ratio
           /\ Multiply(r, s).numerator * (r.denominator * s.denominator)
                = Multiply(r, s).denominator * (r.numerator * s.numerator)
<1> DEFINE n == r.numerator * s.numerator
           d == r.denominator * s.denominator
<1>1. n \in Positive /\ d \in Positive
  BY ProductPositive DEF Ratio
<1>2. Multiply(r, s) = Rational(n, d)
  BY DEF Multiply
<1> HIDE DEF n, d
<1>3. /\ Multiply(r, s) \in Ratio
      /\ Multiply(r, s).numerator * d = Multiply(r, s).denominator * n
  BY <1>1, <1>2, RationalIs
<1>4. QED
  BY <1>3 DEF n, d

\* A larger price is not rounded to a smaller one, and nothing to nothing.
LEMMA RoundedProductIs ==
    ASSUME NEW a \in Nat, NEW b \in Nat, a <= b, NEW r \in Ratio
    PROVE  /\ RoundedProduct(a, r) \in Nat /\ RoundedProduct(b, r) \in Nat
           /\ RoundedProduct(a, r) <= RoundedProduct(b, r)
           /\ RoundedProduct(0, r) = 0
<1>1. PICK n \in Positive, d \in Positive, h \in Nat :
          n = r.numerator /\ d = r.denominator /\ h = d \div 2
  BY DEF Ratio, Positive
<1>2. h < d
  BY <1>1 DEF Positive
<1> DEFINE x == (a * n + h) \div d
           y == (b * n + h) \div d
<1>3. RoundedProduct(a, r) = x /\ RoundedProduct(b, r) = y
      /\ RoundedProduct(0, r) = (0 * n + h) \div d
  BY <1>1 DEF RoundedProduct
<1>4. (0 * n + h) \div d = 0
  <2>1. 0 * n + h = h
    BY DEF Positive
  <2>2. h \div d \in Nat /\ (h \div d) * d <= h
    BY Quotient
  <2>3. h \div d = 0
    BY <2>2, <1>2 DEF Positive
  <2>4. QED
    BY <2>1, <2>3
<1>5. a * n + h \in Nat /\ b * n + h \in Nat /\ a * n + h <= b * n + h
  BY DEF Positive
<1>6. PICK u \in Nat, v \in Nat : u = a * n + h /\ v = b * n + h
  BY <1>5
<1>7. /\ x \in Nat /\ y \in Nat
      /\ x * d <= u /\ v < y * d + d
  BY <1>6, Quotient
<1> HIDE DEF x, y
<1>8. x * d < (y + 1) * d
  BY <1>5, <1>6, <1>7 DEF Positive
<1>9. x < y + 1
  BY <1>7, <1>8 DEF Positive
<1>10. QED
  BY <1>3, <1>4, <1>7, <1>9

\* Parsed rows have a close, and so each boundary a ratio.
LEMMA BoundaryIs ==
    ASSUME NEW rows \in Seq(Row), Stable(rows)
    PROVE  /\ Len(rows) \in Positive
           /\ \A i \in 1..Len(rows) : rows[i].quote.close \in Positive
           /\ \A i \in 2..Len(rows) :
                 /\ rows[i].reference \in Positive
                 /\ BoundaryRatio(rows, i) \in Ratio
                 /\ BoundaryRatio(rows, i).numerator * rows[i - 1].quote.close
                      = BoundaryRatio(rows, i).denominator * rows[i].reference
<1>1. Len(rows) \in Positive
  BY DEF Stable, Positive
<1>2. ASSUME NEW i \in 1..Len(rows)
      PROVE  rows[i].quote.close \in Positive /\ rows[i].reference \in Positive
  <2>1. rows[i] \in Row /\ Parses(rows[i])
    BY DEF Stable
  <2>2. rows[i].reference \in Positive /\ rows[i].quote \in Quote
    BY <2>1 DEF Row, Positive
  <2>3. rows[i].quote.close \in Nat /\ rows[i].quote.close > 0
    BY <2>1, <2>2 DEF Quote, Parses, ValidOhlc
  <2>4. QED
    BY <2>2, <2>3 DEF Positive
<1>3. ASSUME NEW i \in 2..Len(rows)
      PROVE  /\ rows[i].reference \in Positive
             /\ BoundaryRatio(rows, i) \in Ratio
             /\ BoundaryRatio(rows, i).numerator * rows[i - 1].quote.close
                  = BoundaryRatio(rows, i).denominator * rows[i].reference
  <2>1. i \in 1..Len(rows) /\ i - 1 \in 1..Len(rows)
    BY <1>1 DEF Positive
  <2>2. rows[i].reference \in Positive /\ rows[i - 1].quote.close \in Positive
    BY <1>2, <2>1
  <2>3. QED
    BY <2>2, RationalIs DEF BoundaryRatio
<1>4. QED
  BY <1>1, <1>2, <1>3

\* The factors are there, one of each row, and follow from one another.
LEMMA FactorsAre ==
    ASSUME NEW rows \in Seq(Row), Stable(rows)
    PROVE  /\ Factors(rows) \in [1..Len(rows) -> Ratio]
           /\ Factors(rows)[Len(rows)] = One
           /\ \A i \in 1..Len(rows) - 1 :
                 Factors(rows)[i]
                   = Multiply(Factors(rows)[i + 1], BoundaryRatio(rows, i + 1))
<1>1. PICK n \in Positive : n = Len(rows)
  BY BoundaryIs
<1> DEFINE R(i) == BoundaryRatio(rows, i)
<1>2. \A i \in 1..n - 1 : R(i + 1) \in Ratio
  BY <1>1, BoundaryIs DEF Positive
<1>3. One \in Ratio
  BY DEF One, Ratio, Positive
<1> HIDE DEF R
<1> DEFINE Follows(g, m) ==
             \A i \in m..n : g[i] = IF i = n THEN One ELSE Multiply(g[i + 1], R(i + 1))
           T == {k \in 0..n - 1 : ~\E g \in [n - k..n -> Ratio] : Follows(g, n - k)}
<1>4. 0 \notin T
  <2> DEFINE g == [i \in n..n |-> One]
  <2>1. g \in [n..n -> Ratio] /\ \A i \in n..n : i = n /\ g[i] = One
    BY <1>3 DEF Positive
  <2>2. n - 0 = n
    BY DEF Positive
  <2> HIDE DEF g
  <2>3. Follows(g, n - 0)
    BY <2>1, <2>2
  <2>4. QED
    BY <2>1, <2>2, <2>3
<1>5. ASSUME NEW k \in T, \A y \in T : k <= y PROVE FALSE
  <2>1. k \in 1..n - 1
    <3>1. T \subseteq 0..n - 1
      OBVIOUS
    <3> HIDE DEF T
    <3>2. k \in 0..n - 1 /\ k # 0
      BY <1>4, <1>5, <3>1
    <3>3. QED
      BY <3>2 DEF Positive
  <2>2. k - 1 \in 0..n - 1 /\ k - 1 \notin T
    <3> HIDE DEF T
    <3>1. k - 1 \in 0..n - 1 /\ ~(k <= k - 1)
      BY <2>1 DEF Positive
    <3>2. QED
      BY <1>5, <3>1
  <2>3. PICK m \in 1..n - 1 : m = n - k
    BY <2>1 DEF Positive
  <2>4. n - (k - 1) = m + 1
    BY <2>1, <2>3 DEF Positive
  <2>5. PICK g \in [m + 1..n -> Ratio] : Follows(g, m + 1)
    BY <2>2, <2>4
  <2> DEFINE h == [i \in m..n |-> IF i = m THEN Multiply(g[m + 1], R(m + 1)) ELSE g[i]]
  <2>6. m + 1 \in m + 1..n /\ R(m + 1) \in Ratio
    BY <1>2, <2>3 DEF Positive
  <2>7. Multiply(g[m + 1], R(m + 1)) \in Ratio
    BY <2>6, <2>5, MultiplyIs
  <2>8. h \in [m..n -> Ratio]
    <3>1. ASSUME NEW i \in m..n, i # m PROVE g[i] \in Ratio
      BY <3>1, <2>3, <2>5 DEF Positive
    <3>2. QED
      BY <3>1, <2>7
  <2>9. Follows(h, m)
    <3>1. ASSUME NEW i \in m..n
          PROVE  h[i] = IF i = n THEN One ELSE Multiply(h[i + 1], R(i + 1))
      <4>1. CASE i = m
        <5>1. m \in m..n /\ m + 1 \in m..n /\ m # n /\ m + 1 # m
          BY <2>3 DEF Positive
        <5>2. h[m] = Multiply(g[m + 1], R(m + 1)) /\ h[m + 1] = g[m + 1]
          BY <5>1
        <5>3. QED
          BY <4>1, <5>1, <5>2
      <4>2. CASE i # m /\ i = n
        <5>1. h[i] = g[i] /\ i \in m + 1..n
          BY <4>2, <2>3 DEF Positive
        <5>2. QED
          BY <4>2, <5>1, <2>5
      <4>3. CASE i # m /\ i # n
        <5>1. i \in m + 1..n /\ i + 1 \in m..n /\ i + 1 # m
          BY <4>3, <2>3 DEF Positive
        <5>2. h[i] = g[i] /\ h[i + 1] = g[i + 1]
          BY <4>3, <5>1
        <5>3. g[i] = Multiply(g[i + 1], R(i + 1))
          BY <4>3, <5>1, <2>5
        <5>4. QED
          BY <4>3, <5>2, <5>3
      <4>4. QED
        BY <4>1, <4>2, <4>3
    <3>2. QED
      BY <3>1
  <2>10. QED
    BY <1>5, <2>3, <2>8, <2>9
<1>6. T = {}
  <2>1. T \in SUBSET Nat
    BY DEF Positive
  <2>2. QED
    BY <2>1, <1>5, LeastNatural
<1>7. n - 1 \in 0..n - 1 /\ n - (n - 1) = 1
  BY DEF Positive
<1>8. PICK g \in [1..n -> Ratio] : Follows(g, 1)
  BY <1>6, <1>7
<1>9. g = [i \in 1..n |-> IF i = n THEN One ELSE Multiply(g[i + 1], R(i + 1))]
  BY <1>8
<1> DEFINE f == CHOOSE f : f = [i \in 1..n |-> IF i = n THEN One
                                              ELSE Multiply(f[i + 1], R(i + 1))]
<1>10. f = [i \in 1..n |-> IF i = n THEN One ELSE Multiply(f[i + 1], R(i + 1))]
  BY <1>9, Zenon
<1>11. Factors(rows) = f
  BY <1>1, Zenon DEF Factors, R
<1> HIDE DEF f
<1>12. DOMAIN f = 1..n /\ f[n] = One
  BY <1>10 DEF Positive
<1>13. \A i \in 1..n - 1 : f[i] = Multiply(f[i + 1], R(i + 1))
  BY <1>10 DEF Positive
<1> DEFINE U == {k \in 0..n - 1 : f[n - k] \notin Ratio}
<1>14. ASSUME NEW k \in U, \A y \in U : k <= y PROVE FALSE
  <2>1. k # 0
    BY <1>3, <1>12, <1>14 DEF Positive
  <2>2. k - 1 \in 0..n - 1 /\ k - 1 \notin U
    BY <1>14, <2>1 DEF Positive
  <2>3. PICK m \in 1..n - 1 : m = n - k
    BY <2>1 DEF Positive
  <2>4. n - (k - 1) = m + 1
    BY <2>3 DEF Positive
  <2>5. f[m + 1] \in Ratio
    BY <2>2, <2>4
  <2>6. f[m] \in Ratio
    BY <2>3, <2>5, <1>2, <1>13, MultiplyIs
  <2>7. QED
    BY <1>14, <2>3, <2>6
<1>15. U = {}
  <2>1. U \in SUBSET Nat
    BY DEF Positive
  <2>2. QED
    BY <2>1, <1>14, LeastNatural
<1>16. ASSUME NEW i \in 1..n PROVE f[i] \in Ratio
  <2>1. n - i \in 0..n - 1 /\ n - (n - i) = i
    BY DEF Positive
  <2>2. QED
    BY <2>1, <1>15
<1>17. f = [i \in 1..n |-> f[i]]
  BY <1>10
<1>18. f \in [1..n -> Ratio]
  BY <1>16, <1>17
<1>19. QED
  BY <1>1, <1>11, <1>12, <1>13, <1>18 DEF R

\* a is s times t, and a differs from b as c from r.
IsProduct(a, s, t) ==
    a.numerator * (s.denominator * t.denominator)
        = a.denominator * (s.numerator * t.numerator)

Differ(a, b, c, r) ==
    a.numerator * b.denominator * c = a.denominator * b.numerator * r

\* Two ratios that are multiplied by the same one differ as before.
LEMMA RatiosCompose ==
    ASSUME NEW a \in Ratio, NEW b \in Ratio, NEW a1 \in Ratio, NEW b1 \in Ratio,
           NEW t \in Ratio, NEW c \in Positive, NEW r \in Positive,
           IsProduct(a, a1, t), IsProduct(b, b1, t), Differ(a1, b1, c, r)
    PROVE  Differ(a, b, c, r)
<1>1. PICK x \in Positive, y \in Positive, u \in Positive, v \in Positive :
        x = a.numerator /\ y = a.denominator /\ u = b.numerator /\ v = b.denominator
  BY DEF Ratio
<1>2. PICK an \in Positive, ad \in Positive, bn \in Positive, bd \in Positive :
        an = a1.numerator /\ ad = a1.denominator /\ bn = b1.numerator /\ bd = b1.denominator
  BY DEF Ratio
<1>3. PICK p \in Positive, q \in Positive : p = t.numerator /\ q = t.denominator
  BY DEF Ratio
<1>4. /\ x * (ad * q) = y * (an * p) /\ u * (bd * q) = v * (bn * p)
      /\ an * bd * c = ad * bn * r
  BY <1>1, <1>2, <1>3 DEF IsProduct, Differ
<1>5. PICK k \in Positive : k = (ad * q) * (bn * p)
  BY ProductPositive
<1>6. (x * v * c) * k = (x * (ad * q)) * (v * (bn * p)) * c
  BY <1>5 DEF Positive
<1>7. @ = (y * (an * p)) * (u * (bd * q)) * c
  BY <1>4
<1>8. @ = (y * u * (p * q)) * (an * bd * c)
  BY DEF Positive
<1>9. @ = (y * u * (p * q)) * (ad * bn * r)
  BY <1>4
<1>10. @ = (y * u * r) * k
  BY <1>5 DEF Positive
<1>11. x * v * c \in Nat /\ y * u * r \in Nat
  BY DEF Positive
<1>12. x * v * c = y * u * r
  BY <1>6, <1>7, <1>8, <1>9, <1>10, <1>11, CancelFactor
<1>13. QED
  BY <1>1, <1>12 DEF Differ

\* What was not rounded to nothing stays in order.
LEMMA RoundedRowIsReal ==
    ASSUME NEW row \in Row, NEW r \in Ratio, Parses(row),
           ValidOhlc(AdjustedQuote(row, r), row.traded)
    PROVE  /\ \A field \in DOMAIN row.quote :
                 AdjustedQuote(row, r)[field] = 0 <=> row.quote[field] = 0
           /\ ~Suspended(row) =>
                 /\ AdjustedQuote(row, r).low <= AdjustedQuote(row, r).open
                 /\ AdjustedQuote(row, r).open <= AdjustedQuote(row, r).high
                 /\ AdjustedQuote(row, r).low <= AdjustedQuote(row, r).close
                 /\ AdjustedQuote(row, r).close <= AdjustedQuote(row, r).high
<1> DEFINE raw == row.quote
           adjusted == AdjustedQuote(row, r)
           x(v) == RoundedProduct(v, r)
<1>1. /\ raw.open \in Nat /\ raw.high \in Nat /\ raw.low \in Nat /\ raw.close \in Nat
      /\ DOMAIN raw = {"open", "high", "low", "close"}
  BY DEF Row, Quote
<1>2. /\ adjusted.open = x(raw.open) /\ adjusted.high = x(raw.high)
      /\ adjusted.low = x(raw.low) /\ adjusted.close = x(raw.close)
  BY <1>1 DEF AdjustedQuote
<1>3. /\ raw.close # 0
      /\ \/ raw.open = 0 /\ raw.high = 0 /\ raw.low = 0
         \/ /\ raw.open # 0 /\ raw.high # 0 /\ raw.low # 0
            /\ raw.close <= raw.high
  BY <1>1 DEF Parses, ValidOhlc
<1>4. /\ x(0) = 0 /\ x(raw.close) \in Nat /\ x(raw.high) \in Nat
      /\ raw.close <= raw.high => x(raw.close) <= x(raw.high)
  BY <1>1, RoundedProductIs
<1>5. /\ x(raw.open) \in Nat /\ x(raw.low) \in Nat
  BY <1>1, RoundedProductIs
<1> DEFINE o == adjusted.open
           h == adjusted.high
           l == adjusted.low
           c == adjusted.close
<1>6. /\ c > 0
      /\ \/ o = 0 /\ h = 0 /\ l = 0
         \/ /\ o # 0 /\ h # 0 /\ l # 0
            /\ l <= o /\ o <= h /\ l <= c /\ c <= h
  BY DEF ValidOhlc
<1> HIDE DEF o, h, l, c, x
<1>7. o = x(raw.open) /\ h = x(raw.high) /\ l = x(raw.low) /\ c = x(raw.close)
  BY <1>2 DEF o, h, l, c
<1>8. CASE raw.open = 0 /\ raw.high = 0 /\ raw.low = 0
  <2>1. o = 0 /\ h = 0 /\ l = 0 /\ c # 0
    BY <1>4, <1>5, <1>6, <1>7, <1>8
  <2>2. Suspended(row)
    BY <1>8 DEF Suspended
  <2>3. \A field \in DOMAIN raw : adjusted[field] = 0 <=> raw[field] = 0
    BY <1>1, <1>3, <1>8, <2>1 DEF o, h, l, c
  <2>4. QED
    BY <2>2, <2>3
<1>9. CASE raw.open # 0 /\ raw.high # 0 /\ raw.low # 0 /\ raw.close <= raw.high
  <2>1. h # 0
    BY <1>4, <1>5, <1>6, <1>7, <1>9
  <2>2. o # 0 /\ l # 0 /\ c # 0 /\ l <= o /\ o <= h /\ l <= c /\ c <= h
    BY <1>4, <1>6, <1>7, <2>1
  <2>3. \A field \in DOMAIN raw : adjusted[field] = 0 <=> raw[field] = 0
    BY <1>1, <1>3, <1>9, <2>1, <2>2 DEF o, h, l, c
  <2>4. QED
    BY <2>2, <2>3 DEF o, h, l, c
<1>10. QED
  BY <1>3, <1>8, <1>9

\* A history is of observed rows.
PaInv == paRows \in Seq(Row)

\* Days are only ever observed.
LEMMA PaAlways == PriceAdjustmentSpec => []PaInv
<1>1. PriceAdjustmentInit => PaInv
  BY DEF PriceAdjustmentInit, PaInv
<1>2. PaInv /\ [PriceAdjustmentNext]_paRows => PaInv'
  BY PriceAdjustmentConstants DEF PaInv, PriceAdjustmentNext, ObserveDay
<1>3. QED
  BY <1>1, <1>2, PTL DEF PriceAdjustmentSpec

\* An adjusted history: every row has its factor and parses, before and after.
LEMMA AdjustedIs ==
    ASSUME NEW rows \in Seq(Row), Adjusted(rows) # <<>>
    PROVE  /\ Stable(rows)
           /\ Adjusted(rows) = [i \in DOMAIN rows |->
                                  [quote |-> AdjustedQuote(rows[i], Factors(rows)[i]),
                                   factor |-> Factors(rows)[i]]]
           /\ \A i \in DOMAIN rows :
                 ValidOhlc(AdjustedQuote(rows[i], Factors(rows)[i]), rows[i].traded)
<1> DEFINE quotes == [i \in DOMAIN rows |-> AdjustedQuote(rows[i], Factors(rows)[i])]
<1>1. /\ Stable(rows)
      /\ \A i \in DOMAIN rows : ValidOhlc(quotes[i], rows[i].traded)
      /\ Adjusted(rows) = [i \in DOMAIN rows |->
                             [quote |-> quotes[i], factor |-> Factors(rows)[i]]]
  BY DEF Adjusted
<1>2. QED
  BY <1>1

\* adjust_stock_rows: rounding makes no price of nothing and nothing of a
\* price, and leaves the prices of a day in order.
THEOREM RoundingKeepsRows == PriceAdjustmentSpec => []AdjustedRowsAreReal
<1>1. ASSUME PaInv PROVE AdjustedRowsAreReal
  <2>1. CASE Adjusted(paRows) = <<>>
    BY <2>1 DEF AdjustedRowsAreReal
  <2>2. CASE Adjusted(paRows) # <<>>
    <3>1. paRows \in Seq(Row) /\ Stable(paRows)
      BY <1>1, <2>2, AdjustedIs DEF PaInv
    <3>2. DOMAIN Adjusted(paRows) = DOMAIN paRows
      BY <2>2, <3>1, AdjustedIs
    <3>3. ASSUME NEW i \in DOMAIN paRows
          PROVE  LET adjusted == Adjusted(paRows)[i].quote
                     raw == paRows[i].quote
                 IN  /\ \A field \in DOMAIN raw : adjusted[field] = 0 <=> raw[field] = 0
                     /\ ~Suspended(paRows[i]) =>
                           /\ adjusted.low <= adjusted.open
                           /\ adjusted.open <= adjusted.high
                           /\ adjusted.low <= adjusted.close
                           /\ adjusted.close <= adjusted.high
      <4>1. PICK r \in Ratio : r = Factors(paRows)[i]
        BY <3>1, FactorsAre
      <4>2. /\ Adjusted(paRows)[i].quote = AdjustedQuote(paRows[i], r)
            /\ ValidOhlc(AdjustedQuote(paRows[i], r), paRows[i].traded)
        BY <2>2, <3>1, <4>1, AdjustedIs
      <4>3. paRows[i] \in Row /\ Parses(paRows[i])
        BY <3>1 DEF Stable
      <4>4. QED
        BY <4>2, <4>3, RoundedRowIsReal
    <3>4. QED
      BY <3>2, <3>3 DEF AdjustedRowsAreReal
  <2>3. QED
    BY <2>1, <2>2
<1>2. QED
  BY <1>1, PaAlways, PTL

\* One more row: each earlier factor is multiplied by the ratio of the new
\* boundary, whatever came before.
LEMMA LaterRowRebases ==
    ASSUME NEW rows \in Seq(Row), NEW row \in Row,
           Stable(rows), Stable(Append(rows, row))
    PROVE  LET n == Len(rows)
               before == Factors(rows)
               after == Factors(Append(rows, row))
           IN  /\ after[n + 1] = One
               /\ \A i \in 1..n :
                     after[i].numerator * before[i].denominator * rows[n].quote.close
                     = after[i].denominator * before[i].numerator * row.reference
<1> DEFINE later == Append(rows, row)
           before == Factors(rows)
           after == Factors(later)
<1>1. PICK n \in Positive : n = Len(rows)
  BY BoundaryIs
<1>2. /\ later \in Seq(Row) /\ Len(later) = n + 1 /\ later[n + 1] = row
      /\ \A i \in 1..n : later[i] = rows[i]
  BY <1>1 DEF Positive
<1>3. PICK c \in Positive, r \in Positive : c = rows[n].quote.close /\ r = row.reference
  <2>1. n \in 1..n /\ n + 1 \in 2..n + 1
    BY DEF Positive
  <2>2. rows[n].quote.close \in Positive
    BY <1>1, <2>1, BoundaryIs
  <2>3. row.reference \in Positive
    BY DEF Row, Positive
  <2>4. QED
    BY <2>2, <2>3
<1>4. \A i \in 2..n : BoundaryRatio(later, i) = BoundaryRatio(rows, i)
  <2>1. ASSUME NEW i \in 2..n PROVE BoundaryRatio(later, i) = BoundaryRatio(rows, i)
    <3>1. i \in 1..n /\ i - 1 \in 1..n
      BY DEF Positive
    <3>2. QED
      BY <1>2, <3>1 DEF BoundaryRatio
  <2>2. QED
    BY <2>1
<1>5. /\ before \in [1..n -> Ratio] /\ before[n] = One
      /\ \A i \in 1..n - 1 :
            before[i] = Multiply(before[i + 1], BoundaryRatio(rows, i + 1))
  BY <1>1, FactorsAre
<1> HIDE DEF later
<1>6. /\ after \in [1..n + 1 -> Ratio] /\ after[n + 1] = One
      /\ \A i \in 1..n :
            after[i] = Multiply(after[i + 1], BoundaryRatio(later, i + 1))
  <2>1. Stable(later)
    BY DEF later
  <2>2. /\ after \in [1..Len(later) -> Ratio]
        /\ after[Len(later)] = One
        /\ \A i \in 1..Len(later) - 1 :
              after[i] = Multiply(after[i + 1], BoundaryRatio(later, i + 1))
    BY <1>2, <2>1, FactorsAre
  <2>3. /\ Len(later) = n + 1 /\ 1..Len(later) = 1..n + 1
        /\ 1..Len(later) - 1 = 1..n
    BY <1>2 DEF Positive
  <2>4. QED
    BY <2>2, <2>3
<1>7. PICK s \in Ratio : s = BoundaryRatio(later, n + 1) /\ s.numerator * c = s.denominator * r
  <2>1. n + 1 \in 2..n + 1 /\ n + 1 - 1 = n /\ n \in 1..n
    BY DEF Positive
  <2>2. Stable(later)
    BY DEF later
  <2>3. \A i \in 2..n + 1 :
          /\ BoundaryRatio(later, i) \in Ratio
          /\ BoundaryRatio(later, i).numerator * later[i - 1].quote.close
               = BoundaryRatio(later, i).denominator * later[i].reference
    BY <1>2, <2>2, BoundaryIs
  <2>4. /\ BoundaryRatio(later, n + 1) \in Ratio
        /\ BoundaryRatio(later, n + 1).numerator * later[n].quote.close
             = BoundaryRatio(later, n + 1).denominator * later[n + 1].reference
    BY <2>1, <2>3
  <2>5. later[n].quote.close = c /\ later[n + 1].reference = r
    BY <1>2, <1>3, <2>1
  <2>6. QED
    BY <2>4, <2>5
<1> HIDE DEF before, after
<1> DEFINE Rebased(i) == after[i].numerator * before[i].denominator * c
                         = after[i].denominator * before[i].numerator * r
<1>8. \A q \in Ratio : q.numerator \in Positive /\ q.denominator \in Positive
  BY DEF Ratio
<1>9. Rebased(n)
  <2>1. n \in 1..n /\ n \in 1..n + 1 /\ n + 1 \in 1..n + 1
    BY DEF Positive
  <2>2. PICK a \in Ratio : a = after[n]
    BY <1>6, <2>1
  <2>3. a = Multiply(One, s)
    BY <1>6, <1>7, <2>1, <2>2
  <2>4. One \in Ratio /\ One.numerator = 1 /\ One.denominator = 1
    BY DEF One, Ratio, Positive
  <2>5. IsProduct(a, One, s)
    BY <2>3, <2>4, MultiplyIs DEF IsProduct
  <2>6. IsProduct(a, s, One)
    BY <2>4, <2>5, <1>8 DEF IsProduct, Positive
  <2>7. IsProduct(One, One, One)
    BY <2>4 DEF IsProduct
  <2>8. Differ(s, One, c, r)
    BY <1>7, <1>8, <2>4 DEF Differ, Positive
  <2>9. Differ(a, One, c, r)
    BY <2>4, <2>6, <2>7, <2>8, RatiosCompose
  <2>10. QED
    BY <1>5, <2>2, <2>9 DEF Differ
<1>10. ASSUME NEW i \in 1..n - 1, Rebased(i + 1) PROVE Rebased(i)
  <2>1. /\ i \in 1..n /\ i + 1 \in 1..n /\ i \in 1..n + 1 /\ i + 1 \in 1..n + 1
        /\ i + 1 \in 2..n
    BY DEF Positive
  <2>2. PICK a \in Ratio, b \in Ratio, a1 \in Ratio, b1 \in Ratio :
            a = after[i] /\ b = before[i] /\ a1 = after[i + 1] /\ b1 = before[i + 1]
    BY <1>5, <1>6, <2>1
  <2>3. PICK t \in Ratio : t = BoundaryRatio(rows, i + 1)
    BY <1>1, <2>1, BoundaryIs
  <2>4. a = Multiply(a1, t) /\ b = Multiply(b1, t)
    BY <1>4, <1>5, <1>6, <2>1, <2>2, <2>3
  <2>5. IsProduct(a, a1, t) /\ IsProduct(b, b1, t)
    BY <2>4, MultiplyIs DEF IsProduct
  <2>6. Differ(a1, b1, c, r)
    BY <1>10, <2>2 DEF Differ
  <2>7. Differ(a, b, c, r)
    BY <2>5, <2>6, RatiosCompose
  <2>8. QED
    BY <2>2, <2>7 DEF Differ
<1> HIDE DEF Rebased
<1> DEFINE T == {k \in 0..n - 1 : ~Rebased(n - k)}
<1>11. ASSUME NEW k \in T, \A y \in T : k <= y PROVE FALSE
  <2>1. k \in 1..n - 1
    <3>1. n - 0 = n /\ ~Rebased(n - k) /\ k \in 0..n - 1
      BY <1>11 DEF Positive
    <3>2. k # 0
      BY <1>9, <3>1
    <3>3. QED
      BY <3>1, <3>2 DEF Positive
  <2>2. k - 1 \in 0..n - 1 /\ k - 1 \notin T
    <3> HIDE DEF T
    <3>1. k - 1 \in 0..n - 1 /\ ~(k <= k - 1)
      BY <2>1 DEF Positive
    <3>2. QED
      BY <1>11, <3>1
  <2>3. PICK m \in 1..n - 1 : m = n - k
    BY <2>1 DEF Positive
  <2>4. n - (k - 1) = m + 1
    BY <2>3 DEF Positive
  <2>5. Rebased(m + 1)
    BY <2>2, <2>4
  <2>6. QED
    BY <1>10, <1>11, <2>3, <2>5
<1>12. T = {}
  <2>1. T \in SUBSET Nat
    BY DEF Positive
  <2>2. QED
    BY <2>1, <1>11, LeastNatural
<1>13. ASSUME NEW i \in 1..n PROVE Rebased(i)
  <2>1. n - i \in 0..n - 1 /\ n - (n - i) = i
    BY DEF Positive
  <2>2. QED
    BY <2>1, <1>12
<1>14. QED
  BY <1>1, <1>3, <1>6, <1>13 DEF Rebased, before, after, later

\* adjust_stock_rows: a later day rebases the whole history alike, for
\* histories of any length with any suspensions in them.
THEOREM LaterDaysRebase == PriceAdjustmentSpec => HistoryIsRebased
<1> DEFINE Step ==
        LET n == Len(paRows)
            before == Adjusted(paRows)
            after == Adjusted(paRows')
        IN  before # <<>> /\ after # <<>> =>
               /\ after[n + 1].factor = One
               /\ \A i \in 1..n :
                     after[i].factor.numerator * before[i].factor.denominator
                         * paRows[n].quote.close
                     = after[i].factor.denominator * before[i].factor.numerator
                         * paRows'[n + 1].reference
<1>1. ASSUME PaInv, ObserveDay PROVE Step
  <2>1. SUFFICES ASSUME Adjusted(paRows) # <<>>, Adjusted(paRows') # <<>> PROVE Step
    OBVIOUS
  <2>2. PICK row \in Row : paRows' = Append(paRows, row)
    BY <1>1, PriceAdjustmentConstants DEF ObserveDay
  <2>3. PICK rows \in Seq(Row) : rows = paRows
    BY <1>1 DEF PaInv
  <2>4. PICK later \in Seq(Row) : later = Append(rows, row)
    <3>1. Append(rows, row) \in Seq(Row)
      BY <2>2, <2>3
    <3>2. QED
      BY <3>1
  <2>5. PICK n \in Nat : n = Len(rows)
    BY <2>3
  <2>6. Len(later) = n + 1 /\ DOMAIN later = 1..n + 1 /\ DOMAIN rows = 1..n
        /\ later[n + 1] = row
    BY <2>4, <2>5
  <2>7. Adjusted(rows) # <<>> /\ Adjusted(later) # <<>>
    BY <2>1, <2>2, <2>3, <2>4
  <2>8. Stable(rows) /\ Stable(later)
    BY <2>7, AdjustedIs
  <2>9. \A i \in 1..n : Adjusted(rows)[i].factor = Factors(rows)[i]
    BY <2>6, <2>7, AdjustedIs
  <2>10. \A i \in 1..n + 1 : Adjusted(later)[i].factor = Factors(later)[i]
    BY <2>6, <2>7, AdjustedIs
  <2>11. /\ Factors(later)[n + 1] = One
         /\ \A i \in 1..n :
               Factors(later)[i].numerator * Factors(rows)[i].denominator
                   * rows[n].quote.close
               = Factors(later)[i].denominator * Factors(rows)[i].numerator
                   * row.reference
    BY <2>4, <2>5, <2>8, LaterRowRebases
  <2>12. n + 1 \in 1..n + 1 /\ 1..n \subseteq 1..n + 1
    OBVIOUS
  <2>13. QED
    BY <2>2, <2>3, <2>4, <2>5, <2>6, <2>9, <2>10, <2>11, <2>12
<1>2. PaInv /\ [PriceAdjustmentNext]_paRows => [Step]_paRows
  BY <1>1 DEF PriceAdjustmentNext
<1>3. PriceAdjustmentSpec => [][Step]_paRows
  BY <1>2, PaAlways, PTL DEF PriceAdjustmentSpec
<1>4. QED
  BY <1>3 DEF HistoryIsRebased

-----------------------------------------------------------------------------
(* The request log                                                         *)

\* What a unit can tell.
Said == [unit : RlIndex, attempt : Nat,
         phase : {"Range", "Cache", "Request", "Quota", "Retry", "Response"}]

\* The order of a phase, by cases.
LEMMA OrderIs ==
    ASSUME NEW said \in Said
    PROVE  /\ Order(said) \in Nat
           /\ said.phase = "Range" => Order(said) = 0
           /\ said.phase = "Cache" => Order(said) = 1
           /\ said.phase = "Request" => Order(said) = 2
           /\ said.phase = "Quota" => Order(said) = 10 + 2 * said.attempt
           /\ said.phase = "Retry" => Order(said) = 11 + 2 * said.attempt
           /\ said.phase = "Response" => Order(said) = 10 + 2 * (RlRetries + 3)
<1>1. said.attempt \in Nat /\ RlRetries \in Nat
  BY RequestLogConstants DEF Said
<1>2. said.phase = "Range" => Order(said) = 0
  BY DEF Order
<1>3. said.phase = "Cache" => Order(said) = 1
  BY DEF Order
<1>4. said.phase = "Request" => Order(said) = 2
  BY DEF Order
<1>5. said.phase = "Quota" => Order(said) = 10 + 2 * said.attempt
  BY DEF Order
<1>6. said.phase = "Retry" => Order(said) = 11 + 2 * said.attempt
  BY DEF Order
<1>7. said.phase = "Response" => Order(said) = 10 + 2 * (RlRetries + 3)
  BY DEF Order
<1>8. said.phase \in {"Range", "Cache", "Request", "Quota", "Retry", "Response"}
  BY DEF Said
<1>9. QED
  BY <1>1, <1>2, <1>3, <1>4, <1>5, <1>6, <1>7, <1>8

\* sort_key tells the units apart, and then the phases.
LEMMA SortsIs ==
    ASSUME NEW a \in Said, NEW b \in Said
    PROVE  SortsBefore(a, b) <=>
              a.unit < b.unit \/ (a.unit = b.unit /\ Order(a) < Order(b))
<1>1. PICK u \in RlIndex, v \in RlIndex : u = a.unit /\ v = b.unit
  BY DEF Said
<1>2. u \in Nat /\ v \in Nat
  BY RequestLogConstants DEF RlIndex
<1>3. \A w \in RlIndex : Operation(w) \in Nat /\ Date(w) \in Nat
  BY RequestLogConstants DEF RlIndex, Operation, Date
<1>4. \A w, z \in RlIndex : w < z =>
          Operation(w) < Operation(z) \/ (Operation(w) = Operation(z) /\ Date(w) < Date(z))
  BY UnitsInOrder DEF RlIndex, Operation, Date
<1>5. CASE u < v
  BY <1>1, <1>2, <1>4, <1>5 DEF SortsBefore
<1>6. CASE v < u
  <2>1. ~SortsBefore(a, b)
    BY <1>1, <1>3, <1>4, <1>6 DEF SortsBefore
  <2>2. QED
    BY <1>1, <1>2, <1>6, <2>1
<1>7. CASE u = v
  BY <1>1, <1>2, <1>3, <1>7 DEF SortsBefore
<1>8. QED
  BY <1>2, <1>5, <1>6, <1>7

\* sort_key is a strict order.
LEMMA SortOrders ==
    /\ \A a \in Said : ~SortsBefore(a, a)
    /\ \A a, b \in Said : ~(SortsBefore(a, b) /\ SortsBefore(b, a))
<1>1. \A a \in Said : a.unit \in Nat /\ Order(a) \in Nat
  BY OrderIs, RequestLogConstants DEF Said, RlIndex
<1>2. QED
  BY <1>1, SortsIs

\* Each entry sorts before those after it.
Ascends(s) == \A i, j \in DOMAIN s : i < j => SortsBefore(s[i], s[j])

\* A list in order repeats nothing.
LEMMA AscendsInjective ==
    ASSUME NEW s \in Seq(Said), Ascends(s)
    PROVE  IsInjective(s)
<1>1. ASSUME NEW i \in DOMAIN s, NEW j \in DOMAIN s, s[i] = s[j], i # j PROVE FALSE
  <2>1. s[i] \in Said /\ s[j] \in Said /\ i \in Nat /\ j \in Nat
    OBVIOUS
  <2>2. i < j \/ j < i
    BY <1>1, <2>1
  <2>3. SortsBefore(s[i], s[j]) \/ SortsBefore(s[j], s[i])
    BY <2>2 DEF Ascends
  <2>4. QED
    BY <1>1, <2>1, <2>3, SortOrders
<1>2. QED
  BY <1>1 DEF IsInjective

\* Lists in order, one of which comes before the other.
LEMMA AscendingConcatenates ==
    ASSUME NEW s \in Seq(Said), NEW t \in Seq(Said), Ascends(s), Ascends(t),
           \A x \in ToSet(s), y \in ToSet(t) : SortsBefore(x, y)
    PROVE  /\ s \o t \in Seq(Said) /\ Ascends(s \o t)
           /\ ToSet(s \o t) = ToSet(s) \cup ToSet(t)
<1>1. IsInjective(s) /\ IsInjective(t)
  BY AscendsInjective
<1>2. ToSet(s) \subseteq Said
  BY DEF ToSet
<1>3. ToSet(s) \cap ToSet(t) = {}
  BY <1>2, SortOrders
<1>4. s \o t \in Seq(Said) /\ ToSet(s \o t) = ToSet(s) \cup ToSet(t)
  BY <1>1, <1>3, Concatenates
<1> DEFINE l == Len(s)
           m == Len(t)
           c == s \o t
<1>5. /\ l \in Nat /\ m \in Nat
      /\ DOMAIN s = 1..l /\ DOMAIN t = 1..m /\ DOMAIN c = 1..l + m
      /\ \A i \in 1..l + m : c[i] = IF i <= l THEN s[i] ELSE t[i - l]
  OBVIOUS
<1>6. /\ \A i \in 1..l : s[i] \in ToSet(s)
      /\ \A i \in 1..m : t[i] \in ToSet(t)
  BY <1>5 DEF ToSet
<1> HIDE DEF l, m, c
<1>7. ASSUME NEW i \in 1..l + m, NEW j \in 1..l + m, i < j
      PROVE  SortsBefore(c[i], c[j])
  <2>1. CASE j <= l
    <3>1. i \in 1..l /\ j \in 1..l /\ c[i] = s[i] /\ c[j] = s[j]
      BY <1>5, <1>7, <2>1
    <3>2. QED
      BY <1>5, <1>7, <3>1 DEF Ascends
  <2>2. CASE ~(i <= l)
    <3>1. /\ i - l \in 1..m /\ j - l \in 1..m /\ i - l < j - l
          /\ c[i] = t[i - l] /\ c[j] = t[j - l]
      BY <1>5, <1>7, <2>2
    <3>2. QED
      BY <1>5, <3>1 DEF Ascends
  <2>3. CASE i <= l /\ ~(j <= l)
    <3>1. i \in 1..l /\ j - l \in 1..m /\ c[i] = s[i] /\ c[j] = t[j - l]
      BY <1>5, <1>7, <2>3
    <3>2. QED
      BY <1>6, <3>1
  <2>4. QED
    BY <2>1, <2>2, <2>3
<1>8. Ascends(c)
  BY <1>5, <1>7 DEF Ascends
<1>9. QED
  BY <1>4, <1>8 DEF c

\* A sort leaves what it sorts in order, and there is one such list.
LEMMA SortedIs ==
    ASSUME NEW log \in Seq(Said), IsInjective(log),
           NEW F \in Seq(Said), Ascends(F), ToSet(F) = ToSet(log)
    PROVE  Sorted(log) = F
<1>1. IsInjective(F)
  BY AscendsInjective
<1>2. PICK n \in Nat : n = Len(log) /\ n = Len(F)
  BY <1>1, InjectiveLength
<1>3. /\ DOMAIN log = 1..n /\ DOMAIN F = 1..n
      /\ ToSet(log) = {log[i] : i \in 1..n} /\ ToSet(F) = {F[i] : i \in 1..n}
      /\ \A i \in 1..n : log[i] \in Said /\ F[i] \in Said
      /\ F = [p \in 1..n |-> F[p]]
  <2>1. DOMAIN log = 1..n /\ DOMAIN F = 1..n
    <3>1. DOMAIN log = 1..Len(log) /\ DOMAIN F = 1..Len(F)
      OBVIOUS
    <3>2. QED
      BY <1>2, <3>1
  <2>2. ToSet(log) = {log[i] : i \in 1..n} /\ ToSet(F) = {F[i] : i \in 1..n}
    BY <2>1 DEF ToSet
  <2>3. \A i \in 1..n : log[i] \in Said /\ F[i] \in Said
    BY <2>1
  <2>4. F = [p \in 1..n |-> F[p]]
    BY <2>1
  <2>5. QED
    BY <2>1, <2>2, <2>3, <2>4
<1> DEFINE at == [p \in 1..n |-> CHOOSE i \in 1..n : log[i] = F[p]]
<1>4. \A p \in 1..n : at[p] \in 1..n /\ log[at[p]] = F[p]
  <2>1. ASSUME NEW p \in 1..n PROVE \E i \in 1..n : log[i] = F[p]
    <3>1. F[p] \in {log[i] : i \in 1..n}
      BY <1>3
    <3>2. QED
      BY <3>1
  <2>2. QED
    BY <2>1
<1>5. \A i \in 1..n : \E p \in 1..n : log[i] = F[p]
  BY <1>3
<1> HIDE DEF at
<1>6. \A i \in 1..n : \E p \in 1..n : at[p] = i
  BY <1>3, <1>4, <1>5 DEF IsInjective
<1>7. \A p, q \in 1..n : at[p] = at[q] => p = q
  BY <1>1, <1>3, <1>4 DEF IsInjective
<1> DEFINE Before(i) == {j \in DOMAIN log :
                            \/ SortsBefore(log[j], log[i])
                            \/ j < i /\ ~SortsBefore(log[i], log[j])}
           place(i) == 1 + Cardinality(Before(i))
<1>8. ASSUME NEW p \in 1..n PROVE Before(at[p]) = {at[q] : q \in 1..p - 1}
  <2>1. ASSUME NEW q \in 1..n PROVE at[q] \in Before(at[p]) <=> q < p
    <3>1. F[q] \in Said /\ F[p] \in Said /\ p \in Nat /\ q \in Nat
      BY <1>3
    <3>2. at[q] \in DOMAIN log /\ log[at[q]] = F[q] /\ log[at[p]] = F[p]
      BY <1>3, <1>4
    <3>3. CASE q < p
      <4>1. SortsBefore(F[q], F[p])
        BY <1>3, <3>3 DEF Ascends
      <4>2. QED
        BY <3>2, <3>3, <4>1
    <3>4. CASE p < q
      <4>1. SortsBefore(F[p], F[q]) /\ ~SortsBefore(F[q], F[p])
        BY <1>3, <3>1, <3>4, SortOrders DEF Ascends
      <4>2. QED
        BY <3>1, <3>2, <3>4, <4>1
    <3>5. CASE p = q
      <4>1. ~SortsBefore(F[p], F[p]) /\ ~(at[p] < at[p])
        BY <1>4, <3>1, SortOrders
      <4>2. QED
        BY <3>1, <3>2, <3>5, <4>1
    <3>6. QED
      BY <3>1, <3>3, <3>4, <3>5
  <2>2. Before(at[p]) \subseteq 1..n
    BY <1>3
  <2> HIDE DEF Before
  <2>3. ASSUME NEW j \in Before(at[p]) PROVE j \in {at[q] : q \in 1..p - 1}
    <3>1. PICK q \in 1..n : at[q] = j
      BY <1>6, <2>2, <2>3
    <3>2. q < p
      BY <2>1, <2>3, <3>1
    <3>3. QED
      BY <3>1, <3>2
  <2>4. ASSUME NEW q \in 1..p - 1 PROVE at[q] \in Before(at[p])
    <3>1. q \in 1..n /\ q < p
      OBVIOUS
    <3>2. QED
      BY <2>1, <3>1
  <2>5. QED
    BY <2>3, <2>4
<1> HIDE DEF Before
<1>9. ASSUME NEW p \in 1..n PROVE place(at[p]) = p
  <2> DEFINE D == 1..p - 1
             T == {at[q] : q \in D}
             g == [q \in D |-> at[q]]
  <2>1. D \subseteq 1..n /\ IsFiniteSet(D) /\ Cardinality(D) = p - 1
    <3>1. p - 1 \in Nat /\ D \subseteq 1..n
      OBVIOUS
    <3>2. IsFiniteSet(D) /\ Cardinality(D) = IF 1 > p - 1 THEN 0 ELSE p - 1 - 1 + 1
      BY <3>1, FS_Interval
    <3>3. QED
      BY <3>1, <3>2
  <2>2. g \in Surjection(D, T)
    BY DEF Surjection
  <2>3. g \in Injection(D, T)
    BY <1>7, <2>1 DEF Injection, IsInjective
  <2> HIDE DEF D, T, g
  <2>4. Cardinality(T) = p - 1
    BY <2>1, <2>2, <2>3, FS_Surjection
  <2>5. Before(at[p]) = T
    BY <1>8 DEF T, D
  <2>6. QED
    BY <2>4, <2>5
<1> HIDE DEF place
<1>10. ASSUME NEW p \in 1..n
       PROVE  log[CHOOSE i \in DOMAIN log : place(i) = p] = F[p]
  <2>1. \A i \in 1..n : place(i) = p => i = at[p]
    BY <1>6, <1>9
  <2>2. (CHOOSE i \in 1..n : place(i) = p) = at[p]
    BY <1>4, <1>9, <2>1
  <2>3. QED
    BY <1>3, <1>4, <2>2
<1>11. Sorted(log) = [p \in DOMAIN log |-> log[CHOOSE i \in DOMAIN log : place(i) = p]]
  BY DEF Sorted, place, Before
<1>12. QED
  BY <1>3, <1>10, <1>11

\* What the units told, one after the other.
LEMMA FlattenIs ==
    ASSUME NEW told \in [RlIndex -> Seq(Said)],
           \A u \in RlIndex : /\ Ascends(told[u])
                              /\ \A x \in ToSet(told[u]) : x.unit = u
    PROVE  /\ FlattenSeq(told) \in Seq(Said) /\ Ascends(FlattenSeq(told))
           /\ ToSet(FlattenSeq(told)) = UNION {ToSet(told[u]) : u \in RlIndex}
<1>1. PICK n \in Nat \ {0} : n = Len(RlUnit) /\ RlIndex = 1..n
  BY RequestLogConstants DEF RlIndex
<1> DEFINE Upto(k) == UNION {ToSet(told[u]) : u \in 1..k}
           Good(s, k) == s \in Seq(Said) /\ Ascends(s) /\ ToSet(s) = Upto(k)
<1>2. Good(told[1], 1)
  <2>1. 1 \in RlIndex /\ 1..1 = {1}
    BY <1>1
  <2>2. QED
    BY <2>1
<1>3. ASSUME NEW k \in 2..n, NEW s, Good(s, k - 1) PROVE Good(s \o told[k], k)
  <2>1. k \in RlIndex /\ k - 1 \in 1..n /\ 1..k = 1..k - 1 \cup {k}
    BY <1>1
  <2>2. ASSUME NEW x \in ToSet(s), NEW y \in ToSet(told[k]) PROVE SortsBefore(x, y)
    <3>1. PICK u \in 1..k - 1 : x \in ToSet(told[u])
      BY <1>3
    <3>2. u \in RlIndex /\ u < k
      BY <1>1, <3>1
    <3>3. x.unit = u /\ y.unit = k
      BY <2>1, <3>1, <3>2
    <3>4. x \in Said /\ y \in Said
      BY <1>3, <2>1 DEF ToSet
    <3>5. QED
      BY <3>2, <3>3, <3>4, SortsIs
  <2>3. told[k] \in Seq(Said) /\ Ascends(told[k])
    BY <2>1
  <2>4. /\ s \o told[k] \in Seq(Said) /\ Ascends(s \o told[k])
        /\ ToSet(s \o told[k]) = ToSet(s) \cup ToSet(told[k])
    BY <1>3, <2>2, <2>3, AscendingConcatenates
  <2>5. Upto(k) = Upto(k - 1) \cup ToSet(told[k])
    BY <2>1
  <2>6. QED
    BY <1>3, <2>4, <2>5
<1> HIDE DEF Good
<1> DEFINE Follows(f, k) ==
             \A i \in 1..k : f[i] = IF i = 1 THEN told[i] ELSE f[i - 1] \o told[i]
           T == {k \in 1..n : ~\E f : DOMAIN f = 1..k /\ f = [i \in 1..k |-> f[i]]
                                      /\ Follows(f, k)}
<1>4. 1 \notin T
  <2> DEFINE f == [i \in 1..1 |-> told[i]]
  <2>1. DOMAIN f = 1..1 /\ f = [i \in 1..1 |-> f[i]] /\ \A i \in 1..1 : i = 1 /\ f[i] = told[i]
    OBVIOUS
  <2> HIDE DEF f
  <2>2. Follows(f, 1)
    BY <2>1
  <2>3. QED
    BY <2>1, <2>2
<1>5. ASSUME NEW k \in T, \A y \in T : k <= y PROVE FALSE
  <2>1. k \in 2..n
    <3>1. T \subseteq 1..n
      OBVIOUS
    <3> HIDE DEF T
    <3>2. k \in 1..n /\ k # 1
      BY <1>4, <1>5, <3>1
    <3>3. QED
      BY <3>2
  <2>2. k - 1 \in 1..n /\ k - 1 \notin T
    <3> HIDE DEF T
    <3>1. k - 1 \in 1..n /\ ~(k <= k - 1)
      BY <2>1
    <3>2. QED
      BY <1>5, <3>1
  <2>3. PICK g : DOMAIN g = 1..k - 1 /\ Follows(g, k - 1)
    BY <2>2
  <2> DEFINE f == [i \in 1..k |-> IF i = k THEN g[k - 1] \o told[k] ELSE g[i]]
  <2>4. DOMAIN f = 1..k /\ f = [i \in 1..k |-> f[i]]
    OBVIOUS
  <2>5. Follows(f, k)
    <3>1. ASSUME NEW i \in 1..k
          PROVE  f[i] = IF i = 1 THEN told[i] ELSE f[i - 1] \o told[i]
      <4>1. CASE i = k
        <5>1. k - 1 \in 1..k /\ k \in 1..k /\ k - 1 # k /\ k # 1
          BY <2>1
        <5>2. f[k] = g[k - 1] \o told[k] /\ f[k - 1] = g[k - 1]
          BY <5>1
        <5>3. QED
          BY <4>1, <5>1, <5>2
      <4>2. CASE i # k /\ i = 1
        <5>1. i \in 1..k - 1 /\ f[i] = g[i]
          BY <4>2, <2>1
        <5>2. QED
          BY <2>3, <4>2, <5>1
      <4>3. CASE i # k /\ i # 1
        <5>1. i \in 1..k - 1 /\ i - 1 \in 1..k /\ i - 1 # k
          BY <4>3, <2>1
        <5>2. f[i] = g[i] /\ f[i - 1] = g[i - 1]
          BY <4>3, <5>1
        <5>3. g[i] = g[i - 1] \o told[i]
          BY <2>3, <4>3, <5>1
        <5>4. QED
          BY <4>3, <5>2, <5>3
      <4>4. QED
        BY <4>1, <4>2, <4>3
    <3>2. QED
      BY <3>1
  <2> HIDE DEF f
  <2>6. QED
    BY <1>5, <2>4, <2>5
<1>6. T = {}
  <2>1. T \in SUBSET Nat
    OBVIOUS
  <2>2. QED
    BY <2>1, <1>5, LeastNatural
<1>7. PICK g : DOMAIN g = 1..n /\ g = [i \in 1..n |-> g[i]] /\ Follows(g, n)
  <2>1. n \in 1..n
    BY <1>1
  <2>2. QED
    BY <1>6, <2>1
<1>8. g = [i \in 1..n |-> IF i = 1 THEN told[i] ELSE g[i - 1] \o told[i]]
  BY <1>7
<1> DEFINE f == CHOOSE f : f = [i \in 1..n |-> IF i = 1 THEN told[i]
                                              ELSE f[i - 1] \o told[i]]
<1>9. f = [i \in 1..n |-> IF i = 1 THEN told[i] ELSE f[i - 1] \o told[i]]
  BY <1>8, Zenon
<1>10. Len(told) = n
  BY <1>1
<1>11. FlattenSeq(told) = f[n]
  <2>1. n # 0
    BY <1>1
  <2>2. QED
    BY <1>10, <2>1, Zenon DEF FlattenSeq
<1> HIDE DEF f
<1>12. f[1] = told[1] /\ \A i \in 2..n : f[i] = f[i - 1] \o told[i]
  <2>1. 1 \in 1..n /\ \A i \in 2..n : i \in 1..n /\ i # 1
    BY <1>1
  <2>2. \A i \in 1..n : f[i] = IF i = 1 THEN told[i] ELSE f[i - 1] \o told[i]
    BY <1>9
  <2>3. QED
    BY <2>1, <2>2
<1> DEFINE U == {k \in 1..n : ~Good(f[k], k)}
<1>13. ASSUME NEW k \in U, \A y \in U : k <= y PROVE FALSE
  <2>1. k \in 2..n
    <3>1. k \in 1..n /\ ~Good(f[k], k)
      BY <1>13
    <3>2. k # 1
      BY <1>2, <1>12, <3>1
    <3>3. QED
      BY <3>1, <3>2
  <2>2. k - 1 \in 1..n /\ k - 1 \notin U
    <3> HIDE DEF U
    <3>1. k - 1 \in 1..n /\ ~(k <= k - 1)
      BY <2>1
    <3>2. QED
      BY <1>13, <3>1
  <2>3. Good(f[k - 1], k - 1)
    BY <2>2
  <2>4. Good(f[k], k)
    BY <1>3, <1>12, <2>1, <2>3
  <2>5. QED
    BY <1>13, <2>4
<1>14. U = {}
  <2>1. U \in SUBSET Nat
    OBVIOUS
  <2>2. QED
    BY <2>1, <1>13, LeastNatural
<1>15. Good(f[n], n)
  <2>1. n \in 1..n
    BY <1>1
  <2>2. QED
    BY <1>14, <2>1
<1>16. QED
  BY <1>1, <1>11, <1>15 DEF Good

\* A list with one more item, which is new to it.
LEMMA AppendsNew ==
    ASSUME NEW s \in Seq(Said), NEW x \in Said
    PROVE  /\ Append(s, x) \in Seq(Said)
           /\ ToSet(Append(s, x)) = ToSet(s) \cup {x}
           /\ IsInjective(s) /\ x \notin ToSet(s) => IsInjective(Append(s, x))
           /\ Ascends(s) /\ (\A y \in ToSet(s) : SortsBefore(y, x))
                 => Ascends(Append(s, x))
<1> DEFINE n == Len(s)
           c == Append(s, x)
<1>1. /\ n \in Nat /\ c \in Seq(Said) /\ DOMAIN s = 1..n /\ DOMAIN c = 1..n + 1
      /\ \A i \in 1..n : c[i] = s[i]
      /\ c[n + 1] = x
  OBVIOUS
<1>2. \A i \in 1..n : s[i] \in ToSet(s)
  BY <1>1 DEF ToSet
<1> HIDE DEF n, c
<1>3. \A i \in 1..n + 1 : i \in 1..n \/ i = n + 1
  BY <1>1
<1>4. ToSet(c) = ToSet(s) \cup {x}
  <2>1. ToSet(c) = {c[i] : i \in 1..n + 1} /\ ToSet(s) = {s[i] : i \in 1..n}
    BY <1>1 DEF ToSet
  <2>2. ASSUME NEW y \in ToSet(c) PROVE y \in ToSet(s) \cup {x}
    BY <1>1, <1>2, <1>3, <2>1
  <2>3. ASSUME NEW y \in ToSet(s) PROVE y \in ToSet(c)
    <3>1. PICK i \in 1..n : y = s[i]
      BY <2>1
    <3>2. i \in 1..n + 1 /\ c[i] = y
      BY <1>1, <3>1
    <3>3. QED
      BY <2>1, <3>2
  <2>4. x \in ToSet(c)
    <3>1. n + 1 \in 1..n + 1 /\ c[n + 1] = x
      BY <1>1
    <3>2. QED
      BY <2>1, <3>1
  <2>5. QED
    BY <2>2, <2>3, <2>4
<1>5. ASSUME IsInjective(s), x \notin ToSet(s) PROVE IsInjective(c)
  <2>1. \A i, j \in 1..n + 1 : c[i] = c[j] => i = j
    BY <1>1, <1>2, <1>3, <1>5 DEF IsInjective
  <2>2. QED
    BY <1>1, <2>1 DEF IsInjective
<1>6. ASSUME Ascends(s), \A y \in ToSet(s) : SortsBefore(y, x) PROVE Ascends(c)
  <2>1. ASSUME NEW i \in 1..n + 1, NEW j \in 1..n + 1, i < j
        PROVE  SortsBefore(c[i], c[j])
    <3>1. i \in 1..n
      BY <1>1, <2>1
    <3>2. CASE j \in 1..n
      BY <1>1, <1>6, <2>1, <3>1, <3>2 DEF Ascends
    <3>3. CASE j = n + 1
      BY <1>1, <1>2, <1>6, <3>1, <3>3
    <3>4. QED
      BY <1>3, <3>2, <3>3
  <2>2. QED
    BY <1>1, <2>1 DEF Ascends
<1>7. QED
  BY <1>1, <1>4, <1>5, <1>6 DEF c

\* Where each unit is and what it may have said.
RlTypes ==
    /\ rlPc \in [RlIndex -> {"query", "request", "attempt", "sending", "done"}]
    /\ rlAttempt \in [RlIndex -> 0..RlRetries]
    /\ rlLog \in Seq(Said)
    /\ rlTold \in [RlIndex -> Seq(Said)]

\* The least order of what a unit can tell next.
Floor(u) ==
    IF rlPc[u] = "query" THEN 1
    ELSE IF rlPc[u] = "request" THEN 2
    ELSE IF rlPc[u] = "attempt" THEN 10 + 2 * (rlAttempt[u] + 1)
    ELSE 11 + 2 * (rlAttempt[u] + 1)

\* Each unit tells in the order of the phases.
ToldInOrder ==
    \A u \in RlIndex :
        /\ Ascends(rlTold[u])
        /\ \A x \in ToSet(rlTold[u]) :
              x.unit = u /\ (rlPc[u] # "done" => Order(x) < Floor(u))

\* The buffer has what the units told, once, until it is taken.
Buffered ==
    rlTaken = <<>> =>
        /\ IsInjective(rlLog)
        /\ ToSet(rlLog) = UNION {ToSet(rlTold[u]) : u \in RlIndex}

\* What is taken is taken when every unit is done: unit by unit, and all of it.
TakenOnce ==
    rlTaken # <<>> =>
        /\ \A u \in RlIndex : rlPc[u] = "done"
        /\ rlLog = <<>>
        /\ rlTaken = FlattenSeq(rlTold)

\* The invariant of the request log.
RlInv == RlTypes /\ ToldInOrder /\ Buffered /\ TakenOnce

\* What u says.
Word(u, phase) == [unit |-> u, phase |-> phase, attempt |-> rlAttempt[u] + 1]

\* A unit tells something later than all it has told.
LEMMA TellKeeps ==
    ASSUME RlInv, NEW u \in RlIndex, rlPc[u] # "done", rlTaken = <<>>,
           NEW phase \in {"Cache", "Request", "Quota", "Retry", "Response"},
           Tell(u, phase), Floor(u) <= Order(Word(u, phase))
    PROVE  /\ Word(u, phase) \in Said
           /\ rlLog' \in Seq(Said) /\ rlTold' \in [RlIndex -> Seq(Said)]
           /\ IsInjective(rlLog')
           /\ ToSet(rlLog') = UNION {ToSet(rlTold'[v]) : v \in RlIndex}
           /\ \A v \in RlIndex :
                 /\ Ascends(rlTold'[v])
                 /\ \A x \in ToSet(rlTold'[v]) : x.unit = v
           /\ \A v \in RlIndex \ {u} : rlTold'[v] = rlTold[v]
           /\ ToSet(rlTold'[u]) = ToSet(rlTold[u]) \cup {Word(u, phase)}
<1> PICK said : said = Word(u, phase)
  OBVIOUS
<1>1. said \in Said
  <2>1. rlAttempt[u] + 1 \in Nat
    BY RequestLogConstants DEF RlInv, RlTypes
  <2>2. QED
    BY <2>1 DEF Said, Word
<1>2. /\ rlLog' = Append(rlLog, said)
      /\ rlTold' = [rlTold EXCEPT ![u] = Append(rlTold[u], said)]
  BY DEF Tell, Word
<1>3. rlLog \in Seq(Said) /\ rlTold \in [RlIndex -> Seq(Said)]
  BY DEF RlInv, RlTypes
<1>4. /\ rlTold'[u] = Append(rlTold[u], said)
      /\ \A v \in RlIndex \ {u} : rlTold'[v] = rlTold[v]
  BY <1>2, <1>3
<1>5. \A v \in RlIndex : ToSet(rlTold[v]) \subseteq Said
  BY <1>3 DEF ToSet
<1>6. \A x \in ToSet(rlTold[u]) : SortsBefore(x, said)
  <2>1. ASSUME NEW x \in ToSet(rlTold[u]) PROVE SortsBefore(x, said)
    <3>1. x \in Said /\ x.unit = u /\ Order(x) < Floor(u)
      BY <1>5, <2>1 DEF RlInv, ToldInOrder
    <3>2. Order(x) \in Nat /\ Order(said) \in Nat /\ said.unit = u
      BY <1>1, <3>1, OrderIs DEF Word
    <3>3. Floor(u) \in Nat
      <4>1. rlAttempt[u] \in Nat
        BY RequestLogConstants DEF RlInv, RlTypes
      <4>2. QED
        BY <4>1 DEF Floor
    <3>4. Order(x) < Order(said)
      BY <3>1, <3>2, <3>3
    <3>5. QED
      BY <1>1, <3>1, <3>2, <3>4, SortsIs
  <2>2. QED
    BY <2>1
<1>7. said \notin ToSet(rlLog)
  <2>1. ASSUME NEW v \in RlIndex, said \in ToSet(rlTold[v]) PROVE FALSE
    <3>1. said.unit = v
      BY <2>1 DEF RlInv, ToldInOrder
    <3>2. SortsBefore(said, said)
      BY <1>6, <2>1, <3>1 DEF Word
    <3>3. QED
      BY <1>1, <3>2, SortOrders
  <2>2. ToSet(rlLog) = UNION {ToSet(rlTold[v]) : v \in RlIndex}
    BY DEF RlInv, Buffered
  <2>3. QED
    BY <2>1, <2>2
<1>8. /\ rlLog' \in Seq(Said) /\ IsInjective(rlLog')
      /\ ToSet(rlLog') = ToSet(rlLog) \cup {said}
  BY <1>1, <1>2, <1>3, <1>7, AppendsNew DEF RlInv, Buffered
<1>9. /\ rlTold'[u] \in Seq(Said) /\ Ascends(rlTold'[u])
      /\ ToSet(rlTold'[u]) = ToSet(rlTold[u]) \cup {said}
  BY <1>1, <1>3, <1>4, <1>6, AppendsNew DEF RlInv, ToldInOrder
<1>10. rlTold' \in [RlIndex -> Seq(Said)]
  BY <1>2, <1>3, <1>4, <1>9
<1>11. ASSUME NEW v \in RlIndex
       PROVE  Ascends(rlTold'[v]) /\ \A x \in ToSet(rlTold'[v]) : x.unit = v
  <2>1. CASE v = u
    <3>1. \A x \in ToSet(rlTold[u]) : x.unit = u
      BY DEF RlInv, ToldInOrder
    <3>2. said.unit = u
      BY DEF Word
    <3>3. QED
      BY <1>9, <2>1, <3>1, <3>2
  <2>2. CASE v # u
    BY <1>4, <2>2 DEF RlInv, ToldInOrder
  <2>3. QED
    BY <2>1, <2>2
<1>12. ToSet(rlLog') = UNION {ToSet(rlTold'[v]) : v \in RlIndex}
  <2>1. ToSet(rlLog) = UNION {ToSet(rlTold[v]) : v \in RlIndex}
    BY DEF RlInv, Buffered
  <2>2. \A v \in RlIndex : ToSet(rlTold'[v])
            = IF v = u THEN ToSet(rlTold[u]) \cup {said} ELSE ToSet(rlTold[v])
    BY <1>4, <1>9
  <2>3. QED
    BY <1>8, <2>1, <2>2
<1>13. QED
  BY <1>1, <1>4, <1>8, <1>9, <1>10, <1>11, <1>12

\* What is told is bounded by what its unit can tell from its next place on.
LEMMA UnitKeeps ==
    ASSUME RlInv, NEW u \in RlIndex, rlPc[u] # "done", rlTaken = <<>>,
           NEW phase \in {"Cache", "Request", "Quota", "Retry", "Response"},
           Tell(u, phase), NEW label, StepTo(u, label),
           label \in {"query", "request", "attempt", "sending", "done"},
           rlAttempt' \in [RlIndex -> 0..RlRetries],
           \A v \in RlIndex \ {u} : rlAttempt'[v] = rlAttempt[v],
           rlTaken' = rlTaken,
           Floor(u) <= Order(Word(u, phase)),
           label # "done" => Order(Word(u, phase)) < Floor(u)'
    PROVE  RlInv'
<1> PICK said : said = Word(u, phase)
  OBVIOUS
<1>1. /\ said \in Said
      /\ rlLog' \in Seq(Said) /\ rlTold' \in [RlIndex -> Seq(Said)]
      /\ IsInjective(rlLog')
      /\ ToSet(rlLog') = UNION {ToSet(rlTold'[v]) : v \in RlIndex}
      /\ \A v \in RlIndex :
            /\ Ascends(rlTold'[v])
            /\ \A x \in ToSet(rlTold'[v]) : x.unit = v
      /\ \A v \in RlIndex \ {u} : rlTold'[v] = rlTold[v]
      /\ ToSet(rlTold'[u]) = ToSet(rlTold[u]) \cup {said}
  BY TellKeeps
<1>2. rlPc \in [RlIndex -> {"query", "request", "attempt", "sending", "done"}]
  BY DEF RlInv, RlTypes
<1>3. /\ rlPc' \in [RlIndex -> {"query", "request", "attempt", "sending", "done"}]
      /\ rlPc'[u] = label /\ \A v \in RlIndex \ {u} : rlPc'[v] = rlPc[v]
  BY <1>2 DEF StepTo
<1>4. RlTypes'
  BY <1>1, <1>3 DEF RlTypes
<1>5. rlAttempt[u] \in Nat /\ rlAttempt'[u] \in Nat /\ RlRetries \in Nat
  BY RequestLogConstants DEF RlInv, RlTypes
<1>6. Floor(u) \in Nat /\ Floor(u)' \in Nat /\ Order(said) \in Nat
  <2>1. Order(said) \in Nat
    BY <1>1, OrderIs
  <2>2. Floor(u) \in Nat
    BY <1>5 DEF Floor
  <2>3. Floor(u)' \in Nat
    BY <1>5 DEF Floor
  <2>4. QED
    BY <2>1, <2>2, <2>3
<1>7. ASSUME NEW v \in RlIndex, NEW x \in ToSet(rlTold'[v]), rlPc'[v] # "done"
      PROVE  Order(x) < Floor(v)'
  <2>1. CASE v # u
    <3>1. x \in ToSet(rlTold[v]) /\ rlPc[v] # "done" /\ Floor(v)' = Floor(v)
      BY <1>1, <1>3, <1>7, <2>1 DEF Floor
    <3>2. QED
      BY <3>1 DEF RlInv, ToldInOrder
  <2>2. CASE v = u /\ x = said
    BY <1>3, <1>7, <2>2
  <2>3. CASE v = u /\ x # said
    <3>1. x \in ToSet(rlTold[u])
      BY <1>1, <1>7, <2>3
    <3>2. Order(x) < Floor(u) /\ x \in Said
      BY <3>1 DEF RlInv, RlTypes, ToldInOrder, ToSet
    <3>3. Order(x) \in Nat
      BY <3>2, OrderIs
    <3>4. QED
      BY <1>3, <1>6, <1>7, <2>3, <3>2, <3>3
  <2>4. QED
    BY <2>1, <2>2, <2>3
<1>8. ToldInOrder'
  BY <1>1, <1>7 DEF ToldInOrder
<1>9. Buffered' /\ TakenOnce'
  BY <1>1 DEF Buffered, TakenOnce
<1>10. QED
  BY <1>4, <1>8, <1>9 DEF RlInv

\* A unit goes on, or ends, without a word.
LEMMA SilentKeeps ==
    ASSUME RlInv, NEW u \in RlIndex, rlPc[u] # "done", NEW label, StepTo(u, label),
           (rlPc[u] = "query" /\ label = "request") \/ label = "done",
           UNCHANGED <<rlAttempt, rlLog, rlTaken, rlTold>>
    PROVE  RlInv'
<1>1. rlPc \in [RlIndex -> {"query", "request", "attempt", "sending", "done"}]
  BY DEF RlInv, RlTypes
<1>2. /\ rlPc' \in [RlIndex -> {"query", "request", "attempt", "sending", "done"}]
      /\ rlPc'[u] = label /\ \A v \in RlIndex \ {u} : rlPc'[v] = rlPc[v]
  BY <1>1 DEF StepTo
<1>3. RlTypes'
  BY <1>2 DEF RlInv, RlTypes
<1>4. ASSUME NEW v \in RlIndex, NEW x \in ToSet(rlTold[v]), rlPc'[v] # "done"
      PROVE  Order(x) < Floor(v)'
  <2>1. CASE v # u
    <3>1. rlPc[v] # "done" /\ Floor(v)' = Floor(v)
      BY <1>2, <1>4, <2>1 DEF Floor
    <3>2. QED
      BY <3>1 DEF RlInv, ToldInOrder
  <2>2. CASE v = u
    <3>1. rlPc[u] = "query" /\ rlPc'[u] = "request"
      BY <1>2, <1>4, <2>2
    <3>2. Floor(u) = 1 /\ Floor(u)' = 2
      BY <3>1 DEF Floor
    <3>3. Order(x) < 1
      BY <2>2, <3>1, <3>2, <1>4 DEF RlInv, ToldInOrder
    <3>4. x \in Said
      <4>1. rlTold[u] \in Seq(Said)
        BY DEF RlInv, RlTypes
      <4>2. QED
        BY <4>1, <1>4, <2>2 DEF ToSet
    <3>5. Order(x) \in Nat
      BY <3>4, OrderIs
    <3>6. QED
      BY <2>2, <3>2, <3>3, <3>5
  <2>3. QED
    BY <2>1, <2>2
<1>5. ToldInOrder'
  BY <1>4 DEF RlInv, ToldInOrder
<1>6. Buffered'
  BY DEF RlInv, Buffered
<1>7. TakenOnce'
  BY DEF RlInv, TakenOnce
<1>8. QED
  BY <1>3, <1>5, <1>6, <1>7 DEF RlInv

\* The invariant of the log holds in the beginning.
LEMMA InitRlInv == RequestLogInit => RlInv
<1> SUFFICES ASSUME RequestLogInit PROVE RlInv
  OBVIOUS
<1>1. 1 \in RlIndex /\ RlRetries \in Nat
  BY RequestLogConstants DEF RlIndex
<1> DEFINE range == [unit |-> 1, phase |-> "Range", attempt |-> 0]
<1>2. range \in Said /\ Order(range) = 0
  <2>1. range \in Said
    BY <1>1 DEF Said
  <2>2. QED
    BY <2>1, OrderIs
<1>3. rlLog = <<>> \/ rlLog = <<range>>
  BY DEF RequestLogInit
<1>4. /\ rlLog \in Seq(Said) /\ Ascends(rlLog) /\ IsInjective(rlLog)
      /\ \A x \in ToSet(rlLog) : x = range
  <2>1. CASE rlLog = <<>>
    BY <2>1 DEF Ascends, IsInjective, ToSet
  <2>2. CASE rlLog = <<range>>
    <3>1. DOMAIN rlLog = {1} /\ rlLog[1] = range
      BY <2>2
    <3>2. rlLog \in Seq(Said)
      BY <1>2, <2>2
    <3>3. QED
      BY <3>1, <3>2 DEF Ascends, IsInjective, ToSet
  <2>3. QED
    BY <1>3, <2>1, <2>2
<1>5. rlTold = [u \in RlIndex |-> IF u = 1 THEN rlLog ELSE <<>>]
  BY DEF RequestLogInit
<1>6. /\ ToSet(<<>>) = {} /\ Ascends(<<>>) /\ <<>> \in Seq(Said)
  BY DEF ToSet, Ascends
<1>7. RlTypes
  BY <1>1, <1>4, <1>5, <1>6 DEF RlTypes, RequestLogInit
<1>8. ToldInOrder
  <2>1. ASSUME NEW u \in RlIndex
        PROVE  /\ Ascends(rlTold[u])
               /\ \A x \in ToSet(rlTold[u]) : x.unit = u /\ Order(x) < Floor(u)
    <3>1. Floor(u) = 1
      BY DEF Floor, RequestLogInit
    <3>2. CASE u = 1
      BY <1>2, <1>4, <1>5, <3>1, <3>2
    <3>3. CASE u # 1
      BY <1>5, <1>6, <3>3
    <3>4. QED
      BY <3>2, <3>3
  <2>2. QED
    BY <2>1 DEF ToldInOrder
<1>9. ToSet(rlLog) = UNION {ToSet(rlTold[u]) : u \in RlIndex}
  <2>1. \A u \in RlIndex : ToSet(rlTold[u]) = IF u = 1 THEN ToSet(rlLog) ELSE {}
    BY <1>5, <1>6
  <2>2. QED
    BY <1>1, <2>1
<1>10. rlTaken = <<>>
  BY DEF RequestLogInit
<1>11. QED
  BY <1>4, <1>7, <1>8, <1>9, <1>10 DEF RlInv, Buffered, TakenOnce

\* Every step keeps it.
LEMMA NextRlInv == RlInv /\ [RequestLogNext]_rlVars => RlInv'
<1> SUFFICES ASSUME RlInv, [RequestLogNext]_rlVars PROVE RlInv'
  OBVIOUS
<1>1. RlTypes /\ RlRetries \in Nat /\ rlAttempt \in [RlIndex -> 0..RlRetries]
  BY RequestLogConstants DEF RlInv, RlTypes
<1>2. ASSUME NEW u \in RlIndex, rlPc[u] # "done" PROVE rlTaken = <<>>
  BY <1>2 DEF RlInv, TakenOnce
<1>3. ASSUME NEW u \in RlIndex
      PROVE  rlAttempt[u] \in 0..RlRetries /\ rlAttempt[u] \in Nat /\ rlAttempt[u] <= RlRetries
  BY <1>1 DEF RlTypes
<1>4. ASSUME NEW u \in RlIndex,
             NEW phase \in {"Cache", "Request", "Quota", "Retry", "Response"}
      PROVE  Word(u, phase) \in Said
  BY <1>3, <1>4 DEF Said, Word
<1>5. ASSUME NEW u \in RlIndex, QueryCache(u) PROVE RlInv'
  <2>1. rlPc[u] = "query" /\ rlAttempt' = rlAttempt /\ rlTaken' = rlTaken
    BY <1>5 DEF QueryCache
  <2>2. CASE Tell(u, "Cache") /\ StepTo(u, "request")
    <3>1. Order(Word(u, "Cache")) = 1 /\ Floor(u) = 1
      BY <1>4, <2>1, OrderIs DEF Floor, Word
    <3>2. Floor(u)' = 2
      BY <1>1, <2>2 DEF Floor, StepTo, RlTypes
    <3>3. Floor(u) <= Order(Word(u, "Cache")) /\ Order(Word(u, "Cache")) < Floor(u)'
      BY <3>1, <3>2
    <3>4. QED
      BY <1>1, <1>2, <2>1, <2>2, <3>3, UnitKeeps
  <2>3. CASE Tell(u, "Cache") /\ StepTo(u, "done")
    <3>1. Order(Word(u, "Cache")) = 1 /\ Floor(u) = 1
      BY <1>4, <2>1, OrderIs DEF Floor, Word
    <3>2. Floor(u) <= Order(Word(u, "Cache"))
      BY <3>1
    <3>3. QED
      BY <1>1, <1>2, <2>1, <2>3, <3>2, UnitKeeps
  <2>4. CASE StepTo(u, "request") /\ UNCHANGED <<rlLog, rlTold>>
    BY <2>1, <2>4, SilentKeeps
  <2>5. QED
    BY <1>5, <2>2, <2>3, <2>4 DEF QueryCache
<1>6. ASSUME NEW u \in RlIndex, GiveUp(u) PROVE RlInv'
  BY <1>6, SilentKeeps DEF GiveUp
<1>7. ASSUME NEW u \in RlIndex, BeginRequest(u) PROVE RlInv'
  <2>1. /\ rlPc[u] = "request" /\ Tell(u, "Request") /\ StepTo(u, "attempt")
        /\ rlAttempt' = rlAttempt /\ rlTaken' = rlTaken
    BY <1>7 DEF BeginRequest
  <2>2. Order(Word(u, "Request")) = 2 /\ Floor(u) = 2
    BY <1>4, <2>1, OrderIs DEF Floor, Word
  <2>3. Floor(u)' = 10 + 2 * (rlAttempt[u] + 1)
    BY <1>1, <2>1 DEF Floor, StepTo, RlTypes
  <2>4. Floor(u) <= Order(Word(u, "Request")) /\ Order(Word(u, "Request")) < Floor(u)'
    BY <1>3, <2>2, <2>3
  <2>5. QED
    BY <1>1, <1>2, <2>1, <2>4, UnitKeeps
<1>8. ASSUME NEW u \in RlIndex, ReserveUnit(u) PROVE RlInv'
  <2>1. /\ rlPc[u] = "attempt" /\ Tell(u, "Quota") /\ StepTo(u, "sending")
        /\ rlAttempt' = rlAttempt /\ rlTaken' = rlTaken
    BY <1>8 DEF ReserveUnit
  <2>2. /\ Order(Word(u, "Quota")) = 10 + 2 * (rlAttempt[u] + 1)
        /\ Floor(u) = 10 + 2 * (rlAttempt[u] + 1)
    BY <1>4, <2>1, OrderIs DEF Floor, Word
  <2>3. Floor(u)' = 11 + 2 * (rlAttempt[u] + 1)
    BY <1>1, <2>1 DEF Floor, StepTo, RlTypes
  <2>4. Floor(u) <= Order(Word(u, "Quota")) /\ Order(Word(u, "Quota")) < Floor(u)'
    BY <1>3, <2>2, <2>3
  <2>5. QED
    BY <1>1, <1>2, <2>1, <2>4, UnitKeeps
<1>9. ASSUME NEW u \in RlIndex, Respond(u) PROVE RlInv'
  <2>1. /\ rlPc[u] = "sending" /\ Tell(u, "Response") /\ StepTo(u, "done")
        /\ rlAttempt' = rlAttempt /\ rlTaken' = rlTaken
    BY <1>9 DEF Respond
  <2>2. /\ Order(Word(u, "Response")) = 10 + 2 * (RlRetries + 3)
        /\ Floor(u) = 11 + 2 * (rlAttempt[u] + 1)
    BY <1>4, <2>1, OrderIs DEF Floor, Word
  <2>3. Floor(u) <= Order(Word(u, "Response"))
    BY <1>1, <1>3, <2>2
  <2>4. QED
    BY <1>1, <1>2, <2>1, <2>3, UnitKeeps
<1>10. ASSUME NEW u \in RlIndex, RetryRequest(u) PROVE RlInv'
  <2>1. /\ rlPc[u] = "sending" /\ Tell(u, "Retry") /\ StepTo(u, "attempt")
        /\ rlAttempt[u] < RlRetries
        /\ rlAttempt' = [rlAttempt EXCEPT ![u] = rlAttempt[u] + 1] /\ rlTaken' = rlTaken
    BY <1>10 DEF RetryRequest
  <2>2. /\ Order(Word(u, "Retry")) = 11 + 2 * (rlAttempt[u] + 1)
        /\ Floor(u) = 11 + 2 * (rlAttempt[u] + 1)
    BY <1>4, <2>1, OrderIs DEF Floor, Word
  <2>3. /\ rlAttempt' \in [RlIndex -> 0..RlRetries]
        /\ rlAttempt'[u] = rlAttempt[u] + 1
        /\ \A v \in RlIndex \ {u} : rlAttempt'[v] = rlAttempt[v]
    <3>1. rlAttempt[u] + 1 \in 0..RlRetries
      BY <1>1, <1>3, <2>1
    <3>2. QED
      BY <1>1, <2>1, <3>1 DEF RlTypes
  <2>4. Floor(u)' = 10 + 2 * (rlAttempt[u] + 1 + 1)
    BY <1>1, <2>1, <2>3 DEF Floor, StepTo, RlTypes
  <2>5. Floor(u) <= Order(Word(u, "Retry")) /\ Order(Word(u, "Retry")) < Floor(u)'
    BY <1>3, <2>2, <2>4
  <2>6. QED
    BY <1>2, <2>1, <2>3, <2>5, UnitKeeps
<1>11. CASE TakeLog
  <2>1. /\ \A u \in RlIndex : rlPc[u] = "done"
        /\ rlLog # <<>> /\ rlTaken' = Sorted(rlLog) /\ rlLog' = <<>>
        /\ rlPc' = rlPc /\ rlAttempt' = rlAttempt /\ rlTold' = rlTold
    BY <1>11 DEF TakeLog
  <2>2. rlTaken = <<>>
    BY <2>1 DEF RlInv, TakenOnce
  <2>3. IsInjective(rlLog) /\ ToSet(rlLog) = UNION {ToSet(rlTold[u]) : u \in RlIndex}
    BY <2>2 DEF RlInv, Buffered
  <2>4. /\ FlattenSeq(rlTold) \in Seq(Said) /\ Ascends(FlattenSeq(rlTold))
        /\ ToSet(FlattenSeq(rlTold)) = UNION {ToSet(rlTold[u]) : u \in RlIndex}
    BY <1>1, FlattenIs DEF RlInv, RlTypes, ToldInOrder
  <2>5. rlTaken' = FlattenSeq(rlTold)
    BY <1>1, <2>1, <2>3, <2>4, SortedIs DEF RlTypes
  <2>6. TakenOnce'
    BY <2>1, <2>5 DEF TakenOnce
  <2>7. rlTaken' # <<>>
    <3>1. DOMAIN rlTaken' = DOMAIN rlLog
      BY <2>1 DEF Sorted
    <3>2. rlLog \in Seq(Said)
      BY <1>1 DEF RlTypes
    <3>3. 1 \in DOMAIN rlLog
      BY <2>1, <3>2
    <3>4. DOMAIN <<>> = {}
      OBVIOUS
    <3>5. QED
      BY <3>1, <3>3, <3>4
  <2>8. Buffered'
    BY <2>7 DEF Buffered
  <2>9. ToldInOrder'
    BY <2>1 DEF RlInv, ToldInOrder, Floor
  <2>10. RlTypes'
    BY <1>1, <2>1 DEF RlTypes
  <2>11. QED
    BY <2>6, <2>8, <2>9, <2>10 DEF RlInv
<1>12. CASE UNCHANGED rlVars
  <2>1. UNCHANGED <<rlPc, rlAttempt, rlLog, rlTaken, rlTold>>
    BY <1>12 DEF rlVars
  <2>2. QED
    BY <2>1 DEF RlInv, RlTypes, ToldInOrder, Floor, Buffered, TakenOnce
<1>13. QED
  BY <1>5, <1>6, <1>7, <1>8, <1>9, <1>10, <1>11, <1>12 DEF RequestLogNext

\* ObservationBuffer::take: however the units of a command interleave, what is
\* taken tells of one after the other, each in the order of what it did.
THEOREM LogTellsUnitByUnit == RequestLogSpec => []TakenTellsUnitByUnit
<1>1. RlInv => TakenTellsUnitByUnit
  BY DEF RlInv, TakenOnce, TakenTellsUnitByUnit
<1>2. QED
  BY InitRlInv, NextRlInv, <1>1, PTL DEF RequestLogSpec
=============================================================================
