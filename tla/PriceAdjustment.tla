--------------------------- MODULE PriceAdjustment --------------------------
(***************************************************************************)
(* The adjusted stock history: adjustment.rs, adjust_stock_rows, as an     *)
(* operator on the raw rows of one security, here of a history that grows  *)
(* by one observation at a time.  Numbers are exact, as in the code; their *)
(* spelling in the rows is left out.                                       *)
(***************************************************************************)
EXTENDS Integers, Sequences, FiniteSetsExt

CONSTANTS
    PaRow,      \* bound: the rows that a day may bring
    PaName,     \* names a security may be listed under
    PaLength,   \* bound: rows of a history
    PaNone      \* a field that the row does not have

\* ParsedRow: a day's prices, the reference price that its change implies,
\* and the evidence.  `agrees`: FLUC_RT and MKTCAP follow from the prices.
Quote == [open : Nat, high : Nat, low : Nat, close : Nat]

Row == [quote : Quote, reference : Nat \ {0}, traded : BOOLEAN,
        shares : Nat \cup {PaNone}, name : PaName, agrees : BOOLEAN]

ASSUME PriceAdjustmentConstants == PaRow \subseteq Row /\ PaLength \in Nat

ASSUME PriceAdjustmentNone == PaNone \notin Nat

VARIABLE paRows

-----------------------------------------------------------------------------
(* Exact ratios                                                            *)

Gcd(a, b) == Max({d \in 1..a : a % d = 0 /\ b % d = 0})

Rational(n, d) ==
    [numerator |-> n \div Gcd(n, d), denominator |-> d \div Gcd(n, d)]

One == [numerator |-> 1, denominator |-> 1]

Multiply(left, right) ==
    Rational(left.numerator * right.numerator,
             left.denominator * right.denominator)

\* Half up.
RoundedProduct(value, factor) ==
    (value * factor.numerator + factor.denominator \div 2)
        \div factor.denominator

-----------------------------------------------------------------------------
(* Rows                                                                    *)

\* Variant: prices are compared, but a zero is not looked for.
OrderOnly(q, traded) ==
    \/ /\ q.low <= q.open /\ q.open <= q.high
       /\ q.low <= q.close /\ q.close <= q.high
    \/ {q.open, q.high, q.low} = {0}

\* validate_ohlc
ValidOhlc(q, traded) ==
    /\ q.close > 0
    /\ IF 0 \in {q.open, q.high, q.low}
       THEN {q.open, q.high, q.low} = {0} /\ ~traded
       ELSE /\ q.low <= q.open /\ q.open <= q.high
            /\ q.low <= q.close /\ q.close <= q.high

\* parse_row
Parses(row) == row.agrees /\ ValidOhlc(row.quote, row.traded)

\* The rows parse and name one security.
Stable(rows) ==
    /\ rows # <<>>
    /\ \A i \in DOMAIN rows : Parses(rows[i]) /\ rows[i].name = rows[1].name

Suspended(row) == {row.quote.open, row.quote.high, row.quote.low} = {0}

-----------------------------------------------------------------------------
(* adjust_stock_rows                                                       *)

\* The ratio at the boundary before row i, one where nothing changed.
BoundaryRatio(rows, i) ==
    Rational(rows[i].reference, rows[i - 1].quote.close)

Distance(a, b) == IF a >= b THEN a - b ELSE b - a

\* A ratio across a suspension is taken only where the listed shares changed
\* by its inverse, to less than a share.
SharesExplain(rows, i) ==
    LET ratio == BoundaryRatio(rows, i)
    IN  /\ rows[i - 1].shares # PaNone /\ rows[i].shares # PaNone
        /\ Distance(ratio.numerator * rows[i].shares,
                    ratio.denominator * rows[i - 1].shares) < ratio.numerator

Unambiguous(rows) ==
    \A i \in 2..Len(rows) :
        Suspended(rows[i - 1]) /\ rows[i].reference # rows[i - 1].quote.close
            => SharesExplain(rows, i)

\* Variant: a row is multiplied by the ratio of its own boundary as well.
FactorsOffByOne(rows) ==
    LET f[i \in 1..Len(rows) + 1] ==
            IF i = Len(rows) + 1 THEN One
            ELSE IF i = 1 THEN f[2]
            ELSE Multiply(f[i + 1], BoundaryRatio(rows, i))
    IN  [i \in 1..Len(rows) |-> f[i]]

\* The factor of each row: the ratios of all later boundaries.
Factors(rows) ==
    LET f[i \in 1..Len(rows)] ==
            IF i = Len(rows) THEN One
            ELSE Multiply(f[i + 1], BoundaryRatio(rows, i + 1))
    IN  f

AdjustedQuote(row, factor) ==
    [field \in DOMAIN row.quote |-> RoundedProduct(row.quote[field], factor)]

\* The adjusted history: no row at all where the code returns an error.
Adjusted(rows) ==
    LET factors == Factors(rows)
        quotes == [i \in DOMAIN rows |-> AdjustedQuote(rows[i], factors[i])]
    IN  IF /\ Stable(rows)
           /\ Unambiguous(rows)
           /\ \A i \in DOMAIN rows : ValidOhlc(quotes[i], rows[i].traded)
        THEN [i \in DOMAIN rows |-> [quote |-> quotes[i], factor |-> factors[i]]]
        ELSE <<>>

-----------------------------------------------------------------------------
(* A history by the day                                                    *)

PriceAdjustmentInit == paRows = <<>>

\* One more observation; a history with an invalid row stays invalid.
ObserveDay ==
    /\ Len(paRows) < PaLength
    /\ paRows = <<>> \/ Stable(paRows)
    /\ \E row \in PaRow : paRows' = Append(paRows, row)

PriceAdjustmentNext == ObserveDay

PriceAdjustmentSpec == PriceAdjustmentInit /\ [][PriceAdjustmentNext]_paRows

-----------------------------------------------------------------------------
(* Properties                                                              *)

\* Rounding makes up nothing: in an adjusted history a price is zero only
\* where the security was suspended that day, and low, open, close and high
\* keep their order.
AdjustedRowsAreReal ==
    LET history == Adjusted(paRows)
    IN  \A i \in DOMAIN history :
        LET adjusted == history[i].quote
            raw == paRows[i].quote
        IN  /\ \A field \in DOMAIN raw : adjusted[field] = 0 <=> raw[field] = 0
            /\ ~Suspended(paRows[i]) =>
                  /\ adjusted.low <= adjusted.open
                  /\ adjusted.open <= adjusted.high
                  /\ adjusted.low <= adjusted.close
                  /\ adjusted.close <= adjusted.high

\* A later day rebases the whole history alike: every earlier factor is
\* multiplied by reference over previous close at the new boundary, whatever
\* happened before it, and the new day is the new base.
HistoryIsRebased ==
    [][LET n == Len(paRows)
           before == Adjusted(paRows)
           after == Adjusted(paRows')
       IN  before # <<>> /\ after # <<>> =>
              /\ after[n + 1].factor = One
              /\ \A i \in 1..n :
                    after[i].factor.numerator * before[i].factor.denominator
                        * paRows[n].quote.close
                    = after[i].factor.denominator * before[i].factor.numerator
                        * paRows'[n + 1].reference]_paRows
=============================================================================
