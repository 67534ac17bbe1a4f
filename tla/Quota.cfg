\* Calls of three credentials that reserve again and again, in a ledger with
\* room for two, over a midnight that no reservation spans.
SPECIFICATION QuotaSpec
CONSTANTS
    a = a
    b = b
    c = c
    p = p
    q = q
    r = r
    Call = {p, q, r}
    Key = {a, b, c}
    KeyOf <- ThreeKeys
    LastDay = 2
    Limit = 2
    MaxKeys = 2
    None = None
    MidnightRaces = FALSE
SYMMETRY Symmetry
INVARIANT CountsEveryUnit
INVARIANT WritesValidLedger
PROPERTY NeverDecrements
CHECK_DEADLOCK FALSE
