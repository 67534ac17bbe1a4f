\* Two calls of one credential, up to three attempts each, over a midnight
\* that no reservation spans.
SPECIFICATION FairSpec
CONSTANTS
    a = a
    p = p
    q = q
    Call = {p, q}
    Key = {a}
    KeyOf <- OneKey
    LastDay = 2
    Limit = 4
    MaxKeys = 2
    None = None
    MidnightRaces = FALSE
    Retries = 2
INVARIANT AttemptsAreReserved
INVARIANT NeverUndercounts
PROPERTY EveryCallReturns
CHECK_DEADLOCK FALSE
