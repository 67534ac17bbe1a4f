\* A reservation that spans midnight: its write prunes the new day's count.
SPECIFICATION Spec
CONSTANTS
    a = a
    p = p
    q = q
    Call = {p, q}
    Key = {a}
    KeyOf <- OneKey
    LastDay = 2
    Limit = 4
    MaxKeys = 2
    None = None
    MidnightRaces = TRUE
    Retries = 1
INVARIANT NeverUndercounts
CHECK_DEADLOCK FALSE
