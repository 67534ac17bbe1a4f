\* Command-line use, one call a process, one of them offline; no v1 entry.
SPECIFICATION FairSpec
CONSTANTS
    a = a
    b = b
    c = c
    P = P
    Q = Q
    R = R
    Call = {a, b, c}
    Process = {P, Q, R}
    ProcessOf <- Apart
    PolicyOf <- Refreshes
    MaxFetch = 4
    OldV1 = {None}
    OldV2 = {0, 1, None, Corrupt}
    None = None
    Corrupt = Corrupt
INVARIANT RefreshIsNew
PROPERTY EveryCallReturns
CHECK_DEADLOCK FALSE
