\* Two calls of one process and one of another, any old entries.
SPECIFICATION Spec
CONSTANTS
    a = a
    b = b
    c = c
    P = P
    Q = Q
    R = R
    Call = {a, b, c}
    Process = {P, Q}
    ProcessOf <- TwoProcesses
    PolicyOf <- Mixed
    MaxFetch = 3
    OldV1 = {1, None, Corrupt}
    OldV2 = {0, None, Corrupt}
    None = None
    Corrupt = Corrupt
PROPERTY EntryNeverLost
PROPERTY NeverGoesBack
PROPERTY WriterRemovesWhenDurable
CHECK_DEADLOCK FALSE
