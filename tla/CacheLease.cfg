\* Two contenders that pause for as long as they like, and what two others
\* have left that died; one of the two may die as well.
SPECIFICATION MCSpec
CONSTANTS
    r = r
    s = s
    Contender = {p, q, r, s}
    Dir = {d1, d2, d3}
    None = None
    MaxDead = 3
INVARIANT LeaseExclusion
PROPERTY LiveHolderLosesOnlyAged
PROPERTY DeadLeaseRecovered
CHECK_DEADLOCK FALSE
