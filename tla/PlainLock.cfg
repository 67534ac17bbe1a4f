\* Three contenders, three successive lock directories, any of them may die,
\* no live process pausing inside the lock for thirty seconds.
SPECIFICATION FairSpec
CONSTANTS
    Contender = {p, q, r}
    Dir = {d1, d2, d3}
    None = None
    LongPauses = FALSE
    MaxCrashes = 3
PROPERTY ImplementsAbstractLock
PROPERTY DeadLockRecovered
CHECK_DEADLOCK FALSE
