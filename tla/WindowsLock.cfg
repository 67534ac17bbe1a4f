\* Two contenders over two successive lock directories, or three in one; any
\* of them may die or pause as long as it likes.
SPECIFICATION MCSpec
CONSTANTS
    Contender = {p, q, r}
    Dir = {d1, d2}
    None = None
PROPERTY ImplementsAbstractLock
PROPERTY OrphanRecovered
CHECK_DEADLOCK FALSE
