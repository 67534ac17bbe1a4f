\* The claim fence with live processes that pause inside the lock for as long
\* as they like, so that their lock is stolen or shared under them.
SPECIFICATION Spec
CONSTANTS
    Contender = {p, q, r}
    Dir = {d1, d2, d3}
    None = None
    LongPauses = TRUE
    MaxCrashes = 2
SYMMETRY Symmetry
CONSTRAINT FewCrashes
INVARIANT PublishedHolderKeepsPath
PROPERTY StealMovesOnlyTheClaimed
CHECK_DEADLOCK FALSE
