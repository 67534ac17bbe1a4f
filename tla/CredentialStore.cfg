\* Three calls over two credentials and two categories, after any history.
SPECIFICATION Spec
CONSTANTS
    Call = {p, q, r}
    Secret = {s, t}
    Category = {x, y}
    None = None
    Unbound = Unbound
SYMMETRY Symmetry
INVARIANT SecretSurvives
INVARIANT ConfigStaysReadable
PROPERTY MigrationSparesOthers
PROPERTY ObservationsAreKept
PROPERTY RotationStartsClean
CHECK_DEADLOCK FALSE
