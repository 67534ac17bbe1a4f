\* The parts that share no state, each with what it takes for its races.
SPECIFICATION ServicesSpec
SYMMETRY MCSymmetry
CONSTANTS
    WlCall = {c1, c2}
    WlIsin = {i1, i2, i3}
    WlName = {n1}
    WlMax = 2
    WlMutations = 3
    MtJob = {m1, m2}
    MtKey = {k1, k2}
    MtLegacy = {k1}
    MtBound = 1
    MtWrites = 1
    MtNone = MtNone
    RcProcess = {p1, p2}
    RcInterval = 4
    RcCooldown = 3
    RcMaxTime = 5
    RcNone = RcNone
    UpRun = {r1, r2}
    UpMaxVersion = 2
    UpNone = UpNone
    PaRow <- MCRow
    PaName = {"n1", "n2"}
    PaLength = 3
    PaNone = PaNone
    CoDays = 3
    CoWidth = 2
    CmDays = 2
    CmOutcome = {"match", "other", "empty", "approval", "cancelled"}
    CaYears = 3
    CaYearDays = 5
    CaWeek = 4
    CaLaw <- MCLaw
    CaReach = 7
    CaNone = CaNone
    RlUnit <- MCUnit
    RlRetries = 1
    NbCall = {a1, a2}
    NbThread = {t1, t2}
    NbNone = NbNone
INVARIANT UndisturbedMeetsRule
INVARIANT RecordedArchiveStays
INVARIANT AdjustedRowsAreReal
INVARIANT ResultTellsEachOutcome
INVARIANT PartialIsNeverComplete
INVARIANT ExitTellsTheOutcome
INVARIANT AddsOnlyTheUniqueMatch
INVARIANT NoSessionIsGuessedAway
INVARIANT TakenTellsUnitByUnit
INVARIANT BoundaryHolds
PROPERTY MutationsCompose
PROPERTY PruneKeepsNewest
PROPERTY RequestsAreRationed
PROPERTY NoLossNoDowngrade
PROPERTY HistoryIsRebased
CHECK_DEADLOCK FALSE
