\* A dead owner, a dead claimant and two live contenders.
SPECIFICATION MCRacySpec
CONSTANTS
    r = r
    s = s
    Contender = {p, q, r, s}
    Dir = {d1, d2, d3}
    None = None
    MaxDead = 2
PROPERTY RecoverySparesReplacement
CHECK_DEADLOCK FALSE
