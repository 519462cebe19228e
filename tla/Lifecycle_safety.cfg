SPECIFICATION Spec
CONSTANTS
    p1 = p1
    p2 = p2
    Memory = {m1, m2, m3}
    Fact = {f1, f2}
    Proc = {p1, p2}
    Plans <- Various
    GivenTexts <- Simple
    GivenTiers <- Standard
    GivenRates <- Never
    MinReinforce = 2
    MinCluster = 2
    Repeats = TRUE
    VectorDedup = TRUE
    PromotionEnabled = FALSE
    Faults = TRUE
    MaxBatch = 1
    None = None
SYMMETRY Symmetric
INVARIANTS  StandingIsEarned
CHECK_DEADLOCK FALSE
