SPECIFICATION Spec
CONSTANTS
    Caller = {c1, c2}
    Repairer = {r1, r2}
    Host = {h1}
    HostKey = {k1}
    HostTarget <- AllTargets
    Parties <- TwoOrTwo
    MaxAttempts = 2
    Faults = TRUE
    NoOne = NoOne
SYMMETRY Symmetry
INVARIANTS OneExecutionPerKey AbandonedOnlyAfterAttempts
