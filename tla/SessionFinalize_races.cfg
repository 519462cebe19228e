SPECIFICATION FairSpec
CONSTANTS
    Caller = {c1, c2}
    Repairer = {r1}
    Host = {h1}
    HostKey = {k1, k2}
    HostTarget <- StartOnly
    Parties <- Everyone
    MaxAttempts = 1
    Faults = FALSE
    NoOne = NoOne
INVARIANT MarkerAtRest
PROPERTY SessionSettles
