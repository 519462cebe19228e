SPECIFICATION FairSpec
CONSTANTS
    c1 = c1
    c2 = c2
    Conn = {c1, c2}
    Scope = {pa, pb}
    NoScope = NoScope
    Torn = Torn
    Plans <- Various
    MaxConns = 1
    OutSize = 1
    Faults = TRUE
INVARIANTS NoSilentLoss ScopeIsCurrent
PROPERTIES StreamsEnd ImplementsCalls
CHECK_DEADLOCK FALSE
