SPECIFICATION Spec
CONSTANTS
    c1 = c1
    c2 = c2
    Conn = {c1, c2}
    Scope = {pa, pb}
    NoScope = NoScope
    Torn = Torn
    Plans <- Hooks
    MaxConns = 1
    OutSize = 1
    Faults = FALSE
INVARIANT FallbackOnFailure
CHECK_DEADLOCK FALSE
