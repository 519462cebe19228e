SPECIFICATION MCSpec
CONSTANTS
    p1 = p1
    p2 = p2
    m1 = m1
    m2 = m2
    n1 = n1
    n2 = n2
    n3 = n3
    s1 = s1
    s2 = s2
    Focus = {"graph", "tree"}
    Memory = {m1, m2}
    Entity = {e1, e2}
    Name = {n1, n2, n3}
    Scope = {s1, s2}
    Fold <- SameCase
    Text <- Texts
    Home <- Apart
    Proc = {p1, p2}
    Request = {p1, p2}
    Duties <- Various
    MinHits = 1
    MinMentions = 2
    Queued = TRUE
    Faults = TRUE
    MaxTasks = 1
    MaxAsserted = 1
    None = None
    Nil = Nil
    Context = {c1, c2, c3}
    Label = {n1, n2}
    LabelFold <- Exact
    Editor = {p1}
    Mover = {p2}
    Conversation = n1
    SelfMoves = FALSE
    MaxDepth = 5
CONSTRAINT Undisturbed
SYMMETRY Symmetric
INVARIANTS LinksAreMentions RelationsAreGrounded LinksStayInScope PathsFollowParents DepthIsPathLength
CHECK_DEADLOCK FALSE
