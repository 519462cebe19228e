SPECIFICATION MCSpec
CONSTANTS
    s1 = s1
    s2 = s2
    q1 = q1
    q2 = q2
    Focus = {"memories", "counts", "schema"}
    Databases <- Versions
    Memory = {m1, m2}
    Content = {c1, c2}
    Context = {x1}
    Placed = {}
    Proc = {p1, p2}
    Ops <- NoMoves
    Segmented = FALSE
    VectorDedup = TRUE
    Faults = TRUE
    MaxCount = 2
    None = None
    Opener = {q1, q2}
    Ident = {1, 2, 3}
    Session = {s1, s2}
    Tokenizer <- Tokenizers
    MaxMishaps = 2
    Unset = Unset
SYMMETRY Symmetric
INVARIANTS UniqueHash LiveIsSearchable NoStaleWords NeverUndercounts AlwaysOpens VersionTellsSchema RowsSurvive LiveIsIndexed
PROPERTY DeletedStaysDeleted
CHECK_DEADLOCK FALSE
