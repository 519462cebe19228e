SPECIFICATION FairSpec
CONSTANTS
    d1 = d1
    d2 = d2
    f1 = f1
    f2 = f2
    h1 = h1
    h2 = h2
    t1 = t1
    t2 = t2
    c1 = c1
    c2 = c2
    Doc = {d1, d2}
    File = {f1, f2}
    Scope = {s1}
    Content = {c1, c2}
    Hash = {h1, h2, t1, t2}
    FileHash <- Files
    TextHash <- OwnTexts
    Chunks <- Texts
    MaxConcurrent = 1
    Plans <- Various
    None = None
INVARIANT ReadyIsComplete
PROPERTIES DeletedStaysGone EveryDocumentSettles
CHECK_DEADLOCK FALSE
