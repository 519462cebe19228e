SPECIFICATION FairSpec
CONSTANTS
    Worker = {w1, w2}
    Task = {t1, t2}
    HandledTask = {t1}
    NoTask = NoTask
    MaxRetries = 2
    MaxSecond = 0
    HandlerOverruns = TRUE
INVARIANTS ExhaustedNeverOffered ExclusiveUnlessOverrun
PROPERTIES SettledUndoneOnlyByOverrun EveryTaskSettles
