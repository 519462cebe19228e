SPECIFICATION Spec
CONSTANTS
    Worker = {w1, w2, w3}
    Task = {t1, t2}
    HandledTask = {t1}
    NoTask = NoTask
    MaxRetries = 2
    MaxSecond = 1
    HandlerOverruns = FALSE
PROPERTY ImplementsRetryQueue
