SPECIFICATION Spec
CONSTANTS
    Trigger = {t1}
    Agent = {a1, a2}
    Canceler = {c1}
    Stopper = {k1}
    MaxConcurrentSessions = 1
    MaxBoots = 2
    StoreMayFail = FALSE
CHECK_DEADLOCK FALSE
PROPERTIES
    ClosedStartsNoMore
    CanceledRunIsSilent
    CanceledRunEndsCanceled
    QueuedIsFinished
    ShutdownReturns
