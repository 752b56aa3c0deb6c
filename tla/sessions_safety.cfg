SPECIFICATION Spec
CONSTANTS
    Trigger = {t1}
    Agent = {a1, a2}
    Canceler = {c1}
    Stopper = {k1, k2}
    MaxConcurrentSessions = 1
    MaxBoots = 2
    StoreMayFail = TRUE
CHECK_DEADLOCK FALSE
INVARIANTS
    TypeOK
    SlotsBounded
    LiveIsCancelable
    NoStuckRow
    NeverStartedNeverRan
    ShutdownBarrier
PROPERTIES
    FinishedStaysFinished
    ImplementsLifecycle
