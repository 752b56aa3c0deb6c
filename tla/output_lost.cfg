SPECIFICATION Spec
CONSTANTS
    headBytes = 2
    tailBytes = 1
    StreamFlushBytes = 2
    MaxOutput = 1
CHECK_DEADLOCK FALSE
INVARIANTS
    OutputIsCaptured
