SPECIFICATION Spec
CONSTANTS
    headBytes = 2
    tailBytes = 2
    StreamFlushBytes = 2
    MaxOutput = 6
CHECK_DEADLOCK FALSE
INVARIANTS
    TypeOK
    TranscriptInOrder
    TranscriptIsComplete
PROPERTIES
    RunEnds
