SPECIFICATION Spec
CONSTANTS
    headBytes = 1
    tailBytes = 1
    StreamFlushBytes = 2
    MaxOutput = 2
CHECK_DEADLOCK FALSE
INVARIANTS
    NoMarkerUnderBudget
