SPECIFICATION Spec
CONSTANTS
    NoRepo = orphaned
    LegalName = {"dev", "ann", "you"}
    InitialDB <- MCInitialDB
    RowLimit = 3
    MinHeight = 2
    Chrome = 1
    Heights = {1, 3}
    Text = "hi"
    MaxNet = 4
    MaxKeys = 4
    MaxAppends = 1
    MaxFaults = 1
CHECK_DEADLOCK FALSE
INVARIANTS
    TypeOK
    OneTick
    PaneIsTheSelection
PROPERTIES
    FeedCatchesUp
