SPECIFICATION Spec
CONSTANTS
    Client = {c1, c2}
    Nobody = nobody
    NoRepo = orphaned
    LegalName = {"ann", "dev", "new", "t"}
    MentionBody = {"@bot"}
    BlankBody = {"newline"}
    InitialDB <- MCInitialDB
    Commands <- MCCommands
    MaxBatchEvents = 4
    MaxCommands = 3
    MaxFaults = 1
SYMMETRY Symmetry
CHECK_DEADLOCK FALSE
INVARIANTS
    TypeOK
    ThreadsAreLogs
    ChannelsAreUnique
    OutcomeIsTold
    ImportKeepsReferences
    CursorReadsAll
    DumpResolvesParents
    StartsAreLiveHuman
    PostedMeansStarted
