SPECIFICATION Spec
CONSTANTS
    Client = {c1, c2}
    Free = free
    Probes = 2
    MaxDaemons = 2
    MaxCommands = 3
    MaxFaults = 1
CHECK_DEADLOCK FALSE
INVARIANTS
    TypeOK
    SpawnIsRechecked
    ToldIsTrue
    NoOrphanRow
PROPERTIES
    ClosedStaysClosed
    CommandsReturn
