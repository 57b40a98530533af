SPECIFICATION Spec
CONSTANTS
    Keys <- MCKeys
    NoRow = NoRow
    Autocommit = Autocommit
    ChunkSizes = {1, 2}
    QueueSize = 2
    Statements <- MCStatements
    MaxWrites = 3
    MaxFaults = 1
INVARIANTS
    TypeOK
    GhostAgrees
    NothingBehindCoordinates
    AutocommitOutsideBatch
CHECK_DEADLOCK FALSE
