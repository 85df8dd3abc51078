SPECIFICATION Spec
CONSTANTS
    NPages = 2
    CellsPerPage = 1
    Widths = {1, 2}
    MaxRegions = 2
    GameValues = {0, 1}
    Zero = 0
    Script = 9
    InitProts <- MCInitProts
    MaxOps = 2
    MaxGame = 1
INVARIANTS
    TypeOK
    ReadFaultsOnlyStale
    LoneWriteNeverFaults
    ProtectionRestored
    ScriptBytesAccounted
    PlainUseFullyReverted
PROPERTY
    ImplementsRevertibleMemory
CHECK_DEADLOCK FALSE
