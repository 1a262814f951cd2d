SPECIFICATION Spec
CONSTANTS
    Files <- MCFiles
    Priority <- MCPriority
    Sync <- SyncData
    Sizes = {1, 4}
    BlockSize = 6
    EntrySize = 2
    FirstBlock = 1
    NumberOfBlocks = 7
    SeekBlocksMax = 2
    Draws = {7, 9}
    TornWrites = TRUE
    Budget <- TornBudget
INVARIANTS SyncedSurvives TailReachable
PROPERTIES RecoveryMonotone
CHECK_DEADLOCK FALSE
