SPECIFICATION Spec
CONSTANTS
    Files <- MCFiles
    Priority <- MCPriority
    Sync <- SyncData
    Sizes = {1}
    BlockSize = 4
    EntrySize = 1
    FirstBlock = 1
    NumberOfBlocks = 6
    SeekBlocksMax = 2
    Draws = {7}
    TornWrites = FALSE
    Budget <- FlushCutBudget
INVARIANTS SyncedSurvives
CHECK_DEADLOCK FALSE
