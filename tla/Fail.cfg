SPECIFICATION Spec
CONSTANTS
    Files <- MCFiles
    Priority <- MCPriority
    Sync <- SyncData
    Sizes = {1, 3}
    BlockSize = 4
    EntrySize = 1
    FirstBlock = 1
    NumberOfBlocks = 7
    SeekBlocksMax = 2
    Draws = {7}
    TornWrites = FALSE
    Budget <- FailBudget
INVARIANTS TailCached CacheCoherent SlotsAlternate HeaderNewest SyncedSurvives AppendedReadable
CHECK_DEADLOCK FALSE
