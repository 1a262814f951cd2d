SPECIFICATION LogSpec
CONSTANTS
    Files <- MCFiles
    Priority <- MCPriority
    Sync <- SyncData
    Sizes = {1}
    BlockSize = 4
    EntrySize = 1
    FirstBlock = 1
    NumberOfBlocks = 9
    SeekBlocksMax = 2
    Draws = {7}
    TornWrites = FALSE
    Budget <- LogBudget
    LogFile = 0
    LogSizes = {2, 4}
    LogCalls = 3
INVARIANTS LogExact TruncateHides SyncedSurvives
PROPERTIES LogReturns
CHECK_DEADLOCK FALSE
