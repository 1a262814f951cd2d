SPECIFICATION Spec
CONSTANTS
    Files <- MCFiles
    Priority <- MCPriority
    Sync <- SyncBoth
    Sizes = {1}
    BlockSize = 4
    EntrySize = 1
    FirstBlock = 1
    NumberOfBlocks = 6
    SeekBlocksMax = 2
    Draws = {7}
    TornWrites = FALSE
    Budget <- TruncateAgainBudget
INVARIANTS TruncateHides
CHECK_DEADLOCK FALSE
