SPECIFICATION IterFairSpec
CONSTANTS
    Files <- MCFiles
    Priority <- MCPriority
    Sync <- SyncBoth
    Sizes = {1}
    BlockSize = 4
    EntrySize = 1
    FirstBlock = 1
    NumberOfBlocks = 6
    SeekBlocksMax = 2
    Draws = {7}
    TornWrites = FALSE
    Budget <- ReadBudget
    Configs <- MCConfigs
    RecalcMaxBlocks = 10
    IterBudget = 2
INVARIANTS IterComplete IterOrder FileIterable
PROPERTIES IterReturns
CHECK_DEADLOCK FALSE
