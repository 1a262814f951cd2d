SPECIFICATION IterSpec
CONSTANTS
    Files <- MCFiles
    Priority <- MCPriority
    Sync <- SyncBoth
    Sizes = {3}
    BlockSize = 4
    EntrySize = 1
    FirstBlock = 1
    NumberOfBlocks = 5
    SeekBlocksMax = 2
    Draws = {7}
    TornWrites = FALSE
    Budget <- AroundBudget
    Configs <- PlainConfig
    RecalcMaxBlocks = 10
    IterBudget = 1
INVARIANTS FileIterable
CHECK_DEADLOCK FALSE
