SPECIFICATION IterSpec
CONSTANTS
    Files <- MCFiles
    Priority <- MCPriority
    Sync <- SyncData
    Sizes = {1, 3}
    BlockSize = 4
    EntrySize = 1
    FirstBlock = 1
    NumberOfBlocks = 7
    SeekBlocksMax = 2
    Draws = {7}
    TornWrites = FALSE
    Budget <- UnsyncedBudget
    Configs <- PlainConfig
    RecalcMaxBlocks = 10
    IterBudget = 1
INVARIANTS AppendedReadable
CHECK_DEADLOCK FALSE
