SPECIFICATION FairSpec
CONSTANTS
    Files <- MCFiles
    Priority <- MCPriority
    Sync <- SyncData
    Sizes = {1, 3}
    BlockSize = 4
    EntrySize = 1
    FirstBlock = 1
    NumberOfBlocks = 5
    SeekBlocksMax = 2
    Draws = {7}
    TornWrites = FALSE
    Budget <- RingBudget
INVARIANTS TypeOK TailReachable InRing
PROPERTIES CallsReturn
CHECK_DEADLOCK FALSE
