SPECIFICATION Spec
CONSTANTS
    Files <- MCFiles
    Priority <- SamePriority
    Sync <- SyncBoth
    Sizes = {1, 3}
    BlockSize = 6
    EntrySize = 1
    FirstBlock = 1
    NumberOfBlocks = 5
    SeekBlocksMax = 2
    Draws = {7}
    TornWrites = FALSE
    Budget <- OverrunBudget
PROPERTIES PrecedenceKept
CHECK_DEADLOCK FALSE
