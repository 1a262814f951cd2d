SPECIFICATION DmaSpec
CONSTANTS
    Blocks = {0, 1}
    Data = {"a", "b"}
    Torn = "torn"
    Erased = "erased"
    Ones = "ones"
    Unread = "unread"
    Kinds <- AllKinds
    InitTimeout = 1
    ReadTimeout = 1
    WriteTimeout = 1
    EraseTimeout = 1
    Budget <- DriverBudget
    MaxChannels = 3
    Length = 4
    Pipe = 2
INVARIANTS
    DmaTypeOK Released TypeRight SizeRight JobServed ReadAlmostComplete
PROPERTIES
    ImplementsBlockCard CallReturns
CHECK_DEADLOCK FALSE
