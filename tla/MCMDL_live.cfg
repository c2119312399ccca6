SPECIFICATION FairSpec
CONSTANTS
    Ctx = {c1, c2}
    NoCtx = NoCtx
    NoTicket = NoTicket
    NoKey = NoKey
    ScopedKeys = {}
    GlobalKeys = {}
    ObjectKeys = {1, 2}
    MaxTickets = 2
    Requests <- TwoTables
    LockLists = {}
    Calls = {"lock"}
    MaxWriteLockCount = 9
    HogBound = 1
    MaxSearchDepth = 5
    Interrupts = {}
    MayDisconnect = FALSE
PROPERTIES
    WaitsEnd
