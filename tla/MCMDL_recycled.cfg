SPECIFICATION Spec
CONSTANTS
    Ctx = {c1, c2, c3}
    NoCtx = NoCtx
    NoTicket = NoTicket
    NoKey = NoKey
    ScopedKeys = {}
    GlobalKeys = {}
    ObjectKeys = {1}
    MaxTickets = 1
    Requests <- HogRequests
    LockLists = {}
    Calls = {"lock"}
    MaxWriteLockCount = 1
    HogBound = 1
    MaxSearchDepth = 5
    Interrupts = {"TIMEOUT"}
    MayDisconnect = FALSE
SYMMETRY Perms
INVARIANTS
    HogCountReset
