SPECIFICATION Spec
CONSTANTS
    Ctx = {c1, c2, c3}
    NoCtx = NoCtx
    NoTicket = NoTicket
    NoKey = NoKey
    ScopedKeys = {}
    GlobalKeys = {}
    ObjectKeys = {1}
    MaxTickets = 2
    Requests <- CoreRequests
    LockLists = {}
    Calls = {"lock", "upgrade", "downgrade"}
    MaxWriteLockCount = 1
    HogBound = 1
    MaxSearchDepth = 5
    Interrupts = {}
    MayDisconnect = FALSE
SYMMETRY Perms
INVARIANTS
    NoMissedGrant
