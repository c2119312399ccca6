SPECIFICATION Spec
CONSTANTS
    Ctx = {c1}
    NoCtx = NoCtx
    NoTicket = NoTicket
    NoKey = NoKey
    ScopedKeys = {0}
    GlobalKeys = {0}
    ObjectKeys = {1, 2}
    MaxTickets = 3
    Requests <- DurationRequests
    LockLists = {}
    Calls = {"lock", "handler", "release", "name", "statement", "explicit", "locktables", "savepoint", "upgrade", "try"}
    MaxWriteLockCount = 9
    HogBound = 1
    MaxSearchDepth = 5
    Interrupts = {}
    MayDisconnect = FALSE
SYMMETRY Perms
INVARIANTS
    TicketsAccountedFor
    SavepointExact
