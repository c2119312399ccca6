SPECIFICATION Spec
CONSTANTS
    Ctx = {c1, c2, c3}
    NoCtx = NoCtx
    NoTicket = NoTicket
    NoKey = NoKey
    ScopedKeys = {}
    GlobalKeys = {}
    ObjectKeys = {1, 2, 3}
    MaxTickets = 2
    Requests = {}
    LockLists <- Lists
    Calls = {"list"}
    MaxWriteLockCount = 9
    HogBound = 1
    MaxSearchDepth = 5
    Interrupts = {"KILLED"}
    MayDisconnect = TRUE
SYMMETRY Perms
INVARIANTS
    OrderedListsNeverVictims
    ListsAllOrNothing
