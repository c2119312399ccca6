SPECIFICATION FairSpec
CONSTANTS
    Trx = {1, 2, 3}
    NoTrx = NoTrx
    Domain <- OneDomain
    Scheduling = {TRUE, FALSE}
    WriteErrors = FALSE
    GcoStarts = {3}
    Speculation <- SomeOptimistic
    Conflicts <- AllConflicts
    Faults = {"exec", "temp", "stop"}
    FailAt = {"exec"}
    KillAt = {"exec"}
    SlaveTransRetries = 1
    MaxRetries = 1
INVARIANTS
    RolledBackNotLogged
    NotAfterFailed
PROPERTIES
    CommitsInOrder
    AllFinish
