SPECIFICATION FairSpec
CONSTANTS
    Trx = {1, 2, 3}
    NoTrx = NoTrx
    Domain <- OneDomain
    Scheduling = {TRUE}
    WriteErrors = FALSE
    GcoStarts = {2, 3}
    Speculation <- SomeOptimistic
    Conflicts = {}
    Faults = {"exec", "temp", "stop"}
    FailAt = {"exec"}
    KillAt = {"queued", "exec", "specwait", "skipwait", "retrywait", "finwait"}
    SlaveTransRetries = 1
    MaxRetries = 1
INVARIANTS
    NotAfterFailed
    BatchesApart
PROPERTIES
    AllFinish
