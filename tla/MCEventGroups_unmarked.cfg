SPECIFICATION Spec
CONSTANTS
    Trx = {1, 2}
    NoTrx = NoTrx
    Domain <- OneDomain
    Scheduling = {TRUE}
    WriteErrors = FALSE
    GcoStarts = {2}
    Speculation <- NoSpeculation
    Conflicts = {}
    Faults = {"temp"}
    FailAt = {"commit"}
    KillAt = {}
    SlaveTransRetries = 1
    MaxRetries = 1
INVARIANTS
    LaterStillWaiting
