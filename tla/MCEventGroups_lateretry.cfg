SPECIFICATION Spec
CONSTANTS
    Trx = {1, 2, 3}
    NoTrx = NoTrx
    Domain <- OneDomain
    Scheduling = {TRUE}
    WriteErrors = FALSE
    GcoStarts = {2}
    Speculation <- NoSpeculation
    Conflicts = {}
    Faults = {"temp", "stop"}
    FailAt = {"commit"}
    KillAt = {}
    SlaveTransRetries = 1
    MaxRetries = 1
INVARIANTS
    StopsConsistently
