SPECIFICATION Spec
CONSTANTS
    Trx = {1, 2}
    NoTrx = NoTrx
    Domain <- OneDomain
    Scheduling = {TRUE}
    WriteErrors = FALSE
    GcoStarts = {}
    Speculation <- NoSpeculation
    Conflicts = {}
    Faults = {"exec"}
    FailAt = {"exec"}
    KillAt = {}
    SlaveTransRetries = 1
    MaxRetries = 1
INVARIANTS
    NeverLogged
