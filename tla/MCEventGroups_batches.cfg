SPECIFICATION Spec
CONSTANTS
    Trx = {1, 2, 3}
    NoTrx = NoTrx
    Domain <- OneDomain
    Scheduling = {TRUE}
    WriteErrors = FALSE
    GcoStarts = {2}
    Speculation <- NoSpeculation
    Conflicts = {}
    Faults = {"exec", "temp", "stop"}
    FailAt = {"exec", "commit"}
    KillAt = {"queued"}
    SlaveTransRetries = 1
    MaxRetries = 1
INVARIANTS
    BatchesApart
    StopsWithoutGap
