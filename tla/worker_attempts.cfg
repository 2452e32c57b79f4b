\* Is max_attempts a cap on the tries of a job?
CONSTANTS
    j1 = j1
    j2 = j2
    w1 = w1
    w2 = w2
    Jobs <- OneJob
    Workers <- TwoWorkers
    Keyed <- TwoWorkers
    Reapers <- OneReaper
    NoJob = NoJob
    MaxAttempts = 2
    Lease = 0
    Timeout = 1
    Dialect = "postgresql"
    MaxCrashes = 0
    MaxFaults = 0
SPECIFICATION Spec
INVARIANTS
    AttemptsCapped
