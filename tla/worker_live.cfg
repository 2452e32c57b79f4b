\* Postgres, two workers, one of them without a model client, under fairness.
CONSTANTS
    j1 = j1
    j2 = j2
    w1 = w1
    w2 = w2
    Jobs <- OneJob
    Workers <- TwoWorkers
    Keyed <- OneKeyed
    Reapers <- OneReaper
    NoJob = NoJob
    MaxAttempts = 2
    Lease = 0
    Timeout = 1
    Dialect = "postgresql"
    MaxCrashes = 1
    MaxFaults = 1
SPECIFICATION FairSpec
PROPERTIES
    EventuallySettled
