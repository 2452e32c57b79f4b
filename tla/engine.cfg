\* Personas that share a client, and where their clicks land.
CONSTANTS
    p1 = p1
    p2 = p2
    p3 = p3
    Personas <- Everyone
    MaxRetries = 3
    Resends = 1
    MaxConcurrency = 1
    Capacity = 4
    Rate = 1
    Token = 2
    MaxSleep = 60
    MaxW = 1024
    Mixes <- AllMixes
SPECIFICATION FairSpec
INVARIANTS
    TypeOK
    RateOverrunBounded
    ClickNearTarget
PROPERTIES
    CallsEnd
