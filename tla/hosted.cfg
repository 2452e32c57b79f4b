\* A customer, requests, tenants and a sweep: one mix of inputs each.
CONSTANTS
    p1 = p1
    p2 = p2
    s1 = s1
    s2 = s2
    u1 = u1
    u2 = u2
    u3 = u3
    u4 = u4
    a1 = a1
    a2 = a2
    h1 = h1
    c1 = c1
    sl1 = sl1
    sl2 = sl2
    r1 = r1
    r2 = r2
    b1 = b1
    Subs <- TwoSubs
    NoSub = NoSub
    Handlers = {h1}
    Reconcilers = {c1}
    Users <- FourUsers
    Owner = u1
    Requests = {a1, a2}
    SeatLimit <- Seats
    RunLimit <- RunQuota
    Tenants <- TwoTenants
    Slots = {sl1, sl2}
    MaxQueued = 5
    Home = p1
    Runs = {r1, r2}
    NoRun = NoRun
    Setters = {b1}
    ForeignKeys = FALSE
    Remote = TRUE
    Mixes <- AllMixes
SPECIFICATION FairSpec
INVARIANTS
    TypeOK
    TeamHasPrivate
    SeatOverrunBounded
    QuotaOverrunBounded
    BoundedOvertaking
    DeletedLeavesNothing
PROPERTIES
    EventuallyInSync
    StaleRunsGo
CHECK_DEADLOCK FALSE
