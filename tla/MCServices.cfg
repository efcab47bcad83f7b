SPECIFICATION ServicesSpec
CONSTANTS
    Writers = {w1, w2}
    Seeded = seeded
    IdempotencyKeys = {k1, k2}
    SeededKey = k1
    Edits <- MCEdits
    IndexRelays = {r1, r2}
    IndexBatch = 2
    IndexRetries = 2
    MaxCatalogFaults = 2
    Items = {i1, i2, i3}
    MaxLines = 2
    PageSizes = {1, 2}
    MaxPages = 7
    UserCalls = {c1, c2, c3}
    UserReplicas = {u1}
    Mailboxes = {m1}
    Passwords = {p1, p2}
    Limit = 1
    Window = 3
    MaxDelay = 1
    MaxTime = 4
    MaxRestarts = 1
    MaxLayers = 4
    Workers = {o1, o2}
    Sessions = {s1, s2}
    OpenSagas = 2
    ListLimit = 1
    MaxRounds = 3
    MaxRecoveryFaults = 2
    MaxOpen = 2
    Products = {"tea", "cup"}
    Prices = {1, 2}
    Baskets <- MCBaskets
    Refunds = {f1}
    TripAfter = 2
    MaxRequests = 2
    MaxRowChanges = 2
SYMMETRY MCSymmetry
INVARIANTS
    IndexFollowsTable
    WalkMissesOnlyDeleted
    RegisteredIsReachable
    LimitHolds
    
    OneRecoveryAtATime
    ConnectionsAreThere
    AnswersHold
CHECK_DEADLOCK FALSE
