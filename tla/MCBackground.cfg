CONSTANTS
    o1 = o1
    o2 = o2
    p1 = p1
    p2 = p2
    NoKey = NoKey
    Orders = {o1}
    Products = {p1, p2}
    Quantities = {1}
    InitialStock <- OneOfEach
    OtherDemand <- NoDemand
    Runs = {r1, r2}
    Items <- OneLine
    Users = {user}
    ServiceSubject = service
    Total = 1
    Targets = {}
    MaxRetries = 2
    MaxFaults = 1
    Events = {e1, e2}
    Relays = {relay1, relay2}
    BatchSize = 2
    MaxSends = 2
    MaxRelayFaults = 1
    Members = {m1, m2}
    NoMember = NoMember
    Logs <- MCBackgroundLogs
    MaxMishaps = 2
    BufferSize = 2
SPECIFICATION BackgroundSpec
CHECK_DEADLOCK FALSE
INVARIANTS
    ChargedAfterReserving
    SettledWhenAlone
    LiveBatchesAreApart
    NothingIsDropped
    
    CommittedIsHandled
    
PROPERTIES
    SagaSettles
    OutcomeIsFinal
    EventSettles
    EveryMessageIsTried
