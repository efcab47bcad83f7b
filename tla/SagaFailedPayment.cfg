CONSTANTS
    o1 = o1
    o2 = o2
    p1 = p1
    p2 = p2
    NoKey = NoKey
    Orders = {o1, o2}
    Products = {p1, p2}
    Quantities = {1}
    InitialStock <- OneOfEach
    OtherDemand <- LastOfSecond
    Runs = {r1}
    Items <- TwoLines
    Users = {user}
    ServiceSubject = user
    Total = 1
    Targets = {}
    MaxRetries = 3
    MaxFaults = 0
SPECIFICATION Spec
INVARIANT
    FailedPaymentIsCompensated
CHECK_DEADLOCK FALSE
