CONSTANTS
    o1 = o1
    o2 = o2
    p1 = p1
    p2 = p2
    NoKey = NoKey
    Orders = {o1, o2}
    Products = {p1, p2}
    Quantities = {1}
    InitialStock <- OneOfEach
    OtherDemand <- LastOfSecond
    Runs = {r1, r2}
    Items <- TwoLines
    Users = {user}
    ServiceSubject = user
    Total = 1
    Targets = {"cancelled"}
    MaxRetries = 2
    MaxFaults = 1
SPECIFICATION Spec
SYMMETRY RunsAreAlike
INVARIANTS
    RecordedItemsWereReserved
    StatusTellsProgress
    CancelCompensates
    ChargedAfterReserving
    SettledWhenAlone
