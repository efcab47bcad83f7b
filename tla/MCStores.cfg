SPECIFICATION StoresSpec
CONSTANTS
    w1 = w1
    w2 = w2
    o1 = o1
    o2 = o2
    p1 = p1
    user = user
    admin = admin
    service = service
    k1 = k1
    Nobody = Nobody
    Workers <- MCWorkers
    Orders <- MCOrders
    Products <- MCProducts
    RequestQuantities = {0, 1, 2}
    InitialStock <- MCInitialStock
    NoKey = NoKey
    PayWorkers <- MCWorkers
    PayOrders <- MCOrders
    Callers <- MCCallers
    Users <- MCUsers
    Admins <- MCAdmins
    Amounts = {2}
    RefundAmounts = {0, 1, 3}
    RefundKeys <- MCRefundKeys
INVARIANTS
    TypeOK
    StockConserved
    LedgerMatchesReservations
    AnsweredMeansApplied
    LocksProtect
    ReservedIsSumOfReservations
    PaymentTypeOK
    RefundedOnce
    AnsweredMeansSettled
    RefundChecksHold
PROPERTIES
    ImplementsStockBook
    EveryRequestReturns
    ImplementsPaymentBook
    EveryPaymentReturns
