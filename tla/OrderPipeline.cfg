SPECIFICATION Spec
CONSTANTS
    o1 = o1
    o2 = o2
    p1 = p1
    p2 = p2
    p3 = p3
    Orders = {o1, o2}
    Products = {p1, p2, p3}
    Placing = {h1}
    Consumer = Consumer
    ItemsOf <- TwoOrders
    InitialStocks <- SomeStocks
    MaxCopies = 2
    MaxEvents = 3
    MaxFaults = 1
    Nil = Nil
INVARIANTS
    TypeOK
    OnlySavedOrdersDeduct
    DeductedPerDelivery
    StockAccounted
    HandledMeansSettled
PROPERTIES
    RefusedForStock
    EveryEventHandled
CHECK_DEADLOCK FALSE
