\* Two calls and the consumer on one product: their races and one fault.
SPECIFICATION Spec
CONSTANTS
    p1 = p1
    h1 = h1
    h2 = h2
    Products = {p1}
    Handlers = {h1, h2}
    Consumer = Consumer
    Stocks = {1, 2}
    OrderEvents <- OneProductOrders
    MaxEvents = 2
    MaxFaults = 1
    Nil = Nil
SYMMETRY HandlerSymmetry
INVARIANTS
    TypeOK
    StockNeverNegative
    UndisturbedCacheCoherent
PROPERTIES
    DeletedStaysDeleted
    UndisturbedDeduction
