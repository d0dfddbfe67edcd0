\* The code against what it says of itself; no fault is needed.
SPECIFICATION Spec
CONSTANTS
    p1 = p1
    h1 = h1
    h2 = h2
    Products = {p1}
    Handlers = {h1}
    Consumer = Consumer
    Stocks = {1, 2}
    OrderEvents <- OneProductOrders
    MaxEvents = 1
    MaxFaults = 0
    Nil = Nil
PROPERTY DeductsFromCurrentStock
