SPECIFICATION Spec
CONSTANTS
    Orders = {o1, o2}
    Handlers = {h1, h2}
    MaxCopies = 2
    MaxFaults = 2
    Nil = Nil
INVARIANTS
    TypeOK
    EventHasOrder
    SavedIsPublished
PROPERTY EveryCallAnswered
