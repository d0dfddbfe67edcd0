SPECIFICATION Spec
CONSTANTS
    Events = {e1, e2, e3}
    MaxCopies = 2
PROPERTY LazyConnectAttempted
CHECK_DEADLOCK FALSE
