\* A service that is served every message, or whose start failed, may stop here.
CHECK_DEADLOCK FALSE
SPECIFICATION Spec
CONSTANTS
    MaxMessages = 3
    MaxFaults = 3
    Nil = Nil
INVARIANTS
    TypeOK
    OneSubscriber
PROPERTIES
    DeliverySpec
    EventuallySubscribed
    EveryMessagePasses
