SPECIFICATION Spec
CONSTANTS
    Events = {e1, e2, e3}
    MaxCopies = 2
INVARIANTS
    TypeOK
    WaitersHaveAttempt
    PublishedMeansStored
    DroppedNeverSent
PROPERTY BestEffortSpec
CHECK_DEADLOCK FALSE
