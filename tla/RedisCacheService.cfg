SPECIFICATION Spec
CONSTANTS
    k1 = k1
    r1 = r1
    Keys = {k1}
    Readers = {r1}
    MaxWrites = 3
    MaxFaults = 3
INVARIANTS
    TypeOK
    AppliedInOrder
    AnswerIsLatest
    FlagTellsConnection
PROPERTY EveryGetAnswered
