SPECIFICATION Spec
CONSTANTS
    u1 = u1
    q1 = q1
    q2 = q2
    Requests = {q1, q2}
    Users = {u1}
    Tried <- SomeRoutes
    RoleSets <- SomeRoleSets
    Setups <- BothSetups
    ConnectLimit = 1
    CallLimit = 1
    TokenLife = 2
    MaxClock = 5
    Nil = Nil
INVARIANTS
    TypeOK
    AnswersFitCalls
    StaleRolesExpire
    GatesAgree
PROPERTIES
    AnsweredOnce
    EveryRequestAnswered
CHECK_DEADLOCK FALSE
