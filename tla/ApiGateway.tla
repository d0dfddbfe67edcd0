----------------------------- MODULE ApiGateway -----------------------------
(***************************************************************************)
(* The way of an HTTP request: the routes and controllers of the gateway,  *)
(* GrpcService.call with its timers, the interceptor in front of a         *)
(* service's handlers, and the tokens both sides check.  Of the services   *)
(* only what a login reads and what changes it is modelled.                *)
(***************************************************************************)
EXTENDS Naturals

CONSTANTS
    Requests,      \* HTTP requests
    Tried,         \* the routes they take
    Users,         \* accounts of the user service
    RoleSets,      \* lists of roles an account may have
    Setups,        \* ways to deploy the system
    ConnectLimit,  \* ticks until getClient gives up (3s)
    CallLimit,     \* ticks until call gives up (10s)
    TokenLife,     \* ticks a token is valid (JWT_EXPIRES_IN)
    MaxClock,      \* bound on the time
    Nil            \* no token, no account, no user

ASSUME NilAssumption == Nil \notin Users \cup Nat
ASSUME TimesAssumption ==
    /\ ConnectLimit \in Nat /\ CallLimit \in Nat
    /\ TokenLife \in Nat /\ MaxClock \in Nat
\* cookies: req.cookies exists; protos: the names <<package, service>> the
\* proto files declare; sharedSecret: gateway and services have one JWT_SECRET.
ASSUME SetupsAssumption ==
    \A s \in Setups : s.cookies \in BOOLEAN /\ s.sharedSecret \in BOOLEAN
ASSUME RoleSetsAssumption == Nil \notin RoleSets

VARIABLES
    setup,    \* the deployment, which never changes
    clock,    \* the time
    account,  \* account[u]: roles and isActive of u in the users table, or Nil
    tokens,   \* the tokens the gateway has signed
    request,  \* request[q]: where the gateway stands with q, and its answer
    call,     \* call[q]: where the service stands with the call made for q
    lostAt    \* history: lostAt[u][r] is when u last lost the role r, or Nil

vars == <<setup, clock, account, tokens, request, call, lostAt>>

----------------------------------------------------------------------------
(* Tables: who may do what, and which call a route ends in.                *)

\* Two tables with different keys make one.
f ++ g == [x \in DOMAIN f \cup DOMAIN g |-> IF x \in DOMAIN f THEN f[x] ELSE g[x]]

RoleGroup ==
    LET Managers == {"CrmAdministrator", "SystemOwner", "OperationsManager"}
        Sellers  == {"SalesRepresentative", "SalesManager", "AccountManager",
                     "LeadQualifierSdr", "BusinessDevelopmentRepresentative",
                     "InsideSalesRepresentative", "FieldSalesRepresentative",
                     "SalesCoordinator", "PartnerUser", "ClientPortalUser"}
        Readers  == {"SupportManager", "CustomerSuccessManager",
                     "ExecutiveDirector", "DataAnalyst", "ReadOnlyUser"}
    IN [UserManagement |-> Managers \cup {"SecurityAdministrator"},
        UserRead |-> Managers \cup Readers \cup
            {"SecurityAdministrator", "SalesManager", "MarketingManager",
             "DataSteward", "Auditor"},
        ProductRead |-> Managers \cup Sellers \cup Readers \cup
            {"SalesOperationsAnalyst", "CustomerSupportAgent", "MarketingUser",
             "MarketingManager", "VendorUser"},
        ProductWrite |-> Managers \cup
            {"SalesOperationsAnalyst", "SalesCoordinator", "VendorUser"},
        OrderCreate |-> Sellers \cup {"CrmAdministrator"},
        OrderRead |-> Managers \cup Sellers \cup Readers \cup
            {"SalesOperationsAnalyst", "CustomerSupportAgent", "TicketAgent",
             "EscalationSpecialist", "Auditor"}]

\* Some role of the list is one of the group.
Allows(group, roles) == RoleGroup[group] \cap roles # {}

Open == "open"   \* no token needed
Route(group, validated) == [group |-> group, validated |-> validated]

AuthRoutes == [
    register |-> Route(Open, TRUE),
    login    |-> Route(Open, TRUE)]
UserRoutes == [
    getUser        |-> Route("UserRead", FALSE),
    getUserByEmail |-> Route("UserRead", FALSE),
    updateUser     |-> Route("UserManagement", TRUE),
    deleteUser     |-> Route("UserManagement", FALSE)]
ProductRoutes == [
    createProduct |-> Route("ProductWrite", TRUE),
    getProducts   |-> Route("ProductRead", FALSE),
    getProduct    |-> Route("ProductRead", FALSE),
    updateProduct |-> Route("ProductWrite", TRUE),
    updateStock   |-> Route("ProductWrite", TRUE),
    deleteProduct |-> Route("ProductWrite", FALSE)]
\* Mutant: the route that places an order asks for the roles that read one.
OrderRoutes_ReadersCreate == [
    createOrder       |-> Route("OrderRead", TRUE),
    getOrderById      |-> Route("OrderRead", FALSE),
    getOrdersByUserId |-> Route("OrderRead", FALSE)]
OrderRoutes == [
    createOrder       |-> Route("OrderCreate", TRUE),
    getOrderById      |-> Route("OrderRead", FALSE),
    getOrdersByUserId |-> Route("OrderRead", FALSE)]
Routes == AuthRoutes ++ UserRoutes ++ ProductRoutes ++ OrderRoutes

ASSUME TriedAssumption == Tried \subseteq DOMAIN Routes

\* A handler awaits a method of its client and answers with a status.
Handler(method, ok) == [method |-> method, ok |-> ok]

AuthController == [
    register |-> Handler("createUser", 201),
    login    |-> Handler("validateUser", 200)]
UserController == [
    getUser        |-> Handler("getUser", 200),
    getUserByEmail |-> Handler("getUserByEmail", 200),
    updateUser     |-> Handler("updateUser", 200),
    deleteUser     |-> Handler("deleteUser", 200)]
ProductController == [
    createProduct |-> Handler("createProduct", 201),
    getProducts   |-> Handler("getProducts", 200),
    getProduct    |-> Handler("getProduct", 200),
    updateProduct |-> Handler("updateProduct", 200),
    updateStock   |-> Handler("updateStock", 200),
    deleteProduct |-> Handler("deleteProduct", 200)]
OrderController == [
    createOrder       |-> Handler("createOrder", 201),
    getOrderById      |-> Handler("getOrderById", 200),
    getOrdersByUserId |-> Handler("getOrdersByUserId", 200)]
Controllers ==
    AuthController ++ UserController ++ ProductController ++ OrderController

\* A client looks up a service under a namespace and calls a method of it.
Rpc(namespace, service, method) ==
    [name |-> <<namespace, service>>, method |-> method]

UserServiceClient ==
    LET User(m) == Rpc("UserService", "User", m) IN [
    createUser     |-> User("CreateUser"),
    validateUser   |-> User("ValidateUser"),
    getUser        |-> User("GetUser"),
    getUserByEmail |-> User("GetUserByEmail"),
    updateUser     |-> User("UpdateUser"),
    deleteUser     |-> User("DeleteUser")]
ProductServiceClient ==
    LET Product(m) == Rpc("ProductService", "Product", m) IN [
    createProduct |-> Product("CreateProduct"),
    getProducts   |-> Product("GetProducts"),
    getProduct    |-> Product("GetProduct"),
    updateProduct |-> Product("UpdateProduct"),
    updateStock   |-> Product("UpdateStock"),
    deleteProduct |-> Product("DeleteProduct")]
OrderServiceClient ==
    LET Order(m) == Rpc("OrderService", "Order", m) IN [
    createOrder       |-> Order("CreateOrder"),
    getOrderById      |-> Order("GetOrder"),
    getOrdersByUserId |-> Order("GetUserOrders")]
Clients == UserServiceClient ++ ProductServiceClient ++ OrderServiceClient

RpcOf(route) == Clients[Controllers[route].method]

\* The group each service's interceptor asks for.
UserServiceGroups == [
    CreateUser |-> Open, ValidateUser |-> Open,
    GetUser |-> "UserRead", GetUserByEmail |-> "UserRead",
    UpdateUser |-> "UserManagement", DeleteUser |-> "UserManagement"]
ProductServiceGroups == [
    GetProduct |-> "ProductRead", GetProducts |-> "ProductRead",
    CreateProduct |-> "ProductWrite", UpdateProduct |-> "ProductWrite",
    UpdateStock |-> "ProductWrite", DeleteProduct |-> "ProductWrite"]
OrderServiceGroups == [
    CreateOrder |-> "OrderCreate",
    GetOrder |-> "OrderRead", GetUserOrders |-> "OrderRead"]
ServiceGroups ==
    UserServiceGroups ++ ProductServiceGroups ++ OrderServiceGroups

----------------------------------------------------------------------------
Waiting == {"connecting", "calling"}
NoCall == [at |-> "none", code |-> "none", roles |-> Nil]

Init ==
    /\ setup \in Setups
    /\ clock = 0
    /\ account \in [Users -> [roles : RoleSets, isActive : {TRUE}]]
    /\ tokens = {}
    /\ request = [q \in Requests |->
                    [at |-> "new", route |-> Nil, user |-> Nil, due |-> 0, status |-> 0]]
    /\ call = [q \in Requests |-> NoCall]
    /\ lostAt = [u \in Users |-> [r \in UNION RoleSets |-> Nil]]

\* Mutant: a token is good for ever.
Verifies_Forever(t) == t # Nil

\* jwt.verify: a token was signed and has not expired.
Verifies(t) == t # Nil /\ clock < t.issued + TokenLife

Answer(q, status) ==
    request' = [request EXCEPT ![q].at = "answered", ![q].status = status]

----------------------------------------------------------------------------
(* In front of a controller.                                               *)

Pass == 0

\* authenticateToken, authorize, validateRequest.  Reading the token of
\* undefined cookies throws, and so does jwt.verify without a good token;
\* neither is a CustomError, which makes it a 500.
Gate(route, t, valid) ==
    LET group == Routes[route].group IN
    IF group # Open /\ ~(setup.cookies /\ Verifies(t)) THEN 500
    ELSE IF group # Open /\ ~Allows(group, t.roles) THEN 403
    ELSE IF Routes[route].validated /\ ~valid THEN 400
    ELSE Pass

\* getClient: throws when the proto file does not declare the name, or waits
\* for the connection.
GetClient(q, route, u) ==
    IF RpcOf(route).name \in setup.protos
    THEN request' = [request EXCEPT ![q] =
            [at |-> "connecting", route |-> route, user |-> u,
             due |-> clock + ConnectLimit, status |-> 0]]
    ELSE Answer(q, 500)

\* A request for a route, with the token t if any and a body that is valid or
\* not; a login is for the user u.  No await until the connection's.  A bound
\* of the model: no request comes too late for its timers.
Arrive(q, route, u, t, valid) ==
    LET refusal == Gate(route, t, valid) IN
    /\ request[q].at = "new"
    /\ clock + ConnectLimit + CallLimit <= MaxClock
    /\ \/ Answer(q, 429)     \* the rate limiter, ahead of everything
       \/ refusal # Pass /\ Answer(q, refusal)
       \/ refusal = Pass /\ GetClient(q, route, u)
    /\ UNCHANGED <<setup, clock, account, tokens, call, lostAt>>

----------------------------------------------------------------------------
(* GrpcService.call.                                                       *)

\* The connection is there: the call goes out, without metadata.
ClientReady(q) ==
    /\ request[q].at = "connecting"
    /\ request' = [request EXCEPT ![q].at = "calling", ![q].due = clock + CallLimit]
    /\ call' = [call EXCEPT ![q].at = "sent"]
    /\ UNCHANGED <<setup, clock, account, tokens, lostAt>>

ConnectTimeout(q) ==
    /\ request[q].at = "connecting" /\ clock >= request[q].due
    /\ Answer(q, 500)
    /\ UNCHANGED <<setup, clock, account, tokens, call, lostAt>>

\* Mutant: call waits for the service however long it takes.
CallTimeout_Never(q) == FALSE /\ UNCHANGED vars

\* The promise is rejected; the call itself goes on.
CallTimeout(q) ==
    /\ request[q].at = "calling" /\ clock >= request[q].due
    /\ Answer(q, 500)
    /\ UNCHANGED <<setup, clock, account, tokens, call, lostAt>>

\* Mutant: the token is signed whatever the user service said.
SignToken_Unchecked(q) ==
    tokens' = tokens \cup
        {[user |-> request[q].user, roles |-> call[q].roles, issued |-> clock]}

\* login signs the roles of the answer into a token.
SignToken(q) ==
    IF request[q].route = "login" /\ call[q].code = "OK"
    THEN tokens' = tokens \cup
            {[user |-> request[q].user, roles |-> call[q].roles, issued |-> clock]}
    ELSE UNCHANGED tokens

\* Mutant: an error of the service is an answer like any other.
Settle_IgnoresError(q) ==
    /\ Answer(q, Controllers[request[q].route].ok)
    /\ SignToken(q)

\* The controller goes on: errors of gRPC are no CustomError either.
Settle(q) ==
    /\ Answer(q, IF call[q].code = "OK" THEN Controllers[request[q].route].ok
                 ELSE 500)
    /\ SignToken(q)

\* Mutant: an answer that comes late is sent all the same.
Reply_Late(q) ==
    /\ call[q].at = "served"
    /\ call' = [call EXCEPT ![q].at = "over"]
    /\ Settle(q)
    /\ UNCHANGED <<setup, clock, account, lostAt>>

\* The callback of the call; a promise that is settled stays as it is.
Reply(q) ==
    /\ call[q].at = "served"
    /\ call' = [call EXCEPT ![q].at = "over"]
    /\ IF request[q].at = "calling" THEN Settle(q)
       ELSE UNCHANGED <<request, tokens>>
    /\ UNCHANGED <<setup, clock, account, lostAt>>

----------------------------------------------------------------------------
(* The services.                                                           *)

\* authUnaryInterceptor: what it answers, or "next" to let the handler run.
Intercept(method, t) ==
    IF ServiceGroups[method] = Open THEN "next"
    ELSE IF ~(setup.sharedSecret /\ Verifies(t)) THEN "UNAUTHENTICATED"
    ELSE IF ~Allows(ServiceGroups[method], t.roles) THEN "PERMISSION_DENIED"
    ELSE "next"

\* What validateUser may answer for u: the password is right or wrong.
LoginResults(u) ==
    IF account[u] = Nil THEN {[code |-> "INTERNAL", roles |-> Nil]}
    ELSE {[code |-> "PERMISSION_DENIED", roles |-> Nil]} \cup
         {[code |-> "OK", roles |-> row.roles] :
             row \in {a \in {account[u]} : a.isActive}}

\* What the service may answer.  createUser only fails, see UserService!Check.
Results(q) ==
    LET method == RpcOf(request[q].route).method
        verdict == Intercept(method, Nil)
    IN IF verdict # "next" THEN {[code |-> verdict, roles |-> Nil]}
       ELSE IF method = "ValidateUser" THEN LoginResults(request[q].user)
       ELSE {[code |-> "INTERNAL", roles |-> Nil]}

\* The service takes up a call, also one the gateway has given up.
Serve(q) ==
    /\ call[q].at = "sent"
    /\ \E r \in Results(q) :
         call' = [call EXCEPT ![q] = [at |-> "served", code |-> r.code, roles |-> r.roles]]
    /\ UNCHANGED <<setup, clock, account, tokens, request, lostAt>>

\* The service or the connection breaks down before the answer is there.
ServiceFails(q) ==
    /\ call[q].at \in {"sent", "served"} /\ call[q].code # "UNAVAILABLE"
    /\ call' = [call EXCEPT ![q] =
                  [at |-> "served", code |-> "UNAVAILABLE", roles |-> Nil]]
    /\ UNCHANGED <<setup, clock, account, tokens, request, lostAt>>

RolesOf(row) == IF row = Nil THEN {} ELSE IF row.isActive THEN row.roles ELSE {}

\* The account of u changes; roles it no longer gives are lost now.
ChangeAccount(u, row) ==
    /\ account' = [account EXCEPT ![u] = row]
    /\ lostAt' = [lostAt EXCEPT ![u] = [r \in DOMAIN @ |->
                    IF r \in RolesOf(account[u]) \ RolesOf(row) THEN clock ELSE @[r]]]
    /\ UNCHANGED <<setup, clock, tokens, request, call>>

\* A gRPC client that sends the token itself.
UpdateUser(t, u, row) ==
    /\ Intercept("UpdateUser", t) = "next"
    /\ account[u] # Nil
    /\ ChangeAccount(u, row)

DeleteUser(t, u) ==
    /\ Intercept("DeleteUser", t) = "next"
    /\ account[u] # Nil
    /\ ChangeAccount(u, Nil)

----------------------------------------------------------------------------
\* Time passes, but no timer is late by a tick.
Tick ==
    /\ clock < MaxClock
    /\ \A q \in Requests : request[q].at \in Waiting => clock < request[q].due
    /\ clock' = clock + 1
    /\ UNCHANGED <<setup, account, tokens, request, call, lostAt>>

Timers(q) == ConnectTimeout(q) \/ CallTimeout(q)

Next ==
    \/ \E q \in Requests :
         \/ \E route \in Tried, u \in Users, t \in tokens \cup {Nil}, valid \in BOOLEAN :
              Arrive(q, route, u, t, valid)
         \/ ClientReady(q) \/ Timers(q) \/ Reply(q)
         \/ Serve(q) \/ ServiceFails(q)
    \/ \E t \in tokens, u \in Users :
         \/ \E row \in [roles : RoleSets, isActive : BOOLEAN] : UpdateUser(t, u, row)
         \/ DeleteUser(t, u)
    \/ Tick

(* Fairness: time passes and timers fire.  Nothing is assumed of services  *)
(* and connections.                                                        *)
Spec ==
    /\ Init /\ [][Next]_vars
    /\ WF_vars(Tick)
    /\ \A q \in Requests : WF_vars(Timers(q))

----------------------------------------------------------------------------
Status == {0, 200, 201, 400, 403, 429, 500}
Codes == {"none", "OK", "INTERNAL", "PERMISSION_DENIED", "UNAUTHENTICATED", "UNAVAILABLE"}
Token == [user : Users, roles : RoleSets, issued : Nat]

\* The deployment, the accounts, the tokens and the calls are what they may be.
TypeOK ==
    /\ setup \in Setups
    /\ clock \in 0..MaxClock
    /\ account \in [Users -> [roles : RoleSets, isActive : BOOLEAN] \cup {Nil}]
    /\ tokens \subseteq Token
    /\ request \in [Requests -> [at : {"new", "answered"} \cup Waiting,
                                 route : Tried \cup {Nil}, user : Users \cup {Nil},
                                 due : Nat, status : Status]]
    /\ call \in [Requests -> [at : {"none", "sent", "served", "over"}, code : Codes,
                              roles : RoleSets \cup {Nil}]]
    /\ lostAt \in [Users -> [UNION RoleSets -> Nat \cup {Nil}]]

\* A request is answered with a success only when the service did what it
\* asks for, and one that is refused before its controller never reaches a
\* service, however late the service and the timers are.
AnswersFitCalls ==
    \A q \in Requests :
        /\ request[q].status \in {200, 201} => call[q].at = "over" /\ call[q].code = "OK"
        /\ request[q].status \in {400, 403, 429} => call[q] = NoCall

\* u has the role r, or had it less than n ticks ago.
HeldWithin(n, u, r) ==
    \/ r \in RolesOf(account[u])
    \/ lostAt[u][r] # Nil /\ clock < lostAt[u][r] + n

\* Tokens are checked without a look at the account: what its user has lost
\* since, a token may still grant, but no longer than it lives and the login
\* that brought it took.
StaleRolesExpire ==
    \A t \in tokens : Verifies(t) =>
        \A r \in t.roles : HeldWithin(TokenLife + CallLimit, t.user, r)

\* The two tables of groups agree: the gateway lets a token pass to a route
\* exactly if the service, given it, would run the handler behind the route.
GatesAgree ==
    setup.cookies /\ setup.sharedSecret =>
        \A t \in tokens, route \in DOMAIN Routes :
            Gate(route, t, TRUE) = Pass <=> Intercept(RpcOf(route).method, t) = "next"

\* A request has one answer: what comes after it, the late answer of the
\* service or a timer, changes nothing and signs no token.
AnsweredOnce ==
    [][/\ \A q \in Requests : request[q].at = "answered" => request'[q] = request[q]
       /\ tokens' # tokens => \E q \in Requests :
            request[q].at = "calling" /\ request'[q].status = 200]_vars

\* Every request is answered, whether or not services and connections are.
EveryRequestAnswered ==
    \A q \in Requests : request[q].at \in Waiting ~> request[q].at = "answered"
=============================================================================
