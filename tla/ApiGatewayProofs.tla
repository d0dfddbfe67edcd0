-------------------------- MODULE ApiGatewayProofs --------------------------
(***************************************************************************)
(* What ApiGateway says of requests, tokens and roles holds for any        *)
(* requests, accounts, deployments and limits.                             *)
(***************************************************************************)
EXTENDS ApiGateway, TLAPS

----------------------------------------------------------------------------
(* The tables.                                                             *)

RouteNames ==
    {"register", "login",
     "getUser", "getUserByEmail", "updateUser", "deleteUser",
     "createProduct", "getProducts", "getProduct", "updateProduct", "updateStock",
     "deleteProduct",
     "createOrder", "getOrderById", "getOrdersByUserId"}

LEMMA RoutesDomain == DOMAIN Routes = RouteNames
  BY DEF Routes, AuthRoutes, UserRoutes, ProductRoutes, OrderRoutes, RouteNames, ++

LEMMA LoginTable == Controllers["login"].ok = 200
  BY DEF Controllers, AuthController, UserController, ProductController,
         OrderController, Handler, ++

LEMMA OkTable == \A route \in DOMAIN Routes : Controllers[route].ok \in {200, 201}
<1> SUFFICES ASSUME NEW route \in RouteNames PROVE Controllers[route].ok \in {200, 201}
  BY RoutesDomain
<1> QED
  BY DEF RouteNames, Controllers, AuthController, UserController, ProductController,
         OrderController, Handler, ++

\* A route asks for the group of the call it ends in.
SameGroup(route) == Routes[route].group = ServiceGroups[RpcOf(route).method]

LEMMA AuthGroups == \A route \in DOMAIN AuthRoutes : SameGroup(route)
<1> DEFINE routes == {"register", "login"}
           methods == {"createUser", "validateUser"}
           rpcs == {"CreateUser", "ValidateUser"}
<1> SUFFICES ASSUME NEW route \in routes PROVE SameGroup(route)
  BY DEF AuthRoutes
<1>1. Routes[route] = AuthRoutes[route] /\ Controllers[route] = AuthController[route]
  BY DEF Routes, AuthRoutes, UserRoutes, ProductRoutes, OrderRoutes, Controllers,
         AuthController, UserController, ProductController, OrderController, ++
<1>2. AuthController[route].method \in methods
  BY DEF AuthController, Handler
<1>3. \A m \in methods : Clients[m] = UserServiceClient[m]
  BY DEF Clients, UserServiceClient, ProductServiceClient, OrderServiceClient, ++
<1>4. \A m \in methods : UserServiceClient[m].method \in rpcs
  BY DEF UserServiceClient, Rpc
<1>5. \A m \in rpcs : ServiceGroups[m] = UserServiceGroups[m]
  BY DEF ServiceGroups, UserServiceGroups, ProductServiceGroups, OrderServiceGroups, ++
<1>6. AuthRoutes[route].group = UserServiceGroups[UserServiceClient[AuthController[route].method].method]
  BY DEF AuthRoutes, Route, UserServiceGroups, UserServiceClient, Rpc, AuthController, Handler
<1> QED
  BY <1>1, <1>2, <1>3, <1>4, <1>5, <1>6 DEF SameGroup, RpcOf

LEMMA UserGroups == \A route \in DOMAIN UserRoutes : SameGroup(route)
<1> DEFINE routes == {"getUser", "getUserByEmail", "updateUser", "deleteUser"}
           methods == {"getUser", "getUserByEmail", "updateUser", "deleteUser"}
           rpcs == {"GetUser", "GetUserByEmail", "UpdateUser", "DeleteUser"}
<1> SUFFICES ASSUME NEW route \in routes PROVE SameGroup(route)
  BY DEF UserRoutes
<1>1. Routes[route] = UserRoutes[route] /\ Controllers[route] = UserController[route]
  BY DEF Routes, AuthRoutes, UserRoutes, ProductRoutes, OrderRoutes, Controllers,
         AuthController, UserController, ProductController, OrderController, ++
<1>2. UserController[route].method \in methods
  BY DEF UserController, Handler
<1>3. \A m \in methods : Clients[m] = UserServiceClient[m]
  BY DEF Clients, UserServiceClient, ProductServiceClient, OrderServiceClient, ++
<1>4. \A m \in methods : UserServiceClient[m].method \in rpcs
  BY DEF UserServiceClient, Rpc
<1>5. \A m \in rpcs : ServiceGroups[m] = UserServiceGroups[m]
  BY DEF ServiceGroups, UserServiceGroups, ProductServiceGroups, OrderServiceGroups, ++
<1>6. UserRoutes[route].group = UserServiceGroups[UserServiceClient[UserController[route].method].method]
  BY DEF UserRoutes, Route, UserServiceGroups, UserServiceClient, Rpc, UserController, Handler
<1> QED
  BY <1>1, <1>2, <1>3, <1>4, <1>5, <1>6 DEF SameGroup, RpcOf

LEMMA ProductGroups == \A route \in DOMAIN ProductRoutes : SameGroup(route)
<1> DEFINE routes == {"createProduct", "getProducts", "getProduct",
                     "updateProduct", "updateStock", "deleteProduct"}
           methods == {"createProduct", "getProducts", "getProduct",
                      "updateProduct", "updateStock", "deleteProduct"}
           rpcs == {"CreateProduct", "GetProducts", "GetProduct",
                   "UpdateProduct", "UpdateStock", "DeleteProduct"}
<1> SUFFICES ASSUME NEW route \in routes PROVE SameGroup(route)
  BY DEF ProductRoutes
<1>1. Routes[route] = ProductRoutes[route] /\ Controllers[route] = ProductController[route]
  BY DEF Routes, AuthRoutes, UserRoutes, ProductRoutes, OrderRoutes, Controllers,
         AuthController, UserController, ProductController, OrderController, ++
<1>2. ProductController[route].method \in methods
  BY DEF ProductController, Handler
<1>3. \A m \in methods : Clients[m] = ProductServiceClient[m]
  BY DEF Clients, UserServiceClient, ProductServiceClient, OrderServiceClient, ++
<1>4. \A m \in methods : ProductServiceClient[m].method \in rpcs
  BY DEF ProductServiceClient, Rpc
<1>5. \A m \in rpcs : ServiceGroups[m] = ProductServiceGroups[m]
  BY DEF ServiceGroups, UserServiceGroups, ProductServiceGroups, OrderServiceGroups, ++
<1>6. ProductRoutes[route].group = ProductServiceGroups[ProductServiceClient[ProductController[route].method].method]
  BY DEF ProductRoutes, Route, ProductServiceGroups, ProductServiceClient, Rpc, ProductController, Handler
<1> QED
  BY <1>1, <1>2, <1>3, <1>4, <1>5, <1>6 DEF SameGroup, RpcOf

LEMMA OrderGroups == \A route \in DOMAIN OrderRoutes : SameGroup(route)
<1> DEFINE routes == {"createOrder", "getOrderById", "getOrdersByUserId"}
           methods == {"createOrder", "getOrderById", "getOrdersByUserId"}
           rpcs == {"CreateOrder", "GetOrder", "GetUserOrders"}
<1> SUFFICES ASSUME NEW route \in routes PROVE SameGroup(route)
  BY DEF OrderRoutes
<1>1. Routes[route] = OrderRoutes[route] /\ Controllers[route] = OrderController[route]
  BY DEF Routes, AuthRoutes, UserRoutes, ProductRoutes, OrderRoutes, Controllers,
         AuthController, UserController, ProductController, OrderController, ++
<1>2. OrderController[route].method \in methods
  BY DEF OrderController, Handler
<1>3. \A m \in methods : Clients[m] = OrderServiceClient[m]
  BY DEF Clients, UserServiceClient, ProductServiceClient, OrderServiceClient, ++
<1>4. \A m \in methods : OrderServiceClient[m].method \in rpcs
  BY DEF OrderServiceClient, Rpc
<1>5. \A m \in rpcs : ServiceGroups[m] = OrderServiceGroups[m]
  BY DEF ServiceGroups, UserServiceGroups, ProductServiceGroups, OrderServiceGroups, ++
<1>6. OrderRoutes[route].group = OrderServiceGroups[OrderServiceClient[OrderController[route].method].method]
  BY DEF OrderRoutes, Route, OrderServiceGroups, OrderServiceClient, Rpc, OrderController, Handler
<1> QED
  BY <1>1, <1>2, <1>3, <1>4, <1>5, <1>6 DEF SameGroup, RpcOf

LEMMA GroupsTable == \A route \in DOMAIN Routes : SameGroup(route)
  BY AuthGroups, UserGroups, ProductGroups, OrderGroups DEF Routes, ++

\* Table against table: what the routes let pass, the services would run.
LEMMA GatesFit == GatesAgree
<1> SUFFICES ASSUME setup.cookies, setup.sharedSecret,
                    NEW t \in tokens, NEW route \in DOMAIN Routes
             PROVE  Gate(route, t, TRUE) = Pass <=> Intercept(RpcOf(route).method, t) = "next"
  BY DEF GatesAgree
<1>1. Routes[route].group = ServiceGroups[RpcOf(route).method]
  BY GroupsTable DEF SameGroup
<1> QED
  BY <1>1 DEF Gate, Intercept, Pass

----------------------------------------------------------------------------
(* The invariant.                                                          *)

RequestRecord == [at : {"new", "answered"} \cup Waiting,
                  route : Tried \cup {Nil}, user : Users \cup {Nil},
                  due : Nat, status : Status]
CallRecord == [at : {"none", "sent", "served", "over"}, code : Codes,
               roles : RoleSets \cup {Nil}]

WorldOK ==
    /\ setup \in Setups
    /\ clock \in 0..MaxClock
    /\ account \in [Users -> [roles : RoleSets, isActive : BOOLEAN] \cup {Nil}]
    /\ tokens \subseteq Token
    /\ lostAt \in [Users -> [UNION RoleSets -> Nat \cup {Nil}]]
RequestsOK == request \in [Requests -> RequestRecord]
CallsOK == call \in [Requests -> CallRecord]

\* How far a request is, and how far the call made for it (r and c).
Fits(r, c) ==
    /\ r.at \in {"new", "connecting"} => c = NoCall
    /\ r.at = "calling" => c.at \in {"sent", "served"}
    /\ r.at # "answered" => r.status = 0
    /\ r.at = "connecting" \/ c.at # "none" => r.route \in Tried /\ r.user \in Users
    /\ c.code = "OK" => c.at \in {"served", "over"} /\ c.roles \in RoleSets
    /\ r.status \in {200, 201} => c.at = "over" /\ c.code = "OK"
    /\ r.status \in {400, 403, 429} => c = NoCall

StagesFit == \A q \in Requests : Fits(request[q], call[q])

\* No timer is late, and none is set for longer than it may be.
TimersOK ==
    \A q \in Requests : request[q].at = "calling" =>
        clock <= request[q].due /\ request[q].due <= clock + CallLimit

\* u has the role r, or lost it no more than a call before the time i.
HeldAt(i, u, r) ==
    \/ r \in RolesOf(account[u])
    \/ lostAt[u][r] # Nil /\ i <= lostAt[u][r] + CallLimit

TokensHeld ==
    \A t \in tokens : t.issued <= clock /\ \A r \in t.roles : HeldAt(t.issued, t.user, r)

\* The roles a login is about to be answered with will do for a token even
\* if the answer takes all the time it has.
LoginsHeld ==
    \A q \in Requests : request[q].at = "calling" /\ call[q].code = "OK" =>
        \A r \in call[q].roles : HeldAt(request[q].due, request[q].user, r)

IInv == WorldOK /\ RequestsOK /\ CallsOK /\ StagesFit /\ TimersOK /\ TokensHeld /\ LoginsHeld

LEMMA InvImplies == ASSUME IInv PROVE TypeOK /\ AnswersFitCalls
<1>1. TypeOK
  BY DEF IInv, WorldOK, RequestsOK, CallsOK, RequestRecord, CallRecord, TypeOK
<1>2. AnswersFitCalls
  <2> SUFFICES ASSUME NEW q \in Requests
               PROVE  /\ request[q].status \in {200, 201} => call[q].at = "over" /\ call[q].code = "OK"
                      /\ request[q].status \in {400, 403, 429} => call[q] = NoCall
    BY DEF AnswersFitCalls
  <2>1. Fits(request[q], call[q])
    BY DEF IInv, StagesFit
  <2> QED
    BY <2>1 DEF Fits
<1> QED
  BY <1>1, <1>2

LEMMA InvRolesExpire == ASSUME IInv PROVE StaleRolesExpire
<1> SUFFICES ASSUME NEW t \in tokens, Verifies(t), NEW r \in t.roles
             PROVE  HeldWithin(TokenLife + CallLimit, t.user, r)
  BY DEF StaleRolesExpire
<1>1. clock \in Nat /\ TokenLife \in Nat /\ CallLimit \in Nat
  BY TimesAssumption DEF IInv, WorldOK
<1>2. t.user \in Users /\ t.roles \in RoleSets /\ t.issued \in Nat
  BY DEF IInv, WorldOK, Token
<1>3. lostAt[t.user][r] \in Nat \cup {Nil}
  BY <1>2 DEF IInv, WorldOK
<1>4. clock < t.issued + TokenLife
  BY DEF Verifies
<1>5. HeldAt(t.issued, t.user, r)
  BY DEF IInv, TokensHeld
<1> QED
  BY <1>1, <1>2, <1>3, <1>4, <1>5 DEF HeldAt, HeldWithin

----------------------------------------------------------------------------
(* One request moves.                                                      *)

\* What a call being waited for is to have, and a token.
InTime(r, c) ==
    r.at = "calling" =>
        /\ clock <= r.due /\ r.due <= clock + CallLimit
        /\ c.code = "OK" => \A x \in c.roles : HeldAt(r.due, r.user, x)
Granted(t) ==
    t \in Token /\ t.issued <= clock /\ \A x \in t.roles : HeldAt(t.issued, t.user, x)

\* One request and its call go on; accounts and the time stay, and a token
\* that is new is good.
LEMMA RequestMoves ==
    ASSUME IInv, NEW q \in Requests, NEW r \in RequestRecord, NEW c \in CallRecord,
           request' = [request EXCEPT ![q] = r],
           call' = [call EXCEPT ![q] = c],
           Fits(r, c), InTime(r, c),
           \A t \in tokens' : t \in tokens \/ Granted(t),
           UNCHANGED <<setup, clock, account, lostAt>>
    PROVE  IInv'
<1>1. RequestsOK' /\ CallsOK'
  BY DEF IInv, RequestsOK, CallsOK
<1>2. \A p \in Requests : /\ request'[p] = IF p = q THEN r ELSE request[p]
                         /\ call'[p] = IF p = q THEN c ELSE call[p]
  BY DEF IInv, RequestsOK, CallsOK
<1>3. StagesFit'
  BY <1>2 DEF IInv, StagesFit
<1>4. TimersOK'
  BY <1>2 DEF IInv, TimersOK, InTime
<1>5. LoginsHeld'
  BY <1>2 DEF IInv, LoginsHeld, HeldAt, InTime
<1>6. WorldOK'
  BY DEF IInv, WorldOK, Granted
<1>7. TokensHeld'
  BY DEF IInv, TokensHeld, HeldAt, Granted
<1> QED
  BY <1>1, <1>3, <1>4, <1>5, <1>6, <1>7 DEF IInv

LEMMA RequestAlone ==
    ASSUME IInv, NEW q \in Requests, NEW r \in RequestRecord,
           request' = [request EXCEPT ![q] = r],
           Fits(r, call[q]), InTime(r, call[q]),
           UNCHANGED <<setup, clock, account, tokens, call, lostAt>>
    PROVE  IInv'
<1> DEFINE c == call[q]
<1>1. c \in CallRecord /\ call' = [call EXCEPT ![q] = c]
  BY DEF IInv, CallsOK
<1>2. Fits(r, c) /\ InTime(r, c)
  OBVIOUS
<1> HIDE DEF c
<1>3. \A t \in tokens' : t \in tokens \/ Granted(t)
  OBVIOUS
<1> QED
  BY <1>1, <1>2, <1>3, RequestMoves

LEMMA CallAlone ==
    ASSUME IInv, NEW q \in Requests, NEW c \in CallRecord,
           call' = [call EXCEPT ![q] = c],
           Fits(request[q], c), InTime(request[q], c),
           UNCHANGED <<setup, clock, account, tokens, request, lostAt>>
    PROVE  IInv'
<1> DEFINE r == request[q]
<1>1. r \in RequestRecord /\ request' = [request EXCEPT ![q] = r]
  BY DEF IInv, RequestsOK
<1>2. Fits(r, c) /\ InTime(r, c)
  OBVIOUS
<1> HIDE DEF r
<1>3. \A t \in tokens' : t \in tokens \/ Granted(t)
  OBVIOUS
<1> QED
  BY <1>1, <1>2, <1>3, RequestMoves

Answered(r, status) ==
    [at |-> "answered", route |-> r.route, user |-> r.user, due |-> r.due, status |-> status]

LEMMA AnswerRecord ==
    ASSUME RequestsOK, NEW q \in Requests, NEW status \in Status, Answer(q, status)
    PROVE  /\ Answered(request[q], status) \in RequestRecord
           /\ request' = [request EXCEPT ![q] = Answered(request[q], status)]
<1>1. request \in [Requests -> RequestRecord] /\ request[q] \in RequestRecord
  BY DEF RequestsOK
<1>2. Answered(request[q], status) \in RequestRecord
  BY <1>1 DEF RequestRecord, Answered
<1>3. [[request[q] EXCEPT !.at = "answered"] EXCEPT !.status = status]
        = Answered(request[q], status)
  <2>1. [request[q] EXCEPT !.at = "answered"]
          = [at |-> "answered", route |-> request[q].route, user |-> request[q].user,
             due |-> request[q].due, status |-> request[q].status]
    BY <1>1 DEF RequestRecord
  <2> DEFINE r == [at |-> "answered", route |-> request[q].route, user |-> request[q].user,
                   due |-> request[q].due, status |-> request[q].status]
  <2>2. [r EXCEPT !.status = status] = Answered(request[q], status)
    BY DEF Answered
  <2> QED
    BY <2>1, <2>2
<1>4. request' = [request EXCEPT ![q] =
                    [[request[q] EXCEPT !.at = "answered"] EXCEPT !.status = status]]
  BY <1>1 DEF Answer
<1> QED
  BY <1>2, <1>3, <1>4

\* A request is answered without a success, and its call goes no further.
LEMMA Refused ==
    ASSUME IInv, NEW q \in Requests,
           NEW status \in {400, 403, 429, 500}, Answer(q, status),
           status = 500 \/ call[q] = NoCall,
           UNCHANGED <<setup, clock, account, tokens, call, lostAt>>
    PROVE  IInv'
<1> DEFINE r == Answered(request[q], status)
<1>1. status \in Status
  BY DEF Status
<1>2. r \in RequestRecord /\ request' = [request EXCEPT ![q] = r]
  BY <1>1, AnswerRecord DEF IInv
<1>3. /\ r.at = "answered" /\ r.status = status
      /\ r.route = request[q].route /\ r.user = request[q].user
  BY DEF Answered
<1> HIDE DEF r
<1> DEFINE c == call[q]
<1>4. c \in CallRecord /\ call' = [call EXCEPT ![q] = c]
  BY DEF IInv, CallsOK
<1>5. Fits(r, c)
  <2>1. Fits(request[q], c)
    BY DEF IInv, StagesFit
  <2> QED
    BY <1>3, <2>1 DEF Fits, NoCall
<1> HIDE DEF c
<1>6. InTime(r, c)
  BY <1>3 DEF InTime
<1>7. UNCHANGED <<setup, clock, account, lostAt>>
  OBVIOUS
<1>8. \A t \in tokens' : t \in tokens \/ Granted(t)
  OBVIOUS
<1> QED
  BY <1>2, <1>4, <1>5, <1>6, <1>7, <1>8, RequestMoves

----------------------------------------------------------------------------
(* The steps.                                                              *)

LEMMA ArriveStep ==
    ASSUME IInv, NEW q \in Requests, NEW route \in Tried, NEW u \in Users,
           NEW t \in tokens \cup {Nil}, NEW valid \in BOOLEAN,
           Arrive(q, route, u, t, valid)
    PROVE  IInv'
<1>1. request[q].at = "new" /\ UNCHANGED <<setup, clock, account, tokens, call, lostAt>>
  BY DEF Arrive
<1>2. call[q] = NoCall
  BY <1>1 DEF IInv, StagesFit, Fits
<1>3. CASE Answer(q, 429)
  BY <1>1, <1>2, <1>3, Refused
<1>4. CASE Gate(route, t, valid) # Pass /\ Answer(q, Gate(route, t, valid))
  <2>1. Gate(route, t, valid) \in {400, 403, 500}
    BY <1>4 DEF Gate, Pass
  <2> QED
    BY <1>1, <1>2, <1>4, <2>1, Refused
<1>5. CASE GetClient(q, route, u) /\ Answer(q, 500)
  BY <1>1, <1>2, <1>5, Refused
<1>6. CASE request' = [request EXCEPT ![q] =
              [at |-> "connecting", route |-> route, user |-> u,
               due |-> clock + ConnectLimit, status |-> 0]]
  <2> DEFINE r == [at |-> "connecting", route |-> route, user |-> u,
                   due |-> clock + ConnectLimit, status |-> 0]
  <2>1. clock + ConnectLimit \in Nat
    BY TimesAssumption DEF IInv, WorldOK
  <2>2. r \in RequestRecord
    BY <2>1 DEF RequestRecord, Waiting, Status
  <2>3. Fits(r, call[q]) /\ InTime(r, call[q])
    BY <1>2 DEF Fits, InTime, NoCall
  <2> HIDE DEF r
  <2>4. request' = [request EXCEPT ![q] = r]
    BY <1>6 DEF r
  <2> QED
    BY <1>1, <2>2, <2>3, <2>4, RequestAlone
<1> QED
  BY <1>3, <1>4, <1>5, <1>6 DEF Arrive, GetClient

LEMMA ClientReadyStep ==
    ASSUME IInv, NEW q \in Requests, ClientReady(q)
    PROVE  IInv'
<1> DEFINE r == [at |-> "calling", route |-> request[q].route, user |-> request[q].user,
                 due |-> clock + CallLimit, status |-> request[q].status]
           c == [at |-> "sent", code |-> "none", roles |-> Nil]
<1>1. /\ request[q].at = "connecting"
      /\ request \in [Requests -> RequestRecord] /\ request[q] \in RequestRecord
      /\ call \in [Requests -> CallRecord] /\ call[q] = NoCall
      /\ Fits(request[q], call[q])
  BY DEF ClientReady, IInv, StagesFit, Fits, RequestsOK, CallsOK
<1>2. clock \in Nat /\ CallLimit \in Nat /\ clock + CallLimit \in Nat
  BY TimesAssumption DEF IInv, WorldOK
<1>3. request' = [request EXCEPT ![q] = r]
  <2>1. [request[q] EXCEPT !.at = "calling"]
          = [at |-> "calling", route |-> request[q].route, user |-> request[q].user,
             due |-> request[q].due, status |-> request[q].status]
    BY <1>1 DEF RequestRecord
  <2> DEFINE x == [at |-> "calling", route |-> request[q].route, user |-> request[q].user,
                   due |-> request[q].due, status |-> request[q].status]
  <2>2. [x EXCEPT !.due = clock + CallLimit] = r
    OBVIOUS
  <2>3. [[request[q] EXCEPT !.at = "calling"] EXCEPT !.due = clock + CallLimit] = r
    BY <2>1, <2>2
  <2>4. request' = [request EXCEPT ![q] =
          [[request[q] EXCEPT !.at = "calling"] EXCEPT !.due = clock + CallLimit]]
    BY <1>1 DEF ClientReady
  <2> QED
    BY <2>3, <2>4
<1>4. call' = [call EXCEPT ![q] = c]
  <2>1. [call[q] EXCEPT !.at = "sent"] = c
    BY <1>1 DEF NoCall
  <2> QED
    BY <2>1 DEF ClientReady
<1>5. r \in RequestRecord /\ c \in CallRecord
  BY <1>1, <1>2 DEF RequestRecord, CallRecord, Waiting, Codes
<1>6. Fits(r, c) /\ InTime(r, c)
  BY <1>1, <1>2 DEF Fits, InTime
<1> HIDE DEF r, c
<1>7. \A t \in tokens' : t \in tokens \/ Granted(t)
  BY DEF ClientReady
<1>8. UNCHANGED <<setup, clock, account, lostAt>>
  BY DEF ClientReady
<1> QED
  BY <1>3, <1>4, <1>5, <1>6, <1>7, <1>8, RequestMoves

LEMMA TimerStep ==
    ASSUME IInv, NEW q \in Requests, Timers(q)
    PROVE  IInv'
<1>1. Answer(q, 500) /\ UNCHANGED <<setup, clock, account, tokens, call, lostAt>>
  BY DEF Timers, ConnectTimeout, CallTimeout
<1> QED
  BY <1>1, Refused

\* A call is answered and its answer is made something of, or comes too late.
LEMMA ReplyStep ==
    ASSUME IInv, NEW q \in Requests, Reply(q)
    PROVE  IInv'
<1> DEFINE c == [at |-> "over", code |-> call[q].code, roles |-> call[q].roles]
           status == IF call[q].code = "OK" THEN Controllers[request[q].route].ok ELSE 500
<1>1. /\ call[q].at = "served" /\ call[q] \in CallRecord /\ call \in [Requests -> CallRecord]
      /\ Fits(request[q], call[q]) /\ request[q] \in RequestRecord
      /\ UNCHANGED <<setup, clock, account, lostAt>>
  BY DEF Reply, IInv, StagesFit, CallsOK, RequestsOK
<1>2. request[q].at \in {"calling", "answered"}
  BY <1>1 DEF Fits, NoCall, RequestRecord, Waiting
<1>3. call' = [call EXCEPT ![q] = c]
  <2>1. [call[q] EXCEPT !.at = "over"] = c
    BY <1>1 DEF CallRecord
  <2> QED
    BY <2>1 DEF Reply
<1>4. c \in CallRecord
  BY <1>1 DEF CallRecord
<1>5. request[q].route \in Tried /\ request[q].user \in Users
  BY <1>1 DEF Fits
<1>6. CASE request[q].at = "answered"
  <2>1. UNCHANGED <<request, tokens>>
    BY <1>6 DEF Reply
  <2>2. Fits(request[q], c) /\ InTime(request[q], c)
    BY <1>1, <1>6 DEF Fits, InTime, NoCall
  <2> HIDE DEF c
  <2> QED
    BY <1>1, <1>3, <1>4, <2>1, <2>2, CallAlone
<1>7. CASE request[q].at = "calling"
  <2> DEFINE r == Answered(request[q], status)
             token == [user |-> request[q].user, roles |-> call[q].roles, issued |-> clock]
  <2>1. Answer(q, status) /\ SignToken(q)
    BY <1>7 DEF Reply, Settle
  <2>2. Controllers[request[q].route].ok \in {200, 201}
    BY <1>5, OkTable, TriedAssumption
  <2>3. status \in {200, 201, 500} /\ (status # 500 => call[q].code = "OK")
    BY <2>2
  <2> HIDE DEF status
  <2>4. r \in RequestRecord /\ request' = [request EXCEPT ![q] = r]
    BY <2>1, <2>3, AnswerRecord DEF IInv, Status
  <2>5. Fits(r, c) /\ InTime(r, c)
    BY <1>1, <1>5, <2>3 DEF Answered, Fits, InTime
  <2>6. ASSUME NEW t \in tokens' PROVE t \in tokens \/ Granted(t)
    <3>1. CASE t \in tokens
      BY <3>1
    <3>2. CASE t \notin tokens
      <4>1. t = token /\ call[q].code = "OK"
        BY <2>1, <3>2 DEF SignToken
      <4>2. call[q].roles \in RoleSets /\ clock \in Nat /\ CallLimit \in Nat
        BY <1>1, <4>1, TimesAssumption DEF Fits, IInv, WorldOK
      <4>3. ASSUME NEW x \in call[q].roles PROVE HeldAt(clock, request[q].user, x)
        <5>1. HeldAt(request[q].due, request[q].user, x)
          BY <1>7, <4>1, <4>3 DEF IInv, LoginsHeld
        <5>2. clock <= request[q].due /\ request[q].due \in Nat
          BY <1>1, <1>7 DEF IInv, TimersOK, RequestRecord
        <5>3. lostAt[request[q].user][x] \in Nat \cup {Nil}
          BY <1>5, <4>2 DEF IInv, WorldOK
        <5> QED
          BY <4>2, <5>1, <5>2, <5>3 DEF HeldAt
      <4>4. token \in Token /\ token.issued <= clock
        BY <1>5, <4>2 DEF Token
      <4> QED
        BY <4>1, <4>3, <4>4 DEF Granted
    <3> QED
      BY <3>1, <3>2
  <2> HIDE DEF r, c
  <2> QED
    BY <1>1, <1>3, <1>4, <2>4, <2>5, <2>6, RequestMoves
<1> QED
  BY <1>2, <1>6, <1>7

LEMMA ResultsOK ==
    ASSUME NEW q \in Requests, NEW res \in Results(q)
    PROVE  /\ res.code \in Codes /\ (res.code # "OK" => res.roles = Nil)
           /\ LET row == account[request[q].user] IN
              res.code = "OK" => row # Nil /\ row.isActive /\ res.roles = row.roles
<1> DEFINE method == RpcOf(request[q].route).method
           u == request[q].user
<1>1. Intercept(method, Nil) \in {"next", "UNAUTHENTICATED"}
  BY DEF Intercept, Verifies
<1>2. CASE Intercept(method, Nil) # "next"
  BY <1>1, <1>2 DEF Results, Codes
<1>3. CASE res \in LoginResults(u)
  BY <1>3 DEF LoginResults, Codes
<1>4. CASE res = [code |-> "INTERNAL", roles |-> Nil]
  BY <1>4 DEF Codes
<1> QED
  BY <1>2, <1>3, <1>4 DEF Results

LEMMA ServeStep ==
    ASSUME IInv, NEW q \in Requests, Serve(q) \/ ServiceFails(q)
    PROVE  IInv'
<1>0. /\ call[q].at \in {"sent", "served"} /\ Fits(request[q], call[q])
      /\ request[q] \in RequestRecord
      /\ UNCHANGED <<setup, clock, account, tokens, request, lostAt>>
  BY DEF Serve, ServiceFails, IInv, StagesFit, RequestsOK
<1>1. request[q].user \in Users
  BY <1>0 DEF Fits
<1>2. ASSUME NEW code \in Codes, NEW roles \in RoleSets \cup {Nil},
             call' = [call EXCEPT ![q] = [at |-> "served", code |-> code, roles |-> roles]],
             code = "OK" => roles \in RoleSets /\ roles = RolesOf(account[request[q].user])
      PROVE  IInv'
  <2> DEFINE c == [at |-> "served", code |-> code, roles |-> roles]
  <2>1. c \in CallRecord
    BY DEF CallRecord
  <2>2. Fits(request[q], c)
    BY <1>0, <1>2 DEF Fits, NoCall
  <2>3. InTime(request[q], c)
    BY <1>2 DEF InTime, HeldAt, IInv, TimersOK
  <2> HIDE DEF c
  <2>4. call' = [call EXCEPT ![q] = c]
    BY <1>2 DEF c
  <2> QED
    BY <1>0, <2>1, <2>2, <2>3, <2>4, CallAlone
<1>3. CASE ServiceFails(q)
  BY <1>2, <1>3 DEF ServiceFails, Codes
<1>4. CASE Serve(q)
  <2> DEFINE row == account[request[q].user]
  <2>1. PICK res \in Results(q) :
          call' = [call EXCEPT ![q] = [at |-> "served", code |-> res.code, roles |-> res.roles]]
    BY <1>4 DEF Serve
  <2>2. /\ res.code \in Codes /\ (res.code # "OK" => res.roles = Nil)
        /\ res.code = "OK" => row # Nil /\ row.isActive /\ res.roles = row.roles
    BY ResultsOK
  <2>3. row \in [roles : RoleSets, isActive : BOOLEAN] \cup {Nil}
    BY <1>1 DEF IInv, WorldOK
  <2>4. res.code = "OK" => res.roles \in RoleSets /\ res.roles = RolesOf(row)
    BY <2>2, <2>3 DEF RolesOf
  <2> QED
    BY <1>2, <2>1, <2>2, <2>4
<1> QED
  BY <1>3, <1>4

\* What is held within a call's time of now is held after a change.
LEMMA AccountStep ==
    ASSUME IInv, NEW u \in Users,
           NEW row \in [roles : RoleSets, isActive : BOOLEAN] \cup {Nil},
           ChangeAccount(u, row)
    PROVE  IInv'
<1>0. /\ account \in [Users -> [roles : RoleSets, isActive : BOOLEAN] \cup {Nil}]
      /\ lostAt \in [Users -> [UNION RoleSets -> Nat \cup {Nil}]]
      /\ clock \in Nat /\ CallLimit \in Nat /\ Nil \notin Nat
  <2>1. clock \in Nat /\ CallLimit \in Nat
    BY TimesAssumption DEF IInv, WorldOK
  <2>2. Nil \notin Nat
    BY NilAssumption
  <2> QED
    BY <2>1, <2>2 DEF IInv, WorldOK
<1> DEFINE lost == [r \in UNION RoleSets |->
                      IF r \in RolesOf(account[u]) \ RolesOf(row) THEN clock ELSE lostAt[u][r]]
<1>1. account' = [account EXCEPT ![u] = row] /\ lostAt' = [lostAt EXCEPT ![u] = lost]
  BY <1>0 DEF ChangeAccount
<1>2. lost \in [UNION RoleSets -> Nat \cup {Nil}]
  BY <1>0
<1>3. \A x \in UNION RoleSets :
        lost[x] = IF x \in RolesOf(account[u]) \ RolesOf(row) THEN clock ELSE lostAt[u][x]
  OBVIOUS
<1> HIDE DEF lost
<1>4. ASSUME NEW i \in Nat, i <= clock + CallLimit, NEW v \in Users,
             NEW x \in UNION RoleSets, HeldAt(i, v, x)
      PROVE  HeldAt(i, v, x)'
  <2>1. CASE v # u
    <3>1. account'[v] = account[v] /\ lostAt'[v] = lostAt[v]
      BY <1>0, <1>1, <2>1
    <3> QED
      BY <1>4, <3>1 DEF HeldAt
  <2>2. CASE v = u
    <3>1. account'[v] = row /\ lostAt'[v] = lost
      BY <1>0, <1>1, <2>2
    <3> QED
      BY <1>0, <1>3, <1>4, <2>2, <3>1 DEF HeldAt
  <2> QED
    BY <2>1, <2>2
<1>5. UNCHANGED <<setup, clock, tokens, request, call>>
  BY DEF ChangeAccount
<1>6. WorldOK'
  BY <1>0, <1>1, <1>2, <1>5 DEF IInv, WorldOK
<1>7. RequestsOK' /\ CallsOK' /\ StagesFit' /\ TimersOK'
  BY <1>5 DEF IInv, RequestsOK, CallsOK, StagesFit, TimersOK
<1>8. TokensHeld'
  <2> SUFFICES ASSUME NEW t \in tokens
               PROVE  t.issued <= clock /\ \A r \in t.roles : HeldAt(t.issued, t.user, r)'
    BY <1>5 DEF TokensHeld, HeldAt
  <2>1. t.user \in Users /\ t.roles \in RoleSets /\ t.issued \in Nat
    BY DEF IInv, WorldOK, Token
  <2>2. t.issued <= clock /\ \A r \in t.roles : HeldAt(t.issued, t.user, r)
    BY DEF IInv, TokensHeld
  <2>3. t.issued <= clock + CallLimit
    BY <1>0, <2>1, <2>2
  <2> QED
    BY <1>4, <2>1, <2>2, <2>3
<1>9. LoginsHeld'
  <2> SUFFICES ASSUME NEW q \in Requests, request[q].at = "calling", call[q].code = "OK",
                      NEW r \in call[q].roles
               PROVE  HeldAt(request[q].due, request[q].user, r)'
    BY <1>5 DEF LoginsHeld, HeldAt
  <2>1. Fits(request[q], call[q]) /\ request[q] \in RequestRecord
    BY DEF IInv, StagesFit, RequestsOK
  <2>2. call[q].roles \in RoleSets /\ request[q].user \in Users /\ request[q].due \in Nat
    BY <2>1 DEF Fits, RequestRecord
  <2>3. request[q].due <= clock + CallLimit
    BY DEF IInv, TimersOK
  <2>4. HeldAt(request[q].due, request[q].user, r)
    BY DEF IInv, LoginsHeld
  <2>5. request'[q].due = request[q].due /\ request'[q].user = request[q].user
    BY <1>5
  <2> QED
    BY <1>4, <2>2, <2>3, <2>4, <2>5 DEF HeldAt
<1> QED
  BY <1>6, <1>7, <1>8, <1>9 DEF IInv

LEMMA TickStep ==
    ASSUME IInv, Tick
    PROVE  IInv'
<1>1. clock \in Nat /\ MaxClock \in Nat /\ CallLimit \in Nat /\ clock < MaxClock
  BY TimesAssumption DEF IInv, WorldOK, Tick
<1>2. clock' = clock + 1 /\ UNCHANGED <<setup, account, tokens, request, call, lostAt>>
  BY DEF Tick
<1>3. WorldOK'
  <2>1. clock' \in 0..MaxClock
    BY <1>1, <1>2
  <2> QED
    BY <1>2, <2>1 DEF IInv, WorldOK
<1>4. RequestsOK' /\ CallsOK' /\ StagesFit'
  BY <1>2 DEF IInv, RequestsOK, CallsOK, StagesFit
<1>5. TimersOK'
  <2> SUFFICES ASSUME NEW q \in Requests, request[q].at = "calling"
               PROVE  clock + 1 <= request[q].due /\ request[q].due <= clock + 1 + CallLimit
    BY <1>2 DEF TimersOK
  <2>1. request[q].due \in Nat /\ request[q].due <= clock + CallLimit
    BY DEF IInv, RequestsOK, RequestRecord, TimersOK
  <2>2. clock < request[q].due
    BY DEF Tick, Waiting
  <2> QED
    BY <1>1, <2>1, <2>2
<1>6. TokensHeld'
  <2> SUFFICES ASSUME NEW t \in tokens
               PROVE  t.issued <= clock + 1 /\ \A r \in t.roles : HeldAt(t.issued, t.user, r)
    BY <1>2 DEF TokensHeld, HeldAt
  <2>1. t.issued \in Nat /\ t.issued <= clock
    BY DEF IInv, WorldOK, Token, TokensHeld
  <2> QED
    BY <1>1, <2>1 DEF IInv, TokensHeld
<1>7. LoginsHeld'
  BY <1>2 DEF IInv, LoginsHeld, HeldAt
<1> QED
  BY <1>3, <1>4, <1>5, <1>6, <1>7 DEF IInv

LEMMA InitIInv == Init => IInv
<1> SUFFICES ASSUME Init PROVE IInv
  OBVIOUS
<1>1. WorldOK
  <2>1. clock \in 0..MaxClock
    BY TimesAssumption DEF Init
  <2>2. account \in [Users -> [roles : RoleSets, isActive : BOOLEAN] \cup {Nil}]
    BY DEF Init
  <2>3. lostAt \in [Users -> [UNION RoleSets -> Nat \cup {Nil}]]
    BY DEF Init
  <2> QED
    BY <2>1, <2>2, <2>3 DEF Init, WorldOK
<1>2. RequestsOK
  BY DEF Init, RequestsOK, RequestRecord, Status
<1>3. CallsOK
  BY DEF Init, CallsOK, CallRecord, NoCall, Codes
<1>4. StagesFit
  <2> SUFFICES ASSUME NEW q \in Requests PROVE Fits(request[q], call[q])
    BY DEF StagesFit
  <2>1. request[q].at = "new" /\ request[q].status = 0 /\ call[q] = NoCall
    BY DEF Init
  <2> QED
    BY <2>1 DEF Fits, NoCall
<1>5. TimersOK /\ TokensHeld /\ LoginsHeld
  BY DEF Init, TimersOK, TokensHeld, LoginsHeld
<1> QED
  BY <1>1, <1>2, <1>3, <1>4, <1>5 DEF IInv

LEMMA NextIInv == ASSUME IInv, [Next]_vars PROVE IInv'
<1>1. ASSUME NEW q \in Requests,
             \/ \E route \in Tried, u \in Users, t \in tokens \cup {Nil}, valid \in BOOLEAN :
                  Arrive(q, route, u, t, valid)
             \/ ClientReady(q) \/ Timers(q) \/ Reply(q) \/ Serve(q) \/ ServiceFails(q)
      PROVE  IInv'
  BY <1>1, ArriveStep, ClientReadyStep, TimerStep, ReplyStep, ServeStep
<1>2. ASSUME NEW t \in tokens, NEW u \in Users,
             \/ \E row \in [roles : RoleSets, isActive : BOOLEAN] : UpdateUser(t, u, row)
             \/ DeleteUser(t, u)
      PROVE  IInv'
  BY <1>2, AccountStep DEF UpdateUser, DeleteUser
<1>3. CASE UNCHANGED vars
  BY <1>3 DEF vars, IInv, WorldOK, RequestsOK, CallsOK, StagesFit, TimersOK,
              TokensHeld, LoginsHeld, HeldAt
<1> QED
  BY <1>1, <1>2, <1>3, TickStep DEF Next

LEMMA Invariant == Spec => []IInv
<1> QED
  BY InitIInv, NextIInv, PTL DEF Spec

----------------------------------------------------------------------------
\* Deployment, accounts, tokens, requests and calls stay what they may be.
THEOREM TypeCorrect == Spec => []TypeOK
<1>1. IInv => TypeOK
  BY InvImplies
<1> QED
  BY <1>1, Invariant, PTL

\* A success is the service's, and what is refused at the gate never gets to
\* a service, whatever the timers are and however late calls are served.
THEOREM SuccessIsTheServices == Spec => []AnswersFitCalls
<1>1. IInv => AnswersFitCalls
  BY InvImplies
<1> QED
  BY <1>1, Invariant, PTL

\* A token grants a role its user has lost for no longer than TokenLife and
\* CallLimit together, for any values of the two.
THEOREM LostRolesExpire == Spec => []StaleRolesExpire
<1>1. IInv => StaleRolesExpire
  BY InvRolesExpire
<1> QED
  BY <1>1, Invariant, PTL

\* The tables of the gateway and of the services agree on every route.
THEOREM TablesAgree == Spec => []GatesAgree
<1> QED
  BY GatesFit, PTL

----------------------------------------------------------------------------
(* One answer.                                                             *)

OneAnswer ==
    /\ \A q \in Requests : request[q].at = "answered" => request'[q] = request[q]
    /\ tokens' # tokens => \E q \in Requests :
         request[q].at = "calling" /\ request'[q].status = 200

LEMMA AnswerOnce ==
    ASSUME IInv, Next
    PROVE  OneAnswer
<1>0. request \in [Requests -> RequestRecord]
  BY DEF IInv, RequestsOK
<1>1. ASSUME NEW p \in Requests, request[p].at # "answered", UNCHANGED tokens,
             NEW r, request' = [request EXCEPT ![p] = r]
      PROVE  OneAnswer
  BY <1>0, <1>1 DEF OneAnswer
<1>2. ASSUME NEW p \in Requests, request[p].at # "answered", UNCHANGED tokens,
             NEW status \in Status, Answer(p, status)
      PROVE  OneAnswer
  BY <1>1, <1>2, AnswerRecord DEF IInv
<1>3. CASE UNCHANGED <<request, tokens>>
  BY <1>3 DEF OneAnswer
<1>4. ASSUME NEW p \in Requests, NEW route \in Tried, NEW u \in Users,
             NEW t \in tokens \cup {Nil}, NEW valid \in BOOLEAN,
             Arrive(p, route, u, t, valid)
      PROVE  OneAnswer
  <2>1. request[p].at # "answered" /\ UNCHANGED tokens
    BY <1>4 DEF Arrive
  <2>2. Gate(route, t, valid) # Pass => Gate(route, t, valid) \in Status
    BY DEF Gate, Pass, Status
  <2>3. {429, 500} \subseteq Status
    BY DEF Status
  <2> QED
    BY <1>1, <1>2, <1>4, <2>1, <2>2, <2>3 DEF Arrive, GetClient
<1>5. ASSUME NEW p \in Requests, ClientReady(p) PROVE OneAnswer
  BY <1>0, <1>5 DEF ClientReady, OneAnswer
<1>6. ASSUME NEW p \in Requests, Timers(p) PROVE OneAnswer
  <2>1. request[p].at # "answered" /\ UNCHANGED tokens /\ Answer(p, 500) /\ 500 \in Status
    BY <1>6 DEF Timers, ConnectTimeout, CallTimeout, Status
  <2> QED
    BY <1>2, <2>1
<1>7. ASSUME NEW p \in Requests, Reply(p), request[p].at = "calling" PROVE OneAnswer
  <2> DEFINE status == IF call[p].code = "OK" THEN Controllers[request[p].route].ok ELSE 500
  <2>1. Answer(p, status) /\ SignToken(p)
    BY <1>7 DEF Reply, Settle
  <2>2. request[p].route \in Tried
    <3>1. Fits(request[p], call[p])
      BY DEF IInv, StagesFit
    <3> QED
      BY <1>7, <3>1 DEF Fits
  <2>3. status \in Status
    BY <2>2, OkTable, TriedAssumption DEF Status
  <2>4. tokens' # tokens => status = 200
    BY <2>1, LoginTable DEF SignToken
  <2> HIDE DEF status
  <2>5. request' = [request EXCEPT ![p] = Answered(request[p], status)]
    BY <2>1, <2>3, AnswerRecord DEF IInv
  <2>6. request'[p].status = status
    BY <1>0, <2>5 DEF Answered
  <2>7. \A q \in Requests : q # p => request'[q] = request[q]
    BY <1>0, <2>5
  <2> QED
    BY <1>7, <2>4, <2>6, <2>7 DEF OneAnswer
<1>8. ASSUME NEW p \in Requests, Reply(p), request[p].at # "calling" PROVE OneAnswer
  BY <1>3, <1>8 DEF Reply
<1>9. ASSUME NEW p \in Requests, Serve(p) \/ ServiceFails(p) PROVE OneAnswer
  BY <1>3, <1>9 DEF Serve, ServiceFails
<1>10. ASSUME NEW t \in tokens, NEW u \in Users,
              \/ \E row \in [roles : RoleSets, isActive : BOOLEAN] : UpdateUser(t, u, row)
              \/ DeleteUser(t, u)
       PROVE  OneAnswer
  BY <1>3, <1>10 DEF UpdateUser, DeleteUser, ChangeAccount
<1>11. CASE Tick
  BY <1>3, <1>11 DEF Tick
<1> QED
  BY <1>4, <1>5, <1>6, <1>7, <1>8, <1>9, <1>10, <1>11 DEF Next

\* Neither a late answer of a service nor a timer changes what a request was
\* answered with, and no token comes from anything but a login in time.
THEOREM OneAnswerOnly == Spec => AnsweredOnce
<1>1. ASSUME IInv, [Next]_vars PROVE [OneAnswer]_vars
  BY <1>1, AnswerOnce
<1> QED
  BY <1>1, Invariant, PTL DEF Spec, AnsweredOnce, OneAnswer
=============================================================================
