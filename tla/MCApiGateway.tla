---------------------------- MODULE MCApiGateway ----------------------------
(***************************************************************************)
(* An instance of ApiGateway for TLC: the system as docker-compose starts  *)
(* it, and one in which the names, cookies and secrets fit each other.     *)
(***************************************************************************)
EXTENDS ApiGateway

CONSTANTS u1, q1, q2

Packages ==
    {<<"user", "UserService">>, <<"product", "ProductService">>, <<"order", "OrderService">>}
Expected == {Clients[m].name : m \in DOMAIN Clients}

AsShipped == [cookies |-> FALSE, protos |-> Packages, sharedSecret |-> FALSE]
Fitting == [cookies |-> TRUE, protos |-> Expected, sharedSecret |-> TRUE]

BothSetups == {AsShipped, Fitting}

\* A manager may also be a seller, or become one.
SomeRoleSets == {{"OperationsManager"}, {"SalesRepresentative"}}
SomeRoutes == {"register", "login", "createOrder", "getUser"}
=============================================================================
