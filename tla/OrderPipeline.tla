---------------------------- MODULE OrderPipeline ----------------------------
(***************************************************************************)
(* From an order to the stock: the order service, the topic order.created  *)
(* and the consumer of the product service together.  Each side may fail   *)
(* and restart, events are lost and repeated on their way, and items run   *)
(* out of stock.  Histories keep the books: which order an event is of,    *)
(* which items were deducted how often, which orders were given up.        *)
(***************************************************************************)
EXTENDS Integers, Sequences, FiniteSetsExt

CONSTANTS
    Orders,         \* order ids
    ItemsOf,        \* ItemsOf[o]: the items of the order o
    Products,       \* product ids
    InitialStocks,  \* stocks to begin with, Nil for a product that is missing
    Placing,        \* CreateOrder calls served at the same time
    Consumer,       \* the task of OrderConsumer.handleOrderCreated
    MaxCopies,      \* bound on the copies of an event in the topic
    MaxEvents,      \* bound on the events in the topic
    MaxFaults,      \* bound on crashes, failures and losses on both sides
    Nil

ASSUME NilAssumption == Nil \notin Orders /\ Nil \notin Products /\ Nil \notin Int
ASSUME OrdersAssumption == IsFiniteSet(Orders)
ASSUME BoundsAssumption ==
    MaxCopies \in Nat \ {0} /\ MaxEvents \in Nat /\ MaxFaults \in Nat
ASSUME ItemsAssumption ==
    ItemsOf \in [Orders -> Seq([productId : Products, quantity : Nat \ {0}])]
ASSUME InitialAssumption == InitialStocks \subseteq [Products -> Nat \cup {Nil}]

VARIABLES
    faults,                                     \* of both services
    orders, orderCache, orderConnected,         \* OrderService
    call, answer, status, copies, interrupted,
    db, issued, cache, isConnected, task,                \* ProductService
    topic, position, committed, item, disturbed,
    initial,    \* history: the stocks to begin with
    log,        \* history: log[n] is the order the event topic[n] is of
    deducted,   \* history: deducted[o][i]: how often item i of o was deducted
    short,      \* history: orders ended for a stock that is too small
    failed,     \* history: orders an item of which failed
    restarts    \* history: how often the consumer came back to what is committed

orderVars == <<orders, orderCache, orderConnected, call, answer, status, copies,
               interrupted>>
productVars == <<db, issued, cache, isConnected, task, topic, position,
                 committed, item, disturbed>>
books == <<initial, log, deducted, short, failed, restarts>>
vars == <<faults, orderVars, productVars, books>>

\* Reads of orders are left out: the cache of the order service stays empty.
OS == INSTANCE OrderService WITH
        Handlers <- Placing, reply <- answer,
        cache <- orderCache, isConnected <- orderConnected

\* Calls of clients are left out: the consumer alone writes the products.
PS == INSTANCE ProductService WITH
        Handlers <- {}, Stocks <- {}, reply <- [h \in {} |-> "none"],
        OrderEvents <- {ItemsOf[o] : o \in Orders}

Init ==
    /\ OS!Init
    /\ initial \in InitialStocks
    /\ db = initial
    /\ issued = {p \in Products : initial[p] # Nil}
    /\ cache = [p \in Products |-> Nil]
    /\ isConnected = FALSE
    /\ task = [t \in {Consumer} |-> PS!Idle]
    /\ topic = <<>> /\ position = 0 /\ committed = 0 /\ item = 1
    /\ disturbed = {}
    /\ log = <<>>
    /\ deducted = [o \in Orders |-> [i \in DOMAIN ItemsOf[o] |-> 0]]
    /\ short = {} /\ failed = {}
    /\ restarts = 0

----------------------------------------------------------------------------
(* The order service places orders.                                        *)

PlaceOrder(h) ==
    /\ \/ OS!CreateOrder(h) \/ \E o \in Orders : OS!Save(h, o)
       \/ OS!SaveFails(h) \/ OS!PublishOrderCreated(h) \/ OS!OrderCreated(h)
    /\ UNCHANGED <<productVars, books>>

PublishReturns(o) ==
    /\ OS!Publish!Return(o)
    /\ UNCHANGED <<faults, orders, orderCache, orderConnected, call, answer,
                   interrupted, productVars, books>>

OrderServiceCrash == OS!Crash /\ UNCHANGED <<productVars, books>>

\* An event gets into the topic.
EventAppended(o) ==
    /\ OS!Publish!Append(o)
    /\ PS!PublishOrder(ItemsOf[o])
    /\ log' = Append(log, o)
    /\ UNCHANGED <<orders, orderCache, orderConnected, call, answer,
                   interrupted, initial, deducted, short, failed, restarts>>

----------------------------------------------------------------------------
(* The product service takes them off the stock.                           *)

At(pc) == task[Consumer].pc = pc
Order == log[position + 1]   \* the order at hand
ItemEnds == task'[Consumer].pc = "idle"

\* What the books say of a step of the consumer: the UPDATE of an item took
\* effect, with or without an answer; its stock was too small; it failed.
Keep(update) ==
    /\ deducted' = IF update THEN [deducted EXCEPT ![Order][item] = @ + 1]
                   ELSE deducted
    /\ short' = short \cup {o \in Orders : At("decide") /\ ItemEnds /\ o = Order}
    /\ failed' = failed \cup
         {o \in Orders : At("find") /\ ItemEnds /\ o = Order} \cup
         {o \in Orders : At("update") /\ ItemEnds /\ ~update /\ o = Order}
    /\ UNCHANGED <<orderVars, initial, log, restarts>>

Consume == PS!ConsumerStep /\ Keep(At("update") /\ ~ItemEnds)

ConsumeFails ==
    \/ PS!StatementFails(Consumer) /\ Keep(FALSE)
    \/ PS!AnswerLost(Consumer) /\ Keep(TRUE)
    \/ PS!CacheWriteLost(Consumer) /\ Keep(FALSE)

Commit == PS!Commit /\ UNCHANGED <<orderVars, books>>

RedisComesAndGoes ==
    (PS!RedisError \/ PS!RedisReady) /\ UNCHANGED <<orderVars, books>>

ProductServiceCrash ==
    /\ PS!Crash
    /\ restarts' = restarts + 1
    /\ UNCHANGED <<orderVars, initial, log, deducted, short, failed>>

Rejoin ==
    /\ PS!Rejoin
    /\ restarts' = restarts + 1
    /\ UNCHANGED <<orderVars, initial, log, deducted, short, failed>>

----------------------------------------------------------------------------
Next ==
    \/ \E h \in Placing : PlaceOrder(h)
    \/ \E o \in Orders : PublishReturns(o) \/ EventAppended(o)
    \/ OrderServiceCrash
    \/ Consume \/ ConsumeFails \/ Commit \/ RedisComesAndGoes
    \/ ProductServiceCrash \/ Rejoin

(* Fairness: the consumer's, as in ProductService.                         *)
Spec == Init /\ [][Next]_vars /\ WF_vars(Consume) /\ WF_vars(Commit)

----------------------------------------------------------------------------
\* The orders in the books are those of the events, and both services are in
\* states of their own.
TypeOK ==
    /\ OS!TypeOK
    /\ PS!TypeOK
    /\ initial \in InitialStocks
    /\ log \in Seq(Orders)
    /\ topic = [n \in DOMAIN log |-> ItemsOf[log[n]]]
    /\ DOMAIN deducted = Orders
    /\ \A o \in Orders : deducted[o] \in [DOMAIN ItemsOf[o] -> Nat]
    /\ short \subseteq Orders /\ failed \subseteq Orders
    /\ restarts \in 0..MaxFaults

\* No stock is taken for an order that the order service did not save,
\* whatever fails or restarts between the INSERT and the consumer.
OnlySavedOrdersDeduct ==
    \A o \in Orders : (\E i \in DOMAIN ItemsOf[o] : deducted[o][i] > 0) => o \in orders

\* An event may be sent twice and delivered again after a restart or a lost
\* session, and handling it is not idempotent; but one delivery deducts an
\* item once.
DeductedPerDelivery ==
    \A o \in Orders : \A i \in DOMAIN ItemsOf[o] :
        deducted[o][i] <= copies[o] * (1 + restarts)

Lines(p) == UNION {
    {<<o, i>> : i \in {j \in DOMAIN ItemsOf[o] : ItemsOf[o][j].productId = p}} : o \in Orders}

Sold(p) == MapThenSumSet(LAMBDA l : deducted[l[1]][l[2]] * ItemsOf[l[1]][l[2]].quantity,
                         Lines(p))

\* The stock that is gone is in the books: nothing is sold twice or lost by
\* way of a copy in the cache, but for products a fault has disturbed.
StockAccounted ==
    \A p \in Products \ disturbed : db[p] # Nil => db[p] + Sold(p) = initial[p]

Settled(o) ==
    \/ o \in short \cup failed
    \/ \A i \in DOMAIN ItemsOf[o] : deducted[o][i] > 0

\* An order the consumer is done with is taken off the stock to its last
\* item, or was short of stock, or had an item that failed: neither a restart
\* nor a repeated event leaves one half filled without a reason.
HandledMeansSettled == \A n \in 1..position : Settled(log[n])

Refuses(p) ==
    /\ At("decide") /\ task[Consumer].id = p
    /\ ItemEnds /\ faults' = faults

\* No order is refused for a stock the table does have, but for products a
\* fault has disturbed.
RefusedForStock ==
    [][\A p \in Products \ disturbed :
         Refuses(p) => db[p] < ItemsOf[Order][item].quantity]_vars

\* Every event is handled and committed in the end, whatever becomes of its
\* items, the cache and both services.
EveryEventHandled == PS!EveryEventHandled
=============================================================================
