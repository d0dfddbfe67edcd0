---------------------------- MODULE OrderService ----------------------------
(***************************************************************************)
(* The order service: CreateOrder saves an order and then publishes its    *)
(* event; GetOrder reads through the cache.  Of the messaging service only *)
(* what it promises is used (BestEffortPublish, which KafkaProducer        *)
(* implements); the process may crash between any two awaits.              *)
(***************************************************************************)
EXTENDS Naturals, FiniteSets

CONSTANTS Orders,     \* order ids (uuids, never reused)
          Handlers,   \* gRPC calls served at the same time
          MaxCopies,  \* bound on the copies of an event in the topic
          MaxFaults,  \* bound on crashes, failed statements and Redis errors
          Nil         \* no order

ASSUME NilAssumption == Nil \notin Orders
ASSUME BoundsAssumption == MaxCopies \in Nat \ {0} /\ MaxFaults \in Nat

VARIABLES
    orders,        \* the orders in the table; they never change
    cache,         \* the orders in Redis under order:<id>
    isConnected,   \* of RedisCacheService
    call,          \* call[h]: where a handler stands and its order
    reply,         \* reply[h]: the status the last call of h was answered with
    status,        \* status[o]: the publish call of o's event
    copies,        \* copies[o]: how often the topic holds o's event
    faults,        \* faults so far
    interrupted    \* history: orders a fault cut off between save and publish

publishVars == <<status, copies>>
vars == <<orders, cache, isConnected, call, reply, publishVars, faults,
          interrupted>>

Publish == INSTANCE BestEffortPublish WITH Events <- Orders

\* The await a handler is at.
PCs == {"idle", "get", "find", "fill",      \* getOrderById
        "save", "saved", "publish"}         \* createOrder

Idle == [pc |-> "idle", id |-> Nil]
At(h, pc) == call[h].pc = pc

Init ==
    /\ orders = {}
    /\ cache = {}
    /\ isConnected = FALSE
    /\ call = [h \in Handlers |-> Idle]
    /\ reply = [h \in Handlers |-> "none"]
    /\ Publish!Init
    /\ faults = 0
    /\ interrupted = {}

Fault == faults < MaxFaults /\ faults' = faults + 1

Goto(h, pc) ==
    /\ call' = [call EXCEPT ![h].pc = pc]
    /\ UNCHANGED reply

Answer(h, code) ==
    /\ call' = [call EXCEPT ![h] = Idle]
    /\ reply' = [reply EXCEPT ![h] = code]

StartCall(h, pc, o) ==
    /\ At(h, "idle")
    /\ call' = [call EXCEPT ![h] = [pc |-> pc, id |-> o]]
    /\ reply' = [reply EXCEPT ![h] = "none"]
    /\ UNCHANGED <<orders, cache, isConnected, publishVars, faults, interrupted>>

----------------------------------------------------------------------------
(* createOrder.                                                            *)

\* A bound of the model: no call begins to save without an id left for it.
IdLeft ==
    Cardinality({h \in Handlers : At(h, "save")}) < Cardinality(Orders \ orders)

CreateOrder(h) == IdLeft /\ StartCall(h, "save", Nil)

\* Mutant: createOrder saves the order and forgets its event.
Save_Only(h, o) ==
    /\ At(h, "save")
    /\ o \notin orders
    /\ orders' = orders \cup {o}
    /\ Answer(h, "OK")
    /\ UNCHANGED <<cache, isConnected, publishVars, faults, interrupted>>

\* Mutant: the event is published before the order is saved.
Save_AfterPublish(h, o) ==
    /\ At(h, "save")
    /\ Publish!Call(o)
    /\ call' = [call EXCEPT ![h] = [pc |-> "publish", id |-> o]]
    /\ UNCHANGED <<orders, cache, isConnected, reply, faults, interrupted>>

\* The INSERT gives the order its id.
Save(h, o) ==
    /\ At(h, "save")
    /\ o \notin orders
    /\ orders' = orders \cup {o}
    /\ call' = [call EXCEPT ![h] = [pc |-> "saved", id |-> o]]
    /\ UNCHANGED <<cache, isConnected, reply, publishVars, faults, interrupted>>

PublishOrderCreated(h) ==
    /\ At(h, "saved")
    /\ Publish!Call(call[h].id)
    /\ Goto(h, "publish")
    /\ UNCHANGED <<orders, cache, isConnected, faults, interrupted>>

\* Mutant: the order is confirmed only when its event is in the topic.
OrderCreated_WhenStored(h) ==
    /\ At(h, "publish")
    /\ copies[call[h].id] > 0
    /\ Answer(h, "OK")
    /\ UNCHANGED <<orders, cache, isConnected, publishVars, faults, interrupted>>

\* publish() never throws: the order is confirmed, published or not.
OrderCreated(h) ==
    /\ At(h, "publish")
    /\ status[call[h].id] = "returned"
    /\ Answer(h, "OK")
    /\ UNCHANGED <<orders, cache, isConnected, publishVars, faults, interrupted>>

\* The INSERT fails, or its answer is lost and nobody publishes its order;
\* either way createOrder throws.
SaveFails(h) ==
    /\ At(h, "save")
    /\ Fault
    /\ \/ UNCHANGED <<orders, interrupted>>
       \/ \E o \in Orders \ orders :
            /\ orders' = orders \cup {o}
            /\ interrupted' = interrupted \cup {o}
    /\ Answer(h, "INVALID_ARGUMENT")
    /\ UNCHANGED <<cache, isConnected, publishVars>>

----------------------------------------------------------------------------
(* getOrderById.                                                           *)
GetOrder(h, o) == StartCall(h, "get", o)

\* The cached JSON has no toISOString(): toOrderResponse throws.
CacheHit(h) ==
    /\ At(h, "get")
    /\ isConnected
    /\ call[h].id \in cache
    /\ Answer(h, "INVALID_ARGUMENT")
    /\ UNCHANGED <<orders, cache, isConnected, publishVars, faults, interrupted>>

\* No entry, no connection, or no answer within 200ms.
CacheMiss(h) ==
    /\ At(h, "get")
    /\ Goto(h, "find")
    /\ UNCHANGED <<orders, cache, isConnected, publishVars, faults, interrupted>>

\* findById throws when there is no row.
FindById(h) ==
    /\ At(h, "find")
    /\ IF call[h].id \in orders
       THEN Goto(h, "fill")
       ELSE Answer(h, "INVALID_ARGUMENT")
    /\ UNCHANGED <<orders, cache, isConnected, publishVars, faults, interrupted>>

\* Mutant: GetOrder does not catch what getOrderById throws.
FindFails_Uncaught(h) ==
    /\ At(h, "find")
    /\ Fault
    /\ Answer(h, "UNKNOWN")
    /\ UNCHANGED <<orders, cache, isConnected, publishVars, interrupted>>

FindFails(h) ==
    /\ At(h, "find")
    /\ Fault
    /\ Answer(h, "INVALID_ARGUMENT")
    /\ UNCHANGED <<orders, cache, isConnected, publishVars, interrupted>>

\* set() without a connection writes nothing; a write may be lost.
Fill(h) ==
    /\ At(h, "fill")
    /\ \/ isConnected /\ cache' = cache \cup {call[h].id}
       \/ UNCHANGED cache
    /\ Answer(h, "OK")
    /\ UNCHANGED <<orders, isConnected, publishVars, faults, interrupted>>

----------------------------------------------------------------------------
RedisError ==
    /\ isConnected /\ isConnected' = FALSE
    /\ Fault
    /\ UNCHANGED <<orders, cache, call, reply, publishVars, interrupted>>

RedisReady ==
    /\ ~isConnected /\ isConnected' = TRUE
    /\ UNCHANGED <<orders, cache, call, reply, publishVars, faults, interrupted>>

\* The messaging service and the broker at work.
Messaging(o) ==
    /\ Publish!Append(o) \/ Publish!Return(o)
    /\ UNCHANGED <<orders, cache, isConnected, call, reply, faults, interrupted>>

\* The process restarts: its calls and their publish calls are gone; an event
\* already handed to the broker may still be appended.
Crash ==
    /\ Fault
    /\ call' = [h \in Handlers |-> Idle]
    /\ reply' = [h \in Handlers |-> "none"]
    /\ isConnected' = FALSE
    /\ status' = [o \in Orders |->
                    IF status[o] = "called" THEN "returned" ELSE status[o]]
    /\ interrupted' = interrupted \cup {call[h].id : h \in {g \in Handlers : At(g, "saved")}}
    /\ UNCHANGED <<orders, cache, copies>>

----------------------------------------------------------------------------
Call(h) == CreateOrder(h) \/ \E o \in Orders : GetOrder(h, o)

\* The next await of a call is over.
Step(h) ==
    \/ \E o \in Orders : Save(h, o)
    \/ SaveFails(h) \/ PublishOrderCreated(h) \/ OrderCreated(h)
    \/ CacheHit(h) \/ CacheMiss(h) \/ FindById(h) \/ FindFails(h) \/ Fill(h)

Next ==
    \/ \E h \in Handlers : Call(h) \/ Step(h)
    \/ \E o \in Orders : Messaging(o)
    \/ RedisError \/ RedisReady
    \/ Crash

(* Fairness: statements answer or fail, a cache read is cut off after      *)
(* 200ms, publish returns as it promises.  The broker need never append.   *)
Spec ==
    /\ Init
    /\ [][Next]_vars
    /\ \A h \in Handlers : WF_vars(Step(h))
    /\ \A o \in Orders : WF_publishVars(Publish!Return(o))

----------------------------------------------------------------------------
\* The variables of the order service hold what they may hold; the cache
\* answers for no order the table does not hold.
TypeOK ==
    /\ orders \subseteq Orders
    /\ cache \subseteq orders
    /\ isConnected \in BOOLEAN
    /\ call \in [Handlers -> [pc : PCs, id : Orders \cup {Nil}]]
    /\ reply \in [Handlers -> {"none", "OK", "INVALID_ARGUMENT"}]
    /\ status \in [Orders -> {"new", "called", "returned"}]
    /\ copies \in [Orders -> 0..MaxCopies]
    /\ faults \in 0..MaxFaults
    /\ interrupted \subseteq Orders

\* The topic holds no event of an order the table does not hold, whatever
\* crashes or fails between saving and publishing.
EventHasOrder == \A o \in Orders : copies[o] > 0 => o \in orders

\* An order that is saved is published, or a call is about to, but for the
\* orders a fault cut off in between: there is no other way to lose an event
\* before publish.
SavedIsPublished ==
    \A o \in orders \ interrupted :
        status[o] = "new" => \E h \in Handlers : At(h, "saved") /\ call[h].id = o

\* Every call is answered, also while Kafka and Redis are down: publishing
\* an order's event does not block placing it.
EveryCallAnswered == \A h \in Handlers : ~At(h, "idle") ~> At(h, "idle")
=============================================================================
