--------------------------- MODULE ProductService ---------------------------
(***************************************************************************)
(* The product service: gRPC handlers and the consumer of order.created    *)
(* run interleaved in one process over one products table and one Redis    *)
(* cache.  Between two awaits of a task every other task may run; a        *)
(* statement, a cache command, an answer may be lost; the process may      *)
(* crash and restart.  Of a product only the stock is modelled.            *)
(***************************************************************************)
EXTENDS Integers, Sequences, FiniteSets

CONSTANTS
    Products,     \* product ids (uuids, never reused)
    Handlers,     \* gRPC calls served at the same time
    Consumer,     \* the task of OrderConsumer.handleOrderCreated
    Stocks,       \* stocks a client may write
    OrderEvents,  \* item lists an order.created event may carry
    MaxEvents,    \* bound on the events in the topic
    MaxFaults,    \* bound on crashes, failures and losses
    Nil           \* no row, no entry, no value

ASSUME NilAssumption == Nil \notin Int /\ Nil \notin Products
ASSUME ConsumerAssumption == Consumer \notin Handlers
\* The gateway's routes admit no negative stock and no quantity below one.
ASSUME StocksAssumption == Stocks \subseteq Nat
ASSUME OrderEventsAssumption ==
    OrderEvents \subseteq Seq([productId : Products, quantity : Nat \ {0}])
ASSUME BoundsAssumption == MaxEvents \in Nat /\ MaxFaults \in Nat

VARIABLES
    db,           \* db[p]: the stock in the row of p, or Nil
    issued,       \* the ids rows were ever inserted under
    cache,        \* cache[p]: the stock in Redis under product:<p>, or Nil
    isConnected,  \* of RedisCacheService
    task,         \* task[t]: where a handler or the consumer stands
    reply,        \* reply[h]: the status the last call of h was answered with
    topic,        \* order.created, the events' items in order
    position,     \* events of the topic the consumer is done with
    committed,    \* events of the topic the consumer group has committed
    item,         \* index of the item at hand in the event at hand
    faults,       \* crashes, failures and losses so far
    disturbed     \* history: products whose tasks raced or met a fault

storeVars == <<db, issued, cache, isConnected>>
kafkaVars == <<topic, position, committed, item>>
vars == <<storeVars, task, reply, kafkaVars, faults, disturbed>>

Tasks == Handlers \cup {Consumer}
Value == Int \cup {Nil}

\* The await a task is at; what comes next when it is over.
PCs == {"idle",
        "get", "find", "fill",          \* getProductById
        "decide",                       \* handleOrderCreated has its product
        "insert",                       \* createProduct
        "update", "reread", "refresh",  \* updateProduct
        "delete", "evict"}              \* deleteProduct

\* patch: the stock to write, Nil if none is given; row: the product read.
Idle == [pc |-> "idle", id |-> Nil, patch |-> Nil, row |-> Nil]
Begin(pc, p, patch) == [pc |-> pc, id |-> p, patch |-> patch, row |-> Nil]

Init ==
    /\ db = [p \in Products |-> Nil]
    /\ issued = {}
    /\ cache = [p \in Products |-> Nil]
    /\ isConnected = FALSE
    /\ task = [t \in Tasks |-> Idle]
    /\ reply = [h \in Handlers |-> "none"]
    /\ topic = <<>>
    /\ position = 0
    /\ committed = 0
    /\ item = 1
    /\ faults = 0
    /\ disturbed = {}

----------------------------------------------------------------------------
\* A task holds a copy of p's row it will still act on.
HoldsRow(t, p) ==
    /\ task[t].id = p
    /\ \/ task[t].pc \in {"fill", "decide", "refresh"}
       \/ task[t].pc = "update" /\ t = Consumer

\* A task has written p's row and has not yet brought the cache in line.
BusyWriter(t, p) ==
    task[t].id = p /\ task[t].pc \in {"reread", "refresh", "evict"}

Disturb(P) == disturbed' = disturbed \cup P

\* A write of p by t races with every other task that holds p's row.
DisturbedByWrite(t, p) ==
    {q \in {p} : \E u \in Tasks \ {t} : HoldsRow(u, p)}

Fault == faults < MaxFaults /\ faults' = faults + 1

At(t, pc) == task[t].pc = pc
Goto(t, pc, row) ==
    task' = [task EXCEPT ![t] = [@ EXCEPT !.pc = pc, !.row = row]]

Items == topic[position + 1]

\* Mutant: an item that ends is tried again.
NextItem_Stays == UNCHANGED kafkaVars

\* The for loop of handleOrderCreated goes on to the next item, also after
\* the catch of an item that failed.
NextItem == item' = item + 1 /\ UNCHANGED <<topic, position, committed>>

\* A task ends: the handler answers, the consumer turns to the next item.
EndWith(t, status) ==
    /\ task' = [task EXCEPT ![t] = Idle]
    /\ IF t = Consumer
       THEN NextItem /\ UNCHANGED reply
       ELSE reply' = [reply EXCEPT ![t] = status] /\ UNCHANGED kafkaVars

\* The controller maps whatever is thrown to INVALID_ARGUMENT.
Throw(t) == EndWith(t, "INVALID_ARGUMENT")

----------------------------------------------------------------------------
(* RedisCacheService.  One connection, commands in order, one writing      *)
(* process: a command takes effect where it is issued, or never.           *)

\* set() is fire-and-forget; the caller goes on whatever becomes of it.
CacheSet(p, v) == isConnected /\ cache' = [cache EXCEPT ![p] = v]

\* "error" clears the flag, as does a command that fails; "ready" sets it.
RedisError ==
    /\ isConnected
    /\ isConnected' = FALSE
    /\ Fault
    /\ UNCHANGED <<db, issued, cache, task, reply, kafkaVars, disturbed>>

RedisReady ==
    /\ ~isConnected
    /\ isConnected' = TRUE
    /\ UNCHANGED <<db, issued, cache, task, reply, kafkaVars, faults, disturbed>>

----------------------------------------------------------------------------
(* The calls of the controller.  A call is a task until it answers.        *)
StartCall(h, first) ==
    /\ At(h, "idle")
    /\ task' = [task EXCEPT ![h] = first]
    /\ reply' = [reply EXCEPT ![h] = "none"]
    /\ UNCHANGED <<storeVars, kafkaVars, faults, disturbed>>

GetProduct(h, p) == StartCall(h, Begin("get", p, Nil))

\* A bound of the model: no call begins to insert without an id left for it.
IdLeft ==
    Cardinality({h \in Handlers : At(h, "insert")}) < Cardinality(Products \ issued)

CreateProduct(h, s) == IdLeft /\ StartCall(h, Begin("insert", Nil, s))
UpdateStock(h, p, s) == StartCall(h, Begin("update", p, s))
\* A partial update without a stock writes other columns of the row.
UpdateProduct(h, p, s) == StartCall(h, Begin("update", p, s))
DeleteProduct(h, p) == StartCall(h, Begin("delete", p, Nil))

----------------------------------------------------------------------------
(* getProductById.                                                         *)

\* A hit: the handler throws in toProductResponse, whose toISOString() the
\* JSON from the cache does not have; the consumer takes the copy.
CacheHit(t) ==
    LET p == task[t].id IN
    /\ At(t, "get")
    /\ isConnected
    /\ cache[p] # Nil
    /\ IF t = Consumer
       THEN /\ Goto(t, "decide", cache[p])
            /\ Disturb({q \in {p} : \E u \in Tasks : BusyWriter(u, p)})
            /\ UNCHANGED <<reply, kafkaVars>>
       ELSE Throw(t) /\ UNCHANGED disturbed
    /\ UNCHANGED <<storeVars, faults>>

\* No entry, no connection, or no answer within 200ms.
CacheMiss(t) ==
    /\ At(t, "get")
    /\ Goto(t, "find", Nil)
    /\ UNCHANGED <<storeVars, reply, kafkaVars, faults, disturbed>>

\* findById throws when there is no row.
FindById(t) ==
    LET p == task[t].id IN
    /\ At(t, "find")
    /\ IF db[p] # Nil
       THEN Goto(t, "fill", db[p]) /\ UNCHANGED <<reply, kafkaVars>>
       ELSE Throw(t)
    /\ UNCHANGED <<storeVars, faults, disturbed>>

\* getProductById has its product: the handler answers, the consumer goes on.
Found(t) ==
    IF t = Consumer
    THEN Goto(t, "decide", task[t].row) /\ UNCHANGED <<reply, kafkaVars>>
    ELSE EndWith(t, "OK")

Fill(t) ==
    /\ At(t, "fill")
    /\ CacheSet(task[t].id, task[t].row)
    /\ Found(t)
    /\ UNCHANGED <<db, issued, isConnected, faults, disturbed>>

\* set() skips the write without a connection, or the write is lost.
FillLost(t) ==
    /\ At(t, "fill")
    /\ Found(t)
    /\ UNCHANGED <<storeVars, faults, disturbed>>

----------------------------------------------------------------------------
(* createProduct, updateProduct, deleteProduct: a statement, for an update *)
(* a second one that reads the row back, then the write to the cache.      *)

InsertRow(t, p) ==
    /\ p \in Products \ issued
    /\ db' = [db EXCEPT ![p] = task[t].patch]
    /\ issued' = issued \cup {p}

Insert(t, p) ==
    /\ At(t, "insert")
    /\ InsertRow(t, p)
    /\ task' = [task EXCEPT ![t] = [@ EXCEPT !.pc = "refresh", !.id = p,
                                             !.row = task[t].patch]]
    /\ UNCHANGED <<cache, isConnected, reply, kafkaVars, faults, disturbed>>

\* Mutant: update() saves the entity, which inserts a row that is missing.
Affects_Upsert(p) == p \in issued

\* Whether the UPDATE affects a row; if not, update() throws NotFoundError.
Affects(p) == db[p] # Nil

UpdateRow(t) ==
    /\ db' = [db EXCEPT ![task[t].id] = IF task[t].patch = Nil THEN @
                                        ELSE task[t].patch]
    /\ UNCHANGED issued

Update(t) ==
    LET p == task[t].id IN
    /\ At(t, "update")
    /\ IF Affects(p)
       THEN /\ UpdateRow(t)
            /\ Disturb(DisturbedByWrite(t, p))
            /\ Goto(t, "reread", Nil)
            /\ UNCHANGED <<reply, kafkaVars>>
       ELSE Throw(t) /\ UNCHANGED <<db, issued, disturbed>>
    /\ UNCHANGED <<cache, isConnected, faults>>

\* update() answers what findById reads now, not what it wrote.
Reread(t) ==
    LET p == task[t].id IN
    /\ At(t, "reread")
    /\ IF db[p] # Nil
       THEN Goto(t, "refresh", db[p]) /\ UNCHANGED <<reply, kafkaVars>>
       ELSE Throw(t)
    /\ UNCHANGED <<storeVars, faults, disturbed>>

\* Mutant: updateProduct caches nothing and leaves the old entry.
Refresh_Forgotten(t) ==
    /\ At(t, "refresh")
    /\ EndWith(t, "OK")
    /\ UNCHANGED <<storeVars, faults, disturbed>>

Refresh(t) ==
    /\ At(t, "refresh")
    /\ CacheSet(task[t].id, task[t].row)
    /\ EndWith(t, "OK")
    /\ UNCHANGED <<db, issued, isConnected, faults, disturbed>>

DeleteRow(t) ==
    /\ db' = [db EXCEPT ![task[t].id] = Nil]
    /\ UNCHANGED issued

Delete(t) ==
    LET p == task[t].id IN
    /\ At(t, "delete")
    /\ IF db[p] # Nil
       THEN /\ DeleteRow(t)
            /\ Disturb(DisturbedByWrite(t, p))
            /\ Goto(t, "evict", Nil)
            /\ UNCHANGED <<reply, kafkaVars>>
       ELSE Throw(t) /\ UNCHANGED <<db, issued, disturbed>>
    /\ UNCHANGED <<cache, isConnected, faults>>

\* Mutant: deleteProduct forgets the cache.
Evict_Forgotten(t) ==
    /\ At(t, "evict")
    /\ EndWith(t, "OK")
    /\ UNCHANGED <<storeVars, faults, disturbed>>

\* The entry is set to null, which get() reads as a miss.
Evict(t) ==
    /\ At(t, "evict")
    /\ CacheSet(task[t].id, Nil)
    /\ EndWith(t, "OK")
    /\ UNCHANGED <<db, issued, isConnected, faults, disturbed>>

\* The cache keeps what it has: set() skips a write without a connection.
CacheWriteSkipped(t) ==
    /\ task[t].pc \in {"refresh", "evict"}
    /\ ~isConnected
    /\ EndWith(t, "OK")
    /\ Disturb({task[t].id})
    /\ UNCHANGED <<storeVars, faults>>

----------------------------------------------------------------------------
(* OrderConsumer.handleOrderCreated and the group's offsets.               *)

StartItem ==
    /\ At(Consumer, "idle")
    /\ position < Len(topic)
    /\ item <= Len(Items)
    /\ task' = [task EXCEPT ![Consumer] = Begin("get", Items[item].productId, Nil)]
    /\ UNCHANGED <<storeVars, reply, kafkaVars, faults, disturbed>>

NewStock == task[Consumer].row - Items[item].quantity
\* Mutant: only a product that is sold out is refused.
Insufficient_OnlySoldOut == task[Consumer].row = 0
\* Mutant: the last piece is not sold.
Insufficient_KeepsLast == NewStock < 1
Insufficient == NewStock < 0

\* Insufficient stock returns from the whole event.
Decide ==
    /\ At(Consumer, "decide")
    /\ IF Insufficient
       THEN /\ item' = Len(Items) + 1
            /\ task' = [task EXCEPT ![Consumer] = Idle]
       ELSE /\ task' = [task EXCEPT ![Consumer] =
                          Begin("update", task[Consumer].id, NewStock)]
            /\ UNCHANGED item
    /\ UNCHANGED <<storeVars, reply, topic, position, committed, faults, disturbed>>

\* Mutant: the offset resolved is one too far.
EventDone_SkipsOne ==
    /\ At(Consumer, "idle")
    /\ position < Len(topic)
    /\ item > Len(Items)
    /\ position' = position + 2
    /\ item' = 1
    /\ UNCHANGED <<storeVars, task, reply, topic, committed, faults, disturbed>>

EventDone ==
    /\ At(Consumer, "idle")
    /\ position < Len(topic)
    /\ item > Len(Items)
    /\ position' = position + 1
    /\ item' = 1
    /\ UNCHANGED <<storeVars, task, reply, topic, committed, faults, disturbed>>

\* Mutant: an event is committed when it comes, not when it is handled.
Commit_Early ==
    /\ committed = position /\ position < Len(topic)
    /\ committed' = position + 1
    /\ UNCHANGED <<storeVars, task, reply, topic, position, item, faults, disturbed>>

\* kafkajs commits the offsets it resolved, some time after the handler.
Commit ==
    /\ committed < position
    /\ committed' = position
    /\ UNCHANGED <<storeVars, task, reply, topic, position, item, faults, disturbed>>

\* The order service publishes an event.
PublishOrder(items) ==
    /\ Len(topic) < MaxEvents
    /\ topic' = Append(topic, items)
    /\ UNCHANGED <<storeVars, task, reply, position, committed, item, faults, disturbed>>

----------------------------------------------------------------------------
(* Faults.                                                                 *)

\* A statement fails without effect; after its UPDATE a writer leaves the
\* cache as it is.
StatementFails(t) ==
    /\ task[t].pc \in {"find", "insert", "update", "reread", "delete"}
    /\ Fault
    /\ Throw(t)
    /\ Disturb({p \in {task[t].id} : At(t, "reread")})
    /\ UNCHANGED storeVars

\* A statement takes effect and its answer is lost.
AnswerLost(t) ==
    LET p == task[t].id IN
    /\ \/ At(t, "insert") /\ \E q \in Products : InsertRow(t, q)
       \/ At(t, "update") /\ Affects(p) /\ UpdateRow(t)
       \/ At(t, "delete") /\ db[p] # Nil /\ DeleteRow(t)
    /\ Fault
    /\ Throw(t)
    /\ Disturb({p} \ {Nil})
    /\ UNCHANGED <<cache, isConnected>>

\* A set() that was issued and never reaches Redis.
CacheWriteLost(t) ==
    /\ task[t].pc \in {"refresh", "evict"}
    /\ isConnected
    /\ Fault
    /\ EndWith(t, "OK")
    /\ Disturb({task[t].id})
    /\ UNCHANGED storeVars

\* The process restarts: its calls are gone, the consumer resumes after the
\* last committed event.
Crash ==
    /\ Fault
    /\ task' = [t \in Tasks |-> Idle]
    /\ reply' = [h \in Handlers |-> "none"]
    /\ isConnected' = FALSE
    /\ position' = committed
    /\ item' = 1
    /\ Disturb({p \in Products : \E t \in Tasks : BusyWriter(t, p)})
    /\ UNCHANGED <<db, issued, cache, topic, committed>>

\* The consumer loses its session between two events, joins the group again
\* and resumes at the committed offset.
Rejoin ==
    /\ At(Consumer, "idle") /\ item = 1
    /\ Fault
    /\ position' = committed
    /\ UNCHANGED <<storeVars, task, reply, topic, committed, item, disturbed>>

----------------------------------------------------------------------------
Call(h) ==
    \/ \E s \in Stocks : CreateProduct(h, s)
    \/ \E p \in Products :
         \/ GetProduct(h, p)
         \/ DeleteProduct(h, p)
         \/ \E s \in Stocks : UpdateStock(h, p, s)
         \/ \E s \in Stocks \cup {Nil} : UpdateProduct(h, p, s)

\* The next await of a task is over.
Step(t) ==
    \/ CacheHit(t) \/ CacheMiss(t) \/ FindById(t) \/ Fill(t) \/ FillLost(t)
    \/ \E p \in Products : Insert(t, p)
    \/ Update(t) \/ Reread(t) \/ Refresh(t) \/ Delete(t) \/ Evict(t)
    \/ CacheWriteSkipped(t)

ConsumerStep == StartItem \/ Decide \/ EventDone \/ Step(Consumer)

Next ==
    \/ \E h \in Handlers : Call(h) \/ Step(h)
    \/ ConsumerStep
    \/ Commit
    \/ \E items \in OrderEvents : PublishOrder(items)
    \/ RedisError \/ RedisReady
    \/ \E t \in Tasks : StatementFails(t) \/ AnswerLost(t) \/ CacheWriteLost(t)
    \/ Crash \/ Rejoin

(* Fairness: the consumer's awaits end (statements answer or fail, a cache *)
(* read is cut off after 200ms) and kafkajs commits.  Nothing is assumed   *)
(* of clients, Redis or the order service.                                 *)
Spec == Init /\ [][Next]_vars /\ WF_vars(ConsumerStep) /\ WF_vars(Commit)

----------------------------------------------------------------------------
\* The table, the cache, the tasks and the offsets hold what they may hold.
TypeOK ==
    /\ db \in [Products -> Value]
    /\ issued \subseteq Products
    /\ cache \in [Products -> Value]
    /\ isConnected \in BOOLEAN
    /\ task \in [Tasks -> [pc : PCs, id : Products \cup {Nil},
                           patch : Value, row : Value]]
    /\ reply \in [Handlers -> {"none", "OK", "INVALID_ARGUMENT"}]
    /\ topic \in Seq(OrderEvents) /\ Len(topic) <= MaxEvents
    /\ position \in 0..Len(topic)
    /\ committed \in 0..position
    /\ item \in Nat \ {0}
    /\ faults \in 0..MaxFaults
    /\ disturbed \subseteq Products

NonNegative(v) == v \in Nat \cup {Nil}

\* However orders, updates, stale copies and faults interleave, no stock in
\* the table, in the cache or on its way to them drops below zero.
StockNeverNegative ==
    /\ \A p \in Products : NonNegative(db[p]) /\ NonNegative(cache[p])
    /\ \A t \in Tasks : NonNegative(task[t].row) /\ NonNegative(task[t].patch)

\* Between its writers the cache agrees with the table, but for products on
\* which tasks raced or a write met a fault: there is no other way to get a
\* stale entry.
UndisturbedCacheCoherent ==
    \A p \in Products \ disturbed :
        (\A t \in Tasks : ~BusyWriter(t, p)) => cache[p] \in {Nil, db[p]}

\* A deleted product stays deleted: no update or order that was under way
\* brings its row back.
DeletedStaysDeleted ==
    [][\A p \in issued : db[p] = Nil => db'[p] = Nil]_vars

\* The consumer writes p's stock in this step.
Deducts(p) ==
    /\ At(Consumer, "update") /\ task[Consumer].id = p
    /\ task'[Consumer].pc = "reread"

Deduction(p) == db'[p] = db[p] - Items[item].quantity

\* An item takes its quantity off the stock the table holds, unless the
\* product was written, read between two writes or hit by a fault meanwhile.
UndisturbedDeduction ==
    [][\A p \in Products \ disturbed' : Deducts(p) => Deduction(p)]_vars

\* Every event published is handled and committed, whatever becomes of its
\* items, of the cache and of the process.
EveryEventHandled ==
    \A n \in 1..MaxEvents : Len(topic) >= n ~> committed >= n

Delivery == INSTANCE AtLeastOnce WITH length <- Len(topic)

\* The consumer goes through the events as AtLeastOnce serves them (and as
\* Subscription shows kafkajs and eachMessage to serve them): in order, each
\* to its end before the next, again only what was not committed.
DeliverySpec == Delivery!Spec

\* "First get the current product to check stock", "Update with the reduced
\* stock": an item takes its quantity off the current stock.
DeductsFromCurrentStock == [][\A p \in Products : Deducts(p) => Deduction(p)]_vars

\* "Product retrieved from cache": who asks for a product that is in the
\* cache is answered with it.
CachedProductIsServed ==
    [][\A h \in Handlers : At(h, "get") /\ task'[h].pc = "idle"
                             => reply'[h] # "INVALID_ARGUMENT"]_vars
=============================================================================
