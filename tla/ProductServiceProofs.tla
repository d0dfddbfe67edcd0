------------------------ MODULE ProductServiceProofs ------------------------
(***************************************************************************)
(* Theorems about ProductService, for any products, calls, stocks, orders  *)
(* and bounds.  IInv is inductive: the invariants of the runs, split by    *)
(* the variables they speak of, and what each await of a task presupposes. *)
(* CInv adds what makes cache and copies coherent, product by product.     *)
(***************************************************************************)
EXTENDS ProductService, TLAPS

Stock == Nat \cup {Nil}

\* What a task at an await has at hand: the product it is about, the row it
\* has read, the stock it is to insert.
TaskRecord ==
    {k \in [pc : PCs, id : Products \cup {Nil}, patch : Stock, row : Stock] :
        /\ k.pc \in {"fill", "decide", "refresh"} => k.row # Nil
        /\ k.pc = "insert" => k.patch # Nil
        /\ k.pc \notin {"idle", "insert"} => k.id # Nil}

StoreInv ==
    /\ db \in [Products -> Stock]
    /\ issued \subseteq Products
    /\ cache \in [Products -> Stock]
    /\ isConnected \in BOOLEAN

TaskInv == task \in [Tasks -> TaskRecord]

ReplyInv == reply \in [Handlers -> {"none", "OK", "INVALID_ARGUMENT"}]

KafkaInv ==
    /\ topic \in Seq(OrderEvents) /\ Len(topic) <= MaxEvents
    /\ position \in 0..Len(topic)
    /\ committed \in 0..position
    /\ item \in Nat \ {0}

\* While the consumer is at an item, there is one.
ItemInv ==
    task[Consumer].pc # "idle" => position < Len(topic) /\ item <= Len(Items)

FaultInv == faults \in 0..MaxFaults /\ disturbed \subseteq Products

IInv == StoreInv /\ TaskInv /\ ReplyInv /\ KafkaInv /\ ItemInv /\ FaultInv

----------------------------------------------------------------------------
LEMMA InvariantsFromIInv == IInv => TypeOK /\ StockNeverNegative
<1> SUFFICES ASSUME IInv PROVE TypeOK /\ StockNeverNegative
  OBVIOUS
<1>1. db \in [Products -> Value] /\ cache \in [Products -> Value]
  BY DEF IInv, StoreInv, Stock, Value
<1>2. task \in [Tasks -> [pc : PCs, id : Products \cup {Nil},
                          patch : Value, row : Value]]
  <2>1. TaskRecord \subseteq [pc : PCs, id : Products \cup {Nil},
                              patch : Value, row : Value]
    BY DEF TaskRecord, Stock, Value
  <2>2. QED
    BY <2>1 DEF IInv, TaskInv
<1>3. TypeOK
  BY <1>1, <1>2 DEF IInv, StoreInv, ReplyInv, KafkaInv, FaultInv, TypeOK
<1>4. StockNeverNegative
  BY DEF IInv, StoreInv, TaskInv, TaskRecord, Stock, NonNegative, StockNeverNegative
<1>5. QED
  BY <1>3, <1>4

LEMMA InitIInv == Init => IInv
<1> SUFFICES ASSUME Init PROVE IInv
  OBVIOUS
<1>1. StoreInv
  BY DEF Init, StoreInv, Stock
<1>2. TaskInv
  BY DEF Init, TaskInv, TaskRecord, Idle, PCs, Stock
<1>3. ReplyInv
  BY DEF Init, ReplyInv
<1>4. KafkaInv
  BY BoundsAssumption DEF Init, KafkaInv
<1>5. ItemInv
  BY DEF Init, ItemInv, Idle, Tasks
<1>6. FaultInv
  BY BoundsAssumption DEF Init, FaultInv
<1>7. QED
  BY <1>1, <1>2, <1>3, <1>4, <1>5, <1>6 DEF IInv

----------------------------------------------------------------------------
(* The ways a task moves.                                                  *)

\* A task that ends leaves tasks, answers and offsets in order: the consumer
\* is then between two items.
LEMMA EndKeeps ==
  ASSUME IInv, NEW t \in Tasks, NEW s \in {"OK", "INVALID_ARGUMENT"}, EndWith(t, s)
  PROVE  TaskInv' /\ ReplyInv' /\ KafkaInv' /\ ItemInv'
<1> USE DEF IInv
<1>1. Idle \in TaskRecord
  BY DEF TaskRecord, Idle, PCs, Stock
<1>2. TaskInv'
  BY <1>1 DEF TaskInv, EndWith
<1>3. CASE t = Consumer
  <2>1. task'[Consumer].pc = "idle"
    BY <1>3 DEF EndWith, TaskInv, Tasks, Idle
  <2>2. KafkaInv' /\ ReplyInv'
    BY <1>3 DEF EndWith, NextItem, KafkaInv, ReplyInv
  <2>3. QED
    BY <1>2, <2>1, <2>2 DEF ItemInv
<1>4. CASE t # Consumer
  <2>1. task'[Consumer] = task[Consumer] /\ UNCHANGED kafkaVars
    BY <1>4 DEF EndWith, TaskInv, Tasks
  <2>2. reply' = [reply EXCEPT ![t] = s]
    BY <1>4 DEF EndWith
  <2>3. QED
    BY <1>2, <2>1, <2>2 DEF KafkaInv, ItemInv, ReplyInv, kafkaVars, Items
<1>5. QED
  BY <1>3, <1>4

\* A task that is under way and is replaced by a well-formed one leaves the
\* offsets in order.
LEMMA MoveKeeps ==
  ASSUME IInv, NEW t \in Tasks, task[t].pc # "idle" \/ t # Consumer,
         NEW k \in TaskRecord, task' = [task EXCEPT ![t] = k],
         UNCHANGED kafkaVars
  PROVE  TaskInv' /\ KafkaInv' /\ ItemInv'
<1>1. TaskInv'
  BY DEF IInv, TaskInv
<1>2. task'[Consumer].pc # "idle" => task[Consumer].pc # "idle"
  BY DEF IInv, TaskInv, Tasks
<1>3. QED
  BY <1>1, <1>2 DEF IInv, KafkaInv, ItemInv, kafkaVars, Items

LEMMA GotoKeeps ==
  ASSUME IInv, NEW t \in Tasks, task[t].pc \notin {"idle", "insert"},
         NEW pc \in PCs \ {"idle", "insert"}, NEW row \in Stock,
         pc \in {"fill", "decide", "refresh"} => row # Nil,
         Goto(t, pc, row), UNCHANGED <<reply, kafkaVars>>
  PROVE  TaskInv' /\ ReplyInv' /\ KafkaInv' /\ ItemInv'
<1> DEFINE k == [task[t] EXCEPT !.pc = pc, !.row = row]
<1>1. k \in TaskRecord
  BY DEF IInv, TaskInv, TaskRecord
<1>2. TaskInv' /\ KafkaInv' /\ ItemInv'
  BY <1>1, MoveKeeps DEF Goto
<1>3. QED
  BY <1>2 DEF IInv, ReplyInv

\* The product of a task that is past its beginning.
LEMMA TaskProduct ==
  ASSUME IInv, NEW t \in Tasks
  PROVE  /\ task[t] \in TaskRecord
         /\ task[t].pc \notin {"idle", "insert"} => task[t].id \in Products
         /\ task[t].row \in Stock
         /\ task[t].patch \in Stock
  BY DEF IInv, TaskInv, TaskRecord

----------------------------------------------------------------------------
(* One lemma per action.                                                   *)

LEMMA StartCallIInv ==
  ASSUME IInv, NEW h \in Handlers, NEW first \in TaskRecord, StartCall(h, first)
  PROVE  IInv'
<1>1. h \in Tasks /\ h # Consumer
  BY ConsumerAssumption DEF Tasks
<1>2. TaskInv' /\ KafkaInv' /\ ItemInv'
  BY <1>1, MoveKeeps DEF StartCall
<1>3. QED
  BY <1>2 DEF IInv, StoreInv, ReplyInv, FaultInv, StartCall, storeVars

LEMMA CallIInv == ASSUME IInv, NEW h \in Handlers, Call(h) PROVE IInv'
<1>1. ASSUME NEW pc \in {"get", "update", "delete"}, NEW p \in Products,
             NEW v \in Stock
      PROVE  Begin(pc, p, v) \in TaskRecord
  BY <1>1, NilAssumption DEF Begin, TaskRecord, PCs, Stock
<1>2. ASSUME NEW v \in Stocks PROVE Begin("insert", Nil, v) \in TaskRecord
  BY <1>2, StocksAssumption, NilAssumption DEF Begin, TaskRecord, PCs, Stock
<1>3. Stocks \cup {Nil} \subseteq Stock
  BY StocksAssumption DEF Stock
<1>4. CASE \E s \in Stocks : CreateProduct(h, s)
  BY <1>2, <1>4, StartCallIInv DEF CreateProduct
<1>5. ASSUME NEW p \in Products, GetProduct(h, p) PROVE IInv'
  BY <1>1, <1>3, <1>5, StartCallIInv DEF GetProduct
<1>6. ASSUME NEW p \in Products, DeleteProduct(h, p) PROVE IInv'
  BY <1>1, <1>3, <1>6, StartCallIInv DEF DeleteProduct
<1>7. ASSUME NEW p \in Products, NEW s \in Stocks \cup {Nil},
             UpdateStock(h, p, s) \/ UpdateProduct(h, p, s)
      PROVE  IInv'
  BY <1>1, <1>3, <1>7, StartCallIInv DEF UpdateStock, UpdateProduct
<1>8. QED
  BY <1>4, <1>5, <1>6, <1>7 DEF Call

\* getProductById.
LEMMA GetIInv ==
  ASSUME IInv, NEW t \in Tasks,
         \/ CacheHit(t) \/ CacheMiss(t) \/ FindById(t) \/ Fill(t) \/ FillLost(t)
  PROVE  IInv'
<1> USE TaskProduct
<1>1. CASE CacheHit(t)
  <2>1. StoreInv' /\ FaultInv'
    BY <1>1 DEF CacheHit, IInv, StoreInv, FaultInv, storeVars, Disturb, At
  <2>2. CASE t = Consumer
    <3>1. cache[task[t].id] \in Stock /\ cache[task[t].id] # Nil
      BY <1>1 DEF CacheHit, IInv, StoreInv, At
    <3>2. TaskInv' /\ ReplyInv' /\ KafkaInv' /\ ItemInv'
      BY <1>1, <2>2, <3>1, GotoKeeps DEF CacheHit, PCs, At
    <3>3. QED
      BY <2>1, <3>2 DEF IInv
  <2>3. CASE t # Consumer
    BY <1>1, <2>1, <2>3, EndKeeps DEF CacheHit, Throw, IInv
  <2>4. QED
    BY <2>2, <2>3
<1>2. CASE CacheMiss(t)
  <2>1. TaskInv' /\ ReplyInv' /\ KafkaInv' /\ ItemInv'
    BY <1>2, GotoKeeps DEF CacheMiss, PCs, Stock, At
  <2>2. QED
    BY <1>2, <2>1 DEF CacheMiss, IInv, StoreInv, FaultInv, storeVars
<1>3. CASE FindById(t)
  <2>1. StoreInv' /\ FaultInv'
    BY <1>3 DEF FindById, IInv, StoreInv, FaultInv, storeVars
  <2>2. CASE db[task[t].id] # Nil
    <3>1. db[task[t].id] \in Stock
      BY <1>3 DEF FindById, IInv, StoreInv, At
    <3>2. TaskInv' /\ ReplyInv' /\ KafkaInv' /\ ItemInv'
      BY <1>3, <2>2, <3>1, GotoKeeps DEF FindById, PCs, At
    <3>3. QED
      BY <2>1, <3>2 DEF IInv
  <2>3. CASE db[task[t].id] = Nil
    BY <1>3, <2>1, <2>3, EndKeeps DEF FindById, Throw, IInv
  <2>4. QED
    BY <2>2, <2>3
<1>4. ASSUME At(t, "fill"), Found(t)
      PROVE  TaskInv' /\ ReplyInv' /\ KafkaInv' /\ ItemInv'
  <2>1. CASE t = Consumer
    <3>1. task[t].row # Nil
      BY <1>4 DEF TaskRecord, At
    <3>2. QED
      BY <1>4, <2>1, <3>1, GotoKeeps DEF Found, PCs, At
  <2>2. CASE t # Consumer
    BY <1>4, <2>2, EndKeeps DEF Found
  <2>3. QED
    BY <2>1, <2>2
<1>5. CASE Fill(t)
  BY <1>4, <1>5 DEF Fill, CacheSet, IInv, StoreInv, FaultInv
<1>6. CASE FillLost(t)
  BY <1>4, <1>6 DEF FillLost, IInv, StoreInv, FaultInv, storeVars
<1>7. QED
  BY <1>1, <1>2, <1>3, <1>5, <1>6

\* createProduct.
LEMMA InsertIInv ==
  ASSUME IInv, NEW t \in Tasks, NEW p \in Products, Insert(t, p) PROVE IInv'
<1> DEFINE k == [task[t] EXCEPT !.pc = "refresh", !.id = p, !.row = task[t].patch]
<1>1. k \in TaskRecord
  BY TaskProduct, NilAssumption DEF Insert, At, TaskRecord, PCs
<1>2. TaskInv' /\ KafkaInv' /\ ItemInv'
  BY <1>1, MoveKeeps DEF Insert, At
<1>3. StoreInv'
  BY TaskProduct DEF Insert, InsertRow, IInv, StoreInv
<1>4. QED
  BY <1>2, <1>3 DEF Insert, IInv, ReplyInv, FaultInv

\* updateProduct and deleteProduct.
LEMMA WriteIInv ==
  ASSUME IInv, NEW t \in Tasks,
         \/ Update(t) \/ Reread(t) \/ Refresh(t) \/ Delete(t) \/ Evict(t)
         \/ CacheWriteSkipped(t)
  PROVE  IInv'
<1> USE TaskProduct
<1>1. CASE Update(t)
  <2>1. CASE Affects(task[t].id)
    <3>1. StoreInv'
      BY <1>1, <2>1 DEF Update, UpdateRow, At, IInv, StoreInv
    <3>2. TaskInv' /\ ReplyInv' /\ KafkaInv' /\ ItemInv'
      BY <1>1, <2>1, GotoKeeps DEF Update, PCs, Stock, At
    <3>3. FaultInv'
      BY <1>1, <2>1 DEF Update, Disturb, DisturbedByWrite, At, IInv, FaultInv
    <3>4. QED
      BY <3>1, <3>2, <3>3 DEF IInv
  <2>2. CASE ~Affects(task[t].id)
    BY <1>1, <2>2, EndKeeps DEF Update, Throw, IInv, StoreInv, FaultInv
  <2>3. QED
    BY <2>1, <2>2
<1>2. CASE Reread(t)
  <2>1. StoreInv' /\ FaultInv'
    BY <1>2 DEF Reread, IInv, StoreInv, FaultInv, storeVars
  <2>2. CASE db[task[t].id] # Nil
    <3>1. db[task[t].id] \in Stock
      BY <1>2 DEF Reread, IInv, StoreInv, At
    <3>2. TaskInv' /\ ReplyInv' /\ KafkaInv' /\ ItemInv'
      BY <1>2, <2>2, <3>1, GotoKeeps DEF Reread, PCs, At
    <3>3. QED
      BY <2>1, <3>2 DEF IInv
  <2>3. CASE db[task[t].id] = Nil
    BY <1>2, <2>1, <2>3, EndKeeps DEF Reread, Throw, IInv
  <2>4. QED
    BY <2>2, <2>3
<1>3. CASE Refresh(t)
  BY <1>3, EndKeeps DEF Refresh, CacheSet, IInv, StoreInv, FaultInv
<1>4. CASE Delete(t)
  <2>1. CASE db[task[t].id] # Nil
    <3>1. StoreInv'
      BY <1>4, <2>1 DEF Delete, DeleteRow, IInv, StoreInv, Stock
    <3>2. TaskInv' /\ ReplyInv' /\ KafkaInv' /\ ItemInv'
      BY <1>4, <2>1, GotoKeeps DEF Delete, PCs, Stock, At
    <3>3. FaultInv'
      BY <1>4, <2>1 DEF Delete, Disturb, DisturbedByWrite, At, IInv, FaultInv
    <3>4. QED
      BY <3>1, <3>2, <3>3 DEF IInv
  <2>2. CASE db[task[t].id] = Nil
    BY <1>4, <2>2, EndKeeps DEF Delete, Throw, IInv, StoreInv, FaultInv
  <2>3. QED
    BY <2>1, <2>2
<1>5. CASE Evict(t)
  <2>1. StoreInv'
    BY <1>5 DEF Evict, CacheSet, IInv, StoreInv, Stock
  <2>2. QED
    BY <1>5, <2>1, EndKeeps DEF Evict, IInv, FaultInv
<1>6. CASE CacheWriteSkipped(t)
  BY <1>6, EndKeeps
  DEF CacheWriteSkipped, IInv, StoreInv, FaultInv, storeVars, Disturb
<1>7. QED
  BY <1>1, <1>2, <1>3, <1>4, <1>5, <1>6

LEMMA StepIInv == ASSUME IInv, NEW t \in Tasks, Step(t) PROVE IInv'
  BY GetIInv, InsertIInv, WriteIInv DEF Step

----------------------------------------------------------------------------
(* The consumer and its offsets.                                           *)

\* The item at hand names a product and a positive quantity.
LEMMA ItemAtHand ==
  ASSUME KafkaInv, position < Len(topic), item <= Len(Items)
  PROVE  Items[item].productId \in Products /\ Items[item].quantity \in Nat \ {0}
<1>1. Items \in OrderEvents
  BY DEF KafkaInv, Items
<1>2. Items \in Seq([productId : Products, quantity : Nat \ {0}])
  BY <1>1, OrderEventsAssumption
<1>3. item \in 1..Len(Items)
  BY <1>2 DEF KafkaInv
<1>4. ASSUME NEW S, NEW q \in Seq(S), NEW i \in 1..Len(q) PROVE q[i] \in S
  BY <1>4
<1>5. Items[item] \in [productId : Products, quantity : Nat \ {0}]
  BY <1>2, <1>3, <1>4
<1>6. QED
  BY <1>5

LEMMA StartItemIInv == ASSUME IInv, StartItem PROVE IInv'
<1> DEFINE k == Begin("get", Items[item].productId, Nil)
<1>1. k \in TaskRecord
  BY ItemAtHand, NilAssumption DEF StartItem, IInv, Begin, TaskRecord, PCs, Stock
<1>2. TaskInv'
  BY <1>1 DEF StartItem, IInv, TaskInv
<1>3. KafkaInv' /\ ItemInv'
  BY DEF StartItem, IInv, KafkaInv, ItemInv, kafkaVars, Items
<1>4. QED
  BY <1>2, <1>3 DEF StartItem, IInv, StoreInv, ReplyInv, FaultInv, storeVars

\* What is taken off a stock that suffices leaves a stock.
LEMMA DecideIInv == ASSUME IInv, Decide PROVE IInv'
<1>1. Consumer \in Tasks /\ task[Consumer].pc = "decide"
  BY DEF Tasks, Decide, At
<1>2. KafkaInv /\ position < Len(topic) /\ item <= Len(Items)
  BY <1>1 DEF IInv, ItemInv
<1>3. Len(Items) \in Nat
  <2>1. Items \in OrderEvents
    BY <1>2 DEF KafkaInv, Items
  <2>2. Items \in Seq([productId : Products, quantity : Nat \ {0}])
    BY <2>1, OrderEventsAssumption
  <2>3. QED
    BY <2>2
<1>4. task[Consumer].row \in Nat
  BY <1>1, TaskProduct DEF TaskRecord, Stock
<1>5. StoreInv' /\ ReplyInv' /\ FaultInv'
  BY DEF Decide, IInv, StoreInv, ReplyInv, FaultInv, storeVars
<1>6. CASE Insufficient
  <2>1. TaskInv' /\ task'[Consumer].pc = "idle"
    BY <1>1, <1>6 DEF Decide, IInv, TaskInv, TaskRecord, Idle, PCs, Stock
  <2>2. KafkaInv'
    BY <1>2, <1>3, <1>6 DEF Decide, KafkaInv
  <2>3. QED
    BY <1>5, <2>1, <2>2 DEF IInv, ItemInv
<1>7. CASE ~Insufficient
  <2> DEFINE k == Begin("update", task[Consumer].id, NewStock)
  <2>1. NewStock \in Nat
    BY <1>2, <1>4, <1>7, ItemAtHand DEF Insufficient, NewStock
  <2>2. k \in TaskRecord
    BY <1>1, <2>1, TaskProduct, NilAssumption DEF Begin, TaskRecord, PCs, Stock
  <2>3. UNCHANGED kafkaVars
    BY <1>7 DEF Decide, kafkaVars
  <2>4. TaskInv' /\ KafkaInv' /\ ItemInv'
    BY <1>1, <1>7, <2>2, <2>3, MoveKeeps DEF Decide
  <2>5. QED
    BY <1>5, <2>4 DEF IInv
<1>8. QED
  BY <1>6, <1>7

LEMMA OffsetsIInv ==
  ASSUME IInv, \/ EventDone \/ Commit \/ Rejoin
               \/ \E items \in OrderEvents : PublishOrder(items)
  PROVE  IInv'
<1>1. CASE EventDone
  BY <1>1 DEF EventDone, At, IInv, StoreInv, TaskInv, ReplyInv, KafkaInv,
              ItemInv, FaultInv, storeVars
<1>2. CASE Commit
  BY <1>2 DEF Commit, IInv, StoreInv, TaskInv, ReplyInv, KafkaInv, ItemInv,
              FaultInv, storeVars, Items
<1>3. ASSUME NEW items \in OrderEvents, PublishOrder(items) PROVE IInv'
  <2>1. /\ topic' \in Seq(OrderEvents)
        /\ Len(topic') = Len(topic) + 1
        /\ \A i \in 1..Len(topic) : topic'[i] = topic[i]
    BY <1>3 DEF PublishOrder, IInv, KafkaInv
  <2>2. KafkaInv'
    BY <1>3, <2>1, BoundsAssumption DEF PublishOrder, IInv, KafkaInv
  <2>3. ItemInv'
    BY <1>3, <2>1 DEF PublishOrder, IInv, KafkaInv, ItemInv, Items
  <2>4. QED
    BY <1>3, <2>2, <2>3
    DEF PublishOrder, IInv, StoreInv, TaskInv, ReplyInv, FaultInv, storeVars
<1>4. CASE Rejoin
  <2>1. faults' \in 0..MaxFaults
    BY <1>4, BoundsAssumption DEF Rejoin, Fault, IInv, FaultInv
  <2>2. Len(topic) \in Nat /\ committed \in 0..Len(topic)
    BY DEF IInv, KafkaInv
  <2>3. QED
    BY <1>4, <2>1, <2>2
    DEF Rejoin, At, IInv, StoreInv, TaskInv, ReplyInv, KafkaInv, ItemInv,
        FaultInv, storeVars
<1>5. QED
  BY <1>1, <1>2, <1>3, <1>4

----------------------------------------------------------------------------
(* Redis and the faults.                                                   *)

LEMMA FaultKeeps ==
  ASSUME FaultInv, Fault, NEW P \in SUBSET Products, Disturb(P)
  PROVE  FaultInv'
  BY BoundsAssumption DEF FaultInv, Fault, Disturb

LEMMA RedisIInv == ASSUME IInv, RedisError \/ RedisReady PROVE IInv'
<1>1. StoreInv' /\ TaskInv' /\ ReplyInv' /\ KafkaInv' /\ ItemInv'
  BY DEF RedisError, RedisReady, IInv, StoreInv, TaskInv, ReplyInv, KafkaInv,
         ItemInv, kafkaVars, Items
<1>2. FaultInv'
  BY BoundsAssumption DEF RedisError, RedisReady, Fault, IInv, FaultInv
<1>3. QED
  BY <1>1, <1>2 DEF IInv

LEMMA StatementFailsIInv ==
  ASSUME IInv, NEW t \in Tasks, StatementFails(t) PROVE IInv'
<1>1. {p \in {task[t].id} : At(t, "reread")} \in SUBSET Products
  BY TaskProduct DEF At
<1>2. FaultInv'
  BY <1>1, FaultKeeps DEF StatementFails, IInv
<1>3. TaskInv' /\ ReplyInv' /\ KafkaInv' /\ ItemInv'
  BY EndKeeps DEF StatementFails, Throw
<1>4. QED
  BY <1>2, <1>3 DEF StatementFails, IInv, StoreInv, storeVars

LEMMA AnswerLostIInv ==
  ASSUME IInv, NEW t \in Tasks, AnswerLost(t) PROVE IInv'
<1>1. FaultInv'
  <2>1. {task[t].id} \ {Nil} \in SUBSET Products
    BY TaskProduct DEF TaskRecord
  <2>2. QED
    BY <2>1, FaultKeeps DEF AnswerLost, IInv
<1>2. TaskInv' /\ ReplyInv' /\ KafkaInv' /\ ItemInv'
  BY EndKeeps DEF AnswerLost, Throw
<1>3. StoreInv'
  <2>1. CASE At(t, "insert") /\ \E q \in Products : InsertRow(t, q)
    BY <2>1, TaskProduct DEF AnswerLost, InsertRow, IInv, StoreInv
  <2>2. CASE UpdateRow(t)
    BY <2>2, TaskProduct DEF AnswerLost, UpdateRow, IInv, StoreInv
  <2>3. CASE DeleteRow(t)
    BY <2>3 DEF AnswerLost, DeleteRow, IInv, StoreInv, Stock
  <2>4. QED
    BY <2>1, <2>2, <2>3 DEF AnswerLost
<1>4. QED
  BY <1>1, <1>2, <1>3 DEF IInv

LEMMA CacheWriteLostIInv ==
  ASSUME IInv, NEW t \in Tasks, CacheWriteLost(t) PROVE IInv'
<1>1. FaultInv'
  BY TaskProduct, FaultKeeps DEF CacheWriteLost, IInv
<1>2. TaskInv' /\ ReplyInv' /\ KafkaInv' /\ ItemInv'
  BY EndKeeps DEF CacheWriteLost
<1>3. QED
  BY <1>1, <1>2 DEF CacheWriteLost, IInv, StoreInv, storeVars

LEMMA CrashIInv == ASSUME IInv, Crash PROVE IInv'
<1>1. FaultInv'
  <2>1. {p \in Products : \E t \in Tasks : BusyWriter(t, p)} \in SUBSET Products
    OBVIOUS
  <2>2. QED
    BY <2>1, FaultKeeps DEF Crash, IInv
<1>2. TaskInv' /\ ItemInv'
  BY DEF Crash, TaskInv, TaskRecord, ItemInv, Idle, PCs, Stock, Tasks
<1>3. StoreInv' /\ ReplyInv'
  BY DEF Crash, IInv, StoreInv, ReplyInv
<1>4. KafkaInv'
  <2>1. /\ topic' = topic /\ item' = 1
        /\ position' = committed /\ committed' = committed
    BY DEF Crash
  <2>2. Len(topic) \in Nat /\ committed \in 0..Len(topic)
    BY DEF IInv, KafkaInv
  <2>3. QED
    BY <2>1, <2>2 DEF IInv, KafkaInv
<1>5. QED
  BY <1>1, <1>2, <1>3, <1>4 DEF IInv

----------------------------------------------------------------------------
LEMMA NextIInv == ASSUME IInv, [Next]_vars PROVE IInv'
<1>1. CASE \E h \in Handlers : Call(h) \/ Step(h)
  BY <1>1, CallIInv, StepIInv DEF Tasks
<1>2. CASE ConsumerStep
  BY <1>2, StartItemIInv, DecideIInv, OffsetsIInv, StepIInv
  DEF ConsumerStep, Tasks
<1>3. CASE Commit \/ Rejoin \/ \E items \in OrderEvents : PublishOrder(items)
  BY <1>3, OffsetsIInv
<1>4. CASE RedisError \/ RedisReady
  BY <1>4, RedisIInv
<1>5. CASE \E t \in Tasks : StatementFails(t) \/ AnswerLost(t) \/ CacheWriteLost(t)
  BY <1>5, StatementFailsIInv, AnswerLostIInv, CacheWriteLostIInv
<1>6. CASE Crash
  BY <1>6, CrashIInv
<1>7. CASE UNCHANGED vars
  BY <1>7 DEF vars, storeVars, kafkaVars, IInv, StoreInv, TaskInv, ReplyInv,
              KafkaInv, ItemInv, FaultInv, Items
<1>8. QED
  BY <1>1, <1>2, <1>3, <1>4, <1>5, <1>6, <1>7 DEF Next

LEMMA Invariance == Spec => []IInv
<1>1. Init => IInv
  BY InitIInv
<1>2. IInv /\ [Next]_vars => IInv'
  BY NextIInv
<1>3. QED
  BY <1>1, <1>2, PTL DEF Spec

\* The product service's table, cache, tasks and offsets stay well-formed.
THEOREM TypeCorrect == Spec => []TypeOK
<1>1. IInv => TypeOK
  BY InvariantsFromIInv
<1>2. QED
  BY <1>1, Invariance, PTL

\* However many orders, updates and stale copies race, whatever fails: no
\* stock drops below zero, for the consumer checks the very copy it deducts
\* from, and writes what is left of it.
THEOREM StockStaysNonNegative == Spec => []StockNeverNegative
<1>1. IInv => StockNeverNegative
  BY InvariantsFromIInv
<1>2. QED
  BY <1>1, Invariance, PTL

----------------------------------------------------------------------------
\* An UPDATE or a DELETE changes no row that is missing, an INSERT none that
\* was ever there.
LEMMA RowsStayDeleted ==
  ASSUME IInv, [Next]_vars, NEW p \in issued, db[p] = Nil
  PROVE  db'[p] = Nil
<1>0. db \in [Products -> Stock] /\ p \in Products
  BY DEF IInv, StoreInv
<1>1. ASSUME NEW t \in Tasks, NEW q \in Products, InsertRow(t, q) PROVE db'[p] = Nil
  BY <1>0, <1>1 DEF InsertRow
<1>2. ASSUME NEW t \in Tasks, Affects(task[t].id), UpdateRow(t) PROVE db'[p] = Nil
  BY <1>0, <1>2 DEF Affects, UpdateRow
<1>3. ASSUME NEW t \in Tasks, DeleteRow(t) PROVE db'[p] = Nil
  BY <1>0, <1>3 DEF DeleteRow
<1>4. ASSUME NEW t \in Tasks, Step(t) PROVE db'[p] = Nil
  <2>1. CASE CacheHit(t) \/ CacheMiss(t) \/ FindById(t) \/ Fill(t) \/ FillLost(t)
    BY <2>1 DEF CacheHit, CacheMiss, FindById, Fill, FillLost, storeVars
  <2>2. CASE \E q \in Products : Insert(t, q)
    BY <1>1, <2>2 DEF Insert
  <2>3. CASE Update(t) \/ Delete(t)
    BY <1>2, <1>3, <2>3 DEF Update, Delete
  <2>4. CASE Reread(t) \/ Refresh(t) \/ Evict(t) \/ CacheWriteSkipped(t)
    BY <2>4 DEF Reread, Refresh, Evict, CacheWriteSkipped, storeVars
  <2>5. QED
    BY <1>4, <2>1, <2>2, <2>3, <2>4 DEF Step
<1>5. ASSUME NEW h \in Handlers, Call(h) PROVE db'[p] = Nil
  BY <1>5 DEF Call, GetProduct, CreateProduct, UpdateStock, UpdateProduct,
              DeleteProduct, StartCall, storeVars
<1>6. CASE \E t \in Tasks : StatementFails(t) \/ AnswerLost(t) \/ CacheWriteLost(t)
  <2> PICK t \in Tasks : StatementFails(t) \/ AnswerLost(t) \/ CacheWriteLost(t)
    BY <1>6
  <2>1. CASE AnswerLost(t)
    BY <1>1, <1>2, <1>3, <2>1 DEF AnswerLost
  <2>2. CASE StatementFails(t) \/ CacheWriteLost(t)
    BY <2>2 DEF StatementFails, CacheWriteLost, storeVars
  <2>3. QED
    BY <2>1, <2>2
<1>7. CASE \/ StartItem \/ Decide \/ EventDone \/ Commit \/ Rejoin
           \/ \E items \in OrderEvents : PublishOrder(items)
  BY <1>7 DEF StartItem, Decide, EventDone, Commit, Rejoin, PublishOrder, storeVars
<1>8. CASE RedisError \/ RedisReady \/ Crash \/ UNCHANGED vars
  BY <1>8 DEF RedisError, RedisReady, Crash, vars, storeVars
<1>9. QED
  BY <1>4, <1>5, <1>6, <1>7, <1>8 DEF Next, ConsumerStep, Tasks

\* No update or order that was under way brings a deleted product back.
THEOREM DeletedProductsStayDeleted == Spec => DeletedStaysDeleted
<1>1. IInv /\ [Next]_vars => [\A p \in issued : db[p] = Nil => db'[p] = Nil]_vars
  BY RowsStayDeleted
<1>2. QED
  BY <1>1, Invariance, PTL DEF Spec, DeletedStaysDeleted

----------------------------------------------------------------------------
(* Coherence: of the cache and of the copies that tasks hold.              *)

\* What a task that holds p's row will act on is what the table holds.
Current(t, p) ==
    /\ db[p] # Nil
    /\ IF At(t, "update") THEN task[t].patch = db[p] - Items[item].quantity
                          ELSE task[t].row = db[p]

\* The task that will bring the entry of p in line: a writer of the row, or
\* once the row is gone the one that deleted it.
Repairs(t, p) == BusyWriter(t, p) /\ (db[p] = Nil => At(t, "evict"))

\* An id no row was inserted under is unknown to cache and tasks.
Untouched(p) ==
    p \notin issued =>
        /\ db[p] = Nil /\ cache[p] = Nil
        /\ \A t \in Tasks : ~HoldsRow(t, p) /\ ~BusyWriter(t, p)

CopiesCurrent(p) ==
    p \notin disturbed => \A t \in Tasks : HoldsRow(t, p) => Current(t, p)

InLine(p) ==
    p \notin disturbed /\ cache[p] \notin {Nil, db[p]}
        => \E t \in Tasks : Repairs(t, p)

Coherent(p) == Untouched(p) /\ CopiesCurrent(p) /\ InLine(p)

CInv == IInv /\ \A p \in Products : Coherent(p)

----------------------------------------------------------------------------
(* What one task's move leaves of the others.                              *)

Moves(t) ==
    /\ task' = [task EXCEPT ![t] = task'[t]]
    /\ t # Consumer => UNCHANGED kafkaVars

LEMMA OthersKeep ==
  ASSUME IInv, NEW p \in Products, NEW t \in Tasks, Moves(t),
         NEW u \in Tasks \ {t}
  PROVE  /\ HoldsRow(u, p)' <=> HoldsRow(u, p)
         /\ BusyWriter(u, p)' <=> BusyWriter(u, p)
         /\ db'[p] = db[p] => /\ Repairs(u, p)' <=> Repairs(u, p)
                              /\ HoldsRow(u, p) => (Current(u, p)' <=> Current(u, p))
<1>1. task'[u] = task[u]
  BY DEF Moves, IInv, TaskInv
<1>2. HoldsRow(u, p) /\ At(u, "update") => UNCHANGED kafkaVars
  BY DEF HoldsRow, At, Moves
<1>3. UNCHANGED kafkaVars => UNCHANGED <<Items, item>>
  BY DEF kafkaVars, Items
<1>4. QED
  BY <1>1, <1>2, <1>3 DEF HoldsRow, BusyWriter, Repairs, Current, At

\* The row stays, the task moves: what it then holds is current, and the
\* entry stays as it is, its repairer included, or is brought in line.
LEMMA MoveCoherent ==
  ASSUME IInv, NEW p \in Products, Coherent(p), NEW t \in Tasks, Moves(t),
         db'[p] = db[p], p \in issued' <=> p \in issued,
         disturbed \subseteq disturbed',
         p \notin issued =>
            cache'[p] = Nil /\ ~HoldsRow(t, p)' /\ ~BusyWriter(t, p)',
         p \notin disturbed' =>
            /\ HoldsRow(t, p)' => Current(t, p)'
            /\ \/ cache'[p] = cache[p] /\ (Repairs(t, p) => Repairs(t, p)')
               \/ cache'[p] \in {Nil, db[p]}
  PROVE  Coherent(p)'
<1>1. Untouched(p)'
  BY OthersKeep DEF Coherent, Untouched
<1>2. CopiesCurrent(p)'
  BY OthersKeep DEF Coherent, CopiesCurrent
<1>3. InLine(p)'
  BY OthersKeep DEF Coherent, InLine
<1>4. QED
  BY <1>1, <1>2, <1>3 DEF Coherent

\* A task that is, and was, at no await that concerns the entry of p.
LEMMA BystanderCoherent ==
  ASSUME IInv, NEW p \in Products, Coherent(p), NEW t \in Tasks, Moves(t),
         db'[p] = db[p], cache'[p] = cache[p], p \in issued' <=> p \in issued,
         disturbed \subseteq disturbed',
         ~HoldsRow(t, p)', ~BusyWriter(t, p)', BusyWriter(t, p) => p \in disturbed'
  PROVE  Coherent(p)'
<1>1. p \notin disturbed' => ~Repairs(t, p)
  BY DEF Repairs
<1>2. QED
  BY <1>1, MoveCoherent DEF Coherent, Untouched

LEMMA EndMoves ==
  ASSUME IInv, NEW p \in Products, NEW t \in Tasks, NEW s, EndWith(t, s)
  PROVE  Moves(t) /\ ~HoldsRow(t, p)' /\ ~BusyWriter(t, p)'
<1>1. task'[t] = Idle /\ Moves(t)
  BY DEF EndWith, Moves, IInv, TaskInv
<1>2. QED
  BY <1>1 DEF HoldsRow, BusyWriter, Idle

LEMMA GotoMoves ==
  ASSUME IInv, NEW t \in Tasks, NEW pc, NEW row, Goto(t, pc, row),
         UNCHANGED kafkaVars
  PROVE  /\ Moves(t)
         /\ task'[t].pc = pc /\ task'[t].row = row /\ task'[t].id = task[t].id
<1>1. task'[t] = [task[t] EXCEPT !.pc = pc, !.row = row] /\ Moves(t)
  BY DEF Goto, Moves, IInv, TaskInv
<1>2. QED
  BY <1>1, TaskProduct DEF TaskRecord

----------------------------------------------------------------------------
(* One lemma per group of actions.                                         *)

LEMMA CallCoherent ==
  ASSUME IInv, NEW p \in Products, Coherent(p), NEW h \in Handlers, Call(h)
  PROVE  Coherent(p)'
<1>1. ASSUME NEW pc \in {"get", "insert", "update", "delete"}, NEW q, NEW v,
             StartCall(h, Begin(pc, q, v))
      PROVE  Coherent(p)'
  <2>1. h \in Tasks /\ h # Consumer
    BY ConsumerAssumption DEF Tasks
  <2>2. task'[h] = Begin(pc, q, v) /\ Moves(h)
    BY <1>1, <2>1 DEF StartCall, Moves, IInv, TaskInv
  <2>3. ~HoldsRow(h, p)' /\ ~BusyWriter(h, p)' /\ ~BusyWriter(h, p)
    BY <1>1, <2>1, <2>2 DEF HoldsRow, BusyWriter, Begin, StartCall, At
  <2>4. QED
    BY <1>1, <2>1, <2>2, <2>3, BystanderCoherent DEF StartCall, storeVars
<1>2. QED
  BY <1>1 DEF Call, GetProduct, CreateProduct, UpdateStock, UpdateProduct,
              DeleteProduct

\* What a read hands to a task is the entry no writer is about to replace,
\* or the row itself.
LEMMA ReadCoherent ==
  ASSUME IInv, NEW p \in Products, Coherent(p), NEW t \in Tasks,
         CacheHit(t) \/ CacheMiss(t) \/ FindById(t)
  PROVE  Coherent(p)'
<1>1. ASSUME Throw(t), ~BusyWriter(t, p), UNCHANGED storeVars,
             disturbed \subseteq disturbed'
      PROVE  Coherent(p)'
  BY <1>1, EndMoves, BystanderCoherent DEF Throw, storeVars
<1>2. ~BusyWriter(t, p)
  BY DEF CacheHit, CacheMiss, FindById, BusyWriter, At
<1>3. CASE CacheHit(t)
  <2>1. CASE t = Consumer
    <3>1. /\ Moves(t) /\ task'[t].pc = "decide"
          /\ task'[t].row = cache[task[t].id] /\ task'[t].id = task[t].id
      <4>1. Goto(t, "decide", cache[task[t].id]) /\ UNCHANGED kafkaVars
        BY <1>3, <2>1 DEF CacheHit
      <4>2. QED
        BY <4>1, GotoMoves
    <3>2. disturbed \subseteq disturbed'
      BY <1>3, <2>1 DEF CacheHit, Disturb
    <3>3. UNCHANGED storeVars
      BY <1>3 DEF CacheHit
    <3>4. ASSUME p \notin disturbed', HoldsRow(t, p)'
          PROVE  cache[p] = db[p] /\ db[p] # Nil /\ task'[t].row = cache[p]
      <4>1. task[t].id = p
        BY <3>1, <3>4 DEF HoldsRow
      <4>2. \A u \in Tasks : ~BusyWriter(u, p)
        BY <1>3, <2>1, <3>4, <4>1 DEF CacheHit, Disturb
      <4>3. cache[p] # Nil /\ p \notin disturbed
        BY <1>3, <3>2, <3>4, <4>1 DEF CacheHit
      <4>4. QED
        BY <3>1, <4>1, <4>2, <4>3 DEF Coherent, InLine, Repairs
    <3>5. p \notin disturbed' => (HoldsRow(t, p)' => Current(t, p)')
      BY <3>1, <3>3, <3>4 DEF Current, At, storeVars
    <3>6. ~BusyWriter(t, p)'
      BY <3>1 DEF BusyWriter
    <3>7. p \notin issued => ~HoldsRow(t, p)'
      <4>1. p \notin issued /\ HoldsRow(t, p)' => cache[p] # Nil
        BY <1>3, <3>1 DEF CacheHit, HoldsRow
      <4>2. QED
        BY <4>1 DEF Coherent, Untouched
    <3>8. QED
      BY <1>2, <3>1, <3>2, <3>3, <3>5, <3>6, <3>7, MoveCoherent
      DEF storeVars, Coherent, Untouched, Repairs
  <2>2. CASE t # Consumer
    BY <1>1, <1>2, <1>3, <2>2 DEF CacheHit
  <2>3. QED
    BY <2>1, <2>2
<1>4. CASE CacheMiss(t)
  <2>1. Moves(t) /\ task'[t].pc = "find"
    BY <1>4, GotoMoves DEF CacheMiss
  <2>2. QED
    BY <1>2, <1>4, <2>1, BystanderCoherent
    DEF CacheMiss, HoldsRow, BusyWriter, storeVars
<1>5. CASE FindById(t)
  <2>1. CASE db[task[t].id] # Nil
    <3>1. /\ Moves(t) /\ task'[t].pc = "fill"
          /\ task'[t].row = db[task[t].id] /\ task'[t].id = task[t].id
      <4>1. Goto(t, "fill", db[task[t].id]) /\ UNCHANGED kafkaVars
        BY <1>5, <2>1 DEF FindById
      <4>2. QED
        BY <4>1, GotoMoves
    <3>2. HoldsRow(t, p)' => Current(t, p)' /\ p \in issued
      BY <1>5, <2>1, <3>1
      DEF FindById, HoldsRow, Current, At, storeVars, Coherent, Untouched
    <3>3. ~BusyWriter(t, p)'
      BY <3>1 DEF BusyWriter
    <3>4. QED
      BY <1>2, <1>5, <3>1, <3>2, <3>3, MoveCoherent
      DEF FindById, storeVars, Coherent, Untouched, Repairs
  <2>2. CASE db[task[t].id] = Nil
    BY <1>1, <1>2, <1>5, <2>2 DEF FindById
  <2>3. QED
    BY <2>1, <2>2
<1>6. QED
  BY <1>3, <1>4, <1>5

\* A fill or a refresh writes a copy that is current.
LEMMA FillCoherent ==
  ASSUME IInv, NEW p \in Products, Coherent(p), NEW t \in Tasks,
         Fill(t) \/ FillLost(t)
  PROVE  Coherent(p)'
<1>1. At(t, "fill") /\ Found(t) /\ UNCHANGED <<db, issued, disturbed>>
  BY DEF Fill, FillLost, storeVars
<1>2. ~BusyWriter(t, p) /\ (task[t].id = p => HoldsRow(t, p))
  BY <1>1 DEF BusyWriter, HoldsRow, At
<1>3. /\ Moves(t) /\ ~BusyWriter(t, p)'
      /\ HoldsRow(t, p)' => /\ task[t].id = p /\ task'[t].pc = "decide"
                            /\ task'[t].row = task[t].row
  <2>1. CASE t = Consumer
    <3>1. Goto(t, "decide", task[t].row) /\ UNCHANGED kafkaVars
      BY <1>1, <2>1 DEF Found
    <3>2. /\ Moves(t) /\ task'[t].pc = "decide"
          /\ task'[t].row = task[t].row /\ task'[t].id = task[t].id
      BY <3>1, GotoMoves
    <3>3. QED
      BY <3>2 DEF HoldsRow, BusyWriter
  <2>2. CASE t # Consumer
    BY <1>1, <2>2, EndMoves DEF Found
  <2>3. QED
    BY <2>1, <2>2
<1>4. p \notin disturbed /\ task[t].id = p => task[t].row = db[p] /\ db[p] # Nil
  BY <1>1, <1>2 DEF Coherent, CopiesCurrent, Current, At
<1>5. \/ cache'[p] = cache[p]
      \/ task[t].id = p /\ cache'[p] = task[t].row
  <2>1. CASE Fill(t)
    <3>1. cache' = [cache EXCEPT ![task[t].id] = task[t].row]
      BY <2>1 DEF Fill, CacheSet
    <3>2. QED
      BY <3>1 DEF IInv, StoreInv
  <2>2. CASE FillLost(t)
    BY <2>2 DEF FillLost, storeVars
  <2>3. QED
    BY <2>1, <2>2
<1>6. p \notin issued => task[t].id # p
  BY <1>2 DEF Coherent, Untouched
<1>7. p \notin disturbed' => (HoldsRow(t, p)' => Current(t, p)')
  BY <1>1, <1>3, <1>4 DEF Current, At
<1>8. p \notin issued => cache'[p] = Nil /\ ~HoldsRow(t, p)'
  BY <1>3, <1>5, <1>6 DEF Coherent, Untouched
<1>9. p \notin disturbed' => \/ cache'[p] = cache[p] /\ ~Repairs(t, p)
                            \/ cache'[p] \in {Nil, db[p]}
  BY <1>1, <1>2, <1>4, <1>5 DEF Repairs
<1>10. QED
  BY <1>1, <1>3, <1>7, <1>8, <1>9, MoveCoherent

LEMMA RefreshCoherent ==
  ASSUME IInv, NEW p \in Products, Coherent(p), NEW t \in Tasks,
         Refresh(t) \/ Evict(t)
  PROVE  Coherent(p)'
<1>1. /\ UNCHANGED <<db, issued, disturbed>> /\ Moves(t)
      /\ ~HoldsRow(t, p)' /\ ~BusyWriter(t, p)'
  BY EndMoves DEF Refresh, Evict
<1>2. CASE task[t].id # p
  <2>1. cache'[p] = cache[p] /\ ~BusyWriter(t, p)
    BY <1>2 DEF Refresh, Evict, CacheSet, BusyWriter, IInv, StoreInv
  <2>2. QED
    BY <1>1, <2>1, BystanderCoherent
<1>3. CASE task[t].id = p /\ Evict(t)
  BY <1>1, <1>3, MoveCoherent DEF Evict, CacheSet, IInv, StoreInv
<1>4. CASE task[t].id = p /\ Refresh(t)
  <2>1. HoldsRow(t, p) /\ p \in issued /\ cache'[p] = task[t].row
    BY <1>4 DEF Refresh, CacheSet, HoldsRow, At, Coherent, Untouched, IInv, StoreInv
  <2>2. p \notin disturbed => task[t].row = db[p]
    BY <1>4, <2>1 DEF Refresh, Coherent, CopiesCurrent, Current, At
  <2>3. QED
    BY <1>1, <2>1, <2>2, MoveCoherent
<1>5. QED
  BY <1>2, <1>3, <1>4

LEMMA RereadCoherent ==
  ASSUME IInv, NEW p \in Products, Coherent(p), NEW t \in Tasks, Reread(t)
  PROVE  Coherent(p)'
<1>1. At(t, "reread") /\ UNCHANGED <<storeVars, disturbed>>
  BY DEF Reread
<1>2. task[t].id = p => BusyWriter(t, p) /\ p \in issued
  BY <1>1 DEF BusyWriter, At, Coherent, Untouched
<1>3. CASE db[task[t].id] # Nil
  <2>1. Goto(t, "refresh", db[task[t].id]) /\ UNCHANGED kafkaVars
    BY <1>3 DEF Reread
  <2>2. /\ Moves(t) /\ task'[t].pc = "refresh"
        /\ task'[t].row = db[task[t].id] /\ task'[t].id = task[t].id
    BY <2>1, GotoMoves
  <2>3. HoldsRow(t, p)' => Current(t, p)'
    BY <1>1, <1>3, <2>2 DEF HoldsRow, Current, At, storeVars
  <2>4. Repairs(t, p) => Repairs(t, p)'
    BY <1>1, <1>3, <2>2 DEF Repairs, BusyWriter, At, storeVars
  <2>5. p \notin issued => ~HoldsRow(t, p)' /\ ~BusyWriter(t, p)'
    BY <1>2, <2>2 DEF HoldsRow, BusyWriter
  <2>6. QED
    BY <1>1, <2>2, <2>3, <2>4, <2>5, MoveCoherent
    DEF storeVars, Coherent, Untouched
<1>4. CASE db[task[t].id] = Nil
  <2>1. Moves(t) /\ ~HoldsRow(t, p)' /\ ~BusyWriter(t, p)'
    BY <1>4, EndMoves DEF Reread, Throw
  <2>2. ~Repairs(t, p)
    BY <1>1, <1>4 DEF Repairs, BusyWriter, At
  <2>3. QED
    BY <1>1, <2>1, <2>2, MoveCoherent DEF storeVars, Coherent, Untouched
<1>5. QED
  BY <1>3, <1>4

\* Whoever writes the row disturbs every other copy of it and will repair
\* the entry.
LEMMA WriteCoherent ==
  ASSUME IInv, NEW p \in Products, Coherent(p), NEW t \in Tasks,
         Update(t) \/ Delete(t)
  PROVE  Coherent(p)'
<1>1. ~BusyWriter(t, p) /\ UNCHANGED cache /\ disturbed \subseteq disturbed'
  BY DEF Update, Delete, BusyWriter, At, Disturb
<1>2. ASSUME Throw(t), UNCHANGED <<db, issued>> PROVE Coherent(p)'
  BY <1>1, <1>2, EndMoves, BystanderCoherent DEF Throw
<1>3. ASSUME NEW pc \in {"reread", "evict"}, Goto(t, pc, Nil),
             UNCHANGED <<issued, kafkaVars>>, Disturb(DisturbedByWrite(t, task[t].id)),
             \A q \in Products : q # task[t].id => db'[q] = db[q],
             db[task[t].id] # Nil, pc = "reread" => db'[task[t].id] # Nil
      PROVE  Coherent(p)'
  <2>1. /\ Moves(t) /\ task'[t].pc = pc /\ task'[t].id = task[t].id
    BY <1>3, GotoMoves
  <2>2. ~HoldsRow(t, p)'
    <3>1. t = Consumer \/ t # Consumer
      OBVIOUS
    <3>2. task'[t].pc \notin {"fill", "decide", "refresh", "update"}
      BY <1>3, <2>1
    <3>3. QED
      BY <3>2 DEF HoldsRow
  <2>3. CASE task[t].id # p
    <3>1. ~BusyWriter(t, p)'
      BY <2>1, <2>3 DEF BusyWriter
    <3>2. QED
      BY <1>1, <1>3, <2>1, <2>2, <2>3, <3>1, BystanderCoherent
  <2>4. CASE task[t].id = p
    <3>1. p \in issued
      BY <1>3, <2>4 DEF Coherent, Untouched
    <3>2. p \notin disturbed' => \A u \in Tasks : ~HoldsRow(u, p)'
      <4>1. p \notin disturbed' => \A u \in Tasks \ {t} : ~HoldsRow(u, p)
        BY <1>3, <2>4 DEF Disturb, DisturbedByWrite
      <4>2. QED
        BY <2>1, <2>2, <4>1, OthersKeep
    <3>3. Repairs(t, p)'
      BY <1>3, <2>1, <2>4 DEF Repairs, BusyWriter, At
    <3>4. QED
      BY <1>3, <3>1, <3>2, <3>3 DEF Coherent, Untouched, CopiesCurrent, InLine
  <2>5. QED
    BY <2>3, <2>4
<1>4. CASE Update(t) /\ Affects(task[t].id)
  <2>1. /\ Affects(task[t].id) /\ UpdateRow(t) /\ Goto(t, "reread", Nil)
        /\ Disturb(DisturbedByWrite(t, task[t].id)) /\ UNCHANGED kafkaVars
    BY <1>4 DEF Update
  <2>2. task[t].id \in Products
    BY <1>4, TaskProduct DEF Update, At
  <2>3. /\ \A q \in Products : q # task[t].id => db'[q] = db[q]
        /\ db'[task[t].id] # Nil /\ db[task[t].id] # Nil /\ UNCHANGED issued
    BY <2>1, <2>2 DEF UpdateRow, Affects, IInv, StoreInv
  <2>4. QED
    BY <1>3, <2>1, <2>3
<1>5. CASE Delete(t) /\ db[task[t].id] # Nil
  <2>1. /\ db[task[t].id] # Nil /\ DeleteRow(t) /\ Goto(t, "evict", Nil)
        /\ Disturb(DisturbedByWrite(t, task[t].id)) /\ UNCHANGED kafkaVars
    BY <1>5 DEF Delete
  <2>2. /\ \A q \in Products : q # task[t].id => db'[q] = db[q]
        /\ UNCHANGED issued
    BY <2>1 DEF DeleteRow, IInv, StoreInv
  <2>3. QED
    BY <1>3, <2>1, <2>2
<1>6. QED
  BY <1>2, <1>4, <1>5 DEF Update, Delete

\* A product gets its row under an id nobody knows.
LEMMA InsertCoherent ==
  ASSUME IInv, NEW p \in Products, Coherent(p), NEW t \in Tasks,
         NEW q \in Products, Insert(t, q)
  PROVE  Coherent(p)'
<1>1. /\ task'[t].pc = "refresh" /\ task'[t].id = q
      /\ task'[t].row = task[t].patch /\ Moves(t)
  BY TaskProduct DEF Insert, Moves, IInv, TaskInv, TaskRecord
<1>2. /\ q \notin issued /\ db' = [db EXCEPT ![q] = task[t].patch]
      /\ issued' = issued \cup {q} /\ UNCHANGED <<cache, disturbed>>
      /\ task[t].patch # Nil /\ ~BusyWriter(t, p)
  BY TaskProduct DEF Insert, InsertRow, At, TaskRecord, BusyWriter
<1>3. CASE p # q
  BY <1>1, <1>2, <1>3, BystanderCoherent
  DEF HoldsRow, BusyWriter, IInv, StoreInv
<1>4. CASE p = q
  <2>1. cache'[p] = Nil /\ \A u \in Tasks \ {t} : ~HoldsRow(u, p)'
    BY <1>1, <1>2, <1>4, OthersKeep DEF Coherent, Untouched
  <2>2. Current(t, p)'
    BY <1>1, <1>2, <1>4 DEF Current, At, IInv, StoreInv
  <2>3. QED
    BY <1>2, <1>4, <2>1, <2>2 DEF Coherent, Untouched, CopiesCurrent, InLine
<1>5. QED
  BY <1>3, <1>4

\* The consumer deducts from the copy it holds.
LEMMA ConsumerCoherent ==
  ASSUME IInv, NEW p \in Products, Coherent(p), StartItem \/ Decide
  PROVE  Coherent(p)'
<1> DEFINE t == Consumer
<1>1. /\ t \in Tasks /\ task[t].pc \in {"idle", "decide"}
      /\ UNCHANGED <<storeVars, disturbed>>
  BY DEF Tasks, StartItem, Decide, At
<1>2. UNCHANGED <<db, cache, issued>> /\ ~BusyWriter(t, p)
  BY <1>1 DEF storeVars, BusyWriter
<1>3. ASSUME task'[t].pc \in {"idle", "get"}, Moves(t) PROVE Coherent(p)'
  <2>1. ~HoldsRow(t, p)' /\ ~BusyWriter(t, p)'
    BY <1>3 DEF HoldsRow, BusyWriter
  <2>2. QED
    BY <1>1, <1>2, <1>3, <2>1, BystanderCoherent
<1>4. CASE StartItem
  BY <1>1, <1>3, <1>4 DEF StartItem, Begin, Moves, IInv, TaskInv
<1>5. CASE Decide /\ Insufficient
  BY <1>1, <1>3, <1>5 DEF Decide, Idle, Moves, IInv, TaskInv
<1>6. CASE Decide /\ ~Insufficient
  <2>1. /\ task'[t] = Begin("update", task[t].id, NewStock)
        /\ Moves(t) /\ UNCHANGED <<topic, position, item>>
    BY <1>1, <1>6 DEF Decide, Moves, IInv, TaskInv
  <2>2. /\ task'[t].pc = "update" /\ task'[t].id = task[t].id
        /\ task'[t].patch = NewStock
    BY <2>1 DEF Begin
  <2>3. HoldsRow(t, p)' => HoldsRow(t, p)
    BY <1>6, <2>2 DEF HoldsRow, Decide, At
  <2>4. HoldsRow(t, p)' /\ p \notin disturbed => Current(t, p)'
    <3>1. HoldsRow(t, p) /\ p \notin disturbed =>
             task[t].row = db[p] /\ db[p] # Nil
      BY <1>1, <1>6 DEF Coherent, CopiesCurrent, Current, Decide, At
    <3>2. QED
      BY <1>2, <2>1, <2>2, <2>3, <3>1 DEF Current, At, NewStock, Items
  <2>5. ~BusyWriter(t, p)'
    BY <2>2 DEF BusyWriter
  <2>6. ~Repairs(t, p)
    BY <1>2 DEF Repairs
  <2>7. QED
    BY <1>1, <1>2, <2>1, <2>3, <2>4, <2>5, <2>6, MoveCoherent
    DEF Coherent, Untouched
<1>7. QED
  BY <1>4, <1>5, <1>6

\* Steps of no task: the item at hand and the copies stay what they are.
LEMMA EnvironmentCoherent ==
  ASSUME IInv, NEW p \in Products, Coherent(p),
         \/ EventDone \/ Commit \/ Rejoin
         \/ RedisError \/ RedisReady \/ UNCHANGED vars
         \/ \E items \in OrderEvents : PublishOrder(items)
  PROVE  Coherent(p)'
<1>1. UNCHANGED <<db, issued, cache, task, disturbed>>
  BY DEF EventDone, Commit, Rejoin, RedisError, RedisReady, PublishOrder,
         storeVars, vars
<1>2. ASSUME NEW t \in Tasks, HoldsRow(t, p), At(t, "update")
      PROVE  UNCHANGED <<Items, item>>
  <2>1. position < Len(topic) /\ ~At(Consumer, "idle")
    BY <1>2 DEF HoldsRow, At, IInv, ItemInv
  <2>2. CASE \E items \in OrderEvents : PublishOrder(items)
    <3>1. UNCHANGED <<position, item>> /\ topic'[position + 1] = topic[position + 1]
      BY <2>1, <2>2 DEF PublishOrder, IInv, KafkaInv
    <3>2. QED
      BY <3>1 DEF Items
  <2>3. CASE Commit \/ RedisError \/ RedisReady \/ UNCHANGED vars
    BY <2>3 DEF Commit, RedisError, RedisReady, vars, kafkaVars, Items
  <2>4. QED
    BY <2>1, <2>2, <2>3 DEF EventDone, Rejoin
<1>3. \A t \in Tasks : HoldsRow(t, p) => (Current(t, p)' <=> Current(t, p))
  BY <1>1, <1>2 DEF Current, At
<1>4. QED
  BY <1>1, <1>3
  DEF Coherent, Untouched, CopiesCurrent, InLine, HoldsRow, BusyWriter, Repairs, At

\* What leaves a writer's work undone disturbs its product.
LEMMA FaultCoherent ==
  ASSUME IInv, NEW p \in Products, Coherent(p), NEW t \in Tasks,
         \/ StatementFails(t) \/ CacheWriteLost(t) \/ CacheWriteSkipped(t)
  PROVE  Coherent(p)'
<1>1. /\ UNCHANGED storeVars /\ disturbed \subseteq disturbed'
      /\ Moves(t) /\ ~HoldsRow(t, p)' /\ ~BusyWriter(t, p)'
  BY EndMoves
  DEF StatementFails, CacheWriteLost, CacheWriteSkipped, Throw, Disturb, storeVars
<1>2. BusyWriter(t, p) => p \in disturbed'
  BY DEF StatementFails, CacheWriteLost, CacheWriteSkipped, Disturb, BusyWriter, At
<1>3. QED
  BY <1>1, <1>2, BystanderCoherent DEF storeVars

LEMMA AnswerLostCoherent ==
  ASSUME IInv, NEW p \in Products, Coherent(p), NEW t \in Tasks, AnswerLost(t)
  PROVE  Coherent(p)'
<1>1. /\ UNCHANGED cache /\ disturbed' = disturbed \cup ({task[t].id} \ {Nil})
      /\ Moves(t) /\ ~HoldsRow(t, p)' /\ ~BusyWriter(t, p)'
  BY EndMoves DEF AnswerLost, Throw, Disturb
<1>2. ~BusyWriter(t, p)
  BY DEF AnswerLost, BusyWriter, At
<1>3. ASSUME NEW q \in Products, InsertRow(t, q) PROVE Coherent(p)'
  <2>1. CASE q = p
    <3>1. cache'[p] = Nil /\ \A u \in Tasks : ~HoldsRow(u, p)'
      BY <1>1, <1>3, <2>1, OthersKeep DEF InsertRow, Coherent, Untouched
    <3>2. QED
      BY <1>3, <2>1, <3>1 DEF InsertRow, Coherent, Untouched, CopiesCurrent, InLine
  <2>2. CASE q # p
    <3>1. db'[p] = db[p] /\ (p \in issued' <=> p \in issued)
      BY <1>3, <2>2 DEF InsertRow, IInv, StoreInv
    <3>2. QED
      BY <1>1, <1>2, <3>1, BystanderCoherent
  <2>3. QED
    BY <2>1, <2>2
<1>4. CASE (UpdateRow(t) \/ DeleteRow(t)) /\ db[task[t].id] # Nil
  <2>1. CASE task[t].id = p
    <3>1. p \in issued' /\ p \in disturbed'
      BY <1>1, <1>4, <2>1, NilAssumption
      DEF UpdateRow, DeleteRow, Coherent, Untouched
    <3>2. QED
      BY <3>1 DEF Coherent, Untouched, CopiesCurrent, InLine
  <2>2. CASE task[t].id # p
    <3>1. db'[p] = db[p] /\ issued' = issued
      BY <1>4, <2>2 DEF UpdateRow, DeleteRow, IInv, StoreInv
    <3>2. QED
      BY <1>1, <1>2, <3>1, BystanderCoherent
  <2>3. QED
    BY <2>1, <2>2
<1>5. QED
  BY <1>3, <1>4 DEF AnswerLost, Affects

LEMMA CrashCoherent ==
  ASSUME IInv, NEW p \in Products, Coherent(p), Crash PROVE Coherent(p)'
<1>1. /\ \A t \in Tasks : ~HoldsRow(t, p)' /\ ~BusyWriter(t, p)'
      /\ UNCHANGED <<db, issued, cache>>
  BY DEF Crash, HoldsRow, BusyWriter, Idle
<1>2. p \notin disturbed' => /\ p \notin disturbed
                            /\ \A t \in Tasks : ~BusyWriter(t, p)
  BY DEF Crash, Disturb
<1>3. QED
  BY <1>1, <1>2 DEF Coherent, Untouched, CopiesCurrent, InLine, Repairs

----------------------------------------------------------------------------
LEMMA StepCoherent ==
  ASSUME IInv, NEW p \in Products, Coherent(p), NEW t \in Tasks, Step(t)
  PROVE  Coherent(p)'
  BY ReadCoherent, FillCoherent, InsertCoherent, WriteCoherent, RereadCoherent,
     RefreshCoherent, FaultCoherent DEF Step

LEMMA NextCoherent ==
  ASSUME IInv, NEW p \in Products, Coherent(p), [Next]_vars PROVE Coherent(p)'
<1>1. CASE \E h \in Handlers : Call(h) \/ Step(h)
  BY <1>1, CallCoherent, StepCoherent DEF Tasks
<1>2. CASE ConsumerStep
  BY <1>2, ConsumerCoherent, EnvironmentCoherent, StepCoherent
  DEF ConsumerStep, Tasks
<1>3. CASE \/ Commit \/ Rejoin \/ RedisError \/ RedisReady \/ UNCHANGED vars
           \/ \E items \in OrderEvents : PublishOrder(items)
  BY <1>3, EnvironmentCoherent
<1>4. CASE \E t \in Tasks : StatementFails(t) \/ AnswerLost(t) \/ CacheWriteLost(t)
  BY <1>4, FaultCoherent, AnswerLostCoherent
<1>5. CASE Crash
  BY <1>5, CrashCoherent
<1>6. QED
  BY <1>1, <1>2, <1>3, <1>4, <1>5 DEF Next

LEMMA NextCInv == ASSUME CInv, [Next]_vars PROVE CInv'
  BY NextIInv, NextCoherent DEF CInv

LEMMA CoherenceInvariance == Spec => []CInv
<1>1. Init => CInv
  <2>1. ASSUME Init PROVE \A p \in Products : Coherent(p)
    BY <2>1 DEF Init, Idle, Coherent, Untouched, CopiesCurrent, InLine,
                HoldsRow, BusyWriter
  <2>2. QED
    BY <2>1, InitIInv DEF CInv
<1>2. CInv /\ [Next]_vars => CInv'
  BY NextCInv
<1>3. QED
  BY <1>1, <1>2, PTL DEF Spec

\* Between its writers the cache agrees with the table: a stale entry needs
\* a race on the product or a fault at one of its writers.
THEOREM CacheStaysCoherent == Spec => []UndisturbedCacheCoherent
<1>1. CInv => UndisturbedCacheCoherent
  BY DEF CInv, Coherent, InLine, Repairs, UndisturbedCacheCoherent
<1>2. QED
  BY <1>1, CoherenceInvariance, PTL

----------------------------------------------------------------------------
\* Only its own UPDATE takes the consumer on to read the row back.
LEMMA DeductsByUpdate ==
  ASSUME IInv, [Next]_vars, NEW p \in Products, Deducts(p)
  PROVE  Update(Consumer) /\ Affects(p)
<1> DEFINE c == Consumer
<1>1. /\ c \in Tasks /\ c \notin Handlers
      /\ task \in [Tasks -> TaskRecord] /\ task[c].id = p
      /\ task[c].pc = "update" /\ task'[c].pc = "reread"
  BY ConsumerAssumption DEF Deducts, At, Tasks, IInv, TaskInv
<1>2. ASSUME NEW t \in Tasks, NEW s, EndWith(t, s) PROVE FALSE
  BY <1>1, <1>2 DEF EndWith, Idle
<1>3. ASSUME NEW h \in Handlers, NEW k, task' = [task EXCEPT ![h] = k] PROVE FALSE
  BY <1>1, <1>3
<1>4. ASSUME NEW h \in Handlers, Call(h) PROVE FALSE
  BY <1>3, <1>4 DEF Call, GetProduct, CreateProduct, UpdateStock,
                    UpdateProduct, DeleteProduct, StartCall
<1>5. ASSUME NEW h \in Handlers, Step(h) PROVE FALSE
  <2>1. h \in Tasks /\ h # Consumer
    BY <1>1 DEF Tasks
  <2>2. CASE CacheHit(h) \/ CacheMiss(h) \/ FindById(h) \/ Fill(h) \/ FillLost(h)
    BY <1>2, <1>3, <2>1, <2>2
    DEF CacheHit, CacheMiss, FindById, Fill, FillLost, Found, Throw, Goto
  <2>3. CASE \E q \in Products : Insert(h, q)
    BY <1>3, <2>3 DEF Insert
  <2>4. CASE Update(h) \/ Reread(h) \/ Refresh(h) \/ Delete(h) \/ Evict(h)
    BY <1>2, <1>3, <2>1, <2>4
    DEF Update, Reread, Refresh, Delete, Evict, Throw, Goto
  <2>5. CASE CacheWriteSkipped(h)
    BY <1>2, <2>1, <2>5 DEF CacheWriteSkipped
  <2>6. QED
    BY <1>5, <2>2, <2>3, <2>4, <2>5 DEF Step
<1>6. CASE \/ Commit \/ Rejoin \/ RedisError \/ RedisReady \/ UNCHANGED vars
           \/ \E items \in OrderEvents : PublishOrder(items)
  BY <1>1, <1>6 DEF Commit, Rejoin, RedisError, RedisReady, PublishOrder, vars
<1>7. CASE \E t \in Tasks : StatementFails(t) \/ AnswerLost(t) \/ CacheWriteLost(t)
  BY <1>2, <1>7 DEF StatementFails, AnswerLost, CacheWriteLost, Throw
<1>8. CASE Crash
  BY <1>1, <1>8 DEF Crash, Idle
<1>9. CASE StartItem \/ Decide \/ EventDone
  BY <1>1, <1>9 DEF StartItem, Decide, EventDone, At
<1>10. CASE Step(c)
  <2>1. Update(c)
    BY <1>1, <1>10
    DEF Step, CacheHit, CacheMiss, FindById, Fill, FillLost, Insert, Reread,
        Refresh, Delete, Evict, CacheWriteSkipped, At
  <2>2. QED
    BY <1>1, <1>2, <2>1 DEF Update, Throw
<1>11. QED
  BY <1>4, <1>5, <1>6, <1>7, <1>8, <1>9, <1>10 DEF Next, ConsumerStep

LEMMA DeductsFromRow ==
  ASSUME CInv, [Next]_vars, NEW p \in Products \ disturbed', Deducts(p)
  PROVE  Deduction(p)
<1>1. Update(Consumer) /\ Affects(p) /\ task[Consumer].id = p
  BY DeductsByUpdate DEF CInv, Deducts
<1>2. At(Consumer, "update") /\ Consumer \in Tasks /\ HoldsRow(Consumer, p)
  BY <1>1 DEF Update, HoldsRow, At, Tasks
<1>3. p \notin disturbed
  BY <1>1 DEF Update, Disturb
<1>4. task[Consumer].patch = db[p] - Items[item].quantity
  BY <1>2, <1>3 DEF CInv, Coherent, CopiesCurrent, Current
<1>5. task[Consumer].patch # Nil
  <2>1. db[p] \in Nat
    BY <1>1 DEF Affects, CInv, IInv, StoreInv, Stock
  <2>2. Items[item].quantity \in Nat
    BY <1>2, ItemAtHand DEF CInv, IInv, ItemInv, At
  <2>3. QED
    BY <1>4, <2>1, <2>2, NilAssumption
<1>6. UpdateRow(Consumer)
  BY <1>1 DEF Update
<1>7. QED
  BY <1>1, <1>4, <1>5, <1>6 DEF UpdateRow, Deduction, CInv, IInv, StoreInv

\* An order takes its quantity off the stock the table holds, unless the
\* product was written, read between two writes or hit by a fault meanwhile.
THEOREM OrdersDeductFromRow == Spec => UndisturbedDeduction
<1>1. CInv /\ [Next]_vars
        => [\A p \in Products \ disturbed' : Deducts(p) => Deduction(p)]_vars
  BY DeductsFromRow
<1>2. QED
  BY <1>1, CoherenceInvariance, PTL DEF Spec, UndisturbedDeduction

----------------------------------------------------------------------------
(* What the consumer is served: see AtLeastOnce.                           *)

LEMMA NextDelivers ==
  ASSUME IInv, [Next]_vars PROVE [Delivery!Next]_(Delivery!vars)
<1> USE DEF Delivery!vars
<1>0. ASSUME UNCHANGED <<topic, position, committed>>
      PROVE  UNCHANGED Delivery!vars
  BY <1>0
<1>1. ASSUME NEW h \in Handlers, Call(h) PROVE UNCHANGED Delivery!vars
  BY <1>0, <1>1 DEF Call, GetProduct, CreateProduct, UpdateStock,
                    UpdateProduct, DeleteProduct, StartCall, kafkaVars
<1>2. ASSUME NEW t \in Tasks, NEW s, EndWith(t, s) PROVE UNCHANGED Delivery!vars
  BY <1>0, <1>2 DEF EndWith, NextItem, kafkaVars
<1>3. ASSUME NEW t \in Tasks, Step(t) PROVE UNCHANGED Delivery!vars
  BY <1>0, <1>2, <1>3
  DEF Step, CacheHit, CacheMiss, FindById, Fill, FillLost, Insert, Update, Reread,
      Refresh, Delete, Evict, CacheWriteSkipped, Found, Throw, kafkaVars
<1>4. CASE \E t \in Tasks : StatementFails(t) \/ AnswerLost(t) \/ CacheWriteLost(t)
  BY <1>2, <1>4 DEF StatementFails, AnswerLost, CacheWriteLost, Throw
<1>5. CASE StartItem \/ Decide
  BY <1>0, <1>2, <1>5 DEF StartItem, Decide, Throw, NextItem, Tasks, kafkaVars
<1>6. CASE EventDone
  BY <1>6 DEF EventDone, Delivery!Handle, Delivery!Next
<1>7. CASE Commit
  BY <1>7 DEF Commit, Delivery!Commit, Delivery!Next
<1>8. ASSUME NEW items \in OrderEvents, PublishOrder(items) PROVE Delivery!Next
  <2>1. Len(topic') = Len(topic) + 1
    BY <1>8 DEF PublishOrder, IInv, KafkaInv
  <2>2. QED
    BY <1>8, <2>1 DEF PublishOrder, Delivery!Send, Delivery!Next
<1>9. CASE Crash \/ Rejoin
  BY <1>9 DEF Crash, Rejoin, Delivery!Resume, Delivery!Next
<1>10. CASE RedisError \/ RedisReady \/ UNCHANGED vars
  BY <1>0, <1>10 DEF RedisError, RedisReady, vars, kafkaVars
<1>11. QED
  BY <1>1, <1>3, <1>4, <1>5, <1>6, <1>7, <1>8, <1>9, <1>10
  DEF Next, ConsumerStep, Tasks

\* However its items end and whatever fails, the consumer goes through the
\* events as AtLeastOnce serves them.
THEOREM EventsAsDelivered == Spec => DeliverySpec
<1>1. Init => Delivery!Init
  BY DEF Init, Delivery!Init
<1>2. IInv /\ [Next]_vars => [Delivery!Next]_(Delivery!vars)
  BY NextDelivers
<1>3. QED
  BY <1>1, <1>2, Invariance, PTL DEF Spec, DeliverySpec, Delivery!Spec
=============================================================================
