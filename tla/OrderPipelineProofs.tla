------------------------ MODULE OrderPipelineProofs ------------------------
(***************************************************************************)
(* Theorems about OrderPipeline, for any orders, items, stocks and bounds: *)
(* what both services keep each for itself goes on to hold, and the books  *)
(* tie the orders of the one to the stock of the other.                    *)
(***************************************************************************)
EXTENDS OrderPipeline, SequenceTheorems, FiniteSetTheorems, TLAPS

\* The services once more, with what is proved of them.
OSP == INSTANCE OrderServiceProofs WITH
        Handlers <- Placing, reply <- answer,
        cache <- orderCache, isConnected <- orderConnected

PSP == INSTANCE ProductServiceProofs WITH
        Handlers <- {}, Stocks <- {}, reply <- [h \in {} |-> "none"],
        OrderEvents <- {ItemsOf[o] : o \in Orders}

----------------------------------------------------------------------------
(* Steps of the services as steps of their proofs.                         *)

LEMMA OrderAssumptions == OSP!NilAssumption /\ OSP!BoundsAssumption
  BY NilAssumption, BoundsAssumption DEF OSP!NilAssumption, OSP!BoundsAssumption

LEMMA ProductAssumptions ==
    /\ PSP!NilAssumption /\ PSP!ConsumerAssumption /\ PSP!StocksAssumption
    /\ PSP!OrderEventsAssumption /\ PSP!BoundsAssumption
  BY NilAssumption, BoundsAssumption, ItemsAssumption
  DEF PSP!NilAssumption, PSP!ConsumerAssumption, PSP!StocksAssumption,
      PSP!OrderEventsAssumption, PSP!BoundsAssumption

\* What either service does in the pipeline.
OrderStep ==
    \/ \E h \in Placing : PlaceOrder(h)
    \/ \E o \in Orders : PublishReturns(o) \/ EventAppended(o)
    \/ OrderServiceCrash

ProductStep ==
    \/ Consume \/ ConsumeFails \/ Commit \/ RedisComesAndGoes
    \/ ProductServiceCrash \/ Rejoin
    \/ \E o \in Orders : EventAppended(o)

LEMMA OrderStepIs == ASSUME OrderStep PROVE OSP!Next
<1> USE DEF OS!At, OSP!At, OS!Idle, OSP!Idle, OS!Goto, OSP!Goto, OS!Answer,
            OSP!Answer, OS!Fault, OSP!Fault, OS!publishVars, OSP!publishVars
<1>1. ASSUME NEW h \in Placing, OS!CreateOrder(h) PROVE OSP!Next
  <2>1. OSP!StartCall(h, "save", Nil)
    BY <1>1 DEF OS!CreateOrder, OS!StartCall, OSP!StartCall
  <2>2. OSP!IdLeft
    BY <1>1 DEF OS!CreateOrder, OS!IdLeft, OSP!IdLeft, OS!Cardinality, OSP!Cardinality
  <2> QED
    BY <2>1, <2>2 DEF OSP!CreateOrder, OSP!Call, OSP!Next
<1>2. ASSUME NEW h \in Placing, \E o \in Orders : OS!Save(h, o) PROVE OSP!Next
  <2>1. \E o \in Orders : OSP!Save(h, o)
    BY <1>2 DEF OS!Save, OSP!Save
  <2> QED
    BY <2>1 DEF OSP!Step, OSP!Next
<1>3. ASSUME NEW h \in Placing, OS!SaveFails(h) PROVE OSP!Next
  <2>1. OSP!SaveFails(h)
    BY <1>3 DEF OS!SaveFails, OSP!SaveFails
  <2> QED
    BY <2>1 DEF OSP!Step, OSP!Next
<1>4. ASSUME NEW h \in Placing, OS!PublishOrderCreated(h) PROVE OSP!Next
  <2>1. OSP!PublishOrderCreated(h)
    BY <1>4 DEF OS!PublishOrderCreated, OSP!PublishOrderCreated,
                OS!Publish!Call, OSP!Publish!Call
  <2> QED
    BY <2>1 DEF OSP!Step, OSP!Next
<1>5. ASSUME NEW h \in Placing, OS!OrderCreated(h) PROVE OSP!Next
  <2>1. OSP!OrderCreated(h)
    BY <1>5 DEF OS!OrderCreated, OSP!OrderCreated
  <2> QED
    BY <2>1 DEF OSP!Step, OSP!Next
<1>6. ASSUME NEW h \in Placing, PlaceOrder(h) PROVE OSP!Next
  BY <1>1, <1>2, <1>3, <1>4, <1>5, <1>6 DEF PlaceOrder
<1>7. CASE OrderServiceCrash
  <2>1. OSP!Crash
    BY <1>7 DEF OrderServiceCrash, OS!Crash, OSP!Crash
  <2> QED
    BY <2>1 DEF OSP!Next
<1>8. ASSUME NEW o \in Orders, PublishReturns(o) \/ EventAppended(o) PROVE OSP!Next
  <2>1. OSP!Messaging(o)
    BY <1>8 DEF PublishReturns, EventAppended, OSP!Messaging, PS!PublishOrder,
                OS!Publish!Append, OSP!Publish!Append,
                OS!Publish!Return, OSP!Publish!Return
  <2> QED
    BY <2>1 DEF OSP!Next
<1> QED
  BY <1>6, <1>7, <1>8 DEF OrderStep

LEMMA OrderStepOSP == ASSUME OSP!IInv, OrderStep PROVE OSP!IInv'
  BY OrderStepIs, OrderAssumptions, OSP!NextIInv

\* Of the product service the order service knows the number of faults only.
LEMMA ProductStepOSP ==
  ASSUME OSP!IInv, UNCHANGED orderVars, faults' \in 0..MaxFaults
  PROVE  OSP!IInv'
  BY DEF orderVars, OSP!IInv, OSP!TypeOK, OSP!CallsHaveOrders,
         OSP!PublishedAreSaved, OSP!SavedIsPublished, OSP!At

LEMMA ConsumerMaps ==
  /\ PS!ConsumerStep => PSP!ConsumerStep
  /\ PS!StatementFails(Consumer) => PSP!StatementFails(Consumer)
  /\ PS!AnswerLost(Consumer) => PSP!AnswerLost(Consumer)
  /\ PS!CacheWriteLost(Consumer) => PSP!CacheWriteLost(Consumer)
  BY DEF PS!ConsumerStep, PSP!ConsumerStep, PS!StartItem, PSP!StartItem,
         PS!Decide, PSP!Decide, PS!EventDone, PSP!EventDone, PS!Step, PSP!Step,
         PS!CacheHit, PSP!CacheHit, PS!CacheMiss, PSP!CacheMiss,
         PS!FindById, PSP!FindById, PS!Fill, PSP!Fill, PS!FillLost, PSP!FillLost,
         PS!Insert, PSP!Insert, PS!Update, PSP!Update, PS!Reread, PSP!Reread,
         PS!Refresh, PSP!Refresh, PS!Delete, PSP!Delete, PS!Evict, PSP!Evict,
         PS!CacheWriteSkipped, PSP!CacheWriteSkipped,
         PS!StatementFails, PSP!StatementFails, PS!AnswerLost, PSP!AnswerLost,
         PS!CacheWriteLost, PSP!CacheWriteLost,
         PS!At, PSP!At, PS!Goto, PSP!Goto, PS!Items, PSP!Items,
         PS!NextItem, PSP!NextItem, PS!EndWith, PSP!EndWith, PS!Throw, PSP!Throw,
         PS!Found, PSP!Found, PS!CacheSet, PSP!CacheSet, PS!Fault, PSP!Fault,
         PS!Disturb, PSP!Disturb, PS!DisturbedByWrite, PSP!DisturbedByWrite,
         PS!Tasks, PSP!Tasks, PS!Idle, PSP!Idle, PS!Begin, PSP!Begin,
         PS!BusyWriter, PSP!BusyWriter, PS!HoldsRow, PSP!HoldsRow,
         PS!InsertRow, PSP!InsertRow, PS!Affects, PSP!Affects,
         PS!UpdateRow, PSP!UpdateRow, PS!DeleteRow, PSP!DeleteRow,
         PS!NewStock, PSP!NewStock, PS!Insufficient, PSP!Insufficient,
         PS!storeVars, PSP!storeVars, PS!kafkaVars, PSP!kafkaVars

LEMMA ProductStepIs == ASSUME ProductStep PROVE PSP!Next
<1>1. ASSUME Consume \/ ConsumeFails PROVE PSP!Next
  BY <1>1, ConsumerMaps DEF Consume, ConsumeFails, PSP!Next, PSP!Tasks
<1>2. ASSUME Commit \/ RedisComesAndGoes PROVE PSP!Next
  BY <1>2 DEF Commit, RedisComesAndGoes, PSP!Next, PS!Commit, PSP!Commit,
              PS!RedisError, PSP!RedisError, PS!RedisReady, PSP!RedisReady,
              PS!Fault, PSP!Fault, PS!storeVars, PSP!storeVars,
              PS!kafkaVars, PSP!kafkaVars
<1>3. ASSUME ProductServiceCrash PROVE PSP!Next
  BY <1>3 DEF ProductServiceCrash, PSP!Next, PS!Crash, PSP!Crash, PS!Fault,
              PSP!Fault, PS!Tasks, PSP!Tasks, PS!Idle, PSP!Idle, PS!Disturb,
              PSP!Disturb, PS!BusyWriter, PSP!BusyWriter
<1>4. ASSUME NEW o \in Orders, EventAppended(o) PROVE PSP!Next
  BY <1>4 DEF EventAppended, PSP!Next, PS!PublishOrder, PSP!PublishOrder,
              PS!storeVars, PSP!storeVars
<1>5. ASSUME Rejoin PROVE PSP!Next
  BY <1>5 DEF Rejoin, PSP!Next, PS!Rejoin, PSP!Rejoin, PS!At, PSP!At, PS!Fault,
              PSP!Fault, PS!storeVars, PSP!storeVars
<1> QED
  BY <1>1, <1>2, <1>3, <1>4, <1>5 DEF ProductStep

LEMMA ProductStepPSP == ASSUME PSP!CInv, ProductStep PROVE PSP!CInv'
  BY ProductStepIs, ProductAssumptions, PSP!NextCInv

\* Nor does the order service touch more of the product service than faults.
LEMMA OrderStepPSP ==
  ASSUME PSP!CInv, UNCHANGED productVars, faults' \in 0..MaxFaults
  PROVE  PSP!CInv'
<1>1. UNCHANGED <<db, issued, cache, isConnected, task, topic, position,
                  committed, item, disturbed>>
  BY DEF productVars
<1>2. PSP!IInv'
  BY <1>1 DEF PSP!CInv, PSP!IInv, PSP!StoreInv, PSP!TaskInv, PSP!ReplyInv,
              PSP!KafkaInv, PSP!ItemInv, PSP!FaultInv, PSP!Items
<1>3. ASSUME NEW p \in Products PROVE PSP!Coherent(p)' <=> PSP!Coherent(p)
  BY <1>1 DEF PSP!Coherent, PSP!Untouched, PSP!CopiesCurrent, PSP!InLine,
              PSP!HoldsRow, PSP!BusyWriter, PSP!Repairs, PSP!Current, PSP!At,
              PSP!Items
<1> QED
  BY <1>2, <1>3 DEF PSP!CInv

----------------------------------------------------------------------------
(* The consumer's part of the invariant, and its moves.                    *)

\* The consumer reads and updates, and is at the product of the item at hand.
ConsumerInv ==
    /\ task[Consumer].pc \notin {"insert", "delete", "evict"}
    /\ ~At("idle") => task[Consumer].id = PS!Items[item].productId

\* The orders and items in the books are those of the events.
BooksInv ==
    /\ initial \in InitialStocks
    /\ log \in Seq(Orders)
    /\ topic = [n \in DOMAIN log |-> ItemsOf[log[n]]]
    /\ DOMAIN deducted = Orders
    /\ \A o \in Orders : deducted[o] \in [DOMAIN ItemsOf[o] -> Nat]
    /\ short \subseteq Orders /\ failed \subseteq Orders
    /\ restarts \in 0..faults

BaseInv == OSP!IInv /\ PSP!CInv /\ ConsumerInv /\ BooksInv

\* The UPDATE of the item at hand is over, what it wrote is not in the cache.
Written == task[Consumer].pc \in {"reread", "refresh"}

LEMMA ProductFacts ==
  ASSUME PSP!CInv
  PROVE  /\ db \in [Products -> Nat \cup {Nil}]
         /\ Consumer \in DOMAIN task
         /\ task[Consumer].id \in Products \cup {Nil}
         /\ task[Consumer].pc \notin {"idle", "insert"} => task[Consumer].id \in Products
         /\ Len(topic) \in Nat
         /\ position \in 0..Len(topic) /\ committed \in 0..position
         /\ item \in Nat \ {0}
         /\ ~At("idle") => position < Len(topic) /\ item <= Len(PS!Items)
         /\ faults \in 0..MaxFaults /\ disturbed \subseteq Products
<1>1. /\ db \in [Products -> Nat \cup {Nil}]
      /\ faults \in 0..MaxFaults /\ disturbed \subseteq Products
  BY DEF PSP!CInv, PSP!IInv, PSP!StoreInv, PSP!FaultInv, PSP!Stock
<1>2. /\ Consumer \in DOMAIN task
      /\ task[Consumer].id \in Products \cup {Nil}
      /\ task[Consumer].pc \notin {"idle", "insert"} => task[Consumer].id \in Products
  <2>1. task \in [{Consumer} -> PSP!TaskRecord]
    BY DEF PSP!CInv, PSP!IInv, PSP!TaskInv, PSP!Tasks
  <2> QED
    BY <2>1 DEF PSP!TaskRecord
<1>3. /\ position \in 0..Len(topic) /\ committed \in 0..position
      /\ item \in Nat \ {0} /\ Len(topic) \in Nat
      /\ ~At("idle") => position < Len(topic) /\ item <= Len(PS!Items)
  BY DEF PSP!CInv, PSP!IInv, PSP!KafkaInv, PSP!ItemInv, PSP!Items, PS!Items, At
<1> QED
  BY <1>1, <1>2, <1>3

\* What the consumer decides on, and writes, is what the table holds, unless
\* its product is disturbed.
LEMMA CurrentCopy ==
  ASSUME PSP!CInv, task[Consumer].id \in Products \ disturbed
  PROVE  LET p == task[Consumer].id IN
         /\ At("decide") => db[p] # Nil /\ task[Consumer].row = db[p]
         /\ At("update") => /\ db[p] # Nil
                            /\ task[Consumer].patch = db[p] - PS!Items[item].quantity
<1>1. At("decide") \/ At("update") => PSP!Current(Consumer, task[Consumer].id)
  BY DEF PSP!CInv, PSP!Coherent, PSP!CopiesCurrent, PSP!HoldsRow, PSP!Tasks, At
<1> QED
  BY <1>1 DEF PSP!Current, PSP!At, PSP!Items, PS!Items, At

LEMMA EndMove ==
  ASSUME PSP!CInv, NEW s, PS!EndWith(Consumer, s)
  PROVE  /\ task'[Consumer].pc = "idle" /\ item' = item + 1
         /\ UNCHANGED <<topic, position, committed>>
  BY ProductFacts DEF PS!EndWith, PS!NextItem, PS!Idle

LEMMA GotoMove ==
  ASSUME PSP!CInv, NEW pc, NEW row, PS!Goto(Consumer, pc, row)
  PROVE  task'[Consumer].pc = pc /\ task'[Consumer].id = task[Consumer].id
<1>1. task \in [{Consumer} -> PSP!TaskRecord]
  BY DEF PSP!CInv, PSP!IInv, PSP!TaskInv, PSP!Tasks
<1>2. task'[Consumer] = [task[Consumer] EXCEPT !.pc = pc, !.row = row]
  BY <1>1 DEF PS!Goto
<1> QED
  BY <1>1, <1>2 DEF PSP!TaskRecord

\* The order at hand, and its items.
LEMMA OrderAtHand ==
  ASSUME PSP!CInv, BooksInv
  PROVE  /\ Len(log) \in Nat /\ DOMAIN log = 1..Len(log) /\ Len(topic) = Len(log)
         /\ \A n \in 1..Len(log) : log[n] \in Orders
         /\ position < Len(log) =>
              /\ position + 1 \in 1..Len(log) /\ Order \in Orders
              /\ PS!Items = ItemsOf[Order]
              /\ DOMAIN ItemsOf[Order] = 1..Len(ItemsOf[Order])
              /\ Len(ItemsOf[Order]) \in Nat
<1>1. /\ Len(log) \in Nat /\ DOMAIN log = 1..Len(log)
      /\ \A n \in 1..Len(log) : log[n] \in Orders
  BY LenProperties, ElementOfSeq DEF BooksInv
<1>2. Len(topic) = Len(log)
  <2>1. topic \in Seq({ItemsOf[o] : o \in Orders})
    BY DEF PSP!CInv, PSP!IInv, PSP!KafkaInv
  <2>2. DOMAIN topic = 1..Len(topic) /\ Len(topic) \in Nat
    BY <2>1, LenProperties
  <2>3. DOMAIN topic = 1..Len(log)
    BY <1>1 DEF BooksInv
  <2>4. ASSUME NEW m \in Nat, NEW n \in Nat, 1..m = 1..n PROVE m <= n
    BY <2>4, m = 0 \/ m \in 1..m
  <2> DEFINE k == Len(topic)
             n == Len(log)
  <2>5. k \in Nat /\ n \in Nat /\ 1..k = 1..n
    BY <1>1, <2>2, <2>3
  <2> HIDE DEF k, n
  <2>6. k <= n /\ n <= k
    BY <2>4, <2>5
  <2>7. k = n
    BY <2>5, <2>6
  <2> QED
    BY <2>7 DEF k, n
<1>3. ASSUME position < Len(log)
      PROVE  /\ position + 1 \in 1..Len(log) /\ Order \in Orders
             /\ PS!Items = ItemsOf[Order]
  <2>1. position + 1 \in 1..Len(log)
    BY <1>1, <1>2, <1>3, ProductFacts
  <2> QED
    BY <1>1, <2>1 DEF BooksInv, Order, PS!Items
<1>4. ASSUME position < Len(log)
      PROVE  /\ DOMAIN ItemsOf[Order] = 1..Len(ItemsOf[Order])
             /\ Len(ItemsOf[Order]) \in Nat
  <2>1. ItemsOf[Order] \in Seq([productId : Products, quantity : Nat \ {0}])
    BY <1>3, <1>4, ItemsAssumption
  <2> QED
    BY <2>1, LenProperties
<1> QED
  BY <1>1, <1>2, <1>3, <1>4

\* The consumer turns to an item.
Begins ==
    /\ At("idle") /\ ~ItemEnds /\ ~Written'
    /\ ConsumerInv'
    /\ UNCHANGED <<topic, position, committed, item, db, deducted>>

\* It goes on with its item, not by an UPDATE.
GoesOn ==
    /\ ~At("idle") /\ ~ItemEnds /\ (Written' <=> Written)
    /\ ConsumerInv'
    /\ UNCHANGED <<topic, position, committed, item, db, deducted>>

\* Its UPDATE takes effect, with or without an answer.
Deducts ==
    /\ At("update")
    /\ \/ Written' /\ ~ItemEnds /\ item' = item
       \/ ItemEnds /\ item' = item + 1
    /\ ConsumerInv'
    /\ LET p == task[Consumer].id IN
         /\ \A q \in Products \ {p} : db'[q] = db[q]
         /\ p \notin disturbed' =>
              db[p] # Nil /\ db'[p] = db[p] - PS!Items[item].quantity
    /\ deducted' = [deducted EXCEPT ![Order][item] = @ + 1]
    /\ UNCHANGED <<topic, position, committed>>

\* It is done with its item: after the UPDATE, or with an entry in the books.
Ends ==
    /\ ~At("idle") /\ ItemEnds
    /\ item' \in Nat /\ item < item'
    /\ (Written /\ item' = item + 1) \/ Order \in short' \cup failed'
    /\ At("decide") /\ faults' = faults => PS!Insufficient
    /\ UNCHANGED <<topic, position, committed, db, deducted>>

\* It is done with the event.
Passes ==
    /\ At("idle") /\ ItemEnds
    /\ position < Len(topic) /\ item > Len(PS!Items)
    /\ position' = position + 1 /\ item' = 1
    /\ UNCHANGED <<topic, committed, db, deducted>>

\* The rest of the books only grow.
BooksGrow ==
    /\ UNCHANGED <<orderVars, initial, log, restarts>>
    /\ short \subseteq short' /\ short' \subseteq Orders
    /\ failed \subseteq failed' /\ failed' \subseteq Orders
    /\ disturbed \subseteq disturbed'
    /\ faults' \in Nat /\ faults <= faults'

Moves == Begins \/ GoesOn \/ Deducts \/ Ends \/ Passes

LEMMA GoOnMove ==
  ASSUME BaseInv, Keep(FALSE), ~At("idle"),
         NEW pc \in {"find", "fill", "decide", "refresh"}, NEW row,
         PS!Goto(Consumer, pc, row), pc = "refresh" <=> Written,
         UNCHANGED <<db, topic, position, committed, item>>
  PROVE  GoesOn
<1>1. task'[Consumer].pc = pc /\ task'[Consumer].id = task[Consumer].id
  BY GotoMove DEF BaseInv
<1>2. deducted' = deducted
  BY DEF Keep
<1>3. ConsumerInv'
  BY <1>1 DEF BaseInv, ConsumerInv, At, PS!Items
<1> QED
  BY <1>1, <1>2, <1>3 DEF GoesOn, ItemEnds, Written

LEMMA EndsMove ==
  ASSUME BaseInv, Keep(FALSE), NEW s, PS!EndWith(Consumer, s),
         Written \/ At("find") \/ At("update"), UNCHANGED db
  PROVE  Ends
<1>1. /\ task'[Consumer].pc = "idle" /\ item' = item + 1
      /\ UNCHANGED <<topic, position, committed>>
  BY EndMove DEF BaseInv
<1>2. ~At("idle") /\ ~At("decide")
  BY DEF At, Written
<1>3. item \in Nat /\ Order \in Orders
  BY <1>2, ProductFacts, OrderAtHand DEF BaseInv
<1>4. deducted' = deducted /\ (At("find") \/ At("update") => Order \in failed')
  BY <1>1, <1>3 DEF Keep, ItemEnds
<1> QED
  BY <1>1, <1>2, <1>3, <1>4 DEF Ends, ItemEnds

\* A step of the consumer that is no UPDATE leaves no trace but Keep(FALSE).
LEMMA StepMove ==
  ASSUME BaseInv, PS!Step(Consumer), Keep(FALSE), ~At("update")
  PROVE  GoesOn \/ Ends
<1> USE DEF PS!At, PS!storeVars, PS!kafkaVars
<1>1. task[Consumer].pc \notin {"insert", "delete", "evict"}
  BY DEF BaseInv, ConsumerInv
<1>2. CASE PS!CacheHit(Consumer)
  BY <1>2, GoOnMove DEF PS!CacheHit, At, Written
<1>3. CASE PS!CacheMiss(Consumer)
  BY <1>3, GoOnMove DEF PS!CacheMiss, At, Written
<1>4. CASE PS!FindById(Consumer)
  <2>1. At("find") /\ ~At("idle") /\ ~Written /\ UNCHANGED db
    BY <1>4 DEF PS!FindById, At, Written
  <2>2. CASE db[task[Consumer].id] # Nil
    BY <1>4, <2>1, <2>2, GoOnMove DEF PS!FindById
  <2>3. CASE db[task[Consumer].id] = Nil
    BY <1>4, <2>1, <2>3, EndsMove DEF PS!FindById, PS!Throw
  <2> QED
    BY <2>2, <2>3
<1>5. CASE PS!Fill(Consumer) \/ PS!FillLost(Consumer)
  BY <1>5, GoOnMove DEF PS!Fill, PS!FillLost, PS!Found, At, Written
<1>6. CASE PS!Reread(Consumer)
  <2>1. Written /\ ~At("idle") /\ UNCHANGED db
    BY <1>6 DEF PS!Reread, At, Written
  <2>2. CASE db[task[Consumer].id] # Nil
    BY <1>6, <2>1, <2>2, GoOnMove DEF PS!Reread
  <2>3. CASE db[task[Consumer].id] = Nil
    BY <1>6, <2>1, <2>3, EndsMove DEF PS!Reread, PS!Throw
  <2> QED
    BY <2>2, <2>3
<1>7. CASE PS!Refresh(Consumer) \/ PS!CacheWriteSkipped(Consumer)
  <2>1. Written /\ UNCHANGED db /\ PS!EndWith(Consumer, "OK")
    BY <1>1, <1>7 DEF PS!Refresh, PS!CacheWriteSkipped, Written
  <2> QED
    BY <2>1, EndsMove
<1> QED
  BY <1>1, <1>2, <1>3, <1>4, <1>5, <1>6, <1>7
  DEF PS!Step, PS!Insert, PS!Update, PS!Delete, PS!Evict, At

\* An UPDATE that takes effect.
LEMMA UpdateMove ==
  ASSUME BaseInv, At("update"), PS!UpdateRow(Consumer), PS!Affects(task[Consumer].id),
         deducted' = [deducted EXCEPT ![Order][item] = @ + 1],
         disturbed \subseteq disturbed',
         \/ PS!Goto(Consumer, "reread", Nil) /\ UNCHANGED <<topic, position, committed, item>>
         \/ /\ \E s : PS!EndWith(Consumer, s)
            /\ task[Consumer].id # Nil => task[Consumer].id \in disturbed'
  PROVE  Deducts
<1> DEFINE p == task[Consumer].id
<1>1. /\ p \in Products /\ db \in [Products -> Nat \cup {Nil}]
      /\ ~At("idle")
  BY ProductFacts DEF BaseInv, At
<1>2. \A q \in Products \ {p} : db'[q] = db[q]
  BY <1>1 DEF PS!UpdateRow
<1>3. ASSUME p \notin disturbed'
      PROVE  db[p] # Nil /\ db'[p] = db[p] - PS!Items[item].quantity
  <2>1. db[p] # Nil /\ task[Consumer].patch = db[p] - PS!Items[item].quantity
    BY <1>1, <1>3, CurrentCopy DEF BaseInv
  <2>2. db[p] \in Int /\ PS!Items[item].quantity \in Int
    <3>1. PSP!Items[item].quantity \in Nat
      BY <1>1, ProductAssumptions, PSP!ItemAtHand
      DEF BaseInv, PSP!CInv, PSP!IInv, PSP!ItemInv, At
    <3> QED
      BY <1>1, <2>1, <3>1 DEF PSP!Items, PS!Items
  <2>3. task[Consumer].patch # Nil
    BY <2>1, <2>2, NilAssumption
  <2> QED
    BY <1>1, <2>1, <2>3 DEF PS!UpdateRow
<1>4. CASE PS!Goto(Consumer, "reread", Nil) /\ UNCHANGED <<topic, position, committed, item>>
  <2>1. task'[Consumer].pc = "reread" /\ task'[Consumer].id = p
    BY <1>4, GotoMove DEF BaseInv
  <2>2. ConsumerInv'
    BY <1>1, <1>4, <2>1 DEF BaseInv, ConsumerInv, At, PS!Items
  <2> QED
    BY <1>2, <1>3, <1>4, <2>1, <2>2 DEF Deducts, Written, ItemEnds
<1>5. CASE /\ \E s : PS!EndWith(Consumer, s)
           /\ p # Nil => p \in disturbed'
  <2>1. /\ task'[Consumer].pc = "idle" /\ item' = item + 1
        /\ UNCHANGED <<topic, position, committed>>
    BY <1>5, EndMove DEF BaseInv
  <2>2. ConsumerInv'
    BY <2>1 DEF ConsumerInv, At
  <2> QED
    BY <1>2, <1>3, <2>1, <2>2 DEF Deducts, ItemEnds
<1> QED
  BY <1>4, <1>5

LEMMA StartMove ==
  ASSUME BaseInv, PS!StartItem, Keep(FALSE)
  PROVE  Begins
<1> DEFINE k == PS!Begin("get", PS!Items[item].productId, Nil)
<1>1. task' = [task EXCEPT ![Consumer] = k] /\ Consumer \in DOMAIN task
  BY ProductFacts DEF PS!StartItem, BaseInv
<1>2. task'[Consumer].pc = "get" /\ task'[Consumer].id = PS!Items[item].productId
  BY <1>1 DEF PS!Begin
<1>3. UNCHANGED <<topic, position, committed, item, db, deducted>> /\ At("idle")
  BY DEF PS!StartItem, PS!At, At, PS!storeVars, PS!kafkaVars, Keep
<1>4. ConsumerInv'
  BY <1>2, <1>3 DEF ConsumerInv, At, PS!Items
<1> QED
  BY <1>2, <1>3, <1>4 DEF Begins, ItemEnds, Written

LEMMA DecideMove ==
  ASSUME BaseInv, PS!Decide, Keep(FALSE)
  PROVE  GoesOn \/ Ends
<1>1. /\ At("decide") /\ ~At("idle") /\ ~Written
      /\ UNCHANGED <<topic, position, committed, db, deducted>>
  BY DEF PS!Decide, PS!At, At, Written, PS!storeVars, Keep
<1>2. /\ Consumer \in DOMAIN task /\ item \in Nat /\ item <= Len(PS!Items)
      /\ Len(PS!Items) \in Nat /\ Order \in Orders
  BY <1>1, ProductFacts, OrderAtHand DEF BaseInv
<1>3. CASE PS!Insufficient
  <2>1. item' = Len(PS!Items) + 1 /\ task'[Consumer].pc = "idle"
    BY <1>2, <1>3 DEF PS!Decide, PS!Idle
  <2>2. Order \in short'
    BY <1>1, <1>2, <2>1 DEF Keep, ItemEnds
  <2>3. item' \in Nat /\ item < item'
    BY <1>2, <2>1
  <2> QED
    BY <1>1, <1>3, <2>1, <2>2, <2>3 DEF Ends, ItemEnds
<1>4. CASE ~PS!Insufficient
  <2>1. item' = item
    BY <1>4 DEF PS!Decide
  <2>2. task'[Consumer].pc = "update" /\ task'[Consumer].id = task[Consumer].id
    BY <1>2, <1>4 DEF PS!Decide, PS!Begin
  <2>3. ConsumerInv'
    BY <1>1, <2>1, <2>2 DEF BaseInv, ConsumerInv, At, PS!Items
  <2> QED
    BY <1>1, <2>1, <2>2, <2>3 DEF GoesOn, ItemEnds, Written
<1> QED
  BY <1>3, <1>4

\* Every step of the consumer is one of its moves.
LEMMA ConsumeMove == ASSUME BaseInv, Consume PROVE Moves
<1>1. PS!ConsumerStep /\ Keep(At("update") /\ ~ItemEnds)
  BY DEF Consume
<1>2. ~At("update") \/ ItemEnds => Keep(FALSE)
  BY <1>1 DEF Keep
<1>3. CASE PS!StartItem
  BY <1>2, <1>3, StartMove DEF Moves, PS!StartItem, PS!At, At
<1>4. CASE PS!Decide
  BY <1>2, <1>4, DecideMove DEF Moves, PS!Decide, PS!At, At
<1>5. CASE PS!EventDone
  <2>1. Keep(FALSE)
    BY <1>2, <1>5 DEF PS!EventDone, PS!At, At
  <2> QED
    BY <1>5, <2>1
    DEF Moves, Passes, ItemEnds, PS!EventDone, PS!At, At, PS!storeVars, Keep
<1>6. CASE PS!Step(Consumer) /\ ~At("update")
  BY <1>2, <1>6, StepMove DEF Moves
<1>7. CASE PS!Step(Consumer) /\ At("update")
  <2>1. PS!Update(Consumer)
    BY <1>7
    DEF At, PS!At, PS!Step, PS!CacheHit, PS!CacheMiss, PS!FindById, PS!Fill,
        PS!FillLost, PS!Insert, PS!Reread, PS!Refresh, PS!Delete, PS!Evict,
        PS!CacheWriteSkipped
  <2>2. CASE PS!Affects(task[Consumer].id)
    <3>1. /\ PS!UpdateRow(Consumer) /\ PS!Goto(Consumer, "reread", Nil)
          /\ disturbed \subseteq disturbed'
          /\ UNCHANGED <<topic, position, committed, item>>
      BY <2>1, <2>2 DEF PS!Update, PS!Disturb, PS!kafkaVars
    <3>2. ~ItemEnds
      BY <3>1, GotoMove DEF BaseInv, ItemEnds
    <3>3. deducted' = [deducted EXCEPT ![Order][item] = @ + 1]
      BY <1>1, <1>7, <3>2 DEF Keep
    <3> QED
      BY <1>7, <2>2, <3>1, <3>3, UpdateMove DEF Moves
  <2>3. CASE ~PS!Affects(task[Consumer].id)
    <3>1. PS!EndWith(Consumer, "INVALID_ARGUMENT") /\ UNCHANGED db
      BY <2>1, <2>3 DEF PS!Update, PS!Throw
    <3>2. ItemEnds
      BY <3>1, EndMove DEF BaseInv, ItemEnds
    <3> QED
      BY <1>2, <1>7, <3>1, <3>2, EndsMove DEF Moves
  <2> QED
    BY <2>2, <2>3
<1> QED
  BY <1>1, <1>3, <1>4, <1>5, <1>6, <1>7 DEF PS!ConsumerStep

LEMMA ConsumeFailsMove == ASSUME BaseInv, ConsumeFails PROVE Moves
<1>1. task[Consumer].pc \notin {"insert", "delete", "evict"}
  BY DEF BaseInv, ConsumerInv
<1>2. CASE PS!StatementFails(Consumer) /\ Keep(FALSE)
  <2>1. /\ PS!EndWith(Consumer, "INVALID_ARGUMENT") /\ UNCHANGED db
        /\ Written \/ At("find") \/ At("update")
    BY <1>1, <1>2 DEF PS!StatementFails, PS!Throw, PS!storeVars, Written, At
  <2> QED
    BY <1>2, <2>1, EndsMove DEF Moves
<1>3. CASE PS!AnswerLost(Consumer) /\ Keep(TRUE)
  <2>1. /\ At("update") /\ PS!UpdateRow(Consumer) /\ PS!Affects(task[Consumer].id)
        /\ PS!EndWith(Consumer, "INVALID_ARGUMENT")
        /\ disturbed' = disturbed \cup ({task[Consumer].id} \ {Nil})
    BY <1>1, <1>3 DEF PS!AnswerLost, PS!Throw, PS!At, At, PS!Disturb
  <2>2. deducted' = [deducted EXCEPT ![Order][item] = @ + 1]
    BY <1>3 DEF Keep
  <2> QED
    BY <2>1, <2>2, UpdateMove DEF Moves
<1>4. CASE PS!CacheWriteLost(Consumer) /\ Keep(FALSE)
  <2>1. PS!EndWith(Consumer, "OK") /\ UNCHANGED db /\ Written
    BY <1>1, <1>4 DEF PS!CacheWriteLost, PS!storeVars, Written
  <2> QED
    BY <1>4, <2>1, EndsMove DEF Moves
<1> QED
  BY <1>2, <1>3, <1>4 DEF ConsumeFails

LEMMA ConsumeGrows == ASSUME BaseInv, Consume \/ ConsumeFails PROVE BooksGrow
<1>1. disturbed \subseteq disturbed' /\ faults' \in {faults, faults + 1}
  BY DEF Consume, ConsumeFails, PS!ConsumerStep, PS!StartItem, PS!Decide,
         PS!EventDone, PS!Step, PS!CacheHit, PS!CacheMiss, PS!FindById, PS!Fill,
         PS!FillLost, PS!Insert, PS!Update, PS!Reread, PS!Refresh, PS!Delete,
         PS!Evict, PS!CacheWriteSkipped, PS!StatementFails, PS!AnswerLost,
         PS!CacheWriteLost, PS!Disturb, PS!Fault
<1>2. faults \in Nat
  BY ProductFacts DEF BaseInv
<1>3. PICK b \in BOOLEAN : Keep(b)
  BY DEF Consume, ConsumeFails
<1> QED
  BY <1>1, <1>2, <1>3 DEF Keep, BooksGrow, BaseInv, BooksInv

----------------------------------------------------------------------------
(* The services' invariants and the types of the books.                    *)

LEMMA InitBase == ASSUME Init PROVE BaseInv
<1> USE OrderAssumptions, ProductAssumptions
<1>1. OSP!IInv
  <2>1. OSP!Init
    BY DEF Init, OS!Init, OSP!Init, OS!Idle, OSP!Idle, OS!Publish!Init,
           OSP!Publish!Init
  <2> QED
    BY <2>1, OSP!InitIInv
<1>2. db \in [Products -> Nat \cup {Nil}]
  BY InitialAssumption DEF Init
<1>3. PSP!IInv
  <2>1. PSP!StoreInv
    BY <1>2 DEF Init, PSP!StoreInv, PSP!Stock
  <2>2. PSP!TaskInv /\ PSP!ReplyInv /\ PSP!ItemInv
    BY DEF Init, PS!Idle, PSP!TaskInv, PSP!TaskRecord, PSP!Tasks, PSP!ReplyInv,
           PSP!ItemInv, PSP!PCs, PSP!Stock
  <2>3. PSP!KafkaInv /\ PSP!FaultInv
    BY BoundsAssumption DEF Init, OS!Init, PSP!KafkaInv, PSP!FaultInv
  <2> QED
    BY <2>1, <2>2, <2>3 DEF PSP!IInv
<1>4. \A p \in Products : PSP!Coherent(p)
  BY DEF Init, PS!Idle, PSP!Coherent, PSP!Untouched, PSP!CopiesCurrent,
         PSP!InLine, PSP!HoldsRow, PSP!BusyWriter, PSP!Tasks
<1>5. ConsumerInv
  BY DEF Init, PS!Idle, ConsumerInv, At
<1>6. BooksInv
  <2>1. log \in Seq(Orders) /\ topic = [n \in DOMAIN log |-> ItemsOf[log[n]]]
    BY EmptySeq DEF Init
  <2> QED
    BY <2>1, BoundsAssumption DEF Init, OS!Init, BooksInv
<1> QED
  BY <1>1, <1>3, <1>4, <1>5, <1>6 DEF BaseInv, PSP!CInv

\* The order service goes on, and no event gets into the topic.
LEMMA OrdersBase ==
  ASSUME BaseInv,
         \/ OrderServiceCrash
         \/ \E h \in Placing : PlaceOrder(h)
         \/ \E o \in Orders : PublishReturns(o)
  PROVE  BaseInv'
<1>1. OSP!IInv'
  BY OrderStepOSP DEF OrderStep, BaseInv
<1>2. UNCHANGED <<productVars, books>>
  BY DEF OrderServiceCrash, PlaceOrder, PublishReturns
<1>3. faults' \in 0..MaxFaults /\ faults' \in {faults, faults + 1}
  <2>1. faults' \in 0..MaxFaults
    BY <1>1 DEF OSP!IInv, OSP!TypeOK
  <2>2. faults' \in {faults, faults + 1}
    BY DEF OrderServiceCrash, PlaceOrder, PublishReturns, OS!CreateOrder,
           OS!StartCall, OS!Save, OS!SaveFails, OS!PublishOrderCreated,
           OS!OrderCreated, OS!Crash, OS!Fault
  <2> QED
    BY <2>1, <2>2
<1>4. PSP!CInv'
  BY <1>2, <1>3, OrderStepPSP DEF BaseInv
<1>5. ConsumerInv' /\ BooksInv'
  BY <1>2, <1>3, ProductFacts
  DEF BaseInv, ConsumerInv, BooksInv, productVars, books, At, PS!Items
<1> QED
  BY <1>1, <1>4, <1>5 DEF BaseInv

\* An event is appended behind those there are.
LEMMA AppendLog ==
  ASSUME BaseInv, NEW o \in Orders, EventAppended(o)
  PROVE  /\ log' \in Seq(Orders) /\ Len(log') = Len(log) + 1
         /\ log'[Len(log) + 1] = o
         /\ \A n \in 1..Len(log) : log'[n] = log[n] /\ topic'[n] = topic[n]
         /\ topic' = [n \in DOMAIN log' |-> ItemsOf[log'[n]]]
         /\ copies' = [copies EXCEPT ![o] = @ + 1]
         /\ UNCHANGED <<orders, task, position, committed, item, db, disturbed, faults,
                        initial, deducted, short, failed, restarts>>
<1>1. log \in Seq(Orders) /\ topic \in Seq({ItemsOf[q] : q \in Orders})
  BY DEF BaseInv, BooksInv, PSP!CInv, PSP!IInv, PSP!KafkaInv
<1>2. Len(topic) = Len(log) /\ Len(log) \in Nat
  BY OrderAtHand DEF BaseInv
<1>3. log' = Append(log, o) /\ topic' = Append(topic, ItemsOf[o])
  BY DEF EventAppended, PS!PublishOrder
<1>4. /\ log' \in Seq(Orders) /\ Len(log') = Len(log) + 1
      /\ log'[Len(log) + 1] = o
      /\ \A n \in 1..Len(log) : log'[n] = log[n]
  BY <1>1, <1>3, AppendProperties
<1>5. /\ topic' \in Seq({ItemsOf[q] : q \in Orders}) /\ Len(topic') = Len(log) + 1
      /\ topic'[Len(log) + 1] = ItemsOf[o]
      /\ \A n \in 1..Len(log) : topic'[n] = topic[n]
  <2> DEFINE S == {ItemsOf[q] : q \in Orders}
             i == ItemsOf[o]
  <2>1. i \in S /\ topic \in Seq(S) /\ topic' = Append(topic, i)
    BY <1>1, <1>3
  <2> HIDE DEF S, i
  <2>2. /\ topic' \in Seq(S) /\ Len(topic') = Len(topic) + 1
        /\ topic'[Len(topic) + 1] = i
        /\ \A n \in 1..Len(topic) : topic'[n] = topic[n]
    BY <2>1, AppendProperties
  <2> QED
    BY <1>2, <2>2 DEF S, i
<1>6. topic' = [n \in DOMAIN log' |-> ItemsOf[log'[n]]]
  <2>1. DOMAIN topic' = 1..(Len(log) + 1) /\ DOMAIN log' = 1..(Len(log) + 1)
    BY <1>4, <1>5, LenProperties
  <2>2. topic' = [n \in 1..(Len(log) + 1) |-> topic'[n]]
    BY <1>5, <2>1, LenProperties
  <2>3. ASSUME NEW n \in 1..(Len(log) + 1) PROVE topic'[n] = ItemsOf[log'[n]]
    <3>1. CASE n = Len(log) + 1
      BY <1>4, <1>5, <3>1
    <3>2. CASE n \in 1..Len(log)
      BY <1>4, <1>5, <3>2, OrderAtHand DEF BaseInv, BooksInv
    <3> QED
      BY <1>2, <3>1, <3>2
  <2> QED
    BY <2>1, <2>2, <2>3
<1>7. /\ copies' = [copies EXCEPT ![o] = @ + 1]
      /\ UNCHANGED <<orders, task, position, committed, item, db, disturbed, faults,
                     initial, deducted, short, failed, restarts>>
  BY DEF EventAppended, PS!PublishOrder, PS!storeVars, OS!Publish!Append
<1> QED
  BY <1>4, <1>5, <1>6, <1>7

LEMMA AppendBase ==
  ASSUME BaseInv, NEW o \in Orders, EventAppended(o)
  PROVE  BaseInv'
<1>1. OSP!IInv' /\ PSP!CInv'
  BY OrderStepOSP, ProductStepPSP DEF OrderStep, ProductStep, BaseInv
<1>2. ConsumerInv'
  <2>1. ~At("idle") => position + 1 \in 1..Len(log)
    BY ProductFacts, OrderAtHand DEF BaseInv
  <2>2. ~At("idle") => PS!Items' = PS!Items
    BY <2>1, AppendLog DEF PS!Items
  <2>3. UNCHANGED <<task, item>>
    BY AppendLog
  <2> QED
    BY <2>2, <2>3 DEF BaseInv, ConsumerInv, At
<1>3. BooksInv'
  BY AppendLog DEF BaseInv, BooksInv
<1> QED
  BY <1>1, <1>2, <1>3 DEF BaseInv

\* An UPDATE that takes effect is in the books at its order and item only.
LEMMA DeductsBooks ==
  ASSUME BooksInv, deducted' = [deducted EXCEPT ![Order][item] = @ + 1]
  PROVE  /\ DOMAIN deducted' = Orders
         /\ \A o \in Orders :
              /\ deducted'[o] \in [DOMAIN ItemsOf[o] -> Nat]
              /\ \A i \in DOMAIN ItemsOf[o] :
                   deducted'[o][i] = deducted[o][i] +
                       (IF o = Order /\ i = item THEN 1 ELSE 0)
<1>1. DOMAIN deducted' = Orders
  BY DEF BooksInv
<1>2. ASSUME NEW o \in Orders
      PROVE  /\ deducted'[o] \in [DOMAIN ItemsOf[o] -> Nat]
             /\ \A i \in DOMAIN ItemsOf[o] :
                  deducted'[o][i] = deducted[o][i] +
                      (IF o = Order /\ i = item THEN 1 ELSE 0)
  <2> DEFINE f == deducted[o]
             D == DOMAIN ItemsOf[o]
  <2>1. f \in [D -> Nat]
    BY DEF BooksInv
  <2>2. deducted'[o] = IF o = Order THEN [f EXCEPT ![item] = @ + 1] ELSE f
    BY DEF BooksInv
  <2> DEFINE g == deducted'[o]
  <2> HIDE DEF f, D, g
  <2>3. CASE o = Order
    <3>1. g = [f EXCEPT ![item] = @ + 1]
      BY <2>2, <2>3 DEF g
    <3>2. g = [i \in D |-> g[i]]
      BY <2>1, <3>1
    <3>3. ASSUME NEW i \in D
          PROVE  g[i] \in Nat /\ g[i] = f[i] + (IF i = item THEN 1 ELSE 0)
      <4>1. CASE i = item
        BY <2>1, <3>1, <4>1
      <4>2. CASE i # item
        BY <2>1, <3>1, <4>2
      <4> QED
        BY <4>1, <4>2
    <3>4. g \in [D -> Nat]
      BY <3>2, <3>3
    <3> QED
      BY <2>3, <3>3, <3>4 DEF f, D, g
  <2>4. CASE o # Order
    <3>1. g = f
      BY <2>2, <2>4 DEF g
    <3>2. g \in [D -> Nat] /\ \A i \in D : g[i] = f[i] + 0
      BY <2>1, <3>1
    <3> QED
      BY <2>4, <3>2 DEF f, D, g
  <2> QED
    BY <2>3, <2>4
<1> QED
  BY <1>1, <1>2

LEMMA ConsumeBase ==
  ASSUME BaseInv, Consume \/ ConsumeFails
  PROVE  BaseInv'
<1>1. PSP!CInv'
  BY ProductStepPSP DEF BaseInv, ProductStep
<1>2. BooksGrow /\ Moves
  BY ConsumeGrows, ConsumeMove, ConsumeFailsMove
<1>3. OSP!IInv'
  <2>1. faults' \in 0..MaxFaults
    BY <1>1 DEF PSP!CInv, PSP!IInv, PSP!FaultInv
  <2> QED
    BY <1>2, <2>1, ProductStepOSP DEF BooksGrow, BaseInv
<1>4. ConsumerInv'
  BY <1>2 DEF Moves, Begins, GoesOn, Deducts, Ends, Passes, ConsumerInv, ItemEnds, At
<1>5. topic' = topic
  BY <1>2 DEF Moves, Begins, GoesOn, Deducts, Ends, Passes
<1>6. /\ DOMAIN deducted' = Orders
      /\ \A o \in Orders : deducted'[o] \in [DOMAIN ItemsOf[o] -> Nat]
  <2>1. CASE deducted' = deducted
    BY <2>1 DEF BaseInv, BooksInv
  <2>2. CASE Deducts
    BY <2>2, DeductsBooks DEF Deducts, BaseInv
  <2> QED
    BY <1>2, <2>1, <2>2 DEF Moves, Begins, GoesOn, Ends, Passes
<1>7. BooksInv'
  <2>1. restarts' \in 0..faults'
    BY <1>2, ProductFacts DEF BooksGrow, BaseInv, BooksInv
  <2> QED
    BY <1>2, <1>5, <1>6, <2>1 DEF BooksGrow, BaseInv, BooksInv
<1> QED
  BY <1>1, <1>3, <1>4, <1>7 DEF BaseInv

LEMMA WorldBase ==
  ASSUME BaseInv, Commit \/ RedisComesAndGoes \/ ProductServiceCrash \/ Rejoin
  PROVE  BaseInv'
<1>1. PSP!CInv'
  BY ProductStepPSP DEF BaseInv, ProductStep
<1>2. OSP!IInv'
  <2>1. faults' \in 0..MaxFaults
    BY <1>1 DEF PSP!CInv, PSP!IInv, PSP!FaultInv
  <2> QED
    BY <2>1, ProductStepOSP
    DEF Commit, RedisComesAndGoes, ProductServiceCrash, Rejoin, BaseInv
<1>3. CASE Commit \/ RedisComesAndGoes
  <2>1. /\ UNCHANGED <<task, topic, position, item, books>>
        /\ faults' \in {faults, faults + 1}
    BY <1>3 DEF Commit, RedisComesAndGoes, PS!Commit, PS!RedisError, PS!RedisReady,
                PS!Fault, PS!kafkaVars
  <2>2. ConsumerInv' /\ BooksInv'
    BY <2>1, ProductFacts DEF BaseInv, ConsumerInv, BooksInv, books, At, PS!Items
  <2> QED
    BY <1>1, <1>2, <2>2 DEF BaseInv
<1>4. CASE ProductServiceCrash \/ Rejoin
  <2>1. /\ task'[Consumer].pc = "idle" /\ restarts' = restarts + 1
        /\ faults' = faults + 1
        /\ UNCHANGED <<topic, initial, log, deducted, short, failed>>
    BY <1>4 DEF ProductServiceCrash, Rejoin, PS!Crash, PS!Rejoin, PS!At, PS!Fault,
                PS!Idle, PS!Tasks
  <2>2. ConsumerInv' /\ BooksInv'
    BY <2>1, ProductFacts DEF BaseInv, ConsumerInv, BooksInv, At
  <2> QED
    BY <1>1, <1>2, <2>2 DEF BaseInv
<1> QED
  BY <1>3, <1>4

LEMMA StutterBase == ASSUME BaseInv, UNCHANGED vars PROVE BaseInv'
<1>1. /\ UNCHANGED <<orderVars, productVars, books, faults>>
  BY DEF vars
<1>2. faults' \in 0..MaxFaults
  BY <1>1, ProductFacts DEF BaseInv
<1>3. OSP!IInv' /\ PSP!CInv'
  BY <1>1, <1>2, ProductStepOSP, OrderStepPSP DEF BaseInv
<1> QED
  BY <1>1, <1>3 DEF productVars, books, BaseInv, ConsumerInv, BooksInv, At, PS!Items

LEMMA NextBase == ASSUME BaseInv, [Next]_vars PROVE BaseInv'
  BY OrdersBase, AppendBase, ConsumeBase, WorldBase, StutterBase DEF Next

LEMMA BaseInvariance == Spec => []BaseInv
<1>1. BaseInv /\ [Next]_vars => BaseInv'
  BY NextBase
<1> QED
  BY <1>1, InitBase, PTL DEF Spec

\* Both services stay in states of their own, and the books agree with the
\* topic.
THEOREM TypeCorrect == Spec => []TypeOK
<1>1. BaseInv => TypeOK
  <2> SUFFICES ASSUME BaseInv PROVE TypeOK
    OBVIOUS
  <2>1. OS!TypeOK
    <3>1. OSP!TypeOK
      BY DEF BaseInv, OSP!IInv
    <3> QED
      BY <3>1 DEF OS!TypeOK, OSP!TypeOK, OS!PCs, OSP!PCs
  <2>2. PS!TypeOK
    <3>1. PSP!TypeOK
      BY ProductAssumptions, PSP!InvariantsFromIInv DEF BaseInv, PSP!CInv
    <3> QED
      BY <3>1 DEF PS!TypeOK, PSP!TypeOK, PS!PCs, PSP!PCs, PS!Value, PSP!Value,
                  PS!Tasks, PSP!Tasks
  <2>3. restarts \in 0..MaxFaults
    BY ProductFacts, BoundsAssumption DEF BaseInv, BooksInv
  <2> QED
    BY <2>1, <2>2, <2>3 DEF BaseInv, BooksInv, TypeOK
<1> QED
  BY <1>1, BaseInvariance, PTL

----------------------------------------------------------------------------
(* The steps, as the books see them.                                       *)

\* The consumer stays where it is, and no event gets into the topic.
Quiet ==
    /\ orders \subseteq orders' /\ disturbed \subseteq disturbed'
    /\ UNCHANGED <<copies, task, topic, position, item, db, books>>

Appends(o) ==
    /\ log' = Append(log, o)
    /\ Len(log') = Len(log) + 1 /\ log'[Len(log) + 1] = o
    /\ \A n \in 1..Len(log) : log'[n] = log[n]
    /\ o \in orders /\ copies' = [copies EXCEPT ![o] = @ + 1]
    /\ UNCHANGED <<orders, task, position, item, db, disturbed, initial, deducted,
                   short, failed, restarts>>

Restarts ==
    /\ task'[Consumer].pc = "idle" /\ position' = committed /\ item' = 1
    /\ restarts' = restarts + 1 /\ faults' = faults + 1
    /\ disturbed \subseteq disturbed'
    /\ UNCHANGED <<orderVars, db, topic, initial, log, deducted, short, failed>>

LEMMA NextIs ==
  ASSUME BaseInv, [Next]_vars
  PROVE  \/ Quiet \/ (\E o \in Orders : Appends(o)) \/ Restarts
         \/ (BooksGrow /\ Moves)
<1>1. CASE OrderServiceCrash \/ (\E h \in Placing : PlaceOrder(h))
           \/ (\E o \in Orders : PublishReturns(o))
  <2>1. UNCHANGED <<productVars, books>>
    BY <1>1 DEF OrderServiceCrash, PlaceOrder, PublishReturns
  <2>2. copies' = copies /\ orders \subseteq orders'
    BY <1>1
    DEF OrderServiceCrash, PlaceOrder, PublishReturns, OS!CreateOrder, OS!StartCall,
        OS!Save, OS!SaveFails, OS!PublishOrderCreated, OS!OrderCreated, OS!Crash,
        OS!Publish!Return, OS!Publish!Call, OS!publishVars
  <2> QED
    BY <2>1, <2>2 DEF productVars, books, Quiet
<1>2. ASSUME NEW o \in Orders, EventAppended(o) PROVE Appends(o)
  <2>1. o \in orders
    BY <1>2 DEF EventAppended, OS!Publish!Append, BaseInv, OSP!IInv,
                OSP!PublishedAreSaved
  <2> QED
    BY <1>2, <2>1, AppendLog DEF Appends, EventAppended
<1>3. CASE Consume \/ ConsumeFails
  BY <1>3, ConsumeGrows, ConsumeMove, ConsumeFailsMove
<1>4. CASE Commit \/ RedisComesAndGoes
  BY <1>4 DEF Commit, RedisComesAndGoes, PS!Commit, PS!RedisError, PS!RedisReady,
              PS!storeVars, PS!kafkaVars, orderVars, Quiet
<1>5. CASE ProductServiceCrash \/ Rejoin
  BY <1>5 DEF ProductServiceCrash, Rejoin, PS!Crash, PS!Rejoin, PS!At, PS!Fault,
              PS!Idle, PS!Tasks, PS!Disturb, PS!storeVars, Restarts
<1>6. CASE UNCHANGED vars
  BY <1>6 DEF vars, orderVars, productVars, books, Quiet
<1> QED
  BY <1>1, <1>2, <1>3, <1>4, <1>5, <1>6 DEF Next

\* The item at hand is one of the order at hand.
LEMMA AtItem ==
  ASSUME BaseInv, ~At("idle")
  PROVE  /\ position < Len(log) /\ position + 1 \in 1..Len(log)
         /\ Order \in Orders /\ item \in DOMAIN ItemsOf[Order]
<1>1. position < Len(log) /\ item \in Nat \ {0} /\ item <= Len(PS!Items)
  BY ProductFacts, OrderAtHand DEF BaseInv
<1> QED
  BY <1>1, OrderAtHand DEF BaseInv

\* What the consumer adds to the books.
LEMMA DeductedGrows ==
  ASSUME BaseInv, Moves, NEW o \in Orders, NEW i \in DOMAIN ItemsOf[o]
  PROVE  /\ deducted[o][i] \in Nat /\ deducted'[o][i] \in Nat
         /\ deducted'[o][i] = deducted[o][i] +
                (IF Deducts /\ o = Order /\ i = item THEN 1 ELSE 0)
<1>1. deducted[o][i] \in Nat
  BY DEF BaseInv, BooksInv
<1>2. CASE Deducts
  BY <1>1, <1>2, DeductsBooks DEF BaseInv, Deducts
<1>3. CASE ~Deducts
  BY <1>1, <1>3 DEF Moves, Begins, GoesOn, Ends, Passes
<1> QED
  BY <1>2, <1>3

----------------------------------------------------------------------------
(* No stock for an order that is not saved.                                *)

LoggedAreSaved == \A n \in 1..Len(log) : log[n] \in orders

SavedInv == LoggedAreSaved /\ OnlySavedOrdersDeduct

LEMMA InitSaved == ASSUME Init PROVE SavedInv
<1>1. \A o \in Orders : \A i \in DOMAIN ItemsOf[o] : deducted[o][i] = 0
  BY DEF Init
<1> QED
  BY <1>1 DEF Init, SavedInv, LoggedAreSaved, OnlySavedOrdersDeduct

LEMMA NextSaved == ASSUME BaseInv, SavedInv, [Next]_vars PROVE SavedInv'
<1>1. CASE Quiet
  BY <1>1 DEF Quiet, books, SavedInv, LoggedAreSaved, OnlySavedOrdersDeduct
<1>2. ASSUME NEW o \in Orders, Appends(o) PROVE SavedInv'
  <2>1. LoggedAreSaved'
    BY <1>2, OrderAtHand DEF Appends, BaseInv, SavedInv, LoggedAreSaved
  <2> QED
    BY <1>2, <2>1 DEF Appends, SavedInv, OnlySavedOrdersDeduct
<1>3. CASE Restarts
  BY <1>3 DEF Restarts, orderVars, SavedInv, LoggedAreSaved, OnlySavedOrdersDeduct
<1>4. CASE BooksGrow /\ Moves
  <2>1. LoggedAreSaved' /\ UNCHANGED orders
    BY <1>4 DEF BooksGrow, orderVars, SavedInv, LoggedAreSaved
  <2>2. ASSUME NEW o \in Orders, NEW i \in DOMAIN ItemsOf[o], deducted'[o][i] > 0
        PROVE  o \in orders
    <3>1. CASE Deducts /\ o = Order
      <4>1. position + 1 \in 1..Len(log)
        BY <3>1, AtItem DEF Deducts, At
      <4> QED
        BY <3>1, <4>1 DEF Order, SavedInv, LoggedAreSaved
    <3>2. CASE ~(Deducts /\ o = Order)
      BY <1>4, <2>2, <3>2, DeductedGrows DEF SavedInv, OnlySavedOrdersDeduct
    <3> QED
      BY <3>1, <3>2
  <2> QED
    BY <2>1, <2>2 DEF SavedInv, OnlySavedOrdersDeduct
<1> QED
  BY <1>1, <1>2, <1>3, <1>4, NextIs

\* createOrder publishes what it has saved, the topic keeps what is published
\* and the consumer deducts what is in the topic.
THEOREM OnlySavedOrdersTakeStock == Spec => []OnlySavedOrdersDeduct
<1>1. BaseInv /\ SavedInv /\ [Next]_vars => SavedInv'
  BY NextSaved
<1>2. Init => SavedInv
  BY InitSaved
<1>3. SavedInv => OnlySavedOrdersDeduct
  BY DEF SavedInv
<1> QED
  BY <1>1, <1>2, <1>3, BaseInvariance, PTL DEF Spec

----------------------------------------------------------------------------
(* An order the consumer is done with is settled.                          *)

AtHand(o) == position < Len(log) /\ Order = o

\* The UPDATE of the item i of the order at hand is over.
Through(i) == item > i \/ (item = i /\ Written)

\* Item by item, the order at hand is deducted or given up.
SettledSoFar ==
    \A o \in Orders : AtHand(o) =>
        \/ o \in short \cup failed
        \/ \A i \in DOMAIN ItemsOf[o] : Through(i) => deducted[o][i] > 0

\* Without an event at hand the consumer is at the first item of the next.
NextIsFirst == position = Len(log) => item = 1

SettledInv == SettledSoFar /\ NextIsFirst /\ HandledMeansSettled

LEMMA ItemsAreNumbered ==
  ASSUME NEW o \in Orders
  PROVE  /\ DOMAIN ItemsOf[o] = 1..Len(ItemsOf[o]) /\ Len(ItemsOf[o]) \in Nat
         /\ \A i \in DOMAIN ItemsOf[o] :
              /\ i \in Nat \ {0}
              /\ ItemsOf[o][i].productId \in Products
              /\ ItemsOf[o][i].quantity \in Nat \ {0}
<1> DEFINE Item == [productId : Products, quantity : Nat \ {0}]
           s == ItemsOf[o]
<1>1. s \in Seq(Item)
  BY ItemsAssumption
<1>2. \A x \in Item : x.productId \in Products /\ x.quantity \in Nat \ {0}
  OBVIOUS
<1> HIDE DEF Item, s
<1>3. DOMAIN s = 1..Len(s) /\ Len(s) \in Nat /\ \A i \in 1..Len(s) : s[i] \in Item
  BY <1>1, LenProperties, ElementOfSeq
<1>4. \A i \in DOMAIN s : /\ i \in Nat \ {0}
                          /\ s[i].productId \in Products
                          /\ s[i].quantity \in Nat \ {0}
  BY <1>2, <1>3
<1> QED
  BY <1>3, <1>4 DEF s

LEMMA InitSettled == ASSUME Init PROVE SettledInv
  BY DEF Init, PS!Idle, SettledInv, SettledSoFar, NextIsFirst, HandledMeansSettled,
         AtHand, At

LEMMA MoveSettles ==
  ASSUME BaseInv, SettledInv, BooksGrow, Moves
  PROVE  SettledInv'
<1>1. /\ Len(log) \in Nat /\ position \in 0..Len(log) /\ item \in Nat \ {0}
      /\ log' = log /\ Len(topic) = Len(log)
      /\ \A n \in 1..Len(log) : log[n] \in Orders
  BY ProductFacts, OrderAtHand DEF BaseInv, BooksGrow
<1>2. ASSUME NEW o \in Orders, o \in short \cup failed PROVE o \in short' \cup failed'
  BY <1>2 DEF BooksGrow
<1>3. ASSUME NEW o \in Orders, NEW i \in DOMAIN ItemsOf[o], deducted[o][i] > 0
      PROVE  deducted'[o][i] > 0
  BY <1>3, DeductedGrows
<1>4. ASSUME NEW o \in Orders, Settled(o) PROVE Settled(o)'
  BY <1>2, <1>3, <1>4 DEF Settled
<1>5. CASE Begins \/ GoesOn \/ Deducts \/ Ends
  <2>1. position' = position
    BY <1>5 DEF Begins, GoesOn, Deducts, Ends
  <2>2. HandledMeansSettled'
    BY <1>1, <1>4, <2>1 DEF SettledInv, HandledMeansSettled
  <2>3. NextIsFirst'
    <3>1. Deducts \/ Ends => position < Len(log)
      BY AtItem DEF Deducts, Ends, At
    <3>2. Begins \/ GoesOn => item' = item
      BY DEF Begins, GoesOn
    <3> QED
      BY <1>1, <1>5, <2>1, <3>1, <3>2 DEF SettledInv, NextIsFirst
  <2>4. ASSUME NEW o \in Orders, AtHand(o)', NEW i \in DOMAIN ItemsOf[o], Through(i)',
               o \notin short' \cup failed'
        PROVE  deducted'[o][i] > 0
    <3>1. AtHand(o) /\ o \notin short \cup failed /\ o = Order
      BY <1>1, <1>2, <2>1, <2>4 DEF AtHand, Order
    <3>2. Through(i) => deducted'[o][i] > 0
      BY <1>3, <3>1 DEF SettledInv, SettledSoFar
    <3>3. i \in Nat \ {0}
      BY ItemsAreNumbered
    <3>4. CASE Begins \/ GoesOn
      BY <2>4, <3>2, <3>4 DEF Begins, GoesOn, Through, Written, At
    <3>5. CASE Deducts
      <4>1. Through(i) \/ i = item
        BY <1>1, <2>4, <3>3, <3>5 DEF Deducts, Through, Written, ItemEnds
      <4>2. i = item => deducted'[o][i] > 0
        BY <3>1, <3>5, DeductedGrows
      <4> QED
        BY <3>2, <4>1, <4>2
    <3>6. CASE Ends
      <4>1. Written /\ item' = item + 1 /\ ~Written'
        BY <2>4, <3>1, <3>6 DEF Ends, Written, ItemEnds
      <4>2. Through(i)
        BY <1>1, <2>4, <3>3, <4>1 DEF Through
      <4> QED
        BY <3>2, <4>2
    <3> QED
      BY <1>5, <3>4, <3>5, <3>6
  <2> QED
    BY <2>2, <2>3, <2>4 DEF SettledInv, SettledSoFar
<1>6. CASE Passes
  <2>1. /\ position < Len(log) /\ position' = position + 1 /\ item' = 1
        /\ item > Len(PS!Items) /\ ~Written'
    BY <1>1, <1>6 DEF Passes, Written, ItemEnds
  <2>2. Settled(Order)
    <3>1. /\ Order \in Orders /\ PS!Items = ItemsOf[Order]
          /\ DOMAIN ItemsOf[Order] = 1..Len(ItemsOf[Order])
          /\ Len(ItemsOf[Order]) \in Nat
      BY <2>1, OrderAtHand DEF BaseInv
    <3>2. \A i \in DOMAIN ItemsOf[Order] : Through(i)
      BY <1>1, <2>1, <3>1 DEF Through
    <3>3. AtHand(Order)
      BY <2>1 DEF AtHand
    <3> QED
      BY <3>1, <3>2, <3>3 DEF SettledInv, SettledSoFar, Settled
  <2>3. HandledMeansSettled'
    <3>1. ASSUME NEW n \in 1..(position + 1) PROVE Settled(log[n])
      <4>1. n \in 1..position \/ n = position + 1
        BY <1>1
      <4> QED
        BY <2>2, <4>1 DEF SettledInv, HandledMeansSettled, Order
    <3>2. ASSUME NEW n \in 1..(position + 1) PROVE Settled(log[n])'
      <4> DEFINE q == log[n]
      <4>1. q \in Orders /\ Settled(q)
        BY <1>1, <2>1, <3>1
      <4>2. log'[n] = q
        BY <1>1
      <4> HIDE DEF q
      <4>3. \A r \in Orders : Settled(r) => Settled(r)'
        BY <1>4
      <4> QED
        BY <4>1, <4>2, <4>3 DEF Settled
    <3> QED
      BY <2>1, <3>2 DEF HandledMeansSettled
  <2>4. SettledSoFar' /\ NextIsFirst'
    <3>1. ASSUME NEW o \in Orders, NEW i \in DOMAIN ItemsOf[o] PROVE ~Through(i)'
      BY <2>1, ItemsAreNumbered DEF Through
    <3> QED
      BY <2>1, <3>1 DEF SettledSoFar, NextIsFirst
  <2> QED
    BY <2>3, <2>4 DEF SettledInv
<1> QED
  BY <1>5, <1>6 DEF Moves

LEMMA NextSettled == ASSUME BaseInv, SettledInv, [Next]_vars PROVE SettledInv'
<1>0. /\ Len(log) \in Nat /\ position \in 0..Len(log) /\ item \in Nat \ {0}
      /\ committed \in 0..position /\ (~At("idle") => position < Len(log))
      /\ \A n \in 1..Len(log) : log[n] \in Orders
  BY ProductFacts, OrderAtHand DEF BaseInv
<1>1. CASE Quiet
  BY <1>1 DEF Quiet, books, SettledInv, SettledSoFar, NextIsFirst,
              HandledMeansSettled, Settled, AtHand, Order, Through, Written
<1>2. ASSUME NEW e \in Orders, Appends(e) PROVE SettledInv'
  <2>1. UNCHANGED <<task, position, item, deducted, short, failed>>
    BY <1>2 DEF Appends
  <2>2. /\ Len(log') = Len(log) + 1
        /\ \A n \in 1..Len(log) : log'[n] = log[n]
    BY <1>2 DEF Appends
  <2>3. HandledMeansSettled'
    <3>1. \A n \in 1..position : log'[n] = log[n]
      BY <1>0, <2>2
    <3> QED
      BY <2>1, <3>1 DEF SettledInv, HandledMeansSettled, Settled
  <2>4. NextIsFirst'
    BY <1>0, <2>1, <2>2 DEF NextIsFirst
  <2>5. SettledSoFar'
    <3>1. CASE position < Len(log)
      <4>1. Order' = Order
        BY <1>0, <2>1, <2>2, <3>1 DEF Order
      <4> QED
        BY <2>1, <3>1, <4>1 DEF SettledInv, SettledSoFar, AtHand, Through, Written
    <3>2. CASE position = Len(log)
      <4>1. item' = 1 /\ ~Written'
        BY <1>0, <2>1, <3>2 DEF SettledInv, NextIsFirst, Written, At
      <4>2. ASSUME NEW o \in Orders, NEW i \in DOMAIN ItemsOf[o] PROVE ~Through(i)'
        BY <4>1, ItemsAreNumbered DEF Through
      <4> QED
        BY <4>2 DEF SettledSoFar
    <3> QED
      BY <1>0, <3>1, <3>2
  <2> QED
    BY <2>3, <2>4, <2>5 DEF SettledInv
<1>3. CASE Restarts
  <2>1. item' = 1 /\ ~Written' /\ position' \in 0..position
        /\ UNCHANGED <<log, deducted, short, failed>>
    BY <1>0, <1>3 DEF Restarts, Written
  <2>2. ASSUME NEW o \in Orders, NEW i \in DOMAIN ItemsOf[o] PROVE ~Through(i)'
    BY <2>1, ItemsAreNumbered DEF Through
  <2>3. HandledMeansSettled'
    <3>1. \A n \in 1..position' : n \in 1..position
      BY <1>0, <2>1
    <3> QED
      BY <2>1, <3>1 DEF SettledInv, HandledMeansSettled, Settled
  <2> QED
    BY <2>1, <2>2, <2>3 DEF SettledInv, SettledSoFar, NextIsFirst
<1>4. CASE BooksGrow /\ Moves
  BY <1>4, MoveSettles
<1> QED
  BY <1>1, <1>2, <1>3, <1>4, NextIs

\* The consumer gives an order up only with an entry in the books, and passes
\* on to the next only from behind the last item; a restart takes it back.
THEOREM HandledIsSettled == Spec => []HandledMeansSettled
<1>1. BaseInv /\ SettledInv /\ [Next]_vars => SettledInv'
  BY NextSettled
<1>2. Init => SettledInv
  BY InitSettled
<1>3. SettledInv => HandledMeansSettled
  BY DEF SettledInv
<1> QED
  BY <1>1, <1>2, <1>3, BaseInvariance, PTL DEF Spec

----------------------------------------------------------------------------
(* An order refused for its stock.                                         *)

LEMMA DecidesOnTheRow ==
  ASSUME BaseInv, [Next]_vars, NEW p \in Products \ disturbed, Refuses(p)
  PROVE  db[p] < ItemsOf[Order][item].quantity
<1>1. At("decide") /\ task[Consumer].id = p /\ ItemEnds /\ faults' = faults
  BY DEF Refuses
<1>2. ~At("idle") /\ faults \in Nat
  BY <1>1, ProductFacts DEF At, BaseInv
<1>3. ~Quiet /\ ~Restarts /\ (\A o \in Orders : ~Appends(o))
  BY <1>1, <1>2 DEF Quiet, Restarts, Appends, ItemEnds, At
<1>4. Ends
  BY <1>1, <1>3, NextIs DEF Moves, Begins, GoesOn, Deducts, Passes, ItemEnds, At
<1>5. PS!Insufficient
  BY <1>1, <1>4 DEF Ends
<1>6. db[p] # Nil /\ task[Consumer].row = db[p]
  BY <1>1, CurrentCopy DEF BaseInv
<1>7. PS!Items = ItemsOf[Order] /\ Order \in Orders
  BY <1>2, AtItem, OrderAtHand DEF BaseInv
<1>8. db[p] \in Nat
  BY <1>6, ProductFacts DEF BaseInv
<1>9. ItemsOf[Order][item].quantity \in Nat
  BY <1>2, AtItem, ItemsAreNumbered
<1> QED
  BY <1>5, <1>6, <1>7, <1>8, <1>9 DEF PS!Insufficient, PS!NewStock

\* The consumer decides on the copy it has read; unless a fault has disturbed
\* its product, that is the row of the table.
THEOREM RefusalsAreForStock == Spec => RefusedForStock
<1>1. BaseInv /\ [Next]_vars =>
        [\A p \in Products \ disturbed :
            Refuses(p) => db[p] < ItemsOf[Order][item].quantity]_vars
  BY DecidesOnTheRow
<1> QED
  BY <1>1, BaseInvariance, PTL DEF Spec, RefusedForStock

----------------------------------------------------------------------------
(* One deduction a delivery.                                               *)

\* How many of the first n events are of the order o.
Deliveries(o, n) == Cardinality({m \in 1..n : log[m] = o})

CopiesCounted == \A o \in Orders : copies[o] = Deliveries(o, Len(log))

\* What the events before the one at hand account for, and the item behind it.
Due(o, i) ==
    Deliveries(o, position) + (IF AtHand(o) /\ Through(i) THEN 1 ELSE 0)

DeductedWhenDue ==
    \A o \in Orders : \A i \in DOMAIN ItemsOf[o] :
        deducted[o][i] <= copies[o] * restarts + Due(o, i)

DeliveryInv == CopiesCounted /\ DeductedWhenDue

LEMMA DeliveriesGrow ==
  ASSUME NEW o, NEW n \in Nat
  PROVE  /\ Deliveries(o, n) \in Nat /\ Deliveries(o, 0) = 0
         /\ Deliveries(o, n + 1) = Deliveries(o, n) + (IF log[n + 1] = o THEN 1 ELSE 0)
         /\ \A m \in 0..n : Deliveries(o, m) <= Deliveries(o, n)
<1> DEFINE D(k) == {m \in 1..k : log[m] = o}
<1>1. ASSUME NEW k \in Nat PROVE IsFiniteSet(D(k))
  <2>1. IsFiniteSet(1..k) /\ D(k) \in SUBSET (1..k)
    BY FS_Interval
  <2> QED
    BY <2>1, FS_Subset
<1>2. Deliveries(o, n) \in Nat
  BY <1>1, FS_CardinalityType DEF Deliveries
<1>3. Deliveries(o, 0) = 0
  <2>1. D(0) = {}
    OBVIOUS
  <2> QED
    BY <2>1, FS_EmptySet DEF Deliveries
<1>4. Deliveries(o, n + 1) = Deliveries(o, n) + (IF log[n + 1] = o THEN 1 ELSE 0)
  <2>1. CASE log[n + 1] = o
    <3>1. D(n + 1) = D(n) \cup {n + 1} /\ n + 1 \notin D(n)
      BY <2>1
    <3> HIDE DEF D
    <3>2. Cardinality(D(n + 1)) = Cardinality(D(n)) + 1
      BY <1>1, <3>1, FS_AddElement
    <3> QED
      BY <2>1, <3>2 DEF Deliveries, D
  <2>2. CASE log[n + 1] # o
    <3>1. D(n + 1) = D(n)
      BY <2>2
    <3> QED
      BY <1>2, <2>2, <3>1 DEF Deliveries
  <2> QED
    BY <2>1, <2>2
<1>5. ASSUME NEW m \in 0..n PROVE Deliveries(o, m) <= Deliveries(o, n)
  <2>1. D(m) \in SUBSET D(n) /\ m \in Nat
    OBVIOUS
  <2> HIDE DEF D
  <2>2. Cardinality(D(m)) <= Cardinality(D(n))
    BY <1>1, <2>1, FS_Subset
  <2> QED
    BY <2>2 DEF Deliveries, D
<1> QED
  BY <1>2, <1>3, <1>4, <1>5

\* Every delivery counted is one of a copy of the event.
LEMMA DueIsCopied ==
  ASSUME BaseInv, CopiesCounted, NEW o \in Orders, NEW i \in DOMAIN ItemsOf[o]
  PROVE  Due(o, i) \in Nat /\ copies[o] \in Nat /\ Due(o, i) <= copies[o]
<1>1. Len(log) \in Nat /\ position \in 0..Len(log) /\ position \in Nat
  BY ProductFacts, OrderAtHand DEF BaseInv
<1>2. /\ copies[o] = Deliveries(o, Len(log)) /\ copies[o] \in Nat
      /\ Deliveries(o, position) \in Nat /\ Deliveries(o, position) <= copies[o]
  <2>1. copies[o] = Deliveries(o, Len(log))
    BY DEF CopiesCounted
  <2>2. Deliveries(o, Len(log)) \in Nat /\ Deliveries(o, position) \in Nat
    BY <1>1, DeliveriesGrow
  <2>3. Deliveries(o, position) <= Deliveries(o, Len(log))
    BY <1>1, DeliveriesGrow
  <2> QED
    BY <2>1, <2>2, <2>3
<1>3. AtHand(o) => Deliveries(o, position) + 1 <= copies[o]
  <2> SUFFICES ASSUME AtHand(o) PROVE Deliveries(o, position) + 1 <= copies[o]
    OBVIOUS
  <2>1. position + 1 \in 0..Len(log) /\ log[position + 1] = o
    BY <1>1 DEF AtHand, Order
  <2>2. Deliveries(o, position + 1) = Deliveries(o, position) + 1
    BY <1>1, <2>1, DeliveriesGrow
  <2>3. Deliveries(o, position + 1) <= Deliveries(o, Len(log))
    BY <1>1, <2>1, DeliveriesGrow
  <2> QED
    BY <1>2, <2>2, <2>3
<1> QED
  BY <1>2, <1>3 DEF Due

LEMMA InitDelivery == ASSUME Init PROVE DeliveryInv
<1>1. \A o \in Orders : copies[o] = 0
  BY DEF Init, OS!Init, OS!Publish!Init
<1>2. Len(log) = 0 /\ position = 0
  BY DEF Init
<1>3. \A o \in Orders : \A i \in DOMAIN ItemsOf[o] : deducted[o][i] = 0 /\ ~AtHand(o)
  BY <1>2 DEF Init, AtHand
<1>4. \A o \in Orders : Deliveries(o, 0) = 0
  BY DeliveriesGrow
<1> QED
  BY <1>1, <1>2, <1>3, <1>4 DEF Init, DeliveryInv, CopiesCounted, DeductedWhenDue, Due

LEMMA MoveDelivers ==
  ASSUME BaseInv, DeliveryInv, BooksGrow, Moves
  PROVE  DeliveryInv'
<1>1. /\ Len(log) \in Nat /\ position \in 0..Len(log) /\ item \in Nat \ {0}
      /\ Len(topic) = Len(log) /\ position \in Nat
      /\ UNCHANGED <<log, copies, restarts>>
  BY ProductFacts, OrderAtHand DEF BaseInv, BooksGrow, orderVars
<1>2. CopiesCounted'
  BY <1>1 DEF DeliveryInv, CopiesCounted, Deliveries
<1>3. ASSUME NEW o \in Orders, NEW i \in DOMAIN ItemsOf[o]
      PROVE  /\ Due(o, i) \in Nat /\ Due(o, i)' \in Nat
             /\ Due(o, i) + (IF Deducts /\ o = Order /\ i = item THEN 1 ELSE 0)
                  <= Due(o, i)'
  <2>1. Deliveries(o, position) \in Nat /\ i \in Nat \ {0}
    BY <1>1, DeliveriesGrow, ItemsAreNumbered
  <2>2. CASE Begins \/ GoesOn \/ Deducts \/ Ends
    <3>1. position' = position
      BY <2>2 DEF Begins, GoesOn, Deducts, Ends
    <3>2. /\ Deliveries(o, position)' = Deliveries(o, position)
          /\ AtHand(o)' <=> AtHand(o)
      BY <1>1, <3>1 DEF Deliveries, AtHand, Order
    <3>3. CASE Begins \/ GoesOn
      <4>1. Through(i)' <=> Through(i)
        BY <3>3 DEF Begins, GoesOn, Through, Written, At
      <4> QED
        BY <2>1, <3>2, <3>3, <4>1 DEF Due, Begins, GoesOn, Deducts, Written, ItemEnds, At
    <3>4. CASE Ends
      <4>1. Through(i) => Through(i)'
        BY <1>1, <2>1, <3>4 DEF Ends, Through
      <4>2. ~(Deducts /\ o = Order /\ i = item)
        BY <3>4, DeductedGrows DEF Ends
      <4> QED
        BY <2>1, <3>2, <4>1, <4>2 DEF Due
    <3>5. CASE Deducts
      <4>1. AtHand(Order)
        BY <3>5, AtItem DEF Deducts, At, AtHand
      <4>2. /\ Through(i) => Through(i)'
            /\ i = item => ~Through(i) /\ Through(i)'
        BY <1>1, <2>1, <3>5 DEF Deducts, Through, Written, At
      <4> QED
        BY <2>1, <3>2, <4>1, <4>2 DEF Due
    <3> QED
      BY <2>2, <3>3, <3>4, <3>5
  <2>3. CASE Passes
    <3>1. /\ position' = position + 1 /\ position < Len(log)
          /\ ~Deducts /\ ~Through(i)'
      BY <1>1, <2>1, <2>3 DEF Passes, Deducts, Through, Written, ItemEnds, At
    <3>2. Deliveries(o, position)' = Deliveries(o, position + 1)
      BY <1>1, <3>1 DEF Deliveries
    <3>3. Deliveries(o, position + 1)
            = Deliveries(o, position) + (IF AtHand(o) THEN 1 ELSE 0)
      BY <1>1, <3>1, DeliveriesGrow DEF AtHand, Order
    <3> QED
      BY <2>1, <3>1, <3>2, <3>3 DEF Due
  <2> QED
    BY <2>2, <2>3 DEF Moves
<1>4. DeductedWhenDue'
  <2> SUFFICES ASSUME NEW o \in Orders, NEW i \in DOMAIN ItemsOf[o]
               PROVE  deducted'[o][i] <= copies[o] * restarts + Due(o, i)'
    BY <1>1 DEF DeductedWhenDue
  <2> DEFINE more == copies[o] * restarts
             one == IF Deducts /\ o = Order /\ i = item THEN 1 ELSE 0
  <2>1. more \in Nat
    BY DueIsCopied DEF DeliveryInv, BaseInv, BooksInv
  <2>2. deducted[o][i] <= more + Due(o, i) /\ deducted'[o][i] = deducted[o][i] + one
    BY DeductedGrows DEF DeliveryInv, DeductedWhenDue
  <2>3. Due(o, i) + one <= Due(o, i)'
    BY <1>3
  <2>4. one \in Nat /\ deducted[o][i] \in Nat /\ Due(o, i) \in Nat /\ Due(o, i)' \in Nat
    BY <1>3, DeductedGrows
  <2> HIDE DEF more, one
  <2> QED
    BY <2>1, <2>2, <2>3, <2>4 DEF more
<1> QED
  BY <1>2, <1>4 DEF DeliveryInv

LEMMA AppendDelivers ==
  ASSUME BaseInv, DeliveryInv, NEW e \in Orders, Appends(e)
  PROVE  DeliveryInv'
<1>1. /\ Len(log) \in Nat /\ position \in 0..Len(log) /\ position \in Nat
      /\ item \in Nat \ {0} /\ restarts \in Nat
  BY ProductFacts, OrderAtHand DEF BaseInv, BooksInv
<1>2. /\ Len(log') = Len(log) + 1 /\ log'[Len(log) + 1] = e
      /\ \A n \in 1..Len(log) : log'[n] = log[n]
      /\ UNCHANGED <<task, position, item, deducted, restarts>>
  BY DEF Appends
<1>4. ASSUME NEW o \in Orders
      PROVE  /\ copies[o] \in Nat /\ copies[o] <= copies'[o]
             /\ copies'[o] = Deliveries(o, Len(log))'
  <2>1. copies \in [Orders -> 0..MaxCopies]
    BY DEF BaseInv, OSP!IInv, OSP!TypeOK
  <2>2. copies'[o] = copies[o] + (IF o = e THEN 1 ELSE 0) /\ copies[o] \in Nat
    BY <2>1, BoundsAssumption DEF Appends
  <2> DEFINE D(k) == {m \in 1..k : log'[m] = o}
             n == Len(log)
  <2>3. Cardinality(D(n)) = copies[o] /\ IsFiniteSet(D(n))
    <3>1. D(n) = {m \in 1..n : log[m] = o}
      BY <1>1, <1>2
    <3>2. D(n) \in SUBSET (1..n) /\ IsFiniteSet(1..n)
      BY <1>1, FS_Interval
    <3> QED
      BY <3>1, <3>2, FS_Subset DEF DeliveryInv, CopiesCounted, Deliveries
  <2>4. Cardinality(D(n + 1)) = copies'[o]
    <3>1. D(n + 1) = IF o = e THEN D(n) \cup {n + 1} ELSE D(n)
      BY <1>1, <1>2
    <3>2. n + 1 \notin D(n)
      BY <1>1
    <3> HIDE DEF D, n
    <3>3. CASE o = e
      <4>1. Cardinality(D(n) \cup {n + 1}) = Cardinality(D(n)) + 1
        BY <2>3, <3>2, FS_AddElement
      <4> QED
        BY <2>2, <2>3, <3>1, <3>3, <4>1
    <3>4. CASE o # e
      BY <2>2, <2>3, <3>1, <3>4
    <3> QED
      BY <3>3, <3>4
  <2>5. Deliveries(o, Len(log))' = Cardinality(D(n + 1))
    BY <1>2 DEF Deliveries
  <2>6. copies[o] <= copies'[o]
    BY <2>2
  <2> QED
    BY <2>2, <2>4, <2>5, <2>6
<1>5. ASSUME NEW o \in Orders, NEW i \in DOMAIN ItemsOf[o]
      PROVE  Due(o, i) \in Nat /\ Due(o, i)' \in Nat /\ Due(o, i) <= Due(o, i)'
  <2>1. Due(o, i) \in Nat /\ Deliveries(o, position) \in Nat
    BY <1>1, DueIsCopied, DeliveriesGrow DEF DeliveryInv
  <2>2. Deliveries(o, position)' = Deliveries(o, position)
    <3>1. {m \in 1..position : log'[m] = o} = {m \in 1..position : log[m] = o}
      BY <1>1, <1>2
    <3> QED
      BY <1>2, <3>1 DEF Deliveries
  <2>3. AtHand(o) /\ Through(i) => AtHand(o)' /\ Through(i)'
    BY <1>1, <1>2 DEF AtHand, Order, Through, Written
  <2> QED
    BY <2>1, <2>2, <2>3 DEF Due
<1>6. DeductedWhenDue'
  <2> SUFFICES ASSUME NEW o \in Orders, NEW i \in DOMAIN ItemsOf[o]
               PROVE  deducted[o][i] <= copies'[o] * restarts + Due(o, i)'
    BY <1>2 DEF DeductedWhenDue
  <2>1. copies[o] \in Nat /\ copies'[o] \in Nat /\ copies[o] <= copies'[o]
    <3>1. copies' \in [Orders -> Nat]
      BY BoundsAssumption DEF Appends, BaseInv, OSP!IInv, OSP!TypeOK
    <3> QED
      BY <1>4, <3>1
  <2>2. ASSUME NEW a \in Nat, NEW b \in Nat, NEW c \in Nat, a <= b
        PROVE  a * c \in Nat /\ b * c \in Nat /\ a * c <= b * c
    BY <2>2
  <2>3. /\ copies[o] * restarts \in Nat /\ copies'[o] * restarts \in Nat
        /\ copies[o] * restarts <= copies'[o] * restarts
    BY <1>1, <2>1, <2>2
  <2>4. deducted[o][i] <= copies[o] * restarts + Due(o, i) /\ deducted[o][i] \in Nat
    BY DEF DeliveryInv, DeductedWhenDue, BaseInv, BooksInv
  <2> QED
    BY <1>5, <2>3, <2>4
<1> QED
  BY <1>4, <1>6 DEF DeliveryInv, CopiesCounted

LEMMA NextDelivery == ASSUME BaseInv, DeliveryInv, [Next]_vars PROVE DeliveryInv'
<1>1. CASE Quiet
  BY <1>1 DEF Quiet, books, DeliveryInv, CopiesCounted, DeductedWhenDue, Deliveries,
              Due, AtHand, Order, Through, Written
<1>2. ASSUME NEW e \in Orders, Appends(e) PROVE DeliveryInv'
  BY <1>2, AppendDelivers
<1>3. CASE Restarts
  <2>1. /\ UNCHANGED <<copies, log, deducted>> /\ restarts' = restarts + 1
        /\ item' = 1 /\ ~Written' /\ restarts \in Nat
    BY <1>3 DEF Restarts, orderVars, Written, BaseInv, BooksInv
  <2>2. CopiesCounted'
    BY <2>1 DEF DeliveryInv, CopiesCounted, Deliveries
  <2>3. ASSUME NEW o \in Orders, NEW i \in DOMAIN ItemsOf[o]
        PROVE  deducted[o][i] <= copies[o] * (restarts + 1) + Due(o, i)'
    <3>1. /\ deducted[o][i] <= copies[o] * restarts + Due(o, i)
          /\ deducted[o][i] \in Nat
      BY DEF DeliveryInv, DeductedWhenDue, BaseInv, BooksInv
    <3>2. Due(o, i) \in Nat /\ copies[o] \in Nat /\ Due(o, i) <= copies[o]
      BY DueIsCopied DEF DeliveryInv
    <3>3. /\ copies[o] * (restarts + 1) = copies[o] * restarts + copies[o]
          /\ copies[o] * restarts \in Nat
      BY <2>1, <3>2
    <3>4. Due(o, i)' \in Nat
      <4>1. ~Through(i)'
        BY <2>1, ItemsAreNumbered DEF Through
      <4>2. position' \in Nat /\ Deliveries(o, position)' = Deliveries(o, position')
        BY <1>3, <2>1, ProductFacts DEF Restarts, BaseInv, Deliveries
      <4> QED
        BY <4>1, <4>2, DeliveriesGrow DEF Due
    <3> QED
      BY <3>1, <3>2, <3>3, <3>4
  <2>4. DeductedWhenDue'
    BY <2>1, <2>3 DEF DeductedWhenDue
  <2> QED
    BY <2>2, <2>4 DEF DeliveryInv
<1>4. CASE BooksGrow /\ Moves
  BY <1>4, MoveDelivers
<1> QED
  BY <1>1, <1>2, <1>3, <1>4, NextIs

\* The consumer goes through the topic once, and once more from the offset it
\* committed last each time it comes back; no step of it deducts an item twice.
THEOREM OneDeductionPerDelivery == Spec => []DeductedPerDelivery
<1>1. BaseInv /\ DeliveryInv /\ [Next]_vars => DeliveryInv'
  BY NextDelivery
<1>2. Init => DeliveryInv
  BY InitDelivery
<1>3. BaseInv /\ DeliveryInv => DeductedPerDelivery
  <2> SUFFICES ASSUME BaseInv, DeliveryInv, NEW o \in Orders, NEW i \in DOMAIN ItemsOf[o]
               PROVE  deducted[o][i] <= copies[o] * (1 + restarts)
    BY DEF DeductedPerDelivery
  <2>1. /\ deducted[o][i] <= copies[o] * restarts + Due(o, i)
        /\ deducted[o][i] \in Nat /\ restarts \in Nat
    BY DEF DeliveryInv, DeductedWhenDue, BaseInv, BooksInv
  <2>2. Due(o, i) \in Nat /\ copies[o] \in Nat /\ Due(o, i) <= copies[o]
    BY DueIsCopied DEF DeliveryInv
  <2>3. /\ copies[o] * (1 + restarts) = copies[o] * restarts + copies[o]
        /\ copies[o] * restarts \in Nat
    BY <2>1, <2>2
  <2> QED
    BY <2>1, <2>2, <2>3
<1> QED
  BY <1>1, <1>2, <1>3, BaseInvariance, PTL DEF Spec

----------------------------------------------------------------------------
(* Sums over a finite set: the recursive functions the folds are made of.  *)

Pick(s) == CHOOSE x \in s : TRUE

IsSum(g, f, S) ==
    g = [s \in SUBSET S |-> IF s = {} THEN 0 ELSE f[Pick(s)] + g[s \ {Pick(s)}]]

SumOver(f, S) == CHOOSE g : IsSum(g, f, S)

Total(f, S) == SumOver(f, S)[S]

\* Of any subsets of a finite set one is smallest.
LEMMA SmallestSet ==
  ASSUME NEW S, IsFiniteSet(S), NEW B \in SUBSET (SUBSET S), B # {}
  PROVE  \E T \in B : \A U \in B : U \subseteq T => U = T
<1>1. /\ IsWellFoundedOn(StrictSubsetOrdering(S), FiniteSubsetsOf(S))
      /\ FiniteSubsetsOf(S) = SUBSET S
  BY FS_StrictSubsetOrderingWellFounded, FS_FiniteSubsetsOfFinite
<1>2. PICK T \in B : \A U \in B : <<U, T>> \notin StrictSubsetOrdering(S)
  BY <1>1, WFMin
<1> QED
  BY <1>2 DEF StrictSubsetOrdering

LEMMA IsSumAt ==
  ASSUME NEW g, NEW f, NEW S, IsSum(g, f, S), NEW s \in SUBSET S
  PROVE  g[s] = IF s = {} THEN 0 ELSE f[Pick(s)] + g[s \ {Pick(s)}]
<1> DEFINE body(t) == IF t = {} THEN 0 ELSE f[Pick(t)] + g[t \ {Pick(t)}]
<1>1. g = [t \in SUBSET S |-> body(t)]
  BY DEF IsSum
<1> HIDE DEF body
<1>2. g[s] = body(s)
  BY <1>1
<1> QED
  BY <1>2 DEF body

LEMMA PickMember == ASSUME NEW s, s # {} PROVE Pick(s) \in s
  BY DEF Pick

\* Two sums agree wherever both are defined.
LEMMA SumsAgree ==
  ASSUME NEW f, NEW S, NEW T, IsFiniteSet(S), NEW g, NEW h,
         IsSum(g, f, S), IsSum(h, f, T), NEW s \in SUBSET (S \cap T)
  PROVE  g[s] = h[s]
<1> DEFINE B == {t \in SUBSET (S \cap T) : g[t] # h[t]}
<1> SUFFICES ASSUME B # {} PROVE FALSE
  OBVIOUS
<1>1. IsFiniteSet(S \cap T)
  BY FS_Intersection
<1>2. PICK t \in B : \A u \in B : u \subseteq t => u = t
  <2>1. B \in SUBSET (SUBSET (S \cap T))
    OBVIOUS
  <2> HIDE DEF B
  <2> QED
    BY <1>1, <2>1, SmallestSet
<1>3. t \in SUBSET S /\ t \in SUBSET T
  BY <1>2
<1>4. t # {} => g[t \ {Pick(t)}] = h[t \ {Pick(t)}]
  BY <1>2, PickMember
<1>5. /\ g[t] = IF t = {} THEN 0 ELSE f[Pick(t)] + g[t \ {Pick(t)}]
      /\ h[t] = IF t = {} THEN 0 ELSE f[Pick(t)] + h[t \ {Pick(t)}]
  BY <1>3, IsSumAt
<1> QED
  BY <1>2, <1>4, <1>5

LEMMA SumExists ==
  ASSUME NEW f, NEW S, IsFiniteSet(S)
  PROVE  IsSum(SumOver(f, S), f, S)
<1> DEFINE B == {T \in SUBSET S : ~IsSum(SumOver(f, T), f, T)}
<1> SUFFICES ASSUME B # {} PROVE FALSE
  OBVIOUS
<1>1. PICK T \in B : \A U \in B : U \subseteq T => U = T
  <2>1. B \in SUBSET (SUBSET S)
    OBVIOUS
  <2> HIDE DEF B
  <2> QED
    BY <2>1, SmallestSet
<1>2. \A U \in SUBSET T : U # T => IsSum(SumOver(f, U), f, U)
  BY <1>1
<1>3. \A U \in SUBSET T : IsFiniteSet(U)
  BY <1>1, FS_Subset
<1> DEFINE rest(s) == s \ {Pick(s)}
           g == [s \in SUBSET T |-> IF s = {} THEN 0
                                    ELSE f[Pick(s)] + Total(f, rest(s))]
<1>4. ASSUME NEW s \in SUBSET T, s # {} PROVE g[rest(s)] = Total(f, rest(s))
  <2> DEFINE r == rest(s)
  <2>1. r \in SUBSET T /\ r # T
    BY <1>4, PickMember
  <2>2. IsSum(SumOver(f, r), f, r)
    BY <1>2, <2>1
  <2>3. Total(f, r) = IF r = {} THEN 0 ELSE f[Pick(r)] + SumOver(f, r)[rest(r)]
    BY <2>2, IsSumAt DEF Total
  <2>4. CASE r = {}
    BY <2>1, <2>3, <2>4
  <2>5. CASE r # {}
    <3>1. rest(r) \in SUBSET T /\ rest(r) # T
      BY <2>1
    <3>2. IsSum(SumOver(f, rest(r)), f, rest(r))
      BY <1>2, <3>1
    <3>3. rest(r) \in SUBSET (r \cap rest(r))
      OBVIOUS
    <3>4. SumOver(f, r)[rest(r)] = Total(f, rest(r))
      BY <1>3, <2>1, <2>2, <3>2, <3>3, SumsAgree DEF Total
    <3> QED
      BY <2>1, <2>3, <2>5, <3>4
  <2> QED
    BY <2>4, <2>5
<1>5. IsSum(g, f, T)
  <2>1. g = [s \in SUBSET T |-> IF s = {} THEN 0 ELSE f[Pick(s)] + g[rest(s)]]
    BY <1>4
  <2> QED
    BY <2>1 DEF IsSum
<1>6. IsSum(SumOver(f, T), f, T)
  BY <1>5 DEF SumOver
<1> QED
  BY <1>1, <1>6

\* A sum is its first summand and the sum of the others.
LEMMA TotalSplits ==
  ASSUME NEW f, NEW S, IsFiniteSet(S), S # {}
  PROVE  Total(f, S) = f[Pick(S)] + Total(f, S \ {Pick(S)})
<1> DEFINE R == S \ {Pick(S)}
<1>1. IsSum(SumOver(f, S), f, S) /\ IsSum(SumOver(f, R), f, R)
  <2>1. IsFiniteSet(R)
    BY FS_RemoveElement
  <2> QED
    BY <2>1, SumExists
<1>2. SumOver(f, S)[S] = f[Pick(S)] + SumOver(f, S)[R]
  BY <1>1, IsSumAt
<1>3. SumOver(f, S)[R] = SumOver(f, R)[R]
  <2>1. R \in SUBSET (S \cap R)
    OBVIOUS
  <2> HIDE DEF R
  <2> QED
    BY <1>1, <2>1, SumsAgree
<1> QED
  BY <1>2, <1>3 DEF Total

LEMMA TotalOfNone == ASSUME NEW f PROVE Total(f, {}) = 0
<1>1. IsSum(SumOver(f, {}), f, {})
  BY SumExists, FS_EmptySet
<1> QED
  BY <1>1, IsSumAt DEF Total

\* A summand that changes changes the sum by as much, and nothing else does.
LEMMA TotalChanges ==
  ASSUME NEW S, IsFiniteSet(S), NEW f, NEW g, NEW a,
         \A x \in S : f[x] \in Int /\ g[x] \in Int,
         \A x \in S \ {a} : g[x] = f[x]
  PROVE  /\ Total(f, S) \in Int
         /\ Total(g, S) = Total(f, S) + (IF a \in S THEN g[a] - f[a] ELSE 0)
<1> DEFINE Right(T) == /\ Total(f, T) \in Int
                       /\ Total(g, T) = Total(f, T) + (IF a \in T THEN g[a] - f[a] ELSE 0)
           B == {T \in SUBSET S : ~Right(T)}
<1>1. Right(S) \/ B # {}
  OBVIOUS
<1>2. ASSUME B # {} PROVE FALSE
  <2>1. PICK T \in B : \A U \in B : U \subseteq T => U = T
    <3>1. B \in SUBSET (SUBSET S)
      OBVIOUS
    <3> HIDE DEF B
    <3> QED
      BY <1>2, <3>1, SmallestSet
  <2>2. T \in SUBSET S /\ IsFiniteSet(T)
    BY <2>1, FS_Subset
  <2>3. CASE T = {}
    BY <2>1, <2>3, TotalOfNone
  <2>4. CASE T # {}
    <3> DEFINE x == Pick(T)
               R == T \ {x}
    <3>1. x \in T /\ x \in S
      BY <2>2, <2>4, PickMember
    <3>2. Right(R)
      BY <2>1, <2>2, <3>1
    <3>3. /\ Total(f, T) = f[x] + Total(f, R)
          /\ Total(g, T) = g[x] + Total(g, R)
      BY <2>2, <2>4, TotalSplits
    <3>4. /\ f[x] \in Int /\ g[x] \in Int /\ (x # a => g[x] = f[x])
          /\ a \in R => f[a] \in Int /\ g[a] \in Int
      BY <2>2, <3>1
    <3>5. a \in T <=> a \in R \/ a = x
      BY <3>1
    <3>6. a \in R => a # x
      OBVIOUS
    <3>7. Right(T)
      <4> HIDE DEF x, R
      <4>1. CASE a = x
        BY <3>2, <3>3, <3>4, <3>5, <3>6, <4>1
      <4>2. CASE a # x
        BY <3>2, <3>3, <3>4, <3>5, <4>2
      <4> QED
        BY <4>1, <4>2
    <3> QED
      BY <2>1, <3>7
  <2> QED
    BY <2>3, <2>4
<1> QED
  BY <1>1, <1>2

LEMMA TotalOfZeros ==
  ASSUME NEW S, IsFiniteSet(S), NEW f, \A x \in S : f[x] = 0
  PROVE  Total(f, S) = 0
<1> DEFINE B == {T \in SUBSET S : Total(f, T) # 0}
<1> SUFFICES ASSUME B # {} PROVE FALSE
  OBVIOUS
<1>1. PICK T \in B : \A U \in B : U \subseteq T => U = T
  <2>1. B \in SUBSET (SUBSET S)
    OBVIOUS
  <2> HIDE DEF B
  <2> QED
    BY <2>1, SmallestSet
<1>2. T # {} /\ IsFiniteSet(T)
  BY <1>1, TotalOfNone, FS_Subset
<1> DEFINE x == Pick(T)
           R == T \ {x}
<1>3. x \in T
  BY <1>2, PickMember
<1>4. Total(f, R) = 0
  BY <1>1, <1>3
<1>5. Total(f, T) = f[x] + Total(f, R)
  BY <1>2, TotalSplits
<1> QED
  BY <1>1, <1>3, <1>4, <1>5

----------------------------------------------------------------------------
(* The stock and the books.                                                *)

\* What the deductions d take of the product p, line by line.
Takes(p, d) == [l \in Lines(p) |-> d[l[1]][l[2]] * ItemsOf[l[1]][l[2]].quantity]

\* The function MapThenSumSet chooses to sum them up.
SumsTakes(g, p, d) ==
    g = [s \in SUBSET Lines(p) |->
            IF s = {} THEN 0
            ELSE d[Pick(s)[1]][Pick(s)[2]] * ItemsOf[Pick(s)[1]][Pick(s)[2]].quantity
                 + g[s \ {Pick(s)}]]

LEMMA TakesSummed ==
  ASSUME NEW p, NEW d
  PROVE  (CHOOSE g : SumsTakes(g, p, d))[Lines(p)] = Total(Takes(p, d), Lines(p))
<1> DEFINE L == Lines(p)
           f == Takes(p, d)
<1>1. ASSUME NEW g PROVE IsSum(g, f, L) <=> SumsTakes(g, p, d)
  <2>1. \A s \in SUBSET L : s # {} =>
          f[Pick(s)] = d[Pick(s)[1]][Pick(s)[2]] * ItemsOf[Pick(s)[1]][Pick(s)[2]].quantity
    BY PickMember DEF Takes
  <2> QED
    BY <2>1 DEF IsSum, SumsTakes
<1>2. (CHOOSE g : SumsTakes(g, p, d)) = (CHOOSE g : IsSum(g, f, L))
  <2> HIDE DEF L, f
  <2> QED
    BY <1>1, Zenon
<1> QED
  BY <1>2 DEF Total, SumOver

LEMMA SoldIsTotal ==
  ASSUME NEW p
  PROVE  /\ Sold(p) = Total(Takes(p, deducted), Lines(p))
         /\ Sold(p)' = Total(Takes(p, deducted'), Lines(p))
<1>1. Sold(p) = (CHOOSE g : SumsTakes(g, p, deducted))[Lines(p)]
  BY DEF Sold, MapThenSumSet, MapThenFoldSet, Pick, SumsTakes
<1>2. Sold(p)' = (CHOOSE g : SumsTakes(g, p, deducted'))[Lines(p)]
  BY DEF Sold, MapThenSumSet, MapThenFoldSet, Pick, SumsTakes
<1> QED
  BY <1>1, <1>2, TakesSummed

LEMMA LinesAre ==
  ASSUME NEW p
  PROVE  /\ \A l \in Lines(p) : \E o \in Orders : \E i \in DOMAIN ItemsOf[o] :
              l = <<o, i>> /\ ItemsOf[o][i].productId = p
         /\ \A o \in Orders : \A i \in DOMAIN ItemsOf[o] :
              <<o, i>> \in Lines(p) <=> ItemsOf[o][i].productId = p
  BY DEF Lines

LEMMA LinesFinite == ASSUME NEW p PROVE IsFiniteSet(Lines(p))
<1> DEFINE J(o) == {j \in DOMAIN ItemsOf[o] : ItemsOf[o][j].productId = p}
           Row(o) == {<<o, i>> : i \in J(o)}
           Rows == {Row(o) : o \in Orders}
<1>1. ASSUME NEW o \in Orders PROVE IsFiniteSet(Row(o))
  <2>1. IsFiniteSet(J(o))
    <3>1. /\ DOMAIN ItemsOf[o] = 1..Len(ItemsOf[o]) /\ Len(ItemsOf[o]) \in Nat
      BY ItemsAreNumbered
    <3>2. IsFiniteSet(1..Len(ItemsOf[o])) /\ J(o) \in SUBSET (1..Len(ItemsOf[o]))
      BY <3>1, FS_Interval
    <3> QED
      BY <3>2, FS_Subset
  <2>2. [i \in J(o) |-> <<o, i>>] \in Surjection(J(o), Row(o))
    BY DEF Surjection
  <2> QED
    BY <2>1, <2>2, FS_Surjection
<1>2. IsFiniteSet(Rows)
  <2> HIDE DEF Row
  <2>1. [o \in Orders |-> Row(o)] \in Surjection(Orders, Rows)
    BY DEF Surjection
  <2> QED
    BY <2>1, OrdersAssumption, FS_Surjection
<1>3. \A T \in Rows : IsFiniteSet(T)
  <2> HIDE DEF Row
  <2> QED
    BY <1>1
<1>4. Lines(p) = UNION Rows
  BY DEF Lines
<1> QED
  <2> HIDE DEF Rows
  <2> QED
    BY <1>2, <1>3, <1>4, FS_UNION

LEMMA SoldIsInt == ASSUME BaseInv, NEW p \in Products PROVE Sold(p) \in Int
<1> DEFINE L == Lines(p)
           f == Takes(p, deducted)
<1>1. ASSUME NEW l \in L PROVE f[l] \in Int
  <2>1. PICK o \in Orders : \E i \in DOMAIN ItemsOf[o] : l = <<o, i>>
    BY LinesAre
  <2>2. PICK i \in DOMAIN ItemsOf[o] : l = <<o, i>>
    BY <2>1
  <2>3. f[l] = deducted[o][i] * ItemsOf[o][i].quantity
    BY <2>2 DEF Takes
  <2>4. deducted[o][i] \in Nat /\ ItemsOf[o][i].quantity \in Nat
    BY ItemsAreNumbered DEF BaseInv, BooksInv
  <2> QED
    BY <2>3, <2>4
<1>2. Sold(p) = Total(f, L) /\ IsFiniteSet(L)
  BY SoldIsTotal, LinesFinite
<1> HIDE DEF L, f
<1>3. Total(f, L) \in Int
  BY <1>1, <1>2, TotalChanges
<1> QED
  BY <1>2, <1>3

\* A deduction sells the quantity of its item, and nothing of other products.
LEMMA SoldGrows ==
  ASSUME BaseInv, NEW p \in Products, NEW b \in BOOLEAN,
         b => Order \in Orders /\ item \in DOMAIN ItemsOf[Order],
         \A o \in Orders : \A i \in DOMAIN ItemsOf[o] :
             /\ deducted'[o][i] \in Nat
             /\ deducted'[o][i] = deducted[o][i] +
                   (IF b /\ o = Order /\ i = item THEN 1 ELSE 0)
  PROVE  /\ Sold(p) \in Int
         /\ Sold(p)' = Sold(p) +
               (IF b /\ ItemsOf[Order][item].productId = p
                THEN ItemsOf[Order][item].quantity ELSE 0)
<1> DEFINE L == Lines(p)
           f == Takes(p, deducted)
           g == Takes(p, deducted')
           a == <<Order, item>>
<1>1. ASSUME NEW l \in L
      PROVE  /\ f[l] \in Int /\ g[l] \in Int
             /\ ~(b /\ l = a) => g[l] = f[l]
             /\ b /\ l = a => g[l] - f[l] = ItemsOf[Order][item].quantity
  <2>0. PICK o \in Orders : \E i \in DOMAIN ItemsOf[o] : l = <<o, i>>
    BY LinesAre
  <2>1. PICK i \in DOMAIN ItemsOf[o] : l = <<o, i>>
    BY <2>0
  <2> DEFINE x == deducted[o][i]
             y == deducted'[o][i]
             q == ItemsOf[o][i].quantity
  <2>2. f[l] = x * q /\ g[l] = y * q
    BY <2>1 DEF Takes
  <2>3. x \in Nat /\ y \in Nat /\ q \in Nat
    BY ItemsAreNumbered DEF BaseInv, BooksInv
  <2>4. l = a <=> o = Order /\ i = item
    BY <2>1
  <2>5. y = x + (IF b /\ l = a THEN 1 ELSE 0)
    BY <2>4
  <2>6. b /\ l = a => q = ItemsOf[Order][item].quantity
    BY <2>4
  <2> HIDE DEF x, y, q, a
  <2>7. x * q \in Nat /\ y * q \in Nat /\ (x + 1) * q = x * q + q
    BY <2>3
  <2>8. CASE b /\ l = a
    <3>1. y * q = x * q + q
      BY <2>5, <2>7, <2>8
    <3>2. g[l] - f[l] = q
      BY <2>2, <2>3, <2>7, <3>1
    <3> QED
      BY <2>2, <2>6, <2>7, <2>8, <3>2
  <2>9. CASE ~(b /\ l = a)
    <3>1. y = x
      BY <2>3, <2>5, <2>9
    <3> QED
      BY <2>2, <2>7, <2>9, <3>1
  <2> QED
    BY <2>8, <2>9
<1>2. b => (a \in L <=> ItemsOf[Order][item].productId = p)
  BY LinesAre
<1>3. /\ Sold(p) = Total(f, L) /\ Sold(p)' = Total(g, L)
      /\ IsFiniteSet(L)
  BY SoldIsTotal, LinesFinite
<1> HIDE DEF L, f, g, a
<1>4. /\ Total(f, L) \in Int
      /\ Total(g, L) = Total(f, L) + (IF a \in L THEN g[a] - f[a] ELSE 0)
  <2>1. /\ \A l \in L : f[l] \in Int /\ g[l] \in Int
        /\ \A l \in L \ {a} : g[l] = f[l]
    BY <1>1
  <2> QED
    BY <1>3, <2>1, TotalChanges
<1>5. CASE b
  BY <1>1, <1>2, <1>3, <1>4, <1>5
<1>6. CASE ~b
  BY <1>1, <1>3, <1>4, <1>6
<1> QED
  BY <1>5, <1>6

LEMMA InitAccounted == ASSUME Init PROVE StockAccounted
<1> SUFFICES ASSUME NEW p \in Products
               PROVE  Sold(p) = 0 /\ db[p] = initial[p] /\ (db[p] # Nil => db[p] \in Nat)
  BY DEF StockAccounted
<1>1. db[p] = initial[p] /\ (db[p] # Nil => db[p] \in Nat)
  BY InitialAssumption DEF Init
<1>2. Sold(p) = 0
  <2> DEFINE L == Lines(p)
             f == Takes(p, deducted)
  <2>1. \A l \in L : f[l] = 0
    <3> SUFFICES ASSUME NEW l \in L PROVE f[l] = 0
      OBVIOUS
    <3>0. PICK o \in Orders : \E i \in DOMAIN ItemsOf[o] : l = <<o, i>>
      BY LinesAre
    <3>1. PICK i \in DOMAIN ItemsOf[o] : l = <<o, i>>
      BY <3>0
    <3>2. deducted[o][i] = 0 /\ ItemsOf[o][i].quantity \in Nat
      BY ItemsAreNumbered DEF Init
    <3> QED
      BY <3>1, <3>2 DEF Takes
  <2>2. Sold(p) = Total(f, L) /\ IsFiniteSet(L)
    BY SoldIsTotal, LinesFinite
  <2> HIDE DEF L, f
  <2> QED
    BY <2>1, <2>2, TotalOfZeros
<1> QED
  BY <1>1, <1>2

LEMMA NextAccounted ==
  ASSUME BaseInv, StockAccounted, [Next]_vars
  PROVE  StockAccounted'
<1>1. ASSUME UNCHANGED <<db, deducted, initial>>, disturbed \subseteq disturbed'
      PROVE  StockAccounted'
  <2> SUFFICES ASSUME NEW p \in Products \ disturbed', db[p] # Nil
               PROVE  db[p] + Sold(p)' = initial[p]
    BY <1>1 DEF StockAccounted
  <2>1. Sold(p)' = Sold(p)
    BY <1>1, SoldIsTotal
  <2> QED
    BY <1>1, <2>1 DEF StockAccounted
<1>2. CASE Quiet
  BY <1>1, <1>2 DEF Quiet, books
<1>3. CASE (\E o \in Orders : Appends(o)) \/ Restarts
  BY <1>1, <1>3 DEF Appends, Restarts
<1>4. CASE BooksGrow /\ Moves /\ ~Deducts
  BY <1>1, <1>4 DEF BooksGrow, Moves, Begins, GoesOn, Ends, Passes
<1>5. CASE BooksGrow /\ Deducts
  <2> SUFFICES ASSUME NEW p \in Products, p \notin disturbed', db'[p] # Nil
               PROVE  db'[p] + Sold(p)' = initial'[p]
    BY DEF StockAccounted
  <2>1. /\ Order \in Orders /\ item \in DOMAIN ItemsOf[Order]
        /\ ItemsOf[Order][item].quantity \in Nat
        /\ PS!Items = ItemsOf[Order]
    BY <1>5, AtItem, ItemsAreNumbered, OrderAtHand DEF Deducts, At, BaseInv
  <2>2. task[Consumer].id = ItemsOf[Order][item].productId
    BY <1>5, <2>1 DEF Deducts, BaseInv, ConsumerInv, At
  <2>3. /\ Sold(p) \in Int
        /\ Sold(p)' = Sold(p) + (IF ItemsOf[Order][item].productId = p
                                 THEN ItemsOf[Order][item].quantity ELSE 0)
    <3>1. \A o \in Orders : \A i \in DOMAIN ItemsOf[o] :
            /\ deducted'[o][i] \in Nat
            /\ deducted'[o][i] = deducted[o][i] +
                  (IF o = Order /\ i = item THEN 1 ELSE 0)
      BY <1>5, DeductedGrows DEF Moves
    <3> QED
      BY <2>1, <3>1, SoldGrows
  <2>4. /\ p \notin disturbed /\ initial' = initial
        /\ db \in [Products -> Nat \cup {Nil}]
    BY <1>5, ProductFacts DEF BooksGrow, BaseInv
  <2>5. CASE p = task[Consumer].id
    <3>1. db[p] # Nil /\ db'[p] = db[p] - ItemsOf[Order][item].quantity
      BY <1>5, <2>1, <2>5 DEF Deducts
    <3>2. db[p] + Sold(p) = initial[p] /\ db[p] \in Nat
      BY <2>4, <3>1 DEF StockAccounted
    <3> QED
      BY <2>1, <2>2, <2>3, <2>4, <2>5, <3>1, <3>2
  <2>6. CASE p # task[Consumer].id
    <3>1. db'[p] = db[p]
      BY <1>5, <2>6 DEF Deducts
    <3> QED
      BY <2>2, <2>3, <2>4, <2>6, <3>1 DEF StockAccounted
  <2> QED
    BY <2>5, <2>6
<1> QED
  BY <1>2, <1>3, <1>4, <1>5, NextIs DEF Moves

\* What the table has lost is what the books have sold: each effective UPDATE
\* takes the quantity of its item off the row it has read.
THEOREM StockIsAccountedFor == Spec => []StockAccounted
<1>1. BaseInv /\ StockAccounted /\ [Next]_vars => StockAccounted'
  BY NextAccounted
<1> QED
  BY <1>1, InitAccounted, BaseInvariance, PTL DEF Spec

\* What the table began with is the most that is ever sold of a product no
\* fault has disturbed, however many orders compete for it.
THEOREM NeverOversold ==
  Spec => [](\A p \in Products \ disturbed : db[p] # Nil => Sold(p) <= initial[p])
<1>1. BaseInv /\ StockAccounted =>
        (\A p \in Products \ disturbed : db[p] # Nil => Sold(p) <= initial[p])
  <2> SUFFICES ASSUME BaseInv, StockAccounted,
                      NEW p \in Products \ disturbed, db[p] # Nil
               PROVE  Sold(p) <= initial[p]
    OBVIOUS
  <2>1. db[p] \in Nat /\ Sold(p) \in Int
    BY ProductFacts, SoldIsInt DEF BaseInv
  <2>2. db[p] + Sold(p) = initial[p]
    BY DEF StockAccounted
  <2> QED
    BY <2>1, <2>2
<1> QED
  BY <1>1, BaseInvariance, StockIsAccountedFor, PTL

----------------------------------------------------------------------------
(* The pipeline is made of the services.                                   *)

LEMMA NextIsOfServices ==
  ASSUME [Next]_vars
  PROVE  [OSP!Next]_orderVars /\ [PSP!Next]_productVars
<1>1. CASE OrderStep
  <2>1. [PSP!Next]_productVars
    <3>1. CASE \E o \in Orders : EventAppended(o)
      BY <3>1, ProductStepIs DEF ProductStep
    <3>2. CASE \/ \E h \in Placing : PlaceOrder(h)
               \/ \E o \in Orders : PublishReturns(o)
               \/ OrderServiceCrash
      BY <3>2 DEF PlaceOrder, PublishReturns, OrderServiceCrash
    <3> QED
      BY <1>1, <3>1, <3>2 DEF OrderStep
  <2> QED
    BY <1>1, <2>1, OrderStepIs
<1>2. CASE ProductStep /\ ~OrderStep
  <2>1. UNCHANGED orderVars
    BY <1>2 DEF ProductStep, OrderStep, Consume, ConsumeFails, Keep, Commit,
                RedisComesAndGoes, ProductServiceCrash, Rejoin
  <2> QED
    BY <1>2, <2>1, ProductStepIs
<1>3. CASE UNCHANGED vars
  BY <1>3 DEF vars
<1> QED
  BY <1>1, <1>2, <1>3 DEF Next, OrderStep, ProductStep

\* Nothing happens to the variables of either service in the pipeline but
\* what its own module lets happen, faults of the other one aside.
THEOREM StepsAreOfServices ==
  Spec => [][OSP!Next]_orderVars /\ [][PSP!Next]_productVars
  BY NextIsOfServices, PTL DEF Spec

\* And so what is proved of each service holds in the pipeline.
THEOREM ServicesKeepTheirs ==
  Spec => [](/\ OSP!EventHasOrder /\ OSP!SavedIsPublished
             /\ PSP!StockNeverNegative /\ PSP!UndisturbedCacheCoherent)
<1>1. BaseInv => /\ OSP!EventHasOrder /\ OSP!SavedIsPublished
                 /\ PSP!StockNeverNegative /\ PSP!UndisturbedCacheCoherent
  <2> SUFFICES ASSUME BaseInv
               PROVE  /\ OSP!EventHasOrder /\ OSP!SavedIsPublished
                      /\ PSP!StockNeverNegative /\ PSP!UndisturbedCacheCoherent
    OBVIOUS
  <2>1. OSP!EventHasOrder /\ OSP!SavedIsPublished
    BY DEF BaseInv, OSP!IInv, OSP!PublishedAreSaved, OSP!EventHasOrder
  <2>2. PSP!StockNeverNegative
    BY ProductAssumptions, PSP!InvariantsFromIInv DEF BaseInv, PSP!CInv
  <2>3. PSP!UndisturbedCacheCoherent
    BY DEF BaseInv, PSP!CInv, PSP!Coherent, PSP!InLine, PSP!Repairs,
           PSP!UndisturbedCacheCoherent
  <2> QED
    BY <2>1, <2>2, <2>3
<1> QED
  BY <1>1, BaseInvariance, PTL
=============================================================================
