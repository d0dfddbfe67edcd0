------------------------- MODULE OrderServiceProofs -------------------------
(***************************************************************************)
(* OrderService is type-correct, publishes no event before its order is    *)
(* saved, and loses the event of a saved order before publish only to a    *)
(* fault: for any number of orders, calls and faults.                      *)
(***************************************************************************)
EXTENDS OrderService, TLAPS

\* A call that is past its INSERT has the id of a row; one that fills the
\* cache has read one.
CallsHaveOrders ==
    \A h \in Handlers :
        /\ call[h].pc \in {"saved", "publish", "fill"} => call[h].id \in orders
        /\ call[h].pc \in {"get", "find"} => call[h].id \in Orders

\* publish was called for an order only after it was saved, and the topic has
\* its event only after publish was called.
PublishedAreSaved ==
    \A o \in Orders :
        /\ status[o] # "new" => o \in orders
        /\ copies[o] > 0 => status[o] # "new"

IInv == TypeOK /\ CallsHaveOrders /\ PublishedAreSaved /\ SavedIsPublished

----------------------------------------------------------------------------
LEMMA InitIInv == Init => IInv
<1> SUFFICES ASSUME Init PROVE IInv
  OBVIOUS
<1>1. call \in [Handlers -> [pc : PCs, id : Orders \cup {Nil}]]
  BY DEF Init, Idle, PCs
<1>2. TypeOK
  <2>1. /\ status \in [Orders -> {"new", "called", "returned"}]
        /\ copies \in [Orders -> 0..MaxCopies]
        /\ faults \in 0..MaxFaults
    BY BoundsAssumption DEF Init, Publish!Init
  <2>2. reply \in [Handlers -> {"none", "OK", "INVALID_ARGUMENT"}]
    BY DEF Init
  <2> QED
    BY <1>1, <2>1, <2>2 DEF Init, TypeOK
<1>3. CallsHaveOrders /\ PublishedAreSaved /\ SavedIsPublished
  BY BoundsAssumption
     DEF Init, Idle, Publish!Init, CallsHaveOrders, PublishedAreSaved, SavedIsPublished
<1> QED
  BY <1>2, <1>3 DEF IInv

\* A call that goes on without touching the orders, their events and the
\* history leaves every invariant as it is, unless it was about to publish.
LEMMA CallGoesOn ==
    ASSUME IInv, NEW h \in Handlers,
           NEW pc \in PCs, NEW id \in Orders \cup {Nil},
           ~At(h, "saved"),
           call' = [call EXCEPT ![h] = [pc |-> pc, id |-> id]],
           pc \in {"saved", "publish", "fill"} => id \in orders,
           pc \in {"get", "find"} => id \in Orders,
           UNCHANGED <<orders, publishVars, interrupted>>
    PROVE  /\ call' \in [Handlers -> [pc : PCs, id : Orders \cup {Nil}]]
           /\ CallsHaveOrders' /\ PublishedAreSaved' /\ SavedIsPublished'
<1>1. call \in [Handlers -> [pc : PCs, id : Orders \cup {Nil}]]
  BY DEF IInv, TypeOK
<1>2. call' \in [Handlers -> [pc : PCs, id : Orders \cup {Nil}]]
  BY <1>1
<1>3. CallsHaveOrders'
  BY <1>1 DEF IInv, CallsHaveOrders
<1>4. PublishedAreSaved'
  BY DEF IInv, PublishedAreSaved, publishVars
<1>5. SavedIsPublished'
  BY <1>1 DEF IInv, SavedIsPublished, publishVars, At
<1> QED
  BY <1>2, <1>3, <1>4, <1>5

LEMMA OneMoreFault == ASSUME TypeOK, Fault PROVE faults' \in 0..MaxFaults
  BY BoundsAssumption DEF TypeOK, Fault

\* A call ends with an answer, or begins.
LEMMA AnswerStep ==
    ASSUME IInv, NEW h \in Handlers, ~At(h, "saved"),
           NEW code \in {"OK", "INVALID_ARGUMENT"}, Answer(h, code),
           UNCHANGED <<orders, isConnected, publishVars, interrupted>>,
           cache' \subseteq orders,
           UNCHANGED faults \/ Fault
    PROVE  IInv'
<1>1. "idle" \in PCs
  BY DEF PCs
<1>2. call' = [call EXCEPT ![h] = [pc |-> "idle", id |-> Nil]]
  BY DEF Answer, Idle
<1>3. /\ call' \in [Handlers -> [pc : PCs, id : Orders \cup {Nil}]]
      /\ CallsHaveOrders' /\ PublishedAreSaved' /\ SavedIsPublished'
  BY <1>1, <1>2, CallGoesOn
<1>4. reply' \in [Handlers -> {"none", "OK", "INVALID_ARGUMENT"}]
  BY DEF Answer, IInv, TypeOK
<1>5. faults' \in 0..MaxFaults
  BY OneMoreFault DEF IInv, TypeOK
<1>6. TypeOK'
  BY <1>3, <1>4, <1>5 DEF IInv, TypeOK, publishVars
<1> QED
  BY <1>3, <1>6 DEF IInv

LEMMA BeginStep ==
    ASSUME IInv, NEW h \in Handlers, NEW pc \in {"save", "get"},
           NEW id \in Orders \cup {Nil}, StartCall(h, pc, id),
           pc = "get" => id \in Orders
    PROVE  IInv'
<1>1. ~At(h, "saved") /\ pc \in PCs
  BY DEF StartCall, At, PCs
<1>2. /\ call' \in [Handlers -> [pc : PCs, id : Orders \cup {Nil}]]
      /\ CallsHaveOrders' /\ PublishedAreSaved' /\ SavedIsPublished'
  BY <1>1, CallGoesOn DEF StartCall
<1>3. TypeOK'
  BY <1>2 DEF StartCall, IInv, TypeOK, publishVars
<1> QED
  BY <1>2, <1>3 DEF IInv

LEMMA StartStep ==
    ASSUME IInv, NEW h \in Handlers, Call(h)
    PROVE  IInv'
  BY BeginStep DEF Call, CreateOrder, GetOrder

\* A call goes from one await of a read to the next.
LEMMA ReadStep ==
    ASSUME IInv, NEW h \in Handlers,
           CacheHit(h) \/ CacheMiss(h) \/ FindById(h) \/ FindFails(h) \/ Fill(h)
    PROVE  IInv'
<1>1. CASE CacheHit(h)
  <2>1. ~At(h, "saved") /\ cache' \subseteq orders
    BY <1>1 DEF CacheHit, At, IInv, TypeOK
  <2> QED
    BY <1>1, <2>1, AnswerStep DEF CacheHit
<1>2. ASSUME NEW pc \in {"find", "fill"}, At(h, "get") \/ At(h, "find"), Goto(h, pc),
             pc = "fill" => call[h].id \in orders,
             UNCHANGED <<orders, cache, isConnected, publishVars, faults, interrupted>>
      PROVE  IInv'
  <2>1. call[h].id \in Orders /\ ~At(h, "saved") /\ pc \in PCs
    BY <1>2 DEF IInv, CallsHaveOrders, At, PCs
  <2>2. call' = [call EXCEPT ![h] = [pc |-> pc, id |-> call[h].id]]
    <3>1. call[h] \in [pc : PCs, id : Orders \cup {Nil}]
      BY DEF IInv, TypeOK
    <3>2. [call[h] EXCEPT !.pc = pc] = [pc |-> pc, id |-> call[h].id]
      BY <3>1
    <3> QED
      BY <1>2, <3>2 DEF Goto
  <2>3. /\ call' \in [Handlers -> [pc : PCs, id : Orders \cup {Nil}]]
        /\ CallsHaveOrders' /\ PublishedAreSaved' /\ SavedIsPublished'
    BY <1>2, <2>1, <2>2, CallGoesOn
  <2>4. TypeOK'
    BY <1>2, <2>3 DEF Goto, IInv, TypeOK, publishVars
  <2> QED
    BY <2>3, <2>4 DEF IInv
<1>3. CASE CacheMiss(h)
  BY <1>2, <1>3 DEF CacheMiss
<1>4. CASE FindById(h)
  <2>1. CASE call[h].id \in orders
    BY <1>2, <1>4, <2>1 DEF FindById
  <2>2. CASE call[h].id \notin orders
    <3>1. ~At(h, "saved") /\ cache' \subseteq orders
      BY <1>4 DEF FindById, At, IInv, TypeOK
    <3> QED
      BY <1>4, <2>2, <3>1, AnswerStep DEF FindById
  <2> QED
    BY <2>1, <2>2
<1>5. CASE FindFails(h)
  <2>1. ~At(h, "saved") /\ cache' \subseteq orders
    BY <1>5 DEF FindFails, At, IInv, TypeOK
  <2> QED
    BY <1>5, <2>1, AnswerStep DEF FindFails
<1>6. CASE Fill(h)
  <2>1. ~At(h, "saved") /\ call[h].id \in orders
    BY <1>6 DEF Fill, At, IInv, CallsHaveOrders
  <2>2. cache' \subseteq orders
    BY <1>6, <2>1 DEF Fill, IInv, TypeOK
  <2> QED
    BY <1>6, <2>1, <2>2, AnswerStep DEF Fill
<1> QED
  BY <1>1, <1>3, <1>4, <1>5, <1>6

\* The steps of createOrder.
LEMMA CreateStep ==
    ASSUME IInv, NEW h \in Handlers,
           SaveFails(h) \/ PublishOrderCreated(h) \/ OrderCreated(h)
           \/ \E o \in Orders : Save(h, o)
    PROVE  IInv'
<1>0. /\ call \in [Handlers -> [pc : PCs, id : Orders \cup {Nil}]]
      /\ orders \subseteq Orders /\ cache \subseteq orders /\ interrupted \subseteq Orders
      /\ status \in [Orders -> {"new", "called", "returned"}]
  BY DEF IInv, TypeOK
<1>1. ASSUME NEW o \in Orders, Save(h, o) PROVE IInv'
  <2>1. /\ orders' = orders \cup {o}
        /\ call' = [call EXCEPT ![h] = [pc |-> "saved", id |-> o]]
        /\ UNCHANGED <<cache, isConnected, reply, status, copies, faults, interrupted>>
        /\ call[h].pc = "save"
    BY <1>1 DEF Save, At, publishVars
  <2>2. TypeOK'
    <3>1. call' \in [Handlers -> [pc : PCs, id : Orders \cup {Nil}]]
      BY <1>0, <2>1 DEF PCs
    <3>2. orders' \subseteq Orders /\ cache' \subseteq orders'
      BY <1>0, <2>1
    <3> QED
      BY <2>1, <3>1, <3>2 DEF IInv, TypeOK
  <2>3. CallsHaveOrders'
    BY <1>0, <2>1 DEF IInv, CallsHaveOrders
  <2>4. PublishedAreSaved'
    BY <2>1 DEF IInv, PublishedAreSaved
  <2>5. SavedIsPublished'
    <3> SUFFICES ASSUME NEW q \in orders' \ interrupted', status'[q] = "new"
                 PROVE  \E g \in Handlers : call'[g].pc = "saved" /\ call'[g].id = q
      BY DEF SavedIsPublished, At
    <3>1. CASE q = o
      BY <1>0, <2>1, <3>1
    <3>2. CASE q # o
      <4>1. PICK g \in Handlers : call[g].pc = "saved" /\ call[g].id = q
        BY <2>1, <3>2 DEF IInv, SavedIsPublished, At
      <4> QED
        BY <1>0, <2>1, <4>1
    <3> QED
      BY <3>1, <3>2
  <2> QED
    BY <2>2, <2>3, <2>4, <2>5 DEF IInv
<1>2. CASE PublishOrderCreated(h)
  <2> DEFINE o == call[h].id
  <2>1. /\ call[h].pc = "saved"
        /\ status' = [status EXCEPT ![o] = "called"]
        /\ call' = [call EXCEPT ![h].pc = "publish"]
        /\ UNCHANGED <<orders, cache, isConnected, reply, copies, faults, interrupted>>
    BY <1>2 DEF PublishOrderCreated, Publish!Call, Goto, At
  <2>2. o \in orders
    BY <2>1 DEF IInv, CallsHaveOrders
  <2>3. TypeOK'
    <3>1. call' \in [Handlers -> [pc : PCs, id : Orders \cup {Nil}]]
      BY <1>0, <2>1 DEF PCs
    <3>2. status' \in [Orders -> {"new", "called", "returned"}]
      BY <1>0, <2>1
    <3> QED
      BY <2>1, <3>1, <3>2 DEF IInv, TypeOK
  <2>4. CallsHaveOrders'
    BY <1>0, <2>1, <2>2 DEF IInv, CallsHaveOrders
  <2>5. PublishedAreSaved'
    BY <1>0, <2>1, <2>2 DEF IInv, PublishedAreSaved
  <2>6. SavedIsPublished'
    <3> SUFFICES ASSUME NEW q \in orders' \ interrupted', status'[q] = "new"
                 PROVE  \E g \in Handlers : call'[g].pc = "saved" /\ call'[g].id = q
      BY DEF SavedIsPublished, At
    <3>1. q # o /\ status[q] = "new" /\ q \in orders \ interrupted
      BY <1>0, <2>1, <2>2
    <3>2. PICK g \in Handlers : call[g].pc = "saved" /\ call[g].id = q
      BY <3>1 DEF IInv, SavedIsPublished, At
    <3> QED
      BY <1>0, <2>1, <3>1, <3>2
  <2> QED
    BY <2>3, <2>4, <2>5, <2>6 DEF IInv
<1>3. CASE OrderCreated(h)
  <2>1. ~At(h, "saved") /\ cache' \subseteq orders
    BY <1>0, <1>3 DEF OrderCreated, At
  <2> QED
    BY <1>3, <2>1, AnswerStep DEF OrderCreated
<1>4. CASE SaveFails(h)
  <2>0. ~At(h, "saved")
    BY <1>4 DEF SaveFails, At
  <2>1. CASE UNCHANGED <<orders, interrupted>>
    BY <1>0, <1>4, <2>0, <2>1, AnswerStep DEF SaveFails
  <2>2. ASSUME NEW o \in Orders \ orders, orders' = orders \cup {o},
               interrupted' = interrupted \cup {o}
        PROVE  IInv'
    <3>1. /\ call' = [call EXCEPT ![h] = [pc |-> "idle", id |-> Nil]]
          /\ reply' = [reply EXCEPT ![h] = "INVALID_ARGUMENT"]
          /\ UNCHANGED <<cache, isConnected, status, copies>>
          /\ call[h].pc = "save" /\ Fault
      BY <1>4 DEF SaveFails, Answer, Idle, At, publishVars
    <3>2. TypeOK'
      <4>1. call' \in [Handlers -> [pc : PCs, id : Orders \cup {Nil}]]
        BY <1>0, <3>1 DEF PCs
      <4>2. reply' \in [Handlers -> {"none", "OK", "INVALID_ARGUMENT"}]
        BY <3>1 DEF IInv, TypeOK
      <4>3. /\ orders' \subseteq Orders /\ cache' \subseteq orders'
            /\ interrupted' \subseteq Orders
        BY <1>0, <2>2, <3>1
      <4>4. faults' \in 0..MaxFaults
        BY <3>1, OneMoreFault DEF IInv
      <4> QED
        BY <3>1, <4>1, <4>2, <4>3, <4>4 DEF IInv, TypeOK
    <3>3. CallsHaveOrders'
      BY <1>0, <2>2, <3>1 DEF IInv, CallsHaveOrders
    <3>4. PublishedAreSaved'
      BY <2>2, <3>1 DEF IInv, PublishedAreSaved
    <3>5. SavedIsPublished'
      <4> SUFFICES ASSUME NEW q \in orders' \ interrupted', status'[q] = "new"
                   PROVE  \E g \in Handlers : call'[g].pc = "saved" /\ call'[g].id = q
        BY DEF SavedIsPublished, At
      <4>1. PICK g \in Handlers : call[g].pc = "saved" /\ call[g].id = q
        BY <2>2, <3>1 DEF IInv, SavedIsPublished, At
      <4> QED
        BY <1>0, <3>1, <4>1
    <3> QED
      BY <3>2, <3>3, <3>4, <3>5 DEF IInv
  <2> QED
    BY <1>4, <2>1, <2>2 DEF SaveFails
<1> QED
  BY <1>1, <1>2, <1>3, <1>4

\* Redis, Kafka and the restart.
LEMMA WorldStep ==
    ASSUME IInv,
           RedisError \/ RedisReady \/ Crash \/ \E o \in Orders : Messaging(o)
    PROVE  IInv'
<1>0. /\ call \in [Handlers -> [pc : PCs, id : Orders \cup {Nil}]]
      /\ status \in [Orders -> {"new", "called", "returned"}]
      /\ copies \in [Orders -> 0..MaxCopies]
      /\ interrupted \subseteq Orders
  BY DEF IInv, TypeOK
<1>1. CASE RedisError
  <2>1. TypeOK'
    BY <1>1, OneMoreFault DEF RedisError, IInv, TypeOK, publishVars
  <2> QED
    BY <1>1, <2>1 DEF RedisError, IInv, CallsHaveOrders, PublishedAreSaved,
                      SavedIsPublished, At, publishVars
<1>2. CASE RedisReady
  BY <1>2 DEF RedisReady, IInv, TypeOK, CallsHaveOrders, PublishedAreSaved,
              SavedIsPublished, At, publishVars
<1>3. ASSUME NEW o \in Orders, Messaging(o) PROVE IInv'
  <2>1. /\ UNCHANGED <<orders, cache, isConnected, call, reply, faults, interrupted>>
        /\ \/ status[o] # "new" /\ copies[o] < MaxCopies
              /\ copies' = [copies EXCEPT ![o] = @ + 1] /\ UNCHANGED status
           \/ status[o] = "called" /\ status' = [status EXCEPT ![o] = "returned"]
              /\ UNCHANGED copies
    BY <1>3 DEF Messaging, Publish!Append, Publish!Return
  <2>2. status' \in [Orders -> {"new", "called", "returned"}]
    BY <1>0, <2>1
  <2>3. copies' \in [Orders -> 0..MaxCopies]
    BY <1>0, <2>1, BoundsAssumption
  <2>4. TypeOK'
    BY <2>1, <2>2, <2>3 DEF IInv, TypeOK
  <2>5. CallsHaveOrders'
    BY <2>1 DEF IInv, CallsHaveOrders
  <2>6. PublishedAreSaved'
    BY <1>0, <2>1 DEF IInv, PublishedAreSaved
  <2>7. SavedIsPublished'
    <3>1. \A q \in Orders : status'[q] = "new" => status[q] = "new"
      BY <1>0, <2>1
    <3> QED
      BY <2>1, <3>1 DEF IInv, TypeOK, SavedIsPublished, At
  <2> QED
    BY <2>4, <2>5, <2>6, <2>7 DEF IInv
<1>4. CASE Crash
  <2> DEFINE cut == {call[h].id : h \in {g \in Handlers : At(g, "saved")}}
  <2>1. /\ call' = [h \in Handlers |-> Idle]
        /\ reply' = [h \in Handlers |-> "none"]
        /\ isConnected' = FALSE /\ Fault
        /\ status' = [o \in Orders |->
                        IF status[o] = "called" THEN "returned" ELSE status[o]]
        /\ interrupted' = interrupted \cup cut
        /\ UNCHANGED <<orders, cache, copies>>
    BY <1>4 DEF Crash
  <2>2. cut \subseteq orders
    BY DEF IInv, CallsHaveOrders, At
  <2>3. TypeOK'
    <3>1. call' \in [Handlers -> [pc : PCs, id : Orders \cup {Nil}]]
      BY <2>1 DEF PCs, Idle
    <3>2. status' \in [Orders -> {"new", "called", "returned"}]
      BY <1>0, <2>1
    <3>3. interrupted' \subseteq Orders
      BY <1>0, <2>1, <2>2 DEF IInv, TypeOK
    <3>4. faults' \in 0..MaxFaults
      BY <2>1, OneMoreFault DEF IInv
    <3> QED
      BY <2>1, <3>1, <3>2, <3>3, <3>4 DEF IInv, TypeOK
  <2>4. CallsHaveOrders'
    BY <2>1 DEF CallsHaveOrders, Idle
  <2>5. PublishedAreSaved'
    BY <1>0, <2>1 DEF IInv, PublishedAreSaved
  <2>6. SavedIsPublished'
    <3> SUFFICES ASSUME NEW q \in orders' \ interrupted', status'[q] = "new"
                 PROVE  FALSE
      BY DEF SavedIsPublished
    <3>1. q \in orders \ interrupted /\ q \notin cut /\ q \in Orders
      BY <2>1 DEF IInv, TypeOK
    <3>2. status[q] = "new"
      BY <1>0, <2>1, <3>1
    <3> QED
      BY <3>1, <3>2 DEF IInv, SavedIsPublished
  <2> QED
    BY <2>3, <2>4, <2>5, <2>6 DEF IInv
<1> QED
  BY <1>1, <1>2, <1>3, <1>4

LEMMA NextIInv == ASSUME IInv, [Next]_vars PROVE IInv'
<1>1. ASSUME NEW h \in Handlers, Call(h) \/ Step(h) PROVE IInv'
  BY <1>1, StartStep, ReadStep, CreateStep DEF Step
<1>2. CASE UNCHANGED vars
  BY <1>2 DEF vars, publishVars, IInv, TypeOK, CallsHaveOrders, PublishedAreSaved,
              SavedIsPublished, At
<1> QED
  BY <1>1, <1>2, WorldStep DEF Next

LEMMA Invariant == Spec => []IInv
<1> QED
  BY InitIInv, NextIInv, PTL DEF Spec

----------------------------------------------------------------------------
\* Table, cache, calls and publish calls of the order service stay what they
\* may be, and the cache holds orders of the table only.
THEOREM TypeCorrect == Spec => []TypeOK
<1>1. IInv => TypeOK
  BY DEF IInv
<1> QED
  BY <1>1, Invariant, PTL

\* createOrder publishes what it has saved: no event precedes its order.
THEOREM EventsHaveOrders == Spec => []EventHasOrder
<1>1. IInv => EventHasOrder
  BY DEF IInv, PublishedAreSaved, EventHasOrder
<1> QED
  BY <1>1, Invariant, PTL

\* Between the INSERT and publish, an event is lost to a fault only.
THEOREM SavedOrdersArePublished == Spec => []SavedIsPublished
<1>1. IInv => SavedIsPublished
  BY DEF IInv
<1> QED
  BY <1>1, Invariant, PTL
=============================================================================
