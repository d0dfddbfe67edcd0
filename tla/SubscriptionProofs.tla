------------------------- MODULE SubscriptionProofs -------------------------
(***************************************************************************)
(* Subscription is type-correct, never subscribes twice, skips no message  *)
(* and implements AtLeastOnce, for any number of messages and faults.      *)
(***************************************************************************)
EXTENDS Subscription, TLAPS

\* The one attempt of a service exists from the start of its consumer until
\* that runs.
AttemptUntilRunning ==
    /\ Attempts = IF server = "started" /\ consumer = "off" THEN 1 ELSE 0
    /\ consumer = "running" => server = "started"

\* eachMessage works its way up from what was committed.
PassedInOrder == 0..(position - 1) \subseteq passed

\* What the group has committed has gone through eachMessage: no message is
\* skipped, sent before the first subscription or lost by a crash.
NoMessageSkipped == committed # Nil => 0..(committed - 1) \subseteq passed

IInv == TypeOK /\ AttemptUntilRunning /\ PassedInOrder /\ NoMessageSkipped

----------------------------------------------------------------------------
\* A call of subscribe ends, or goes from one await to another.
LEMMA CallEnds ==
    ASSUME TypeOK, NEW s \in Awaits, calls[s] > 0,
           calls' = [calls EXCEPT ![s] = @ - 1]
    PROVE  calls' \in [Awaits -> Nat] /\ Calls' = Calls - 1
  BY DEF TypeOK, Awaits, Calls

LEMMA CallMoves ==
    ASSUME TypeOK, NEW s \in Awaits, NEW t \in Awaits \ {s}, calls[s] > 0,
           calls' = [calls EXCEPT ![s] = @ - 1, ![t] = @ + 1]
    PROVE  calls' \in [Awaits -> Nat] /\ Calls' = Calls
<1>1. calls \in [Awaits -> Nat]
  BY DEF TypeOK
<1>2. calls' \in [Awaits -> Nat]
  BY <1>1
<1>3. Calls' = Calls
  BY <1>1 DEF Awaits, Calls
<1> QED
  BY <1>2, <1>3

LEMMA OneMoreFault ==
    ASSUME TypeOK, Fault
    PROVE  faults' \in 0..MaxFaults
  BY BoundsAssumption DEF TypeOK, Fault

LEMMA InitIInv == Init => IInv
<1> SUFFICES ASSUME Init PROVE IInv
  OBVIOUS
<1>1. topic \in Seq(Kinds) /\ Len(topic) = 0
  BY DEF Init
<1>2. Attempts = 0
  BY DEF Init, Attempts, Calls, Awaits
<1>3. calls \in [Awaits -> Nat]
  BY DEF Init
<1>4. /\ position \in 0..Len(topic)
      /\ passed \subseteq 0..(Len(topic) - 1)
      /\ faults \in 0..MaxFaults
  BY <1>1, BoundsAssumption DEF Init
<1>5. TypeOK
  BY <1>1, <1>3, <1>4 DEF Init, TypeOK
<1> QED
  BY <1>2, <1>5 DEF Init, IInv, AttemptUntilRunning, PassedInOrder,
                    NoMessageSkipped

\* The steps of the start and of subscribe.
LEMMA StartStep ==
    ASSUME IInv,
           Boot \/ BootFails \/ StartConsumer \/ Resubscribe
           \/ \E s \in Awaits : AwaitEnds(s)
    PROVE  IInv'
<1> USE BoundsAssumption, NilAssumption DEF IInv, AttemptUntilRunning, Attempts
<1>1. CASE Boot
  BY <1>1 DEF Boot, TypeOK, PassedInOrder, NoMessageSkipped, readVars,
              Calls
<1>2. CASE BootFails
  BY <1>2, OneMoreFault
     DEF BootFails, TypeOK, PassedInOrder, NoMessageSkipped, readVars, Calls
<1>3. CASE StartConsumer
  BY <1>3 DEF StartConsumer, TypeOK, PassedInOrder, NoMessageSkipped, readVars,
              Awaits, Calls
<1>4. CASE Resubscribe
  BY <1>4 DEF Resubscribe, TypeOK, PassedInOrder, NoMessageSkipped, readVars,
              Awaits, Calls
<1>5. CASE ConnectSucceeds
  <2>1. "connect" \in Awaits /\ "subscribe" \in Awaits \ {"connect"}
    BY DEF Awaits
  <2>2. calls' \in [Awaits -> Nat] /\ Calls' = Calls
    BY <1>5, <2>1, CallMoves DEF ConnectSucceeds, Proceed
  <2> QED
    BY <1>5, <2>2 DEF ConnectSucceeds, Proceed, TypeOK, PassedInOrder,
                      NoMessageSkipped, readVars
<1>6. CASE SubscribeSucceeds
  <2>1. "subscribe" \in Awaits /\ "run" \in Awaits \ {"subscribe"}
    BY DEF Awaits
  <2>2. calls' \in [Awaits -> Nat] /\ Calls' = Calls
    BY <1>6, <2>1, CallMoves DEF SubscribeSucceeds, Proceed
  <2> QED
    BY <1>6, <2>2 DEF SubscribeSucceeds, Proceed, TypeOK, PassedInOrder,
                      NoMessageSkipped, readVars
<1>7. CASE RunSucceeds
  <2>1. calls' \in [Awaits -> Nat] /\ Calls' = Calls - 1
    <3>1. "run" \in Awaits
      BY DEF Awaits
    <3> QED
      BY <1>7, <3>1, CallEnds DEF RunSucceeds
  <2>2. position' \in 0..Len(topic)
    BY <1>7 DEF RunSucceeds, StartOffset, TypeOK
  <2>3. TypeOK'
    BY <1>7, <2>1, <2>2 DEF RunSucceeds, TypeOK
  <2>4. AttemptUntilRunning'
    <3>1. timers \in Nat /\ Calls \in Nat /\ Calls > 0
      BY <1>7 DEF RunSucceeds, TypeOK, Awaits, Calls
    <3> QED
      BY <1>7, <2>1, <3>1 DEF RunSucceeds
  <2>5. PassedInOrder' /\ NoMessageSkipped'
    BY <1>7 DEF RunSucceeds, StartOffset, TypeOK, PassedInOrder, NoMessageSkipped
  <2> QED
    BY <2>3, <2>4, <2>5
<1>8. ASSUME NEW s \in Awaits, SubscribeFails(s)
      PROVE  IInv'
  <2>1. faults' \in 0..MaxFaults
    BY <1>8, OneMoreFault DEF SubscribeFails, Rejected, TypeOK
  <2>2. calls' \in [Awaits -> Nat] /\ Calls' = Calls - 1
    BY <1>8, CallEnds DEF SubscribeFails
  <2>3. Calls \in Nat
    BY DEF TypeOK, Awaits, Calls
  <2>4. timers' \in Nat /\ Attempts' = Attempts
    BY <1>8, <2>2, <2>3 DEF SubscribeFails, TypeOK
  <2> QED
    BY <1>8, <2>1, <2>2, <2>4
       DEF SubscribeFails, TypeOK, PassedInOrder, NoMessageSkipped, readVars
<1> QED
  BY <1>1, <1>2, <1>3, <1>4, <1>5, <1>6, <1>7, <1>8 DEF AwaitEnds

\* The messages: only eachMessage moves on, over one message at a time.
LEMMA MessageStep ==
    ASSUME IInv, EachMessage \/ Commit \/ \E kind \in Kinds : Produce(kind)
    PROVE  IInv'
<1> USE BoundsAssumption, NilAssumption DEF IInv
<1>1. ASSUME Pass, position < Len(topic)
      PROVE  IInv'
  <2>0. position' \in 0..Len(topic) /\ passed' \subseteq 0..(Len(topic) - 1)
    BY <1>1 DEF Pass, TypeOK
  <2>1. TypeOK'
    BY <1>1, <2>0 DEF Pass, startVars, TypeOK
  <2>2. PassedInOrder'
    BY <1>1 DEF Pass, TypeOK, PassedInOrder
  <2>3. AttemptUntilRunning' /\ NoMessageSkipped'
    BY <1>1 DEF Pass, startVars, TypeOK, AttemptUntilRunning, Attempts, Calls,
                NoMessageSkipped
  <2> QED
    BY <2>1, <2>2, <2>3
<1>2. CASE Receive
  BY <1>2 DEF Receive, AtMessage, startVars, TypeOK, AttemptUntilRunning,
              Attempts, Calls, PassedInOrder, NoMessageSkipped
<1>3. CASE Commit
  <2>1. position \in 1..Len(topic)
    BY <1>3 DEF Commit, TypeOK
  <2> QED
    BY <1>3, <2>1 DEF Commit, startVars, TypeOK, AttemptUntilRunning, Attempts, Calls,
                      PassedInOrder, NoMessageSkipped
<1>4. ASSUME NEW kind \in Kinds, Produce(kind)
      PROVE  IInv'
  <2>1. topic' \in Seq(Kinds) /\ Len(topic') = Len(topic) + 1
    BY <1>4 DEF Produce, TypeOK
  <2>2. Len(topic) \in Nat
    BY DEF TypeOK
  <2>3. TypeOK'
    BY <1>4, <2>1, <2>2 DEF Produce, startVars, readVars, TypeOK
  <2> QED
    BY <1>4, <2>3 DEF Produce, startVars, readVars, AttemptUntilRunning,
                      Attempts, Calls, PassedInOrder, NoMessageSkipped
<1> QED
  BY <1>1, <1>2, <1>3, <1>4
     DEF EachMessage, SkipEmpty, ParseFails, HandlerEnds, AtMessage, TypeOK

\* Outages and crashes.
LEMMA FaultStep ==
    ASSUME IInv, KafkaFails \/ KafkaRecovers \/ Rejoin \/ Crash
    PROVE  IInv'
<1> USE BoundsAssumption, NilAssumption DEF IInv
<1>1. CASE KafkaFails
  BY <1>1, OneMoreFault DEF KafkaFails, startVars, readVars, TypeOK,
              AttemptUntilRunning, Attempts, Calls, PassedInOrder, NoMessageSkipped
<1>2. CASE KafkaRecovers
  BY <1>2 DEF KafkaRecovers, startVars, readVars, TypeOK, AttemptUntilRunning,
              Attempts, Calls, PassedInOrder, NoMessageSkipped
<1>3. CASE Rejoin
  <2>1. TypeOK'
    BY <1>3, OneMoreFault DEF Rejoin, StartOffset, startVars, TypeOK
  <2>2. PassedInOrder'
    BY <1>3 DEF Rejoin, StartOffset, TypeOK, PassedInOrder, NoMessageSkipped
  <2> QED
    BY <1>3, <2>1, <2>2 DEF Rejoin, startVars, AttemptUntilRunning, Attempts,
                            Calls, NoMessageSkipped
<1>4. CASE Crash
  <2>0. /\ calls' \in [Awaits -> Nat]
        /\ faults' \in 0..MaxFaults
        /\ position' \in 0..Len(topic)
    BY <1>4, OneMoreFault DEF Crash, TypeOK
  <2>1. TypeOK'
    BY <1>4, <2>0 DEF Crash, TypeOK
  <2> QED
    BY <1>4, <2>1 DEF Crash, AttemptUntilRunning, Attempts, Calls, Awaits,
                      PassedInOrder, NoMessageSkipped
<1> QED
  BY <1>1, <1>2, <1>3, <1>4

LEMMA Stutter == ASSUME IInv, UNCHANGED vars PROVE IInv'
  BY DEF vars, startVars, readVars, IInv, TypeOK, AttemptUntilRunning,
         Attempts, Calls, PassedInOrder, NoMessageSkipped

LEMMA Inductive == Spec => []IInv
<1>1. IInv /\ [Next]_vars => IInv'
  BY StartStep, MessageStep, FaultStep, Stutter DEF Next
<1> QED
  BY InitIInv, <1>1, PTL DEF Spec

----------------------------------------------------------------------------
\* Offsets, counters and messages stay what they are meant to be.
THEOREM TypeCorrect == Spec => []TypeOK
  BY Inductive, PTL DEF IInv

\* subscribe is never under way twice, nor on a consumer that runs.
THEOREM SubscribesOnce == Spec => []OneSubscriber
<1>1. IInv => OneSubscriber
  BY DEF IInv, AttemptUntilRunning, OneSubscriber
<1> QED
  BY Inductive, <1>1, PTL

\* What the group has committed has gone through eachMessage, whatever was
\* sent before the first subscription, failed or crashed.
THEOREM CommittedHasPassed == Spec => []NoMessageSkipped
  BY Inductive, PTL DEF IInv

----------------------------------------------------------------------------
(* What eachMessage is served: see AtLeastOnce.                            *)

LEMMA NextDelivers ==
  ASSUME IInv, [Next]_vars PROVE [Delivery!Next]_(Delivery!vars)
<1> USE DEF Delivery!vars, Committed
<1>1. /\ topic \in Seq(Kinds) /\ Len(topic) \in Nat
      /\ position \in Nat /\ (handling => consumer = "running")
  BY DEF IInv, TypeOK
\* A start, and a subscription: RunSucceeds begins where the group is.
<1>2. CASE \/ Boot \/ BootFails \/ StartConsumer \/ Resubscribe
           \/ \E s \in Awaits : AwaitEnds(s)
  <2>1. UNCHANGED <<topic, committed>>
    BY <1>2 DEF Boot, BootFails, StartConsumer, Resubscribe, AwaitEnds, Awaits,
                ConnectSucceeds, SubscribeSucceeds, Proceed, RunSucceeds,
                SubscribeFails, readVars
  <2>2. CASE RunSucceeds
    BY <2>1, <2>2 DEF RunSucceeds, StartOffset
  <2>3. CASE ~RunSucceeds
    <3>1. UNCHANGED <<position, consumer>>
      BY <1>2, <2>3 DEF Boot, BootFails, StartConsumer, Resubscribe, AwaitEnds,
                        Awaits, ConnectSucceeds, SubscribeSucceeds, Proceed,
                        SubscribeFails, readVars
    <3> QED
      BY <2>1, <3>1
  <2> QED
    BY <2>2, <2>3
\* A message passes, or one is taken up.
<1>3. ASSUME Pass, consumer = "running", position < Len(topic)
      PROVE  Delivery!Handle
  BY <1>3 DEF Pass, startVars, Delivery!Handle
<1>4. CASE Receive
  BY <1>4 DEF Receive, startVars
<1>5. CASE EachMessage
  BY <1>3, <1>4, <1>5
  DEF EachMessage, SkipEmpty, ParseFails, HandlerEnds, AtMessage, IInv, TypeOK,
      Delivery!Next
<1>6. CASE Commit
  <2>1. committed' # Nil
    BY <1>1, <1>6, NilAssumption DEF Commit
  <2> QED
    BY <1>6, <2>1 DEF Commit, startVars, Delivery!Commit, Delivery!Next
<1>7. ASSUME NEW kind \in Kinds, Produce(kind) PROVE Delivery!Next
  <2>1. Len(topic') = Len(topic) + 1
    BY <1>1, <1>7 DEF Produce
  <2> QED
    BY <1>7, <2>1 DEF Produce, startVars, readVars, Delivery!Send, Delivery!Next
<1>8. CASE KafkaFails \/ KafkaRecovers \/ UNCHANGED vars
  BY <1>8 DEF KafkaFails, KafkaRecovers, vars, startVars, readVars
<1>9. CASE Rejoin \/ Crash
  BY <1>9 DEF Rejoin, Crash, startVars, StartOffset, Delivery!Resume, Delivery!Next
<1> QED
  BY <1>2, <1>5, <1>6, <1>7, <1>8, <1>9 DEF Next

\* For any number of messages and faults, the product service is served its
\* events as AtLeastOnce says.
THEOREM DeliversAtLeastOnce == Spec => DeliverySpec
<1>1. Init => Delivery!Init
  BY DEF Init, Delivery!Init, Committed
<1>2. IInv /\ [Next]_vars => [Delivery!Next]_(Delivery!vars)
  BY NextDelivers
<1> QED
  BY <1>1, <1>2, Inductive, PTL DEF Spec, DeliverySpec, Delivery!Spec
=============================================================================
