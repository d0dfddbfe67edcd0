------------------------ MODULE KafkaProducerProofs ------------------------
(***************************************************************************)
(* Theorems about KafkaProducer, for any set of events.  IInv is inductive;*)
(* what it adds to the invariants the runs check is UnsentIsUnknown: before*)
(* a call hands its event to send() neither kafkajs nor the topic knows it.*)
(***************************************************************************)
EXTENDS KafkaProducer, TLAPS

UnsentIsUnknown ==
    \A e \in Events : pc[e] \in {"new", "connecting", "resumed", "dropped"}
                        => e \notin inflight /\ copies[e] = 0

IInv == TypeOK /\ WaitersHaveAttempt /\ PublishedMeansStored /\ UnsentIsUnknown

LEMMA InitIInv == Init => IInv
<1> SUFFICES ASSUME Init PROVE IInv
  OBVIOUS
<1>1. TypeOK
  <2>1. pc \in [Events -> PCs] /\ inflight \subseteq Events
    BY DEF Init, PCs
  <2>2. copies \in [Events -> 0..MaxCopies]
    BY MaxCopiesAssumption DEF Init
  <2>3. QED
    BY <2>1, <2>2 DEF Init, TypeOK
<1>2. WaitersHaveAttempt /\ PublishedMeansStored /\ UnsentIsUnknown
  BY DEF Init, WaitersHaveAttempt, PublishedMeansStored, UnsentIsUnknown
<1>3. QED
  BY <1>1, <1>2 DEF IInv

\* Every variable stays in its type, whatever step is taken.
LEMMA NextTypeOK == ASSUME TypeOK, [Next]_vars PROVE TypeOK'
<1> USE DEF TypeOK, PCs
<1>1. CASE ConnectSettles
  BY <1>1 DEF ConnectSettles, ConnectSucceeds, ConnectFails, ResumeWaiters
<1>2. CASE ReconnectTimer
  BY <1>2 DEF ReconnectTimer, ConnectProducer
<1>3. ASSUME NEW e \in Events, Publish(e) PROVE TypeOK'
  BY <1>3 DEF Publish, ConnectProducer
<1>4. ASSUME NEW e \in Events, Resume(e) PROVE TypeOK'
  BY <1>4 DEF Resume
<1>5. ASSUME NEW e \in Events, SendTimesOut(e) PROVE TypeOK'
  BY <1>5 DEF SendTimesOut, PublishFails
<1>6. ASSUME NEW e \in Events, SendRejects(e) PROVE TypeOK'
  BY <1>6 DEF SendRejects, PublishFails
<1>7. ASSUME NEW e \in Events, SendResolves(e) PROVE TypeOK'
  BY <1>7 DEF SendResolves
<1>8. ASSUME NEW e \in Events, BrokerAppends(e) PROVE TypeOK'
  BY <1>8, MaxCopiesAssumption DEF BrokerAppends
<1>9. CASE UNCHANGED vars
  BY <1>9 DEF vars
<1>10. QED
  BY <1>1, <1>2, <1>3, <1>4, <1>5, <1>6, <1>7, <1>8, <1>9 DEF Next

\* The three other conjuncts are preserved together: each step moves at most
\* the call it is about, and a settling promise moves every waiter.
LEMMA NextIInv == ASSUME IInv, [Next]_vars PROVE IInv'
<1>1. TypeOK /\ TypeOK'
  BY NextTypeOK DEF IInv
<1>2. /\ WaitersHaveAttempt'
      /\ PublishedMeansStored'
      /\ UnsentIsUnknown'
  <2> USE <1>1
      DEF IInv, TypeOK, WaitersHaveAttempt, PublishedMeansStored, UnsentIsUnknown
  <2>1. CASE ConnectSettles
    BY <2>1 DEF ConnectSettles, ConnectSucceeds, ConnectFails, ResumeWaiters
  <2>2. CASE ReconnectTimer
    BY <2>2 DEF ReconnectTimer, ConnectProducer
  <2>3. ASSUME NEW e \in Events, Publish(e)
        PROVE  WaitersHaveAttempt' /\ PublishedMeansStored' /\ UnsentIsUnknown'
    BY <2>3 DEF Publish, ConnectProducer
  <2>4. ASSUME NEW e \in Events, Resume(e)
        PROVE  WaitersHaveAttempt' /\ PublishedMeansStored' /\ UnsentIsUnknown'
    BY <2>4 DEF Resume
  <2>5. ASSUME NEW e \in Events, SendTimesOut(e)
        PROVE  WaitersHaveAttempt' /\ PublishedMeansStored' /\ UnsentIsUnknown'
    BY <2>5 DEF SendTimesOut, PublishFails
  <2>6. ASSUME NEW e \in Events, SendRejects(e)
        PROVE  WaitersHaveAttempt' /\ PublishedMeansStored' /\ UnsentIsUnknown'
    BY <2>6 DEF SendRejects, PublishFails
  <2>7. ASSUME NEW e \in Events, SendResolves(e)
        PROVE  WaitersHaveAttempt' /\ PublishedMeansStored' /\ UnsentIsUnknown'
    BY <2>7 DEF SendResolves
  <2>8. ASSUME NEW e \in Events, BrokerAppends(e)
        PROVE  WaitersHaveAttempt' /\ PublishedMeansStored' /\ UnsentIsUnknown'
    BY <2>8 DEF BrokerAppends
  <2>9. CASE UNCHANGED vars
    BY <2>9 DEF vars
  <2>10. QED
    BY <2>1, <2>2, <2>3, <2>4, <2>5, <2>6, <2>7, <2>8, <2>9 DEF Next
<1>3. QED
  BY <1>1, <1>2 DEF IInv

LEMMA Invariance == Spec => []IInv
<1>1. Init => IInv
  BY InitIInv
<1>2. IInv /\ [Next]_vars => IInv'
  BY NextIInv
<1>3. QED
  BY <1>1, <1>2, PTL DEF Spec

\* The state of a KafkaMessagingService stays well-typed.
THEOREM TypeCorrect == Spec => []TypeOK
<1>1. IInv => TypeOK
  BY DEF IInv
<1>2. QED
  BY <1>1, Invariance, PTL

\* A call that awaits the shared connection promise awaits one that an attempt
\* under way will settle, however the calls, failures and timer interleave.
THEOREM NoLostWaiter == Spec => []WaitersHaveAttempt
<1>1. IInv => WaitersHaveAttempt
  BY DEF IInv
<1>2. QED
  BY <1>1, Invariance, PTL

\* What publish reports as published is in the topic.
THEOREM PublishedIsStored == Spec => []PublishedMeansStored
<1>1. IInv => PublishedMeansStored
  BY DEF IInv
<1>2. QED
  BY <1>1, Invariance, PTL

\* What publish drops silently is never in the topic.
THEOREM DroppedIsNeverSent == Spec => []DroppedNeverSent
<1>1. IInv => DroppedNeverSent
  BY DEF IInv, UnsentIsUnknown, DroppedNeverSent
<1>2. QED
  BY <1>1, Invariance, PTL

----------------------------------------------------------------------------
\* The initial states of the producer are initial states of the promise.
LEMMA InitRefines == Init => BestEffort!Init
  BY DEF Init, status, BestEffort!Init

\* A step that moves no call out of the stage BestEffortPublish knows and
\* appends nothing is a stuttering step there.
LEMMA StutterRefines ==
  ASSUME TypeOK, UNCHANGED copies,
         \A e \in Events : pc'[e] = pc[e] \/ (pc[e] = "connecting" /\ pc'[e] = "resumed")
  PROVE  UNCHANGED <<status, copies>>
  BY DEF TypeOK, PCs, status

\* A step that moves one call out of the calling stage is its Return.
LEMMA ReturnRefines ==
  ASSUME TypeOK, UNCHANGED copies, NEW e \in Events,
         pc[e] \in {"resumed", "sending"},
         NEW v \in {"published", "failed", "dropped"},
         pc' = [pc EXCEPT ![e] = v]
  PROVE  BestEffort!Return(e)
  BY DEF TypeOK, PCs, status, BestEffort!Return

\* Every step of the producer is a step of BestEffortPublish or stutters.
LEMMA StepRefines ==
  ASSUME IInv, [Next]_vars
  PROVE  [BestEffort!Next]_(BestEffort!vars)
<1> USE DEF BestEffort!vars
<1>0. TypeOK
  BY DEF IInv
<1>1. CASE ConnectSettles
  <2>1. UNCHANGED <<status, copies>>
    BY <1>0, <1>1, StutterRefines
    DEF ConnectSettles, ConnectSucceeds, ConnectFails, ResumeWaiters
  <2>2. QED
    BY <2>1
<1>2. CASE ReconnectTimer
  BY <1>0, <1>2, StutterRefines DEF ReconnectTimer
<1>3. ASSUME NEW e \in Events, Publish(e) PROVE BestEffort!Call(e)
  BY <1>0, <1>3 DEF Publish, ConnectProducer, TypeOK, PCs, status, BestEffort!Call
<1>4. ASSUME NEW e \in Events, Resume(e)
      PROVE  BestEffort!Return(e) \/ UNCHANGED <<status, copies>>
  <2>1. CASE isProducerConnected
    <3>1. UNCHANGED copies /\ pc' = [pc EXCEPT ![e] = "sending"] /\ pc[e] = "resumed"
      BY <2>1, <1>4 DEF Resume
    <3>2. QED
      BY <1>0, <3>1 DEF TypeOK, PCs, status
  <2>2. CASE ~isProducerConnected
    BY <1>0, <1>4, <2>2, ReturnRefines DEF Resume
  <2>3. QED
    BY <2>1, <2>2
<1>5. ASSUME NEW e \in Events, SendTimesOut(e) PROVE BestEffort!Return(e)
  BY <1>0, <1>5, ReturnRefines DEF SendTimesOut, PublishFails
<1>6. ASSUME NEW e \in Events, SendRejects(e)
      PROVE  BestEffort!Return(e) \/ UNCHANGED <<status, copies>>
  <2>1. CASE pc[e] = "sending"
    BY <1>0, <1>6, <2>1, ReturnRefines DEF SendRejects, PublishFails
  <2>2. CASE pc[e] # "sending"
    BY <1>0, <1>6, <2>2, StutterRefines DEF SendRejects
  <2>3. QED
    BY <2>1, <2>2
<1>7. ASSUME NEW e \in Events, SendResolves(e)
      PROVE  BestEffort!Return(e) \/ UNCHANGED <<status, copies>>
  <2>1. CASE pc[e] = "sending"
    BY <1>0, <1>7, <2>1, ReturnRefines DEF SendResolves
  <2>2. CASE pc[e] # "sending"
    BY <1>0, <1>7, <2>2, StutterRefines DEF SendResolves, TypeOK
  <2>3. QED
    BY <2>1, <2>2
<1>8. ASSUME NEW e \in Events, BrokerAppends(e) PROVE BestEffort!Append(e)
  <2>1. pc[e] # "new"
    BY <1>8 DEF BrokerAppends, IInv, UnsentIsUnknown
  <2>2. status[e] # "new" /\ UNCHANGED status
    BY <1>0, <1>8, <2>1 DEF BrokerAppends, TypeOK, PCs, status
  <2>3. QED
    BY <1>8, <2>2 DEF BrokerAppends, BestEffort!Append
<1>9. CASE UNCHANGED vars
  BY <1>0, <1>9, StutterRefines DEF vars
<1>10. QED
  BY <1>1, <1>2, <1>3, <1>4, <1>5, <1>6, <1>7, <1>8, <1>9
  DEF Next, BestEffort!Next

\* KafkaMessagingService.publish does nothing that IMessagingService.publish
\* does not allow: the safety part of the refinement (that every call returns
\* needs fairness and is left to TLC).
THEOREM RefinesBestEffort == Spec => BestEffort!Init /\ [][BestEffort!Next]_(BestEffort!vars)
<1>1. Init => BestEffort!Init
  BY InitRefines
<1>2. IInv /\ [Next]_vars => [BestEffort!Next]_(BestEffort!vars)
  BY StepRefines
<1>3. QED
  BY <1>1, <1>2, Invariance, PTL DEF Spec
=============================================================================
