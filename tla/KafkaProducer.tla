--------------------------- MODULE KafkaProducer ---------------------------
(***************************************************************************)
(* The publishing half of KafkaMessagingService: one kafkajs producer      *)
(* shared by every call of publish of a service process.  The calls        *)
(* interleave with each other at every await, with the producer's single   *)
(* connection attempt, with the reconnect timer, and with sends that go on *)
(* inside kafkajs after publish gave up on them.                           *)
(***************************************************************************)
EXTENDS Naturals

CONSTANTS Events,     \* the events handed to publish, each in one call
          MaxCopies   \* bound on the copies of an event in the topic

ASSUME MaxCopiesAssumption == MaxCopies \in Nat \ {0}

VARIABLES
    isProducerConnected,
    connectionPromise,  \* "none", "pending", or "settled" and never cleared
    reconnectInterval,  \* TRUE while the 5s reconnect timer is armed
    pc,                 \* pc[e]: where the publish call of e stands
    inflight,           \* the events whose send() is alive inside kafkajs
    copies              \* copies[e]: how often the topic holds e

vars == <<isProducerConnected, connectionPromise, reconnectInterval,
          pc, inflight, copies>>

PCs == {"new",        \* publish(e) not called yet
        "connecting", \* awaits connectProducer()
        "resumed",    \* that await is over, isProducerConnected not re-read
        "sending",    \* races send() against the 2s timeout
        "published", "failed", "dropped"}   \* returned

Init ==
    /\ isProducerConnected = FALSE
    /\ connectionPromise = "none"
    /\ reconnectInterval = FALSE
    /\ pc = [e \in Events |-> "new"]
    /\ inflight = {}
    /\ copies = [e \in Events |-> 0]

----------------------------------------------------------------------------
(* connectProducer(): join the promise that exists, else make one.  The    *)
(* early return for a connected producer comes before the try whose        *)
(* finally clears connectionPromise: that promise settles and stays.       *)
ConnectProducer ==
    connectionPromise' =
        IF connectionPromise # "none" THEN connectionPromise
        ELSE IF isProducerConnected THEN "settled"
        ELSE "pending"

(* publish() up to its first await.  Awaiting a settled promise takes a    *)
(* microtask and attempts nothing.                                         *)
Publish(e) ==
    /\ pc[e] = "new"
    /\ IF isProducerConnected
       THEN /\ pc' = [pc EXCEPT ![e] = "sending"]
            /\ inflight' = inflight \cup {e}
            /\ UNCHANGED connectionPromise
       ELSE /\ ConnectProducer
            /\ pc' = [pc EXCEPT ![e] = IF connectionPromise' = "pending"
                                       THEN "connecting" ELSE "resumed"]
            /\ UNCHANGED inflight
    /\ UNCHANGED <<isProducerConnected, reconnectInterval, copies>>

\* Mutant: publish() sends first and looks at isProducerConnected later.
Resume_SendsUnchecked(e) ==
    /\ pc[e] = "resumed"
    /\ pc' = [pc EXCEPT ![e] = IF isProducerConnected THEN "sending" ELSE "dropped"]
    /\ inflight' = inflight \cup {e}
    /\ UNCHANGED <<isProducerConnected, connectionPromise,
                   reconnectInterval, copies>>

\* publish() after its await of connectProducer().
Resume(e) ==
    /\ pc[e] = "resumed"
    /\ IF isProducerConnected
       THEN /\ pc' = [pc EXCEPT ![e] = "sending"]
            /\ inflight' = inflight \cup {e}
       ELSE /\ pc' = [pc EXCEPT ![e] = "dropped"]
            /\ UNCHANGED inflight
    /\ UNCHANGED <<isProducerConnected, connectionPromise,
                   reconnectInterval, copies>>

\* Mutant: a promise for each caller, of which the attempt settles only one.
ResumeWaiters_OnlyOne ==
    IF \E e \in Events : pc[e] = "connecting"
    THEN \E e \in Events :
            pc[e] = "connecting" /\ pc' = [pc EXCEPT ![e] = "resumed"]
    ELSE UNCHANGED pc

\* Settling the connection promise resumes every call that awaits it.
ResumeWaiters ==
    pc' = [e \in Events |-> IF pc[e] = "connecting" THEN "resumed" ELSE pc[e]]

ConnectSucceeds ==
    /\ connectionPromise = "pending"
    /\ isProducerConnected' = TRUE
    /\ connectionPromise' = "none"
    /\ ResumeWaiters
    /\ UNCHANGED <<reconnectInterval, inflight, copies>>

\* Only an error that is not a KafkaJSNonRetriableError arms the timer.
ConnectFails(retriable) ==
    /\ connectionPromise = "pending"
    /\ isProducerConnected' = FALSE
    /\ connectionPromise' = "none"
    /\ reconnectInterval' = (reconnectInterval \/ retriable)
    /\ ResumeWaiters
    /\ UNCHANGED <<inflight, copies>>

\* Node runs a timer's callback only after the microtasks: the calls whose
\* await is settled have gone on by then.
MicrotasksDone == \A e \in Events : pc[e] # "resumed"

\* The timer of scheduleReconnect() fires.
ReconnectTimer ==
    /\ reconnectInterval
    /\ MicrotasksDone
    /\ reconnectInterval' = FALSE
    /\ ConnectProducer
    /\ UNCHANGED <<isProducerConnected, pc, inflight, copies>>

----------------------------------------------------------------------------
\* Mutant: the catch of publish() rethrows the error to its caller.
PublishFails_Rethrows(e) ==
    /\ pc' = [pc EXCEPT ![e] = "rethrown"]
    /\ isProducerConnected' = FALSE
    /\ reconnectInterval' = TRUE
    /\ UNCHANGED <<connectionPromise, copies>>

\* The catch of publish(): swallow the error, reconnect in 5s.
PublishFails(e) ==
    /\ pc' = [pc EXCEPT ![e] = "failed"]
    /\ isProducerConnected' = FALSE
    /\ reconnectInterval' = TRUE
    /\ UNCHANGED <<connectionPromise, copies>>

\* Mutant: publish() awaits send() alone.
SendTimesOut_NoRace(e) == pc[e] = "sending" /\ FALSE /\ UNCHANGED vars

\* Mutant: the timeout resolves the race instead of rejecting it.
SendTimesOut_Resolves(e) ==
    /\ pc[e] = "sending"
    /\ MicrotasksDone
    /\ pc' = [pc EXCEPT ![e] = "published"]
    /\ UNCHANGED <<isProducerConnected, connectionPromise,
                   reconnectInterval, inflight, copies>>

\* The 2s timeout wins the race; the send goes on.
SendTimesOut(e) ==
    /\ pc[e] = "sending"
    /\ MicrotasksDone
    /\ PublishFails(e)
    /\ UNCHANGED inflight

\* kafkajs gives up on a send; publish notices if it still waits for it.
SendRejects(e) ==
    /\ e \in inflight
    /\ inflight' = inflight \ {e}
    /\ IF pc[e] = "sending"
       THEN PublishFails(e)
       ELSE UNCHANGED <<pc, isProducerConnected, reconnectInterval,
                        connectionPromise, copies>>

\* The broker acknowledges a send: it holds the event.
SendResolves(e) ==
    /\ e \in inflight
    /\ copies[e] > 0
    /\ inflight' = inflight \ {e}
    /\ pc' = [pc EXCEPT ![e] = IF @ = "sending" THEN "published" ELSE @]
    /\ UNCHANGED <<isProducerConnected, connectionPromise,
                   reconnectInterval, copies>>

\* The broker appends the event; kafkajs repeats a send whose answer is lost
\* (retries: 3, not idempotent), so one send may append several copies.
BrokerAppends(e) ==
    /\ e \in inflight
    /\ copies[e] < MaxCopies
    /\ copies' = [copies EXCEPT ![e] = @ + 1]
    /\ UNCHANGED <<isProducerConnected, connectionPromise,
                   reconnectInterval, pc, inflight>>

ConnectSettles == ConnectSucceeds \/ \E r \in BOOLEAN : ConnectFails(r)

Next ==
    \/ ConnectSettles
    \/ ReconnectTimer
    \/ \E e \in Events :
         \/ Publish(e)
         \/ Resume(e)
         \/ SendTimesOut(e)
         \/ SendRejects(e)
         \/ SendResolves(e)
         \/ BrokerAppends(e)

(* Fairness: an attempt to connect ends (kafkajs bounds its timeouts and   *)
(* retries), a settled await resumes, a 2s timer fires.  Nothing forces a  *)
(* caller, the broker or the reconnect timer.                              *)
Spec ==
    /\ Init
    /\ [][Next]_vars
    /\ WF_vars(ConnectSettles)
    /\ \A e \in Events : WF_vars(Resume(e)) /\ WF_vars(SendTimesOut(e))

----------------------------------------------------------------------------
\* The variables of KafkaMessagingService hold the values their types allow.
TypeOK ==
    /\ isProducerConnected \in BOOLEAN
    /\ connectionPromise \in {"none", "pending", "settled"}
    /\ reconnectInterval \in BOOLEAN
    /\ pc \in [Events -> PCs]
    /\ inflight \subseteq Events
    /\ copies \in [Events -> 0..MaxCopies]

\* No publish call is left awaiting a connection promise that nothing will
\* settle any more: whoever waits, an attempt to connect is under way.
WaitersHaveAttempt ==
    \A e \in Events : pc[e] = "connecting" => connectionPromise = "pending"

\* "Event published" is logged only for an event the topic holds, also when
\* its send was overtaken by failures of other calls.
PublishedMeansStored ==
    \A e \in Events : pc[e] = "published" => copies[e] > 0

\* An event dropped because the producer stayed disconnected never shows up
\* in the topic later: no send was started for it.
DroppedNeverSent ==
    \A e \in Events : pc[e] = "dropped" => e \notin inflight /\ copies[e] = 0

(* KafkaMessagingService keeps the promise of IMessagingService.publish,   *)
(* see BestEffortPublish: every call returns although broker, connection   *)
(* and timer do what they like, and only published events are appended.    *)
status == [e \in Events |->
             CASE pc[e] = "new" -> "new"
               [] pc[e] \in {"connecting", "resumed", "sending"} -> "called"
               [] OTHER -> "returned"]

BestEffort == INSTANCE BestEffortPublish
BestEffortSpec == BestEffort!Spec

\* A publish that finds the producer disconnected warns that it is
\* "attempting lazy connect...": it leaves a connection attempt under way.
LazyConnectAttempted ==
    [][\A e \in Events :
         pc[e] = "new" /\ pc'[e] # "new" /\ ~isProducerConnected
           => connectionPromise' = "pending"]_vars
=============================================================================
