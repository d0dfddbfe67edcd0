---------------------------- MODULE Subscription ----------------------------
(***************************************************************************)
(* How the product service comes to its order.created events: startServer, *)
(* OrderConsumer.start, GenericKafkaConsumer and the subscribe and         *)
(* eachMessage of KafkaMessagingService, over one kafkajs consumer.        *)
(*                                                                         *)
(* subscribe never throws: when it fails it resolves and leaves its retry  *)
(* to a timer.  The catch blocks of OrderConsumer.start and of             *)
(* startConsumerWithRetry, which have retries of their own, are never      *)
(* reached and are not actions; isStarting stays TRUE.                     *)
(***************************************************************************)
EXTENDS Naturals, Sequences

CONSTANTS MaxMessages,  \* bound on the messages of the topic
          MaxFaults,    \* bound on outages, rejections, lost sessions, crashes
          Nil           \* no offset committed yet

ASSUME BoundsAssumption == MaxMessages \in Nat /\ MaxFaults \in Nat
ASSUME NilAssumption == Nil \notin Nat

VARIABLES
    server,     \* where startServer and OrderConsumer.start stand
    calls,      \* calls[s]: how many calls of subscribe are at await s
    timers,     \* armed timers that will call subscribe again
    consumer,   \* of kafkajs: "off" or "running"
    kafkaUp,
    topic,      \* the messages, oldest first; the offset of the first is 0
    position,   \* the offset of the message eachMessage is at or gets next
    handling,   \* TRUE while eachMessage awaits its handler
    passed,     \* offsets eachMessage returned for
    committed,  \* the group's offset in the broker, or Nil
    faults      \* faults so far

startVars == <<server, calls, timers, consumer>>
readVars == <<position, handling, passed, committed>>
vars == <<startVars, kafkaUp, topic, readVars, faults>>

Awaits == {"connect", "subscribe", "run"}

\* A value JSON.parse takes, no value, one it rejects.
Kinds == {"event", "empty", "garbage"}

Init ==
    /\ server = "boot"
    /\ calls = [s \in Awaits |-> 0]
    /\ timers = 0
    /\ consumer = "off"
    /\ kafkaUp \in BOOLEAN
    /\ topic = <<>>
    /\ position = 0
    /\ handling = FALSE
    /\ passed = {}
    /\ committed = Nil
    /\ faults = 0

Fault == faults < MaxFaults /\ faults' = faults + 1

----------------------------------------------------------------------------
(* startServer, OrderConsumer.start.                                       *)

\* Database and containers are there; start() delays for 5s.
Boot ==
    /\ server = "boot"
    /\ server' = "delay"
    /\ UNCHANGED <<calls, timers, consumer, kafkaUp, topic, readVars, faults>>

\* startServer logs the error and is over; nothing restarts it.
BootFails ==
    /\ server = "boot"
    /\ server' = "failed"
    /\ Fault
    /\ UNCHANGED <<calls, timers, consumer, kafkaUp, topic, readVars>>

StartConsumer ==
    /\ server = "delay"
    /\ server' = "started"
    /\ calls' = [calls EXCEPT !["connect"] = @ + 1]
    /\ UNCHANGED <<timers, consumer, kafkaUp, topic, readVars, faults>>

----------------------------------------------------------------------------
(* subscribe.                                                              *)

Proceed(from, to) ==
    /\ calls[from] > 0
    /\ kafkaUp
    /\ calls' = [calls EXCEPT ![from] = @ - 1, ![to] = @ + 1]
    /\ UNCHANGED <<server, timers, consumer, kafkaUp, topic, readVars, faults>>

ConnectSucceeds == Proceed("connect", "subscribe")

\* A running consumer takes no further subscription.
SubscribeSucceeds == consumer = "off" /\ Proceed("subscribe", "run")

\* Mutant: fromBeginning is left at its default.
StartOffset_Latest == IF committed = Nil THEN Len(topic) ELSE committed

\* Where the group resumes; fromBeginning: true for a group without offset.
StartOffset == IF committed = Nil THEN 0 ELSE committed

RunSucceeds ==
    /\ calls["run"] > 0
    /\ kafkaUp
    /\ consumer = "off"
    /\ calls' = [calls EXCEPT !["run"] = @ - 1]
    /\ consumer' = "running"
    /\ position' = StartOffset
    /\ UNCHANGED <<server, timers, kafkaUp, topic, handling, passed, committed,
                   faults>>

\* Without a broker, or against a running consumer, nothing but a rejection
\* is to be had; else it takes a fault.
Rejected == (kafkaUp /\ consumer = "off" => Fault)
            /\ (~kafkaUp \/ consumer = "running" => UNCHANGED faults)

\* Mutant: subscribe gives up.
SubscribeFails_GivesUp(s) ==
    /\ calls[s] > 0
    /\ Rejected
    /\ calls' = [calls EXCEPT ![s] = @ - 1]
    /\ UNCHANGED <<server, timers, consumer, kafkaUp, topic, readVars>>

\* Mutant: subscribe throws on after arming its timer, so that the retry of
\* OrderConsumer.start runs beside its own.
SubscribeFails_Rethrows(s) ==
    /\ calls[s] > 0
    /\ Rejected
    /\ calls' = [calls EXCEPT ![s] = @ - 1]
    /\ timers' = timers + 2
    /\ UNCHANGED <<server, consumer, kafkaUp, topic, readVars>>

SubscribeFails(s) ==
    /\ calls[s] > 0
    /\ Rejected
    /\ calls' = [calls EXCEPT ![s] = @ - 1]
    /\ timers' = timers + 1
    /\ UNCHANGED <<server, consumer, kafkaUp, topic, readVars>>

\* 5s after a failure.
Resubscribe ==
    /\ timers > 0
    /\ timers' = timers - 1
    /\ calls' = [calls EXCEPT !["connect"] = @ + 1]
    /\ UNCHANGED <<server, consumer, kafkaUp, topic, readVars, faults>>

----------------------------------------------------------------------------
(* eachMessage: one message at a time; whatever goes wrong with a message  *)
(* is logged and the message passed.                                       *)

AtMessage(kind) ==
    /\ consumer = "running"
    /\ kafkaUp
    /\ ~handling
    /\ position < Len(topic)
    /\ topic[position + 1] = kind

Pass ==
    /\ passed' = passed \cup {position}
    /\ position' = position + 1
    /\ handling' = FALSE
    /\ UNCHANGED <<startVars, kafkaUp, topic, committed, faults>>

SkipEmpty == AtMessage("empty") /\ Pass

\* Mutant: the value is parsed outside the try: kafkajs brings the message
\* again and again.
ParseFails_Rethrows == AtMessage("garbage") /\ UNCHANGED vars

ParseFails == AtMessage("garbage") /\ Pass

\* Mutant: eachMessage does not await its handler.
Receive_NotAwaited ==
    /\ AtMessage("event")
    /\ handling' = TRUE
    /\ passed' = passed \cup {position}
    /\ position' = position + 1
    /\ UNCHANGED <<startVars, kafkaUp, topic, committed, faults>>

Receive ==
    /\ AtMessage("event")
    /\ handling' = TRUE
    /\ UNCHANGED <<startVars, kafkaUp, topic, position, passed, committed, faults>>

\* The handler is over or has thrown; GenericKafkaConsumer catches first.
HandlerEnds == handling /\ Pass

----------------------------------------------------------------------------
(* Kafka and the world around the service.                                 *)

Commit ==
    /\ consumer = "running"
    /\ kafkaUp
    /\ IF committed = Nil THEN position > 0 ELSE position > committed
    /\ committed' = position
    /\ UNCHANGED <<startVars, kafkaUp, topic, position, handling, passed, faults>>

Produce(kind) ==
    /\ kafkaUp
    /\ Len(topic) < MaxMessages
    /\ topic' = Append(topic, kind)
    /\ UNCHANGED <<startVars, kafkaUp, readVars, faults>>

KafkaFails ==
    /\ kafkaUp
    /\ kafkaUp' = FALSE
    /\ Fault
    /\ UNCHANGED <<startVars, topic, readVars>>

KafkaRecovers ==
    /\ ~kafkaUp
    /\ kafkaUp' = TRUE
    /\ UNCHANGED <<startVars, topic, readVars, faults>>

\* The consumer loses its session, joins the group again and resumes at the
\* committed offset.
Rejoin ==
    /\ consumer = "running"
    /\ kafkaUp
    /\ ~handling
    /\ Fault
    /\ position' = StartOffset
    /\ UNCHANGED <<startVars, kafkaUp, topic, handling, passed, committed>>

Crash ==
    /\ Fault
    /\ server' = "boot"
    /\ calls' = [s \in Awaits |-> 0]
    /\ timers' = 0
    /\ consumer' = "off"
    /\ position' = 0
    /\ handling' = FALSE
    /\ UNCHANGED <<kafkaUp, topic, passed, committed>>

----------------------------------------------------------------------------
AwaitEnds(s) ==
    \/ s = "connect" /\ ConnectSucceeds
    \/ s = "subscribe" /\ SubscribeSucceeds
    \/ s = "run" /\ RunSucceeds
    \/ SubscribeFails(s)

EachMessage == SkipEmpty \/ ParseFails \/ Receive \/ HandlerEnds

Next ==
    \/ Boot \/ BootFails \/ StartConsumer \/ Resubscribe
    \/ \E s \in Awaits : AwaitEnds(s)
    \/ EachMessage \/ Commit
    \/ \E kind \in Kinds : Produce(kind)
    \/ KafkaFails \/ KafkaRecovers \/ Rejoin \/ Crash

(* Fairness: awaits and timers end, kafkajs delivers and commits while the *)
(* broker is there.  Nothing brings the broker or a failed start back.     *)
Fairness ==
    /\ WF_vars(Boot \/ BootFails)
    /\ WF_vars(StartConsumer)
    /\ WF_vars(Resubscribe)
    /\ \A s \in Awaits : WF_vars(AwaitEnds(s))
    /\ WF_vars(EachMessage)
    /\ WF_vars(Commit)

Spec == Init /\ [][Next]_vars /\ Fairness

----------------------------------------------------------------------------
\* Counters, offsets and sets are what they are meant to be; only a running
\* consumer handles a message.
TypeOK ==
    /\ server \in {"boot", "failed", "delay", "started"}
    /\ calls \in [Awaits -> Nat]
    /\ timers \in Nat
    /\ consumer \in {"off", "running"}
    /\ kafkaUp \in BOOLEAN
    /\ topic \in Seq(Kinds)
    /\ position \in 0..Len(topic)
    /\ handling \in BOOLEAN
    /\ handling => consumer = "running" /\ position < Len(topic)
    /\ passed \subseteq 0..(Len(topic) - 1)
    /\ committed \in {Nil} \cup 1..Len(topic)
    /\ faults \in 0..MaxFaults

Calls == calls["connect"] + calls["subscribe"] + calls["run"]
Attempts == timers + Calls

\* subscribe is never under way or due twice, nor on a consumer that runs:
\* a second loop would be rejected by kafkajs and retry every 5s for ever.
OneSubscriber == Attempts <= 1 /\ (Attempts = 1 => consumer = "off")

\* Who is not subscribed is where the group will resume.
Committed == IF committed = Nil THEN 0 ELSE committed

Delivery == INSTANCE AtLeastOnce WITH
                length <- Len(topic),
                position <- IF consumer = "running" THEN position ELSE Committed,
                committed <- Committed

\* Through failed starts, outages, lost sessions and crashes the service is
\* served the topic in order from its first message, and handles again just
\* what it had not committed.
DeliverySpec == Delivery!Spec

Serving == kafkaUp /\ server \in {"delay", "started"}

\* Once the broker stays up, a started service gets subscribed and stays so,
\* however often subscribing failed before.
EventuallySubscribed == <>[]Serving => <>[](consumer = "running")

\* No message, whatever it holds, stops those behind it.
EveryMessagePasses ==
    <>[]Serving => \A n \in 1..MaxMessages :
                      Len(topic) >= n ~> committed \in n..MaxMessages
=============================================================================
