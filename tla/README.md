# A verification project for the CRM microservices

TLA+ models of the API gateway and of the order, product and user services of
this repository, of the gRPC, Kafka and Redis classes they share, TLC runs that
check them on small instances, and TLAPS proofs for every value of the
constants. Paths below are
relative to the root of the repository unless they name a module.

    tlc -workers 2 -config KafkaProducer.cfg MCKafkaProducer      a run
    tlapm KafkaProducerProofs.tla                                 a proof

## 1. Inventory

Four Node.js processes (api-gateway, user-, product- and order-service), one
PostgreSQL table per service, one Redis, one Kafka topic `order.created`. Each
service is one process (docker-compose.yml starts one of each), so inside a
service nothing runs in parallel, and everything interleaves at each `await`.

| Component | State it keeps | Operations | Talks to |
|---|---|---|---|
| Kafka producer: `KafkaMessagingService.publish` | `isProducerConnected`, `connectionPromise`, `reconnectInterval`; sends alive inside kafkajs | `publish`, `connectProducer`, `scheduleReconnect` | called and awaited by `OrderService.createOrder`; kafkajs |
| Kafka subscription: `subscribe`, `GenericKafkaConsumer`, `OrderConsumer.start`, `startServer` | kafkajs's consumer, retry timers, the offsets of the group | start, subscribe and its retry, `eachMessage` | kafkajs; calls `handleOrderCreated` |
| Product service | table `products`, Redis keys `product:<id>` (no TTL), the item at hand of an event | GetProduct, CreateProduct, UpdateProduct, UpdateStock, DeleteProduct, `handleOrderCreated` | repository, Redis, topic |
| Order service | table `orders`, keys `order:<id>` | CreateOrder, GetOrder | repository, Redis, `publish` |
| User service | table `users`, keys `user:<id>` and `user:<email>` (TTL one hour) | CreateUser, GetUser, GetUserByEmail, ValidateUser, UpdateUser, DeleteUser | repository, Redis, bcrypt |
| Generic repository | none | create, findById, update (an UPDATE, then a read back), delete | PostgreSQL |
| Redis cache service | `isConnected`, the client's pipe of commands | get (200ms limit), set, delete (not awaited), the `ready` and `error` events | Redis |
| API gateway: routes, middleware, controllers | none; requests under way | fifteen HTTP routes: token, role group, body, then one client method each | gRPC clients |
| gRPC client: `GrpcClient`, `GrpcService`, the three clients | timers of calls under way | `getClient` (3s limit), `call` (10s limit) | the services |
| gRPC authentication and roles | none; tokens live outside | `authUnaryInterceptor` and `wrapUnary` before a handler; the role groups; `login` signs tokens | handlers |

What is hard about them, and what makes them correct:

- **Producer.** Concurrent `publish` calls, one reconnect timer and failing
  sends share one connection promise; a send outlives its 2s limit; kafkajs
  repeats sends. Correct: no call waits for ever, placing an order never
  hangs on Kafka, "published" means stored, "dropped" means never sent.
- **Subscription.** A failed attempt is retried by a timer nobody awaits (the
  retries of the layers above it are never reached); messages may be unparsable, a handler may throw, the process may crash between handling and commit.
  Correct: exactly one subscription, in the end always one, no message
  skipped, none that blocks the others.
- **Product service.** A handler reads the table, lets others run and then
  writes the cache; the consumer reads a stock, possibly a cached one, and
  writes an absolute value later; any statement, answer or cache write may be
  lost. Correct: stocks never negative, deleted stays deleted, the cache and
  the deductions wrong for no reason but a named race or fault, every event
  handled.
- **Order service.** An event exists only for a saved order; a saved order
  lacks its event only after a fault; a call is answered while Kafka is down.
- **User service.** The copy under the e-mail address is never refreshed, only
  its TTL ends it; a login has a long await (bcrypt) in its middle. Correct:
  stale entries end; a login needs a user who was active in the table.
- **Redis cache service.** Writes are not awaited, the connection breaks with
  commands under way, Redis refuses commands, a read hangs in the queue while
  there is no connection. Correct: writes apply in the order of their calls or
  never, a read answers the last of them or a miss and always ends, the flag
  tells the connection.
- **Gateway, client, authentication.** Timeouts that do not cancel the work of
  the service, late answers, tokens that outlive the roles they were signed
  with, two tables of role groups. Correct: one answer per request, in the end
  always one, a success only if the service did its work, stale roles end, the
  tables agree.
- **From order to stock.** An event may be lost, sent twice and delivered again;
  handling it is not idempotent and may end halfway. Correct: only saved orders
  take stock, each delivery takes an item at most once, the stock that is gone
  is in the books, no order stays half filled without a reason.

## 2. Modules

| Module | Models | Lines of its actions |
|---|---|---|
| `BestEffortPublish` | abstract: what `IMessagingService.publish` promises | a call returns; an event is appended only after a call, any number of times, before or after the return |
| `AtLeastOnce` | abstract: what a consumer group is served of a topic | events in order, none skipped; after a crash or a lost session again what was not committed |
| `KafkaProducer` | `KafkaMessagingService` 8-91 | `Publish`, `Resume`, `ConnectSucceeds/Fails`, `ReconnectTimer`, `SendTimesOut/Rejects/Resolves`, `BrokerAppends` |
| `Subscription` | `KafkaMessagingService` 93-116, `KafkaConsumer.ts`, `OrderConsumer.start`, product-service `index.ts` | `Boot`, `StartConsumer`, the three awaits of `subscribe`, `Resubscribe`, `eachMessage` by kind of message, `Commit`, `Rejoin`, `Crash` |
| `ProductService` | service, controller and consumer of the product service over repository and cache | one action per await: `CacheHit`, `FindById`, `Fill`, `Update`, `Reread`, `Refresh`, `Delete`, `Evict`, `Insert`, `StartItem`, `Decide`, `EventDone`, `Rejoin` and the other faults |
| `OrderService` | service and controller of the order service; composed with `BestEffortPublish` (INSTANCE) for `publish` | `Save`, `PublishOrderCreated`, `OrderCreated`, the reads, `Crash` |
| `UserService` | service, controller and repository of the user service | reads by id and by address, `Check`, `Login`, `Compare`, `Update`, `Reread`, `Refresh`, `Delete`, `Evict`, `Expire` |
| `OrderPipeline` | `OrderService` (with its `BestEffortPublish`) and the consumer of `ProductService` composed by INSTANCE over one topic, with books | `PlaceOrder`, `EventAppended`, `Consume`, `ConsumeFails`, `Commit`, `Rejoin`, crashes of either side |
| `RedisCacheService` | `RedisCacheService.ts` and the client's pipe | `Set`, `SetEx`, `Delete`, `Get`, `Timeout`, `Reply`, `Send`, `Execute`, `Refuse`, `ConnectionLost`, `Ready`, `Crash` |
| `ApiGateway` | routes, middleware and controllers of the gateway, `GrpcClient`, `GrpcService`, the interceptor, tokens | `Arrive` (all of the middleware), `ClientReady`, the two timeouts, `Reply`, `Serve`, `ServiceFails`, changes of accounts, `Tick` |
| `MC...` | instances for TLC | |
| `KafkaProducerProofs`, `ProductServiceProofs`, `SubscriptionProofs`, `OrderServiceProofs`, `OrderPipelineProofs`, `UserServiceProofs`, `ApiGatewayProofs`, `RedisCacheProofs` | theorems | |

`KafkaProducer` implements `BestEffortPublish` (property `BestEffortSpec`, with
`status` computed from the program counters), and `OrderService` is built on
`BestEffortPublish`, so what holds of the order service holds with the real
producer under it. `Subscription` implements `AtLeastOnce` (property
`DeliverySpec`; a consumer that is not subscribed is mapped to where the group will
resume), and so does `ProductService` (theorem `EventsAsDelivered`), which has
the same steps of topic, position and commit, a lost session (`Rejoin`) included,
and in place of "one message" the whole of `handleOrderCreated`.
`OrderPipeline` instantiates both services as they are: its actions are theirs,
joined where an event enters the topic, and its own variables are histories.
`RedisCacheService` shows what the three services take a Redis connection for
(AppliedInOrder, AnswerIsLatest); they are not instantiated over it, because
the pipe would multiply the states of every race by its own.

### How the models read the code

- One action is what runs between two awaits. `task[t].pc` (`call[h].pc`,
  `pc[e]`) names the await a task is at. A call that is rejected or answered
  goes back to `idle`.
- Data is cut to what the properties tell apart: a product is its stock, a
  user is roles and `isActive`, an order is its id, an event its items.
- A Redis connection is one ordered pipe and each service is the only writer of
  its keys: in the models of the services an un-awaited `set` or `delete` either
  takes effect where it is issued or is lost (`CacheWriteLost`; skipped while
  `isConnected` is FALSE). That nobody can tell the difference is what
  `RedisCacheService` shows: writes apply in order or never, and a read answers
  the last write before it that was not lost, or a miss.
  Losing one may leave the connection up, or be followed by `RedisError`.
  A `get` may always miss: it is limited to 200ms.
- `findById`, `update` and `delete` throw for a missing row. The branches for
  null (product.controller.ts:31-36, order.consumer.ts:71-74) are unreachable
  and have no action. `update` is two statements: an UPDATE that affects a row
  or not, and a read back that may find a later state of the row, or none.
- The product and order controllers answer INVALID_ARGUMENT to every error; the
  user controller maps them with `toServiceError`.
- Values read from Redis are parsed JSON. `toISOString()` of a date that is now
  a string throws, so a cache hit of the product and order services is answered
  INVALID_ARGUMENT, while the consumer, which uses only the stock, goes on. The
  user controller's `toString()` accepts either.
- An UpdateProduct without a stock is the patch `Nil`. An absent `roles` of
  UpdateUser arrives as an empty list (`Decoded`).
- `CreateUser` never inserts (see the findings): rows of `users` come from
  `Provision`.
- `connectProducer` returns early, inside its promise, for a connected
  producer: before the `try` whose `finally` clears the promise. That promise
  is `"settled"` and stays.
- In `RedisCacheService` a command is `queued` in the client, `sent`, `done` or
  `refused` by Redis, and out of the pipe when its answer arrives, in this order
  for all. node-redis rejects what was sent over a connection that broke and
  keeps what was queued. Redis is assumed to have read what it will read of a
  broken connection before it serves the next one. A value is the number of the
  write it comes from; `written` says what each write is. A reader has one command in the pipe at a time: `Return`
  waits for the one it gave up.
- In `ApiGateway` a request meets rate limiter, token, roles and body in one
  action, since nothing in between waits. A body is valid or not. The routes,
  controllers, clients and role groups are tables, as in the code; `setup` is
  what lies outside of them: whether `req.cookies` exists, the names the proto
  files declare, whether gateway and services share a secret. Of the services it
  has what a call without metadata can reach: `CreateUser`, which only fails,
  and `ValidateUser`; accounts change by calls of clients that send a token
  themselves (`UpdateUser`, `DeleteUser`). Time is a clock of ticks; a timer is
  late by less than one.
- In `OrderPipeline` the products are not written by handlers and orders are not
  read, so that the books can be exact. `deducted` counts UPDATEs that took
  effect, with or without an answer.
- kafkajs, Redis, PostgreSQL and the world are external. kafkajs may answer
  each call either way, retries a send with copies, resumes a group at its
  committed offset. The reconnect timer is armed after retriable errors only,
  so `ConnectFails` may or may not arm it.
- History variables record what a property speaks of and no action reads:
  `disturbed` (products on which tasks raced, or a writer met a fault),
  `interrupted` (orders a fault cut off between save and publish), `seen` (an
  active user was there during this login), `passed`, `applied`
  (writes, as Redis applied them), `lostAt` (when a user lost a role), and the books of
  `OrderPipeline`. `reply` keeps the answer
  of a handler: of its last call, in `UserService` of the last step.

## 3. Runs

| Run | Question and what it shows | Instance |
|---|---|---|
| `kafka_producer` (`KafkaProducer.cfg`) | Type; no waiter without an attempt; published is stored; dropped is never sent; refinement of `BestEffortPublish` with its liveness, that is, every `publish` returns | three calls, two copies of an event |
| `product_races` (`ProductServiceRaces.cfg`) | Type; `StockNeverNegative`, `UndisturbedCacheCoherent`, `DeletedStaysDeleted`, `UndisturbedDeduction` | one product, two handlers and the consumer, two events, one fault |
| `order_service` (`OrderService.cfg`) | Type; `EventHasOrder`, `SavedIsPublished`, `EveryCallAnswered` | two handlers, two orders, two faults |
| `user_service` (`UserService.cfg`) | Type with uniqueness; `EntriesConverge`; `LoginOfActiveUser` | two users who share an address one after the other, two handlers, one fault |
| `subscription` (`Subscription.cfg`) | Type; `OneSubscriber`; `DeliverySpec`, the refinement of `AtLeastOnce`; `EventuallySubscribed`, `EveryMessagePasses` | three messages of any kind, three faults |
| `gateway` (`ApiGateway.cfg`) | Type; `AnswersFitCalls`, `StaleRolesExpire`, `GatesAgree`, `AnsweredOnce`, `EveryRequestAnswered` | two requests, one account, two lists of roles, four routes, two deployments |
| `pipeline` (`OrderPipeline.cfg`) | Types of both services; `OnlySavedOrdersDeduct`, `DeductedPerDelivery`, `StockAccounted`, `HandledMeansSettled`, `RefusedForStock`; `EveryEventHandled`: liveness, with failing items, sold-out stock and a crash | two orders over three products, two copies of an event, three events, one fault |
| `redis` (`RedisCacheService.cfg`) | Type with the order of the pipe; `AppliedInOrder`, `AnswerIsLatest`, `FlagTellsConnection`, `EveryGetAnswered` | one key, one reader, three writes, three faults |
| `kafka_lazy_connect`, `product_stale_stock`, `product_cached_answer`, `user_create` | the code against its own words, section 6 | no fault needed but in the first |

**Bounds.** Every bound is a constant. `MaxFaults` limits crashes, lost sessions, failed
statements, lost answers and lost writes in one run. One fault is enough for a
stale entry or a lost event, and every interleaving of the tasks around it is
explored; the order service takes two so that a crash can follow a failed
save, the subscription three so that an outage can meet each await and a
crash follow. Three tasks (two handlers and the consumer) on one product are
the least in which a race between two writers meets a reader; two products
matter only for what an item leaves to the next, which `pipeline` looks at: there
an order that comes second, or again, is short for its first or its last item,
another has a product that does not exist, and a third event is a copy of one of
them. Stocks 1 and 2 and quantities 1 and 2 give exact, partial and insufficient
stock. Three `publish` calls are the least in which the reconnect timer of one
failure meets the lazy connect of another and a third meets the rest. Ids are
never reused (uuids); `IdLeft` keeps a call from needing one too many.
`MaxCopies` bounds the repeats of one event, `MaxEvents`/`MaxMessages` the
topic. The model of the users has one patch, a deactivation: a second one
multiplies the states of the same races. `HandlerSymmetry` is used in
`product_races` alone, which checks no liveness.

Two requests of the gateway are a login and the use of its token, or a call and
the one that changes what it relies on. A tick is a limit of either kind;
`TokenLife` of two ticks and `MaxClock` of five leave time for a login that is
answered at its limit, a role lost meanwhile, and the end of the token. The two
deployments are the one docker-compose.yml starts, in which no protected route
gets past its token and no client finds its service, and one in which names,
cookies and secrets fit, without which the rest would never be reached. The four
routes are the two open ones, and one protected route with a check of the body
and one without; all fifteen are compared by `GatesAgree`. `redis` has
one key and one reader, since two keys or readers meet only in the pipe, whose order
is checked (and the proofs of section 4 are for any number); three faults let a
refused write, a break and a restart follow each other between three writes.

Deadlock is checked but in the runs of the producer, the subscription, the
gateway and the pipeline, which really end: no call, message, request or event
is left within their bounds.

**What the properties leave open.** The histories `disturbed` and `interrupted`
excuse what the code does get wrong: `UndisturbedCacheCoherent`,
`UndisturbedDeduction`, `StockAccounted` and `RefusedForStock` say that the races and
faults that set `disturbed` are the only way to a stale entry, a lost update or a
stock that does not add up, and not that those never happen;
`product_stale_stock` shows one that does. In the same way `SavedIsPublished` allows a
crash between the INSERT and `publish` to lose an event, and `publish` itself to
drop one. `LoginOfActiveUser` allows a deactivation while bcrypt is at work.
`OrderPipeline` has no writer of products but the consumer, so a lost update
between a client and an order is for `product_races` and `product_stale_stock`
only. `StockNeverNegative` rests on `StocksAssumption`, for which only the
validation of the gateway's routes stands: a gRPC client with a token that calls
the product service itself may write any stock.

**Fairness**, and why the code justifies it:

- Producer: a connection attempt ends (kafkajs bounds its timeouts and
  retries), a settled await resumes, the 2s timer fires. Callers, broker and
  reconnect timer are free.
- Product service: the consumer's next await ends (statements answer or fail, a
  cache read is cut off after 200ms), kafkajs commits. Handlers, Redis, callers
  and the order service are free.
- Order service: a handler's next await ends, for the same reasons, and
  `publish` returns, which `KafkaProducer` is shown to guarantee.
- User service: only Redis's removal of entries with a TTL.
- Gateway: time passes and the two timers fire. Services, connections and
  callers are free: requests end without them.
- Pipeline: the consumer's next await and the commit, as above.
- Redis cache: the 200ms timer of `get`. Nothing is assumed of Redis.
- Subscription: awaits and timers end, kafkajs delivers and commits while the
  broker is there. The broker need never come back: the two liveness
  properties assume that it stays up from some time on, and that the start did
  not fail.

## 4. Proofs

All for any sets of events, products, handlers, requests, keys and stocks and any
bounds, under the named assumptions on the constants: `Nil` is no value, the
consumer is no handler, stocks are natural numbers and quantities positive (the
gateway's routes admit no others), the name of a reader is no number, the orders of
the pipeline are finitely many.

- `KafkaProducerProofs`: `TypeCorrect`, `NoLostWaiter`, `PublishedIsStored`,
  `DroppedIsNeverSent`, `RefinesBestEffort`. The inductive invariant is the
  conjunction of the properties with `UnsentIsUnknown`: a call that has not
  begun to send has no send alive and no copy in the topic; without it a call
  could be dropped over a send that exists. `RefinesBestEffort` shows that the
  initial states map and each step is a step of `BestEffortPublish` or
  stutters: one lemma for steps that stutter, one for returns.
- `ProductServiceProofs`: `TypeCorrect`, `StockStaysNonNegative`,
  `DeletedProductsStayDeleted`, `CacheStaysCoherent`, `OrdersDeductFromRow`,
  `EventsAsDelivered`. The types alone are not inductive: what a task
  holds depends on the await it is at. `TaskRecord` says which fields are there
  at which await, `ItemInv` that the item at hand exists while the consumer is
  under way. Non-negative stocks follow because the consumer tests the very
  copy it deducts from.

  `CacheStaysCoherent` and `OrdersDeductFromRow` stand on top of it. An entry that differs from its row is not wrong
  as long as the writer that will repair it is under way; and a copy a task
  holds must be current unless its product is disturbed. The invariant `CInv`
  says this per product in three parts: what nobody inserted is unknown
  everywhere (`Untouched`), copies are current (`CopiesCurrent`), the entry is
  absent, equal to the row, or has a repairer (`InLine`). Each action is then
  one of: a bystander, a read, a write that disturbs all other copies and makes
  its task the repairer, a repair, or a fault that disturbs.
- `SubscriptionProofs`: `TypeCorrect`, `SubscribesOnce`, `CommittedHasPassed`,
  `DeliversAtLeastOnce`.
  The invariant counts attempts: exactly one from the start of the consumer
  until it runs, none else; and everything below `position` has passed, which
  is what a commit needs. `DeliversAtLeastOnce` is the refinement: only
  `eachMessage` handles, only a commit commits, a crash or a lost session resumes,
  and the start up to `consumer.run` stutters, since it begins where the group is.
- `OrderServiceProofs`: `TypeCorrect`, `EventsHaveOrders`,
  `SavedOrdersArePublished`. Events and saved orders are tied together by
  `PublishedAreSaved` (an order `publish` was called for is a row, and a copy in
  the topic needs that call) and by `CallsHaveOrders`: past its INSERT a call has
  the id of a row.
- `UserServiceProofs`: `TypeCorrect`, which includes that an address has one user
  and a key only copies of its own user, and `LoginsAreOfActiveUsers`. The cache
  may be as stale as it likes: `ComparedIsSeen` says that a login that compares
  passwords with an active user's has read that user from the table.
- `ApiGatewayProofs`: `TypeCorrect`, `SuccessIsTheServices`, `LostRolesExpire`,
  `TablesAgree`, `OneAnswerOnly`. A request and its call go through their stages
  together, which ties an answer to what the service did. `LostRolesExpire` needs
  three parts: a call that is under way is due at most `CallLimit` from now
  (`TimersOK`); the roles in its answer were lost, if they were, so late that they
  will do for a token signed when it is due (`LoginsHeld`); and so each token was
  signed with roles held at most `CallLimit` before (`TokensHeld`). `TablesAgree` is a lemma per
  service that a route asks for the group of the call it ends in.
- `RedisCacheProofs`: `TypeCorrect`, `WritesPrevail`, `AnswersAreLatest`,
  `FlagIsRight`. The invariant orders the pipe: no command is further than one
  before it, writes stand in the order of their numbers, and a write behind a
  read was called for after it. A write that is still to be applied has a higher
  number than all that were; so what Redis has under a key is the last write
  applied, and what a read was answered stays the last of those before it. Each
  action then lets commands leave the pipe (`PipeShrinks`), moves one
  (`CommandMoves`) or queues one (`PipeGrows`).
- `OrderPipelineProofs`: all of the pipeline's safety. `OrderServiceProofs` and
  `ProductServiceProofs` are instantiated as the services are in
  `OrderPipeline`, and every step of the pipeline is a step of either service or
  leaves it alone but for the faults they share (`StepsAreOfServices`); so their
  invariants hold here without being proved again (`ServicesKeepTheirs`).
  `BaseInv` adds that the books are well-formed and that the order at hand is in
  the log. `NextIs` then sorts the steps: the consumer stays where it is
  (`Quiet`), an event of a saved order gets into the topic (`Appends`), the
  consumer comes back to what is committed (`Restarts`), or it makes one of five
  moves: it begins an item, goes on, deducts, ends an item, passes an event. On
  this rest
  - `TypeCorrect`, and `OnlySavedOrdersTakeStock`: what is in the log is saved;
  - `HandledIsSettled`. Half an order is not settled, so the invariant speaks of
    the items before the one at hand (`SettledSoFar`), and a consumer that came
    back handles again from its first item (`NextIsFirst`);
  - `RefusalsAreForStock`: the copy the consumer decides by is the row, by the
    coherence of the product service;
  - `OneDeductionPerDelivery`. `copies * (1 + restarts)` is not inductive. An
    item was deducted at most once per copy and restart before the last one, once
    per event of its order the consumer has since passed, and once more if it is
    through with this item of the event at hand (`DeductedWhenDue`); a restart
    turns what was due since into one more round of copies;
  - `StockIsAccountedFor`: an UPDATE moves the quantity from the row to the books.
    `Sold` is a fold over the lines of all orders. The fold is a recursive
    function over the subsets of a finite set, and well-founded on them; the
    lemmas on sums (`Total...`) show by taking a least counterexample, which is
    first-order, that a sum over numbers is one and that changing one line changes it by just that;
  - `NeverOversold`: of a product no fault has disturbed no more is ever sold than
    there was, however many orders compete for it.

Only model-checked: liveness (`EveryEventHandled`, `EveryCallAnswered`,
`EntriesConverge`, `EventuallySubscribed`, `EveryMessagePasses`,
`EveryRequestAnswered`, `EveryGetAnswered`, the liveness half of
`BestEffortSpec`), which is out of the prover's reach. Every safety property of
a passing run has a theorem.

## 5. Not modelled

- `getClient` opens a channel for every call and nobody closes it
  (grpc-client.ts:41): the model has calls, not channels, and no code reads how
  many there are.
- A body that is no JSON, which Express answers before any route.
- Which fields a body must have, `/health`, `/metrics`, the 404 handler: they keep
  no state and no property is about them.
- GetProducts, GetUserOrders, `findAll`, `getUsers`: they only read.
  `disconnect`, `stop` and the cache's `exists` have no caller.
- kafkajs's runner that ends on a non-retriable error; nobody listens for it.
- Metrics, error classes, response templates, configuration, deployment:
  without behaviour of their own.

## 6. Findings

Each is a run that must end in a violation of one property.

- `LazyConnectAttempted`: the reconnect timer of an earlier failure fires
  after a lazy connect has succeeded. Its early return leaves a settled promise
  in `connectionPromise` for ever (KafkaMessagingService.ts:35). After the next
  failed send neither `publish` nor the timer attempts a connection any more,
  though the log announces both; every event is dropped until a restart.
- `DeductsFromCurrentStock`: the consumer deducts from a stock that is no longer
  current, cached or read too early, and overwrites an update
  (order.consumer.ts:70, 89). Away from named races and faults it is right:
  `UndisturbedDeduction`, proved.
- `CachedProductIsServed`: exactly the reads of a product that the cache serves
  are answered INVALID_ARGUMENT (product.controller.ts:20;
  order.controller.ts:18 does the same to orders).
- `NewUserIsCreated`: `findByEmail` throws when there is no user, `CreateUser`
  tests for null: no call creates a user (user.service.ts:24).

Seen while modelling, without a run:

- `OrderConsumer` logs that it "successfully started and subscribed"
  (order.consumer.ts:37) also when `subscribe` has failed and left its retry to a
  timer. The retries in `OrderConsumer.start` and in `startServer` are
  unreachable; `OneSubscriber`'s mutant shows why that is as well.
- docker-compose.yml gives the order service no `KAFKA_GROUP_ID` (lines 138-148), and
  the constructor of `KafkaMessagingService` makes a consumer with it (lines 16,
  24): kafkajs is known to reject an empty group id, so that `container.resolve` would end
  `startServer`. The models take the variable to be set.
- `GenericRepository.create` returns its promise without `await`, so its `catch`
  never sees a duplicate.
- An update without roles empties the roles (user.controller.ts:96), though the
  DTO has them optional and of at least one (user.dto.ts:50).
- README.md:18 says that the gateway forwards requests to domain services. As
  shipped it forwards none that needs a token, and none at all: no cookie parser
  is installed, so `req.cookies.token` throws (middleware/auth.ts:17), and the
  clients look up namespace `UserService` and service `User` where the proto
  files declare package `user` and service `UserService`, so `getClient` throws.
  Where both fit, `GrpcService.call` sends no metadata, so protected methods
  answer UNAUTHENTICATED. docker-compose.yml gives `JWT_SECRET` to the gateway
  only; the services fall back to their default. The run `gateway` has these
  facts in it, as setups and in `Intercept`.
- Errors of gRPC and of `jwt.verify` are no `CustomError`: every error of a
  service, and a missing or expired token, ends in a 500. A missing token
  creates an `AuthError` that is not thrown (middleware/auth.ts:21).
- `ValidateUser` answers errors, never `valid: false`: the 403 of `login` is
  unreachable. `RoleGroup.SystemAdministration` is used nowhere.
- One refused write disables the cache until the connection breaks and comes back
  (RedisCacheService.ts:86): `FlagTellsConnection` states it.

## 7. Plan

Done: every component with behaviour of its own, the composition from the order
to the stock, and proofs of all safety properties the passing runs check. Left:

1. A refinement: `RedisCacheService` against an abstract cache, with the point at
   which a write is lost as a prophecy, in place of `AppliedInOrder` and
   `AnswerIsLatest`; and the cache as the services see it (a command takes effect
   where it is issued, or never) as an abstraction of it.
2. `OrderPipeline` as an implementation of an abstract ledger: orders are placed,
   and each takes its items off the stock once per delivery or is given up.
3. Retries by callers of the gateway, once it forwards requests: what a repeated
   CreateOrder does.
