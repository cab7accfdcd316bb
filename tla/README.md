# go-ecom-admin: a TLA+ development

The repository is a small shop: an HTTP gateway in front of three gRPC services
(user, product, order), each with its own tables in MySQL, plus Redis,
Elasticsearch and two front ends. The interesting part is what has to agree
across services without a distributed transaction: **the stock of a product,
which product-service keeps, and the orders, which order-service keeps**. This
directory holds TLA+ modules for that path and for the other stateful parts,
the TLC configurations that check them on small instances, and TLAPS proofs of
what matters most.

All paths below are relative to `src/`.

## 1. Inventory

| Component | State it keeps | Operations | Talks to | What is hard | What makes it correct |
|---|---|---|---|---|---|
| order-service, CreateOrder (`internal/order/service/order_service.go:41-114`, `product_client.go`) | `deducted` on the stack, nothing durable until the INSERT | deduct each item, INSERT order, compensate | product-service by gRPC with a 3 s client timeout under the request's context | partial failure in mid-loop, a late execution of an abandoned call, an unknown commit, an expired context during compensation, a crash | a written order keeps its units; a refused one leaks none; nothing comes back twice; every call ends |
| order-service, PayOrder and CancelOrder (`order_service.go:159-259`, `order_repository.go`, `outbox_repository.go:150-170`) | `orders.status`, `outbox_messages` | read, decide, conditional UPDATE (with the outbox rows) | relay, through the table | decisions on a stale snapshot, racing calls, all-or-nothing with the messages | an acknowledged pay or cancel is never contradicted; exactly one whole batch per cancelled order |
| order-service, outbox relay (`internal/order/outbox/relay.go`, `outbox_repository.go`) | `outbox_messages`, an open transaction per tick | claim, deliver, mark sent / failed / dead, commit | product-service RestoreStock with a message id | several replicas, lost answers, lost transactions, failed commits, restarts, poison messages, back-off | SENT implies applied; applied once; no mark written over a row that somebody else moved; every row reaches SENT or DEAD |
| product-service, stock (`product_service.go:104-237`, `product_repository.go:60-228`) | `products.stock`, `stock_restores` | DeductStock, RestoreStock, RestoreStockIdempotent, UpdateProduct, DeleteProduct | order-service, sellers, its cache | errors reported after the commit, deletion of a product between two statements, a seller who saves a stock he read long ago | never oversold, deduplication by message id, books that balance |
| product-service, cache (`cached_repository.go`) | Redis keys, singleflight | cache-aside read, delete after write | MySQL, Redis, the seed | a fill racing an invalidation, null markers, a failed DEL, a replica that started without Redis, TRUNCATE and FLUSHDB by the seed | staleness and old answers have a cause, and the TTL ends them |
| product-service, catalogue and search (`product_service.go:39-156`, `search_repository.go`) | `products`, the Elasticsearch index | create, update, delete, search | MySQL, Elasticsearch, the seed | dual write without a common order, replicas without the index, a search between two stores | index and table differ only with a cause; searches are honest |
| product-service, cart (`cart_service.go`, `cart_repository.go`, the shop's `Cart.jsx`) | `cart_items`; what a page shows | add, set, remove, list, check-out | shop front end, order-service | check-then-act on the limit of 99; a check-out in two calls from a snapshot | the overshoot is bounded; a check-out orders and removes the same units |
| api-gateway, circuit breaker (`gateway/repository/breaker.go`) | one gobreaker per service | count, trip, half-open probes | all services | which errors count, late answers across generations | opens after five consecutive failures, closes again |
| api-gateway, rate limiter (`gateway/middleware/ratelimit.go`) | token buckets per address | allow, clean up | – | clean-up racing a request | an address never exceeds its burst by clean-up |
| start-up (`pkg/database/migrate.go`, `connect.go`) | MySQL advisory lock | lock, migrate, release | MySQL | lock and release on different pooled connections | one replica migrates at a time |
| api-gateway, routes and handlers (`gateway/router`, `handler`, `service`, `middleware/jwt.go`, `repository/client.go`, `pkg/errors`, `pkg/identity`) | requests under way | authenticate, bind, inject the caller, call, translate the error | browsers, all services | deadlines that say nothing, answers of abandoned calls, tokens that outlive their user id | a status tells what happened; a request changes its caller's rows only; a live session is not ended by accident |
| user-service (`internal/user`) | `users` with a unique name | Register, Login, GetUser, GetRandomAddress | gateway, the seed | two registrations of one name; ids given out again by the seed | one account for each name |
| seed (`cmd/seed/main.go`) | – | TRUNCATE, FLUSHDB, inserts, rebuild of the index | every store | runs while the services do | each store recovers or says why not |
| config, logging, telemetry, other front-end pages | none that another part reads | – | – | – | – |

The `hazards` list of `PROJECT.json` names, line by line, what is hard to test in
this code and which property covers it, or why none does yet.

## 2. Modules

| Module | Models | Correspondence |
|---|---|---|
| `OrderModel` | orders' lines, restore messages | `Cart[r]` is the validated request; a line is a request and an item index; a message is the cancelling call (its uuid) and a line |
| `StockService` | the stock column, `stock_restores`, the three stock calls, the update and deletion of a product | an operator per SQL statement or transaction with its outcomes `applied`, `refused`, `err`; `ReadBack` is what can still go wrong after the commit |
| `OrderStore` | `orders` and `outbox_messages` | `CreateRow`, `UpdateStatus`, `CancelWithOutbox` are the three transactions |
| `OrderSaga` | CreateOrder and compensate | one action per step between two observable effects; `got` is `len(deducted)`, `undone` the index of compensate's loop, `rpc` the call in progress |
| `OrderLifecycle` | PayOrder, CancelOrder | `Load` (read, owner and status checks) and then `Pay`, `Cancel`, `Conflict` or `UpdateFails` |
| `OutboxRelay` | the relay of every replica | `Claim` opens the session; `Discard`, `Send`, `Deliver`, `Reply`, `DeliveryTimeout`, `Delivered`, `NotDelivered` are the loop; `Close` commits; `TxLost`, `RelayCrash`, failed marks are the faults |
| `CancelFlow` | lifecycle + relay over orders already placed | composition, fairness |
| `OrderSystem` | all of the above, and sellers | composition; `OpenForm` fills the edit form, `UpdateProduct` saves it; `Ledger` is the refinement mapping |
| `ReservationLedger` | the promise of the order path | abstract: set aside, open, close, give back, edit the shelf |
| `StockAccounting` | the books | `NoOversell`, `QuietBooksBalance` over the units of the lines, which `OrderSystem` counts one by one |
| `OrderInvariants` | the inductive invariant in named parts | – |
| `OrderProofs`, `SystemProofs` | proofs about the order path: saga and message flow, and the whole with its books | see section 6 |
| `RateLimiter`, `TokenBucket`, `GuardProofs` | the gateway's limiter, what it promises, and the proof that it keeps it | `Known` and `NewVisitor` are the locked half of `allow`, `Allow` and `Refuse` the other; `Cleanup` is one sweep; a bucket is a pointer that a request holds |
| `Breaker`, `GuardProofs` | one circuit breaker and the calls through it; and proofs | `Admit` is gobreaker's `beforeRequest`, `Answer` the rest of `callWithBreaker`; gobreaker's own steps are external |
| `GatewayRoutes`, `Gateway`, `GatewayProofs` | requests through the gateway to all handlers, accounts, sessions, the seed; and proofs | `GatewayRoutes` is the routing table and both error translations; `Send` is the way in, `Check`, the action named for the RPC and `Finish` are the handler, `Hear`, `Deadline`, `Lost`, `Left` the way back, `Heard` is `request.js` |
| `Cart`, `CartProofs` | one row of `cart_items` and the cart pages of its shopper; and proofs | `LookUp`, `Check`, `Add` are the three statements of `AddItem`; update and removal are one statement each and answer with the cart; `Settle`, `OrderCreated`, `Clear`, `Settled` are the check-out |
| `ProductCache`, `CacheProofs` | one product id in MySQL, in Redis and in the singleflight of each replica; and proofs | a row is the number of its write; `Query` and `Fill` are the two halves of the flight, `Write` and `Invalidate` those of a write; `Truncate`, `Flush` are the seed |
| `SearchIndex`, `IndexProofs` | one product id in MySQL and Elasticsearch, searches, and the seed program; and proofs | `Commit` is the SQL, `Synced` / `NotSynced` / `LateEffect` what becomes of the ES request; `Recall`, `ReadRows`, `Like` are a search |
| `Startup`, `StartupProofs` | retry, migration lock, restart of the services; and proofs | one turn of `ConnectWithRetry` is `Connected`, `RetryLater` or `GiveUp`; `GotLock`, `NoLock`, `Migrated` are `Migrate` |
| `MC...` | small instances | carts, stocks, symmetry |

How they compose: `OrderModel` is below everything of the order path;
`OrderSaga` and `OrderLifecycle` use `OrderStore`, and `OrderSaga` and
`OutboxRelay` call `StockService`. `CancelFlow` interleaves lifecycle and relay,
`OrderSystem` adds the saga and the sellers and INSTANCEs `ReservationLedger`.
`Gateway` puts every handler behind the gateway, with the rows reduced to who owns
them: what the handlers do to stock, cache, index and cart is in the modules above.
The others stand alone; what they share with the order path is the stock calls'
Redis deletion, whose failures `StockService!ReadBack` has, and CreateOrder, whose
outcomes `Cart` has.

## 3. Runs

The one run that ends in a violation, `restore_twice`, checks a sentence that the
repository says about itself and the code does not keep; `findings` in
`PROJECT.json` quotes it.

| Run | Property | Result and meaning |
|---|---|---|
| `create_order` | `RefusedLeaksNothing`, `CreateOrderEnds` | hold: a refusal without a logged failure leaks no stock; every call ends |
| `cancel_and_relay` | `AckHolds`, `OneBatchPerCancel`, `SentMeansApplied`, `AppliedOnce`, `MarksOverwriteNothing`, `DeadOnlyWhenExhausted`, `DeadIsReported` | hold for two replicas, racing shoppers, late deliveries, faults; no session commits marks over a row that somebody else settled or counted |
| `relay_liveness` | `EveryRowSettles`, `CancelledStockComesBack` | hold: no message is left behind, not even behind an undecodable one |
| `order_system` | `SystemTypeOK`, `NoOversell`, `LiveOrderKeepsStock`, `AtMostOneRestore`, `QuietBooksBalance`, `ImplementsLedger` | hold while commits are reported truthfully: the shelf goes below zero only as far as a seller wrote it, and is oversold only by the units that a seller's old form put back on it; a written order keeps its units, no line comes back twice, the books balance, and every step is a step of the ledger |
| `rate_limiter` | `LimiterInv`, `ImplementsTokenBucket`, `IdleVisitorsLeave` | hold: clean-up is not observable, and the map does not grow for ever |
| `breaker` | `BreakerTypeOK`, `TripsOnlyOnInfra`, `RecoversWhenHealthy` | hold with three concurrent calls and late answers: five errors of the closed generation's own calls open it, answers to calls of an older one count for nothing |
| `product_cache` | `CacheTypeOK`, `StaleNeedsCause`, `OldAnswerNeedsCause`, `StalenessEnds` | hold: staleness at rest has one of four causes, an answer older than its question comes from such a key or from a flight already under way, and the TTL ends it |
| `search_index` | `DivergenceIsExcused`, `SearchesAreHonest` | hold: divergence at rest needs a failure or an overlap, and the next undisturbed write or reseed ends it; a search says what was true while it ran, if that did not change |
| `cart` | `OvershootBounded`, `CheckoutIsExact` | hold: at most the limit for each concurrent call; a check-out of a page that had its answers removes the units that it ordered, unless something else changed or ordered them; none orders the units of the row twice, unless another is still under way or an error was shown |
| `gateway` | `GatewayTypeOK`, `DefiniteAnswers`, `ChangesAreOwn`, `SessionEndsWithItsToken` | hold for every route against the requests that can get in its way: a 2xx happened, a 4xx did not and never will (but the 404 of an update), a caller changes his own rows, a live session ends only by an answer to an older token |
| `startup` | `OverlapNeedsLoss`, `EveryoneServes` | hold: two migrate together only after the lock's connection broke; nobody is locked out |
| `restore_twice` | `AtMostOneRestore` | violated when the INSERT commits but is reported failed |

Every property of a passing run has a mutant in `PROJECT.json`: a plausible
mistake in one mapped definition that makes TLC find the property violated.

### Bounds, and why they are enough

* Order path: two requests, stocks that cover some of their lines
  and not all, one or two handlers on the same order, one or two relays. A race for the last
  unit takes two requests (`order_system`, `create_order`); a partial failure takes two lines
  (`create_order`, where one cart has two); a lock conflict
  takes two relays (`cancel_and_relay`); pay against cancel takes two handlers
  (`cancel_and_relay`). `MaxRetry` 1 or 2 and
  `BatchSize` 1 or 2 stand for `outboxMaxRetry` and the claim's LIMIT: 2 is the
  least that distinguishes "counted" from "exhausted", and `BatchSize` 1 makes
  the second message wait behind the first.
* Sellers: one update (`MaxUpdates`) from a form that was filled at any earlier
  time, with one unit less than it shows, the same or one more (`Extras`, set by
  `MCExtras`), so that a form of an empty shelf writes a negative stock. A second update
  adds its own difference to the books and meets nothing that the first does not.
* `MaxFaults` bounds, per behaviour, lost transactions, failed commits, failed
  marks and crashes of relays together. It bounds neither timeouts nor late
  executions of RPCs: those are always possible. 1 lets each fault happen at
  each point; the theorems of section 6 have no such limit on its value.
* `CommitUnknown` says whether the INSERT of an order may commit and be
  reported failed. It is FALSE where a property is known to need that, TRUE in
  `create_order` and `restore_twice`.
* Limiter: two addresses, two requests, three buckets (one can be held while
  another is handed out); the rates are scaled down, with the inequality of
  `LimiterAssumption` kept tight. The code's numbers (10 tokens a second, burst
  20, idle time 180 s) satisfy it for every pause up to almost three minutes.
* Breaker: the code's own thresholds (3 and 5). Three concurrent calls, so that
  all probes of a half-open state can be in flight, or up to three answers be
  late from an earlier generation.
* Cart: two calls under way, two pages, a limit of 2. Two adds suffice for the
  overshoot; two pages can order the same units, and two calls of one page
  overtake each other.
* ProductCache: two replicas, two readers, one writer that can be met between its
  commit and its DEL; `WriteUnnoticed`, `WriteUncached` and `Create` are the writes that
  overlap it. `MaxRow` 4: one write makes a row stale, and a second, a third or a deletion makes
  the stale row differ from what an invalidation in progress is about to remove.
* SearchIndex: two replicas, two sellers, one shopper and five writes, with any
  number of reseeds of which those that insert count as a write.
* Gateway: two requests, two people, one reseed (`MaxReseeds`), after which the
  second person has the user id of the first. One request is any route of the owner, or an
  update or payment by the other person; the other is one that gets in its way: it
  takes the product or the order away, logs in again, or takes the product's id.
* Startup: three services; at most three outages, lost connections or kills; waits of 2 or 3 units against the code's
  120 s, 10 s and 30 s in units of one second.
* `CHECK_DEADLOCK FALSE` is set on the order path, where a behaviour ends
  when all shoppers have been answered and the outbox is empty, and in `gateway`, where
  each request is made once.

## 4. Fairness

* `create_order`: weak fairness of `Progress(r)`. A call that waits for
  product-service ends by itself, because the client has a deadline of 3 s, and
  the goroutine of the handler runs. Crashes and expiry are not fair.
* `relay_liveness`: `RelayFairness`. The ticker of every live replica fires for
  ever, a session's next step happens (each has a timeout), and clocks reach
  `next_retry_at`. Each replica has its own condition. Nothing is assumed of shoppers, sellers,
  faults, or calls abandoned earlier.
* `rate_limiter`: requests end, the clean-up's ticker fires, time passes.
* `breaker`: the open timeout ends, calls end (3 s), requests keep
  coming; nothing about the counting interval or about when the service is up,
  except what the property's premise says.
* `cart`, `search_index`, `gateway` and `order_system` check safety only and assume nothing.
* `product_cache`: flights end and TTLs run out; no reader, writer or
  invalidation has to move. The writes of a behaviour are finite by the bound.
* `startup`: processes run, containers are restarted
  (`docker-compose.yml`, `restart: unless-stopped`; Kubernetes Deployments), an
  outage ends, time passes. Faults are finite by the bound.

## 5. Abstractions worth knowing

* Abandoned calls to product-service are kept in a set (`orphans`,
  `stragglers`) and may take effect at any later time or never: that a second
  identical one cannot be told apart from the first is sound because CreateOrder
  calls for each line once per operation and messages are deduplicated.
* NotFound and FailedPrecondition of the stock calls are both "refused"; the
  code treats them alike. Prices and totals are left out.
* SKIP LOCKED is taken to lock exactly the rows it returns. `MarksOverwriteNothing` is what the
  code builds on it: `MarkFailed` counts from the `retry_count` in the session's memory, which
  is right only while nobody else moves the row.
* A seller's form shows the stock of the moment it is opened. It may in fact be filled
  from the cache, which shows an earlier stock: that is a form opened earlier. It may be saved with
  any number, a negative one too: neither `model/dto.go:60` nor `product_service.go:104-139`
  looks at it.
* `declared`, `noted`, `overwritten` and `lowest` in `OrderSystem` are history variables: what
  sellers meant to add, the units set aside when a form was filled, by how many more they
  were when it was saved, and the lowest negative stock that a seller wrote. The difference is
  counted on the lines, not on the stock, so an error in the stock statements is not absorbed
  by it. `Supplied` in `StockAccounting` is what the books are balanced against: it contains what a
  stale form put back on the shelf, since the code does put it there.
* `Gateway` keeps of each row who owns it. `past` is what an out-of-date cache may
  still answer for the product, without the rules by which it becomes so, which
  are `ProductCache`'s. `change` is set when the row that a request is about is
  changed: for CreateOrder that is the order, since the stock that a refused order
  took and gave back is the subject of `OrderSaga`. An answer and what the page does with it are
  one step, except for a 401 and a login, whose order the session depends on.
* `Cart` lets a page start a second check-out while the first is under way: the button is
  disabled, but a page that was left and opened again has a fresh one.
* In `SearchIndex` the keyword is in the odd versions of the product, so that each write
  changes what a search should say.
* The cache, cart and search modules follow one product id. Ids share no state
  in this code apart from statements that name several ids, which are not
  modelled as one step because nothing relies on it.
* The breaker numbers no generations: a call in flight knows only whether its
  generation is still current, which is all gobreaker compares.
* The token bucket is refilled once a second instead of continuously.
* `excuse` and the floors in `ProductCache`, `failed`, `raced` and a search's `truth` in `SearchIndex`, `infra` in
  `Breaker`, `unsaid` and `sure` in `Cart` and `change` in `Gateway` are
  history variables: no guard reads them.

## 6. Proofs

All theorems hold for every value of the constants under the named assumptions.

**The order path.** `SystemInv` (module `OrderInvariants`) is inductive for
`OrderSystem` as long as `CommitsKnown` holds. Besides the types of the sellers' variables it has two halves.

* `SagaInv` follows the units of a line while its CreateOrder call is on its
  way. `CallShape` ties the counters to the program point; `TakenLines` says that
  exactly the recorded lines are deducted, except the one in the call in
  progress; `OrphanedDeductions` and `OrphanedCompensations` say which abandoned calls there can be and that
  they have not happened: without them a late execution could strike twice. `ReturnedLines`
  and `CreatedLines` say how often units came back, `OrderWritten` which calls may have
  left an order behind.
* `FlowInv` takes over when the order exists. `OneCanceller` and `WholeBatch`
  make the messages of an order one batch; `LockedRows` and `DeliveredApplied`
  tie sessions to rows and rows to the deduplication table; `RestoredLines` ties
  the number of restores to that table.

`OrderProofs` has a lemma for each action, first of the saga, then of the flow; `SystemProofs`
combines them: the saga moves no row of an existing order, and the flow no line of an
order that is not written, which is what keeps the other half; a seller's update moves
neither. What callers are told is a second layer. `Promises` is `FlowInv` with
`AckHolds`, with "a row marked as given up has its log entry", and with
`AppliedOnce`, whose count of messages needs that `restored` is finite. `Refunding`, for the saga, follows
a refused call: every line up to the index of `compensate` is back, logged, or of a
product that is gone (`Compensated`), and the line that was refused was never
taken (`RefusedIsUntaken`). The theorems:

| Theorem | Statement |
|---|---|
| `OrderProofs!LiveOrdersKeepTheirStock` | `LiveOrderKeepsStock` of the saga |
| `OrderProofs!CompensationRestoresOnce` | `AtMostOneRestore` of the saga |
| `OrderProofs!SentRowsWereApplied` | `SentMeansApplied` |
| `OrderProofs!MarksMatchWhatWasRead` | `MarksOverwriteNothing` |
| `OrderProofs!GivenUpOnlyWhenExhausted` | `DeadOnlyWhenExhausted` |
| `OrderProofs!CancelQueuesOneBatch` | `OneBatchPerCancel` |
| `SystemProofs!SystemTypesHold` | `SystemTypeOK` |
| `SystemProofs!EveryLineRestoredOnce` | `AtMostOneRestore` of the whole path |
| `SystemProofs!OrdersKeepTheirStock` | `LiveOrderKeepsStock` of the whole path |
| `SystemProofs!OrderPathImplementsLedger` | refinement of `ReservationLedger` |
| `SystemProofs!NeverOversold` | `NoOversell` |
| `SystemProofs!NothingIsLost` | `QuietBooksBalance` |
| `SystemProofs!SafeUntilACommitIsLost` | all of these while `CommitsKnown` |
| `OrderProofs!AnswersStand` | `AckHolds` |
| `OrderProofs!DeliveredTwiceCountsOnce` | `AppliedOnce` |
| `OrderProofs!NoSilentDeath` | `DeadIsReported` |
| `OrderProofs!RefusalsAreRefunded` | `RefusedLeaksNothing` |
| `GuardProofs!CountersStayBelow` | `BreakerTypeOK` |
| `GuardProofs!OpensOnInfraOnly` | `TripsOnlyOnInfra` |
| `GatewayProofs!NoNameTwice` | `GatewayTypeOK` |
| `GatewayProofs!StatusTellsTheTruth` | `DefiniteAnswers` |
| `GatewayProofs!NobodyChangesForOthers` | `ChangesAreOwn` |
| `GatewayProofs!ValidTokensStay` | `SessionEndsWithItsToken` |
| `CacheProofs!NobodyWaitsForNothing` | `CacheTypeOK` |
| `CacheProofs!StaleOnlyWithCause` | `StaleNeedsCause` |
| `CacheProofs!OldAnswersHaveCauses` | `OldAnswerNeedsCause` |
| `IndexProofs!IndexDiffersWithCause` | `DivergenceIsExcused` |
| `IndexProofs!SearchesTellTheTruth` | `SearchesAreHonest` |
| `CartProofs!OvershootIsBounded` | `OvershootBounded` |
| `CartProofs!CheckoutsAreExact` | `CheckoutIsExact` |
| `StartupProofs!StartupTypesHold` | the types of `Startup` |
| `StartupProofs!MigrationsExclude` | `OverlapNeedsLoss` |
| `GuardProofs!LimiterSafe` | `LimiterInv` |
| `GuardProofs!LimiterImplementsTokenBucket` | refinement of `TokenBucket` |

**Lost commits.** A commit that is reported failed is possible in the code (`CommitUnknown`), so
the theorems avoid assuming it away. About CreateOrder alone `CompensationRestoresOnce`,
`RefusalsAreRefunded` and the types hold with such commits. On the whole path `CommitsKnown`
says that none has happened so far; `StepKeepsCommits` shows that once one has, it stays
so and its call carries the error (`CommitShape`). `SystemInv` and all that follows hold as long
as `CommitsKnown` does, which is `SafeUntilACommitIsLost`, and in a quiet state there was
none, so `NothingIsLost` needs no assumption. `LiveOrdersKeepTheirStock`, `SystemTypesHold`,
`EveryLineRestoredOnce`, `OrdersKeepTheirStock`, `NeverOversold` and `OrderPathImplementsLedger`
state the properties themselves and assume `~CommitUnknown`; the run `restore_twice` shows that
`AtMostOneRestore` needs it.

**The ledger.** The refinement maps `units[l]` to
"free", "aside" or "back" by `taken` and `returned`, `shelf` to the stock and
`status` to the orders and `edits` to the number of updates; every step is a `SetAside`,
`GiveBack`, `Open`, `Close` or `Edit`, or changes none of the four. Counting the edits keeps the
ledger strict: no other step may set the shelf.

**The books.** `Books` says that the shelf is no lower than zero or than a seller wrote it, and
that shelf and set-aside units together are what was supplied, to the unit. An open form shows what
was supplied at its time less what was set aside then (`AccountOf`). It rests on the refinement: a
`SetAside` or `GiveBack` of the ledger moves the quantity of one line across, `Open` and
`Close` move nothing (`LedgerKeepsBooks`), and saving a seller's form enters what he
declared and the units that moved since it was filled (`UpdateKeepsBooks`). The units are a set, one element for
each unit of each line, so that no sum has to be folded: `MoreUnits` and `FewerUnits`
are facts about cardinalities. `NoOversell` follows because the units of standing orders
and of messages still to be applied are set aside (`PromisedIsAside`). `QuietBooksBalance`
needs the converse as well: in a quiet state nothing else is set aside. That is
`Settling`: a refused call gave back what it took or logged it (`Refunding`), a failed call knows
its error (`FailuresHaveCause`), and an applied message put its line back
(`RestoredBack`).

**The limiter.** `LimiterInv` is inductive. Its heart is `FullerWithAge`: a
bucket whose address was idle for n seconds has at least `Rate * (n - MaxPause)`
tokens or is full, so by `LimiterAssumption` a bucket is full when the sweep
drops it; `HeldIsCurrent` says that a request between the halves of `allow`
keeps its address young enough not to be swept. Both are needed: with the first
alone a token could be taken from a bucket that is no longer in the map. The
mapping sends a missing visitor to a full bucket.

**The breaker.** `BreakerInv` adds `FailuresAreOwn` to the types: while the breaker is
closed, the failures that it has counted are errors of calls that its present generation
admitted, `infra` of them or
fewer. An answer of an old generation changes neither `infra` nor the count; a success
clears the count and not `infra`; a new closed generation clears both. So the fifth
counted failure is at least the fifth error.

**The gateway.** `GatewayInv` has the types (`StoresOK`, `ReqOK`, `CallOK`, `SessionOK`,
`ChangeOK`) and three facts. `Grounds` is about the rows: until the first reseed the
product is its owner's or gone, and the seed inserts products only when its accounts are
there. `Sessions` says that a token of the current era names the account of the person who
keeps it; it is what makes a user id mean somebody. `Sound` is about each request. It
says how far its call, its code and its `change` belong together (`Progress`: a refusal
comes only before the write, and a status that says something only from a reply), what
the status means (`Definite`), and whose rows it was checked against (`Own`: before its write a
payment's order and an update's product are the caller's, the latter until a reseed).

A session is a second layer, `Welcomed`: a live token names a user, is carried only where
the router asks for one, and is answered neither by Unauthenticated nor by 401. The
services have `NobodyUnknown` for it: with a caller in the metadata, no check but that of Login
ends in Unauthorized.

**The cart.** `CartInv` counts what is coming: `Bounded` adds to the row the quantity of every
add that has passed its check, and stays below the limit times the number of calls,
since a call owes at most the limit and a row that was just checked or replaced is
within it. With the row alone nothing would follow from one add to the next. For
the check-out `SurePages` says that a page which nobody has overtaken shows the row, or an
answer is on its way that replaces what it shows; `SureCheckouts` carries the
quantity on to the order and its DELETE; and `UnsaidIsUnderWay` names the check-out that is
still to remove units which are ordered and about which nothing was shown.

**Start-up.** `MigratorHolds`: from GET_LOCK to RELEASE_LOCK a service whose connection has not
broken is the holder, and there is one holder.

**The cache.** `CacheInv` is the types, the waiters of `CacheTypeOK`,
`KeyNeedsCause` (`StaleNeedsCause` for the very row, not just for its being found) and
`FlightsLookForward`: a flight reads a row that is no older than the one at its
start. `OldAnswerNeedsCause` needs `AskedBefore` besides: rows only get
newer, so the floor of a reader is never above the present row.

**The index.** `IndexInv` has to say what becomes of a divergence that is not yet
at rest. `CallsExcused` and `SeedExcused` say of every call on its way, and of the seed at
each of its steps, that either something has been logged or raced, or the call is alone and carries
what the row is now. `SearchInv` follows a search: what its `truth` remembers
is still so (`Remembered`), and an answer agrees with it (`Honest`).

**Only model-checked**: liveness (`CreateOrderEnds`, `EveryRowSettles`,
`CancelledStockComesBack`, `IdleVisitorsLeave`, `RecoversWhenHealthy`, `StalenessEnds`,
`EveryoneServes`), which needs fairness and ENABLED and is out of this prover's reach. Every
invariant, action property and refinement that a passing run checks is a theorem, under
assumptions that the run's constants meet.

## 7. Plan

The order was: the order path with its proofs; limiter, breaker, cache, index,
cart and start-up; the gateway with its accounts, the check-out, the seed's effect on
accounts, cache and index, the sellers' updates; the proofs about gateway, cache, index,
breaker and what callers are told; the proofs about the books, the cart, the sessions and
start-up. What would come next:

1. Theorems that relate the modules: what a run of one takes for granted of another (the
   outcomes of CreateOrder in `Cart`, the errors of the Redis DEL in `StockService`).
2. The seed in the order path: orders and outbox messages that outlive their products
   and give units back to new ones with the same ids.
3. After a lost commit, what still holds of the other orders: `SystemInv` request by request
   instead of up to the first such commit.
4. The shutdown sequence of the services: the order in which relay, servers and pools stop.

## 8. Sentences of the repository that the code does not keep

One is a run (`restore_twice`). The following were met while
modelling; each is one of the named causes that the passing properties allow for,
so the models have the behaviour without a run of its own.

* `cart_service.go:49-52` checks the sum before the add, and
  `cart_service_test.go:6` wants 98 + 2 refused ("已有 98 件再 +2 要拒"); two adds that are checked
  together pass the limit. `OvershootBounded` is what holds.
* `README.md:38` promises no overselling by the conditional update; `UpdateProduct` writes the
  stock of the seller's form without a condition and puts back units that were sold
  since. `NoOversell` counts the lines that moved while the form was open as `overwritten`. A
  form with a negative number is saved as well (`model/dto.go:60` has no lower bound), which
  `lowest` allows for.
* `Cart.jsx:160` empties the row of what was ordered by removing it: units that were added while the
  order was under way go with it, and an order whose answer was lost is made a second time
  by the next click. `CheckoutIsExact` names both: the units are promised when nothing overtook the
  page, and the second order is excused by the error that was shown.
* `request.js:40` ends the session on any 401, also on a late one that answers a request
  with an older token, which clears the session that began since.
  `SessionEndsWithItsToken` excludes every other loss of a live session.
* `UpdateProduct` reads the product again after its commit (`product_service.go:132`) and may answer 404
  about a change that took effect; `DefiniteAnswers` excepts it.
* `order_service.go:107` logs "stock not restored, manual reconciliation
  required" for every error of RestoreStock, also for one that comes after the
  commit (`cached_repository.go:149-151`): the line may be back.
* `README.md:72` has the order and a message written first and stock deducted
  after it; `CreateOrder` deducts first, writes last and queues no message.
* `relay.go:174-186` reports a dead letter before its mark is committed; when the
  commit fails the row is delivered again. `DeadIsReported` is the half that holds.
* `model/outbox.go:7` calls the id the FIFO order of delivery; a row in back-off
  or locked elsewhere is overtaken.
* `breaker.go:23` reads a closed breaker as "recovered", but cancelled probes
  count as successes (`breaker.go:43`); and the counting interval of ten seconds
  clears a streak of failures between two of them (`breaker.go:18`).
* `README.md:40` promises consistency by invalidation after the write; a fill
  that read before the write may store after the DEL ("late fill"), and a read
  that begins after an Update may join a flight from before it, against
  `cached_repository_test.go:146`.
* `search_repository_test.go:115-116` wants no document of a deleted product; an
  Update whose request reaches Elasticsearch after a racing Delete brings it back.
* `migrate.go:11-12` wants one AutoMigrate at a time; when the connection that
  holds the lock breaks there can be two.

## 9. Not modelled

* Generated protobuf and gRPC code (`proto/**/*.pb.go`, almost half of the lines that are
  not tests), mocks and vendored assets: no logic of this program.
* Configuration, logging, tracing and metrics: no other part reads what they keep.
* The values in requests and answers (prices, names, addresses, paging), ranking
  and the Elasticsearch query, passwords and signatures: no property tells them apart.
* The Elasticsearch mapping: an Index call that meets the moment between the drop and the
  creation of the index makes Elasticsearch invent one, which changes the ranking only.
* The front ends, but for the cart page, the session of the browser and the seller's form:
  they show what they are answered and keep nothing.
* The shutdown sequence: a stop is a crash here, which is the worse case.
* What the seed leaves behind in the order database: demonstration data, see section 7.
* The breaker's interval as a clock: it may end at any time.
