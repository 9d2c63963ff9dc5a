# Mini-Marketplace in TLA+

Four Go services process an order: the **api-gateway** takes HTTP requests, the
**order-service** owns the order, the **inventory-service** reserves units, the
**notification-service** tells the customer. They talk through gRPC (gateway to
order service) and through five Kafka topics (everything else), each topic fed
by a transactional outbox and read by a consumer group that commits offsets by
hand. This directory holds the TLA+ models of the parts that keep state, the
TLC runs that check them and the TLAPS proofs about them. Paths below are
relative to the root of the repository.

## 1. Inventory of the system

| Component | State | Operations | Talks to |
|---|---|---|---|
| order aggregate and use cases (`order-service/internal/domain`, `usecase`) | one order: status, version, items, total | `NewOrder`, `TransitionTo` (a finite state machine), `CreateOrder`, `UpdateOrderStatus` (three attempts on version conflicts), `GetOrder`, `ListOrders` | repository |
| order repository (`repository/postgres`) | tables `orders`, `order_items`, `outbox`; a pool of connections | `SaveWithEvent`, `UpdateStatusWithEvent` (one transaction each), `GetByID` (two statements), `ListByCustomer` (pages by the key of the last row) | PostgreSQL |
| order outbox worker (`internal/outbox`, own process) | rows locked by the open transaction | every tick: fetch pending rows `FOR UPDATE SKIP LOCKED`, publish each, mark it SENT, move its order to AWAITING_STOCK, commit | PostgreSQL, Kafka |
| stock result consumers (`internal/consumer`) | consumer group offsets, one message in hand per topic | `runReserved`, `runFailed`: fetch, `UpdateOrderStatus`, commit the offset | Kafka, use case |
| order delivery and main (`internal/delivery`, `cmd/order-service`) | handlers in progress; the phase of main | gRPC and HTTP handlers; on SIGTERM drain HTTP, then gRPC, under one deadline, then close the pool | use case |
| inventory consumer and use case (`inventory-service/internal/consumer`, `usecase`) | consumer group offset, one message in hand | fetch `order.created`, `ReserveStock`, `RecordFailure`, commit the offset | Kafka, repository |
| stock repository (`repository/postgres`, `domain/stock.go`) | tables `stock`, `processed_events`, `outbox`; row locks | `ReserveAll` (idempotency check, row locks, all-or-nothing check, update, event, mark), `RecordFailure` | PostgreSQL |
| inventory outbox worker | as the order service's, without the status change | publish `stock.reserved`, `stock.failed` | PostgreSQL, Kafka |
| notification-service | table `inbox_events`, three consumer group offsets | `MarkProcessedAndNotify` per event | Kafka, PostgreSQL |
| gateway client and main (`client/grpc`, `delivery/http`, `cmd/gateway`) | handlers in progress; the phase of main | `CreateOrder`, `GetOrder`, `ListOrders` forwarded without a deadline; drain on SIGTERM | gRPC |
| gateway cache | Redis keys `order:<id>`, TTL 5 s | cache-aside `GetOrder` | Redis, gRPC |
| gateway rate limiter | Redis hash per client | token bucket script | Redis |

**What makes each correct.** A status only moves along `CREATED ->
AWAITING_STOCK -> CONFIRMED | CANCELLED` whoever writes it; orders and outbox
tell the same story; no event is lost and copies are paid for by faults; a
verdict is justified by the inventory and announced once; no unit is promised twice,
and an order is reserved once, whole or not at all; an answered order is not answered
the opposite way; every accepted order is eventually decided; a customer is
notified once per event; a client does not see an order go back in time for
longer than a TTL; the bucket never gives more than capacity plus refill; what a
client was told of its request is so, and an error has a cause other than an
orderly stop; paging through a growing list shows nothing twice and skips nothing
that was there.

**What is hard to test.** The transaction of the worker is open while its
messages are already public; at-least-once delivery with manual offsets, where
committing a message commits everything before it; a rebalance that leaves a
handler running on a message another instance has been given; reads before
locks; two result topics with no order between them; replies lost after a
commit; two processes that stop in stages while calls without deadlines run
through both; a list that grows behind its reader, stamped by several clocks. `PROJECT.json` lists these under "hazards", each at its line.

## 2. Modules

| Module | What it is |
|---|---|
| `ConsumerGroup` | a single-partition topic read by one consumer group: the contract of Kafka and kafka-go the services rely on (external) |
| `OrderSaga` | the abstract specification of the order service: statuses and announced events only |
| `OrderService` | orders and outbox tables, outbox workers, both result consumers; inventory is the environment |
| `OrderServiceProofs` | the theorems about `OrderService` |
| `InventoryService` | stock, processed_events, outbox, the consumer and the reservation transaction; the order service is the environment |
| `InventoryServiceProofs` | the theorems about `InventoryService` |
| `InventoryOutbox` | the outbox workers of the inventory service |
| `Marketplace` | order service, inventory service and inventory outbox composed over shared topics |
| `MarketplaceProofs` | the theorems about `Marketplace`, which instantiates the proofs of both services |
| `NotificationService` | three readers, the inbox, the notification inside the transaction; the order service is the environment |
| `NotificationServiceProofs` | the theorems about `NotificationService` |
| `Gateway` | token bucket and order cache of the gateway, for one client and one order; the order service is the environment |
| `GatewayProofs` | the theorems about `Gateway` |
| `OrderRequests` | POST and GET of an order from the client's connection to PostgreSQL and back, through both servers and both mains |
| `OrderRequestsProofs` | the theorems about `OrderRequests` |
| `Traversal` | the abstract specification of reading a list to its end |
| `OrderListing` | `GET /orders` page by page against concurrent inserts |
| `OrderListingProofs` | the theorems about `OrderListing` |
| `Sums` | induction over naturals and finite sets, sums and folds, for the proofs |
| `MC...` | an instance of the module of that name for TLC |

Operators whose comment starts with "Mutant" belong to no specification. Each
is a definition of the model with a plausible mistake; `PROJECT.json` says which
definition it stands in for and which property tells the two apart.

### OrderService

`status` and `version` are the columns of `orders`, `outbox` the rows in
`created_at` order, `batch[w]`/`marked[w]` what the open transaction of worker w
has locked and marked, `log[t]` a topic, `group[t]` the consumer group on a result
topic, `handler[i][t]` the goroutine of instance i that reads t, and `faults` counts
the faults so far. Payloads are order ids: nothing in the code branches on the
rest of a payload.

* `CreateOrder` is one transaction (`SaveWithEvent`) and so one step; a request
  that fails leaves no trace and has no action.
* `processBatch` is `fetchPendingTx` (locks), then `Publish` per record - the
  message is public at once, the mark only after `CommitBatch` - or
  `PublishUnacked` (stored, not acknowledged) or `Rollback` (any error return, or
  the death of the process). The status change of `transitionToAwaitingStockTx`
  becomes visible with the commit, so `CommitBatch` makes it.
* A handler is `FetchMessage`, `GetAndTransition` (the read of `GetByID` and
  `TransitionTo` on the copy), `UpdateStatusWithEvent` or
  `OptimisticLockConflict`, `CommitMessages`. `HandlerError`, `UpdateReplyLost`
  and `CommitError` are the error paths: the loop goes on with the next message.
* `Rebalance` gives the partition to a member at the committed offset while the
  old goroutine carries on (a zombie); `Restart` kills the goroutines of a process.

### InventoryService

`stock[s]` is a row, `held[i]` the rows locked by the transaction of instance i
and `local[i]` those rows as the transaction sees and changes them; `Write` makes
them, the answer and the mark visible together. `NotProcessed` is the check that
runs before any lock; `LockRow` takes one lock at a time in any order (there is
no ORDER BY), which is what makes `DeadlockVictim` possible; `StockChecked` looks
at each line alone and `ReserveLine`/`LineRefused` at one after the other, so two
lines with one SKU are told apart from one. `RecordFailure` is a statement of its
own. A deadlock victim, a violated key and an invalid quantity are errors
like a failing call: the loop goes on and nothing is committed.

### InventoryOutbox and Marketplace

`InventoryOutbox` is `processBatch` of the inventory's worker: the order service's
loop without the status change. `sent`, `batch[w]` and `marked[w]` are kept beside
the rows (`answers`), which `InventoryService` writes.

`Marketplace` instantiates the three modules. `log` is one variable for all
topics: `OrderService` writes `order.created`, which `InventoryService` reads
(`log <- log["order.created"]`), and `InventoryOutbox` writes the result topics that
`OrderService` reads. The environment actions of the component modules
(`StockResult`, `OrderPublished`, `Restock`) do not occur. That they allow what the
other service really does is the property `ServicesFit`: the composition implements
both component specifications, so what the runs and the proofs say of
`OrderService` and `InventoryService` holds in it.

### NotificationService

`handler[i][t]` is one of the three goroutines of an instance. `Insert` is the first
statement of the transaction and waits while another open transaction holds the
same key, which is what a primary key does; a committed key ends in `DuplicateKey`
(the offset is committed), an open one whose transaction rolls back lets the
waiting one through. `Notify` comes before `CommitTx`, as in the code, and cannot be
taken back. Error paths and group actions are as in the other consumers.

### Gateway

A request runs through `RateLimit` and `GetOrder` one external call at a time:
`ReadClock`, the script (`EvalAllowed`, `EvalRefused`, `EvalError`), `CacheHit` or
`CacheMiss`, `GetOrder`, `CacheSet`, each with its failure. The script is atomic
because Redis runs scripts one at a time. Tokens and time are whole numbers: the code's
fractions of a second are finer ticks. `Skew[g]` is what the clock of process g is
ahead of Redis, `MaxDelay` how old a reading can be when the script gets it,
`MaxFill` how long an order that was read waits for its `SET`. The code bounds none
of them. `GatewayAssumption` asks that a bucket that expires would have been full again
by then, whichever clocks read it: with 3600 s, 2 tokens a second and 10 tokens that
allows skews and delays of almost an hour. `WindowBounded` needs it: a forgotten bucket
that is created again with an old reading has tokens it should not have.

### OrderRequests

Each end of a call has a state of its own, since neither knows the other: `client[r]` is
what the client was told, `gateway[r]` the gateway's handler or the status it was given,
`server[r]` the order service's handler or the result it is about to return. `Send`
goes to either server (`via[r]`); `GatewayBody` and `DirectBody` bind the body, `Invoke`
starts the handler at the other end, `BeginTx`, `CommitTx`, `GetRow` and `GetItems` are
the repository's statements over a pool of `PoolSize` connections, `Return` and
`GatewayReply` pass the result on through `mapDomainErrToGRPC` and `writeGRPCError`.
`CommitReplyLost` stores the order and returns an error; `GetItemsCut` ends the rows
early, which the code does not notice. A client that hangs up (`Leave`) ends the context
of its request, which ends the gateway's call, which ends the context at the order
service: each hop is a step, and a handler may or may not have got further by then.

`service` and `front` are the two mains. The order service closes its listeners, drains
HTTP (`HttpShutdown`), then gRPC (`GracefulStop`, or `Stop` when the time is up), with one
deadline of five seconds for both, then waits for the connections in use (`ClosePool`).
Handlers that outlive their server go on and may find the pool closed. `Kill` is the end
without any of this.

`Total` computes as the code does: a product per line, sums from left to right, each
wrapped to the range from `-Limit` to `Limit - 1` (2^63 in the code), the currency of the first operand kept.

### OrderListing and Traversal

An order is stamped by `NewOrder` from any clock (`Times` may tie and go back) and becomes
visible at its commit, maybe much later, maybe never. `ListByCustomer` gives the rows
below the cursor in descending (created_at, id), at most `PageSize(limit)` of them, and a
cursor if the page is full. `RowsCutOff` is a connection that breaks between two rows:
what was read goes out as a short page. The gateway always asks for the default limit; the
order service's own server passes on what it is given. `Traversal` promises a client that
nothing is shown twice and that the end is only announced to who saw everything that was
there at the beginning, except after a cut page.

### Abstractions

* One partition per topic: the compose file sets no partition count and the
  broker's default is one. With more, each partition behaves like the model.
* Rows of the outbox are ordered by commit; the code orders by a timestamp taken
  just before. The two differ only between transactions that overlap, and no
  property depends on the order of two orders' events.
* The clean shutdown of a consumer or a worker is a `Restart` at a quiet moment, or a
  failing call if it interrupts one.
* `CreateOrder` is one step in `OrderService` and a transaction that can fail at any point
  in `OrderRequests`, where `Insert` writes order, items and event and only the total is kept.
* Unparsable messages (committed and skipped) are left out: no service writes one.
* The gateway's other keys in Redis belong to other clients and orders and do not interact.
* A fault is an action with a budget `MaxFaults[kind]`. Proofs hold for every budget.

## 3. Runs

Every constant below is a bound of the instance; requests, answers and faults are
bounded, so the system may stop and the deadlock check is off.

| Run | Instance | Shows |
|---|---|---|
| `order_faults` | 2 orders, 1 worker with batches of 2, 1 instance, one answer per result topic; a rollback, a handler error, a failed commit and a rebalance or restart, once each; fair | `TypeOK`, `OutboxMatchesOrders`, `SentIsPublished`, `VerdictFromInventory`, `FollowsFSM`, `EveryEventIsSent`, `ResultTakesEffect` |
| `order_concurrent` | 2 orders, 2 workers, 2 instances, a lost acknowledgement and a rebalance | `CopiesBoundedByFaults`, `RetryNeverExhausted`, `IndInv` (the invariant of the proofs), `ImplementsSaga` (refinement of `OrderSaga`) |
| `order_discard` | 1 order, no fault | expected violation of `DiscardOnlyDuplicates` |
| `inventory_concurrent` | 2 instances; two orders that want the same two SKUs in opposite order and one with a SKU in three lines, one of quantity 0; 3 messages (so duplicates), a restock, an error, a failed commit, a rebalance or restart | `TypeOK`, `ReservedIsDemanded`, `UnitsPromisedOnce`, `ReservedAnnouncedOnce` |
| `inventory_lost` | 1 instance, one failing call | expected violation of `CommittedIsAnswered` |
| `inventory_both` | 2 instances, one rebalance | expected violation of `NeverBothAnswers` |
| `marketplace_system` | both services; 2 orders for two units, one with one line of the SKU and one with two; 1 process of each kind, batches of 2, one fault of any kind (`MaxAllFaults`) but a handler's error; fair | `TypeOK`, `VerdictMatchesStock`, `NeverBothAnswers`, `CommittedIsAnswered`, `ServicesFit`, `EveryOrderAnswered` |
| `notification_inbox` | 1 order, 2 instances, `order.created` twice, a zombie handler, an error, a failed commit, a restart; fair | `TypeOK`, `RepeatedOnlyAfterRollback`, `MarkedIsNotified`, `EveryEventNotified` |
| `notification_order` | 1 order, no fault | expected violation of `EventsOfOrderInOrder` |
| `gateway_requests` | 3 requests through 2 gateways, one clock a tick behind, capacity 2, 1 token a tick, an entry's life of 2 ticks, 5 ticks | `TypeOK`, `WindowBounded`, `RefusedForAReason`, `ServedRecently` |
| `requests` | one POST of one of three carts (two lines; a name too long for its column; a price of 0) and one GET of that order, through either server; amounts from -16 to 15; a pool of one; up to two kinds of faults; both processes told to stop at any time; fair to the two mains only | `TypeOK`, `CreatedIsStored`, `TotalIsExact`, `FailureIsExcused`, `BegunIsAnswered`, `ProcessesExit` |
| `listing` | 5 orders, one of them somebody else's, 2 clock readings, limits 0, 1, 3 and 4 where 2 is the default and 3 the largest, 1 client; fair | `TypeOK`, `ShownOnce`, `NothingSkipped`, `TraversalEnds`, `ImplementsTraversal` |

Why the bounds suffice for the questions asked: two orders are the fewest that
share a batch and let one message's commit pass over another; two workers and two
instances the fewest that race; the two result topics give an order two
contradictory answers, and redelivery after a rebalance a duplicate of either;
one fault of each kind at any point, in any order, covers each error path and
their pairs. Two SKUs and two units are the fewest for a deadlock, a partial
refusal and a contended last unit. Three requests are the fewest that exceed a
bucket of two, find one that expired, and let one cached answer be overwritten by a
slower one and read by a third; five ticks are the life of a bucket and one more.
A POST and a GET of its order are the fewest that relate an answer to the table, and with a
pool of one the two wait for each other; a total of 14 does not fit half of the range, which is what a narrower type would have. Four orders of one customer fill two default pages, tie in time, and can be committed
between two pages; the limits lie on both sides of both of their bounds.

**Fairness.** `WF(WorkerStep(w))`: the worker's ticker fires as long as its
process runs, and an error ends the tick only. `WF(HandlerStep(i, t))` and
`WF(ConsumerStep(i))`: the loops of the consumers never return before shutdown. Weak fairness is
enough because each of these actors, once enabled, stays enabled until it acts.
Faults are finitely many in a behaviour, which is what "eventually works again"
means here. Nothing forces a request, an answer of the environment or a restock. In `Marketplace`
answers are no longer the environment's: the four kinds of loops are fair and an
accepted order is answered. In `OrderRequests` only the two mains and their timers are fair:
no call of a handler has a deadline, so a handler may hang, and the gateway's exit and the
stop of the order service's two servers do not depend on it. What does depend on it says so:
`BegunIsAnswered` has the hypothesis `HandlersRun` (handlers run, and PostgreSQL answers each
call, if only with an error), and the last part of `ProcessesExit`, the order service's exit,
has `ServersRun`, because the deferred `pool.Close` waits for every connection in use. Without
its hypothesis TLC violates each of the two. No client has to send a request, or all of its
body, and no process has to be stopped. In `OrderListing` only a client that holds a cursor
has to ask for the next page: that is what following it means. `Gateway` has no liveness
property and no fairness.

### What the violated runs show

* `order_discard`: the worker publishes `order.created` inside its transaction and
  the order becomes AWAITING_STOCK with the commit. An answer read in between finds
  CREATED, is rejected by the FSM, logged as "likely duplicate" and committed. The
  order then stays AWAITING_STOCK for ever; no timeout job exists.
* `inventory_lost`: a message whose handling failed is not committed, but the next
  message of the partition is, and that commits both. No restart delivers the first again.
* `inventory_both`: the check of `processed_events` runs before the row locks. A
  second handler of the same message that passed it early finds the units taken by
  the first and announces `stock.failed` for an order that is reserved.
* `notification_order`: the comment in `publisher.go` says that the key keeps the events
  of one order in order. It does within a topic; `order.created`, `order.confirmed` and
  `order.cancelled` are three topics with three readers, and a customer can be told the
  verdict before the acceptance.

What holds across services and what does not: that CONFIRMED implies reserved is a theorem
(section 4), and the other half of `VerdictMatchesStock` one without restocks and with one
inventory process. With a restock between two
deliveries of a refused order (`RecordFailure` leaves no mark) or with the race of
`inventory_both` the order gets both answers, and its units stay reserved although
it may be CANCELLED; `Stock.Release` has no caller. `EveryOrderAnswered` does not say
that the order is decided: `order_discard` shows why.

## 4. Proofs

`OrderServiceProofs` proves, for every set of orders, workers and instances and
every bound:

| Theorem | States |
|---|---|
| `TypeCorrect` | `[]TypeOK` |
| `Invariant` | `[]IndInv` |
| `NoEventLost` | `[]SentIsPublished` |
| `VerdictsAreJustified` | `[]VerdictFromInventory` |
| `RetriesSuffice` | `[]RetryNeverExhausted` |
| `TablesAgree` | `[]OutboxMatchesOrders` |
| `StatusFollowsFSM` | `FollowsFSM` |
| `Refinement` | `ImplementsSaga` |
| `CopiesArePaid` | `[]CopiesBoundedByFaults` |

The argument. None of these is inductive alone: that `UpdateStatusWithEvent` only
ever moves an order out of AWAITING_STOCK is not in its guard, which compares
versions. `IndInv` supplies the reason: the version of an order is the rank of its
status (`VersionIsRank`), a handler about to update holds the rank of
AWAITING_STOCK (`HandlerKnows`), hence a matching version means the status is still
that (lemma `LockMeansAwaiting`). From there `RowsFollowStatus` and `RowsAreUnique`
give one row per event, `LocksAreExclusive` and `CreatedSent` say that a batch
with a pending order.created row belongs to an order still CREATED, and
`MarkedIsPublished` carries what was published to the commit. The lemmas treat the
tables in three steps (`DatabaseSteps`: a request, a verdict, a commit), the
append-only log and rows (`LogGrows`, `RowsStay`), the locks, the handlers, each with
one step per action. `IndInv` is also an invariant of `order_concurrent`.
`Refinement` maps each step to a step of the saga or a stutter, with the messages
in the log as what is announced.

`CopiesArePaid` states `[]CopiesBoundedByFaults`. The bound alone does not survive a first publish, since nothing in it says that there was none before.
`CopiesPaid` does: the copies of an event are at most the faults that can publish again
(`Paid`), and one more only if its row is sent or marked in an open batch (`Accounted`).
`NextRecord` publishes no marked row, and `LocksAreExclusive` keeps the row from other
workers (`PublishPays`); what is accounted for stays so until a rollback, which pays
(`AccountedStays`, `FaultPays`).

The invariant is proved of more than the specification: `OpenNext` is `Next` without the
bounds on results and with any answer the inventory may give (`AnyResult`). `BoundedIsOpen`
leads back to `Spec`; the open steps are what the composition needs.

`GatewayProofs` proves, for every set of requests and gateways, all clocks and
delays that `GatewayAssumption` allows and every bound:

| Theorem | States |
|---|---|
| `TypeCorrect` | `[]TypeOK` |
| `LimitKept` | `[]WindowBounded` |
| `LimitExact` | `[]RefusedForAReason` |
| `AnswersRecent` | `[]ServedRecently` |

The argument for the limit: a window that ends at the bucket's last reading leaves it
at most what the limit leaves (`NeverMore`), and one window leaves it at least that
(`NeverLess`): the bucket holds exactly the minimum over all windows, although a lagging
clock moves `last_refill` back and makes the tokens negative. A refill carries both from
one reading to the next (`RefillBounded`, `RefillExact`). When the bucket was forgotten,
the last grant is so far back (`LastGrant`, `ReadingRecent`) that a full bucket breaks no
window. For the cache, `FillInv` dates every entry and answer by the read it comes from.

`InventoryServiceProofs` proves, for every set of orders with any lines, any stock, any
number of instances, messages, restocks and faults:

| Theorem | States |
|---|---|
| `TypeCorrect` | `[]TypeOK` |
| `AnnouncedOnce` | `[]ReservedAnnouncedOnce` |
| `ReservedAsDemanded` | `[]ReservedIsDemanded` |
| `NoUnitPromisedTwice` | `[]UnitsPromisedOnce` |
| `RefusalIsFinal` | `[]NeverBothAnswers`, where nothing is restocked and no two handlers are at work on one order |
| `CommitsAreAnswered` | `[]CommittedIsAnswered`, where no handler gives up on an error |
| `Invariant` | `[]IndInv` |

The argument: a row lock has one holder (`LocksExclusive`), so the copy a transaction checks
and changes is the row as it is (`CopiesCurrent`). Moving units from available to reserved
keeps their sum in the copy, and so in the table when the copy is written back (`Conserved`:
a sum over the table alone would not say what a commit is about to write). That available
units stay non-negative follows from the check per line (`ReserveLine`), whatever lines name
one SKU. An order has one stock.reserved row if it is marked and none if it is not
(`Announced`); two handlers of one message can both pass the early check, and the second
`Write` fails on the key.

`ReservedIsDemanded` compares a sum over all processed orders with units that were moved one
line at a time. `Ledger` says how far a transaction has come: what it has drawn from a row is
what the lines up to its position ask of it. When it commits, its order's demand joins the
sum; when it does not, nothing has changed. `UnitsPromisedOnce` then follows (`PromisesKept`):
reserved units are the demand of the processed orders, those are the announced ones, and
available and reserved add up to what the SKU was ever stocked with. That sum alone is no
property worth checking: two reservations of which one overwrites the other leave it as it was.
The sums are folds over sequences and sets. `Sums`
shows what a fold is whatever order it goes through its set: the induction that needs is taken
from the theorem that a well-founded relation has minimal elements, which is stated with sets
and not with a predicate.

The two conditional theorems say exactly what the violated runs `inventory_both` and
`inventory_lost` violate. `Refusals`: a refused order has a line that the available units do
not cover, alone or with the lines before it (`Uncoverable`), and it is not processed. Where
nothing gives units back an uncovered line stays uncovered (`UncoverableStays`); so does the
order a handler is about to refuse, unless its twin commits meanwhile, and there is none.
`Progress`: all messages up to the committed offset are answered, and of the messages up to
the group's position only the one in the owner's hands may lack an answer; a zombie is behind
that, so that its late commit may move the offset back but never over a message without an
answer.

`NotificationServiceProofs` proves, for any number of instances, orders, messages and faults:

| Theorem | States |
|---|---|
| `TypeCorrect` | `[]TypeOK` |
| `NoFreeRepetition` | `[]RepeatedOnlyAfterRollback` |
| `NoEmptyMark` | `[]MarkedIsNotified` |
| `Invariant` | `[]IndInv` |

The argument: between its `INSERT` and the end of its transaction a handler has the key to
itself (`KeyHeld`). Every notification was lost with its transaction but one, which is
pending in the one open transaction or marked (`NotifiedOnce`); a handler that may notify
holds the key, so none is.

`OrderRequestsProofs` proves, for any number of requests, carts and connections and any range
of amounts:

| Theorem | States |
|---|---|
| `TypeCorrect` | `[]TypeOK`, in it that no transaction is open once main has closed the pool |
| `Truthful` | `[]CreatedIsStored` |
| `NoFailureWithoutExcuse` | `[]FailureIsExcused` |
| `ChargedExactly` | `[]TotalIsExact` |
| `Invariant` | `[]IndInv` |

The argument: the properties speak of what a client was told, and the code of what happens at
the other end of two calls. `IndInv` follows a result on its way: how far each end can be as
the other sees it (`EndsOK`), what a result or status stands for in the table (`RowOK`), the
excuse it carries (`ErrorOK`), and why a handler can still run at each stage of the two
shutdowns (`StopOK`: only because the time was up). It has these parts because no two of them
can be carried through a step without the others.

`ChargedExactly` has an invariant of its own on top of it (`Charged`): a cart that has come as
far as the transaction obeys the binding rules, and a row has the total of the cart that was
sent. What is left is arithmetic for carts of any length: `TotalUp` and `PriceUp` turn the two
folds into steps from one line to the next, and `TotalFits` carries them side by side. Prices
and quantities are positive, so a price that fits in the end fits all along, and no product
and no sum on the way wraps. Without the binding rules a total could be below the range and the
theorem would need a second bound.

`OrderListingProofs` proves, for any orders, clocks, page sizes and clients:

| Theorem | States |
|---|---|
| `TypeCorrect` | `[]TypeOK`, in it that a cursor is the key of the oldest order shown |
| `NoRepetition` | `[]ShownOnce` |
| `NoGaps` | `[]NothingSkipped` |
| `Refinement` | `ImplementsTraversal` |

The argument: keys are total and do not change, so all that was shown is at or above the cursor
and all that was there and was not shown is below it. `IndInv` adds that committed rows have
keys, and what holds before the first page.

`MarketplaceProofs` proves of both services together, for any orders and stock, any number of
processes on either side, all faults and every bound:

| Theorem | States |
|---|---|
| `TypeCorrect` | `[]TypeOK` |
| `ConfirmedIsReserved` | an order that is CONFIRMED has its units reserved |
| `UnitsAddUp` | the reserved units are those of the reserved orders, and what is left for sale was promised to none |
| `VerdictsMatch` | `[](NeverBothAnswers => VerdictMatchesStock)` |
| `NeverBoth`, `VerdictsAgree` | `[]NeverBothAnswers` and `[]VerdictMatchesStock`, where no two consumers are at work on one order |
| `OneConsumerAgrees` | both, without that condition, for one inventory process |
| `CommitsAreAnswered` | `[]CommittedIsAnswered`, where no inventory handler gives up on an error |
| `EnvironmentsMeet` | each service is what the other one's theorems ask of an environment, for topics of any length |
| `EachServesTheOther` | `ServicesFit`, as long as the topics are within the services' bounds |
| `Invariant` | `[]IndInv` |

`MarketplaceProofs` instantiates the proof modules of the two services (`OSP`, `ISP`) and uses
their theorems instead of proving them again. A definition that is instantiated twice has two
names, and the lemmas that begin with `Same` show that they agree. Every step of `Marketplace`
is an open step of each service or leaves it alone (`OrderSide`, `StockSide`): what one of them
publishes is what the other's environment may do, for which the inventory has to know that the
order service publishes nothing but orders, and the order service that answers are about
published orders (`AnswersKnown`). So the invariants of both hold of the whole, and the
conditional theorems of the inventory with them: nothing restocks in `Marketplace`.

A verdict is followed back through both services, one link for each place it was stored in: a
final status was a message in a result topic (`VerdictIsAnswer`), a message there was a row of
the inventory's outbox of that type (`ResultIsAnswer`), and a row that announces a reservation
was written with the mark of its order (`ReservedIsMarked`). No link alone is inductive, and
each needs to know that what a worker has locked and what a handler works on is still there:
outbox and topics only grow (`Appended`, `AnswersGrow`).

The proofs assume of the constants what the `ASSUME` of each module says and nothing else; TLC
evaluates these on every run.

Only model-checked:

* Liveness, which needs fairness and ENABLED, and is out of the prover's reach:
  `EveryEventIsSent`, `ResultTakesEffect`, `EveryOrderAnswered`, `EveryEventNotified`,
  `BegunIsAnswered`, `ProcessesExit`, `TraversalEnds`.
* That the conditions of the conditional theorems are needed: `inventory_both` violates
  `NeverBothAnswers` with two handlers on one order, `inventory_lost` violates
  `CommittedIsAnswered` with one failing call. In `marketplace_system`, with one inventory
  process and no failing call, both hold without them, and the restock of
  `inventory_concurrent` is outside what `NeverBoth` is about.

## 5. What else the code says

Disagreements and surprises met while modelling that no run violates, for a reader of the code:

* `GET /orders/:id` of an unknown order is documented as 404; through the gateway it is a 500,
  since `mapDomainErrToGRPC` makes Internal of "no rows". The order service's own server does
  the opposite and answers 404 to every error, a database that is down included.
* A name longer than its column is no 400 but a 500.
* `GetByID` reads the order and its items in two statements and does not ask `rows.Err`: a
  connection that breaks gives an order without some of its items and the status 200, which the gateway
  caches for the life of an entry. `ListByCustomer` gives a cut page that looks like the last.
  `ports/repository.go` calls an order a whole aggregate; the list has no items at all.
* A POST is not idempotent: the server makes the id, and a client that got a 500, a 503 or nothing
  cannot ask whether its order exists.
* The five seconds of a shutdown are shared: a slow upload at the HTTP server leaves no time to
  the gRPC server. No database call has a timeout, so that `pool.Close` waits as long as
  PostgreSQL lets a transaction wait.
* Totals of two currencies and totals beyond 64 bits are stored without an error.
* A refused order that is delivered again after a restock is reserved as well, and
  `Stock.Release` has no caller.

## 6. Plan

Done: the order service, the inventory service, their composition, the notification service,
the gateway's cache and limiter, the request path with both shutdowns, the listing; proofs about
each of them.

Left, in this order: `Marketplace` with restocks and a second inventory process, to state what
can be relied on when an order is answered twice; several partitions per topic; the gateway's
cache inside `OrderRequests`, where a cut answer could be followed through an entry's life.

Not modelled and why: protobuf code and swagger text (generated, no state of their own), mocks,
metrics and logging (nothing reads them back), start-up (a process that cannot start serves
nobody). Kafka, PostgreSQL, Redis, net/http and grpc-go are external and modelled by the contract
that the code relies on. Components with their status are in `PROJECT.json`.
