# Orders, payments and notifications in TLA+

A verification development for the three Go services of this repository:
the **order service** takes orders over HTTP and pays them, the **payment
service** authorises payments over gRPC and HTTP and announces them on RabbitMQ,
and the **notification service** turns those announcements into e-mails. Paths
below are relative to the repository.

## 1. The system

| Component | State | Operations |
|---|---|---|
| Order use case, `order-service/internal/usecase/order_usecase.go` | none of its own; one goroutine per request | `CreateOrder`, `GetOrder`, `CancelOrder`, `MarkPaid` (no caller yet) |
| Order repository, `.../repository/postgres_order.go` | table `orders`, UNIQUE `idempotency_key` | `Create`, `GetByID`, `GetByIdempotencyKey`, `UpdateStatus` (UPDATE, then NOTIFY) |
| Order cache, `.../cache/redis_order_cache.go` | Redis `order:<id>`, TTL | `Get`, `Set`, `Delete` |
| Payment client, `.../app/payment_grpc_client.go` | a connection | `AuthorizePayment` (2 s), `ListPayments` (5 s) |
| Event bus and streaming, `.../repository/event_bus.go`, `.../transport/grpc/server.go` | subscribers' channels of capacity 10 | `listen`, `Subscribe`, `Unsubscribe`, `Stop`, `SubscribeToOrderUpdates` |
| Rate limiter, `.../middleware/rate_limiter.go` | Redis counters per identity and minute | one middleware: INCR, EXPIRE, verdict |
| Order main, `order-service/cmd/order-service/main.go` | life of the process | signal, `GracefulStop`, deferred closes |
| Payment use case, `payment-service/internal/usecase/payment_usecase.go` | none of its own | `AuthorizePayment`, `GetPaymentByOrderID`, `ListPayments` |
| Payment repository, `.../repository/postgres_payment.go` | table `payments` | `Create`, `GetByOrderID`, `List` |
| Publisher, `.../messaging/publisher.go` | mutex, AMQP channel | `PublishPaymentProcessed` (3 attempts), `Close` |
| Payment main, `payment-service/cmd/payment-service/main.go` | life of the process | signal, `GracefulStop`, deferred closes |
| Consumer, `notification-service/internal/messaging/consumer.go` | channel `jobs`, worker pool, AMQP deliveries | `Run`, `handle`, `Close` |
| Worker, idempotency, retry, providers, `notification-service/internal/{service,retry,provider}` | Redis `notif:idem:<payment>` | `Process`, `Acquire`, `Release`, `Do`, `Send` |

**How they interact.** The order service calls the payment service
synchronously (gRPC). The payment service stores a payment and then publishes
an event; no transaction spans the two. The broker delivers the event at least once to the
notification service, which deduplicates by a Redis key. Inside the order service each
status update is followed by a NOTIFY, which the bus hands to the streaming RPCs. Requests of
the order service meet only in Postgres and in Redis, the limiter's counters included.
Streams meet `listen` under an RWMutex. Calls of the payment service meet in Postgres and in the
publisher. Workers of the notification service meet in the channel `jobs` and in Redis.

**What is hard.** Every operation is a sequence of remote calls with other
requests between any two of them, and each call can fail, or succeed without
its answer arriving. The status of an order is checked and written by different
statements; the cache is filled after a read that may be old by then; three
mechanisms of deduplication (a UNIQUE column, a mutexed loop, a SETNX) carry the
"once" of the system; three processes shut down with work in flight.
`PROJECT.json` lists each of these at its line, under `hazards`.

**What makes each component correct.**
* Orders: one charge per idempotency key, and one order shown for it; a settled
  order keeps its outcome; nobody is shown Paid or Failed of an order that is not, or does
  not stay so until a cancellation; the row agrees with the gateway; requests end, orders do
  not stay Pending, the cache converges.
* Payments: replies and events match committed payments; no event twice; the
  publisher is exclusive, closed under nobody, and no call starves behind it;
  shutdown ends and lets RPCs finish.
* Streams: updates of one's own order only, in order, none twice, none missed but
  for a full channel or a lost connection; no stream holds up another; no send on a
  closed channel, no leaked subscriber.
* Limiter: no more than the limit in a minute, nobody refused for others' requests,
  counters go away.
* Notifications: at most one e-mail per payment; no event lost silently, none
  stuck; no key kept by a worker that failed to send; the pool always drains.
* Both services together: an order that is Paid was charged, one whose creator heard a decline
  was not, and one that Failed only if its call ended without an answer.

## 2. The modules

| Module | Models |
|---|---|
| `OrderService` | the order service: requests over Postgres, Redis, NOTIFY and the gateway |
| `OrderLifecycle` | what it promises about the life of an order; `OrderService` implements it |
| `PaymentService` | the payment service: calls, the publisher under its mutex, shutdown and restart |
| `Checkout` | the two composed, through the gRPC call and its two seconds |
| `Purchase` | what the two promise together about orders and money; `Checkout` implements it |
| `EventBus` | the LISTEN connection, `listen`, the streams, and the order service's shutdown |
| `RateLimiter` | the middleware over Redis counters, a clock and expiring keys |
| `NotificationConsumer` | the notification service: broker, dispatcher, pool, idempotency, retries, crash, signal and connection loss |
| `OncePerPayment` | what it promises about a payment; `NotificationConsumer` implements it |
| `OrderServiceProofs`, `OrderLifecycleProofs`, `PaymentProofs`, `CheckoutProofs`, `PurchaseProofs`, `EventBusProofs`, `RateLimiterProofs`, `NotificationProofs` | theorems with their proofs |
| `MC...` | values of the constants for TLC, one module for each specification with runs |

Operators under a comment "Mutant:" are plausible mistakes in the definition below
them. No specification uses them: a run that used one in its place would
find the property violated that `PROJECT.json` names with it.

### 2.1 OrderService

A request `r` has an operation `op[r]`, a control point `pc[r]` naming the remote
call it makes next, and the local order it holds, as `subject[r]` (its ID) and
`status[r]`. `orders`, `cache` and `notified` are Postgres, Redis and what was
sent on `order_updates`. Orders are named by the request that creates them, for
`uuid.New()` never repeats.

One action is one remote call with the code up to the next one:
`CreateOrder` is `RejectAmount` or `BeginCreate`, then `LookupKey`, `Insert`,
`PaymentAnswered` or `PaymentError`, `UpdateStatus`, `Notify`, and `Fill` (paid) or
`Invalidate` (every other end). `GetOrder` is `CacheGet`, `Load`, `Fill`;
`CancelOrder` is `Load`, `UpdateStatus`, `Notify`, `Invalidate`; `MarkPaid` is
`UpdateStatus`, `Notify`, `Invalidate`.

A call ends `"ok"`, `"lost"` (not applied, error) or `"late"` (applied, error);
the instance says which. A late effect takes place at the call, not after the
request has gone on. Once a request's context is cancelled (`Disconnect`) all its
calls are lost. `Expire` is the TTL, `Crash` the death of the process.

Left out: bodies, customer and item; a nil cache (main always passes one); the
deletion of a cache entry that is not JSON, since only `Set` writes these keys.
The gateway is free to answer anything at any time; `Checkout` puts the payment
service in its place.

`OrderLifecycle` says the same of one order without replies, keys, caches and failing calls:
`Place`, `Hear` (the gateway's answer, once), `Settle` (by that answer, once),
`Admit` and `Cancel` (a check that saw Pending, and an UPDATE some time later),
`MarkPaid`, `Abandon`. The mapping reads `open` and `admitted` off the control points: a
creator between INSERT and UPDATE, a canceller between its check and its UPDATE.

### 2.2 PaymentService

A call is one goroutine; payments are named by the call that makes them.
`BeginCharge` decides the status and draws `created_at` (the sequence `created`
is the order of those stamps, from one clock), `Insert` stores the row, `Lock`
takes `Publisher.mu`, `PublishAccepted`, `PublishVanishes` and `PublishFails` are
the ends of one attempt, `Sleep` the pause under the mutex. amqp091-go ignores
the context, so a client that has gone does not stop a publication, and it
never reopens a channel, so `"down"` lasts until the process restarts. `main` is
`Stop` (the signal), `LockPublisher` (`GracefulStop` has returned and the deferred `Close`
has the mutex), `CloseChannel` and `CloseConnection` (its two calls of the broker, each of
which takes its time under the mutex), `Exit` and `Restart`. HTTP is never told to stop:
its calls run on until `Exit` ends them, and one that locks the publisher after
`Close` panics on the nil channel, which `gin.Recovery` answers.

### 2.3 Checkout

`OrderService` and `PaymentService` are instantiated over one set of variables; the call
of request `r` is named `r`. The environment of each is tied to the other:
`ReceiveCall` begins a charge because `r` has `Sent` it, possibly after `r` has given
up; `ReceiveReply` is `PaymentAnswered` with what the call replied;
`PaymentError` stays possible at any time, since the two seconds may run out before,
while or after the payment is made; `CallCancelled` is the deadline reaching the payment
service. Each process dies and restarts by itself.

`Purchase` says what a customer may rely on, with no word of calls, deadlines and crashes: the
life of an order is `OrderLifecycle` (instantiated), and around it a key is good for one
order (`Place`), an order that exists is charged at most once, perhaps after its creator is gone
(`Charge`), its creator hears the outcome of that charge or an error (`Hear`), an authorised charge is
announced at most once (`Announce`), and nothing else touches money: a cancellation gives none
back. The mapping reads `key` off the requests and `announced` off the queue.

### 2.4 EventBus

The n-th NOTIFY about order `o` is the update `[order, n]`; `wire` is `listener.Notify`. `Take`,
`RLock`, one `DeliverTo` per subscriber and `RUnlock` are the loop of `listen`; the
critical section lasts from `RLock` to `RUnlock`, during which `Subscribe` and
`Unsubscribe` wait (`CanLock`). A stream is `Open`, `Subscribe`, then `TakeEvent` and `Send` in
turn, and `Leave` with the deferred `Unsubscribe` once its context is done. A `Send` to a
client that does not read never returns: no fairness is assumed of it.
`LoseConnection` drops a suffix of what is under way and all that is notified before
`Reconnect`, which puts pq's nil notification on the wire; at most `MaxReconnects` of these
markers wait there at a time, a bound of the model. `Stop`, `StopBus` and
`Exit` are main's `GracefulStop`, which waits for the streams, and its deferred calls. `since` is
a history variable: how far `listen` was when the stream subscribed; so is `overflowed`, the
updates that came for a stream at a moment when its channel was full.

Left out: payloads other than `id:status` (only `UpdateStatus` notifies), the
status in the update (`OutcomesShownHold` is about it), buffers of gRPC and TCP,
which make a client's share of `Send` longer and change nothing else.

### 2.5 RateLimiter

The clock goes in ticks, `Window` of them to a minute. `Arrive` makes the key from the time,
`Incr` and `Expire` are the two commands, `Judge` the comparison with the limit; a command
whose reply does not come lets the request pass (`"open"`). Each try of a command may be lost, be applied without a reply, or be applied and
sent again (`SendAgain`) by go-redis, up to `MaxRetries` times: `app/redis.go` leaves that at
the library's three. `hits` is a history variable, the INCRs the server has applied. Between
`Arrive` and the end a request sees at most one tick begin: its commands share a context of
200 ms, with which the repetitions end too. `KeyExpires` lags at most the tick of the deadline. Left out: the headers, and the order of routes.

### 2.6 NotificationConsumer

`where[m]` is the broker's view of an event; `inbox`, `held` and `jobs` are the
client library's buffer, the delivery in `Run`'s hands and the Go channel. `Run`
is `Receive`, `Enqueue`, `Drain` and `Finish`. A worker does `TakeJob`,
`Acquire`, `Send` and `Sleep` up to `MaxAttempts` times, `Release`, `Settle`, and
`ExitWorker` when the channel is closed and empty. Unacknowledged events return
to the queue when the connection or the process ends; acknowledgements on a lost
connection have no effect. Under a cancelled context Redis commands fail without being
sent. A command may also be applied without a reply and sent `"again"` by go-redis itself, up to
`MaxRetries` times (main leaves that at its default), a step of its own with other workers going on
in between: a SETNX then finds its own key, and a DEL, which checks no owner, deletes the
key that another worker has taken since. `stolen` is a history variable, the
payments this has happened to.

Left out: the TTL of the keys (a day), replaying the DLQ (nothing in the
repository does), several replicas (compose names the container). E-mails are
counted up to two.

`OncePerPayment` is the abstract claim: `Claim`, `Send`, `GiveUp`, `Die`, and `Break`, a claim
taken away from outside, after which nothing is promised of that payment. `taken` is the
Redis key, `owners` are the workers between `Acquire` and the end of their attempts (the first
DEL that is applied included), `void` is `stolen`.

## 3. The runs

Each run is a `.cfg` of its name. All bounds are sets of model values in the MC
modules. No run reaches a deadlock that matters: every model stops when its
finitely many requests are done, hence `CHECK_DEADLOCK FALSE`.

| Run | Instance | Shows |
|---|---|---|
| `order_faults` | 3 requests of any kind, `MarkPaid` too, 1 key, amounts 0 and 1, every Postgres and Redis call `ok`, `lost` or `late`, clients that leave | `OutcomesShownHold`, `OneChargePerKey`, `IdempotentReplies`, `RowAgreesWithGateway`, `OutcomeIsFinal`, and that `OrderLifecycle` is implemented |
| `order_live` | 3 requests, reliable statements, a gateway that may time out, Redis commands that are lost or whose replies are, death of the process | `CacheConverges`, `NoOrderStaysPending`, and that `IndInv` (types included) is invariant, which section 4 proves for every kind of fault |
| `checkout` | 2 requests, 1 key, amounts 0, 1, 2; both processes crash, statements of the order service are lost, replies to those of the payment service are lost, broker down, calls given up | `OutcomesFollowPayments`, `ChargedOrdersAreOwned`, and that `Purchase` is implemented |
| `event_bus` | 2 streams, 2 orders with 2 and 1 updates, channels of 1, one reconnect under way at a time, shutdown | types, `NoSendOnClosed`, `NoLeakedSubscriber`, `UpdatesInOrder`, `OnlyOverflowLoses`, `ListenKeepsUp`, `ShutdownNeedsClientsOnly` |
| `rate_limit` | 3 requests of 2 users, limit 1, minutes of 2 ticks, two minutes, every try of a command `ok`, `lost`, `late` or sent `again` up to twice, crash | `LimitPerWindow`, `RefusedForOwnRequests`, `CountersExpire` |
| `payment_faults` | 2 calls of any kind, all failures, shutdown, crash, restart | types, `EventsAreAuthorizedPayments`, `RepliesMatchPayments`, `PublisherIsExclusive`, `CallsEnd`, `ShutdownCompletes` |
| `payment_shutdown` | 3 calls, broker up, shutdown, crash, disconnect | `NoRpcPanics`, `AuthorizedIsAnnounced`, `ReadsFollowReplies` |
| `notify_faults` | 3 events (2 of one payment), 2 workers, 2 attempts, all failures, Redis commands sent again once | types, `AtMostOneEmail`, `OneWorkerPerPayment`, `DrainEnds`, and that `OncePerPayment` is implemented |
| `notify_settled` | 3 events (one invalid), 2 workers, 2 attempts, signal, late replies of Redis, a DEL sent again up to three times | `DeliveriesFitThePool`, `NothingIsLost`, `EveryEventIsSettled`, `FailedAttemptsFreeTheKey` |

**Why these bounds.** The races of an order are between its creator, a
canceller and a reader, or a second creator with its key: three requests hold
every such triple, on one order or several. In `checkout` the pairs that matter are a request
and its repetition with the same key, and a creator and a canceller. A channel of one
overflows at the second update; a second order tells the orders apart; two streams are one
that is served while another comes or goes. Three requests with limit 1 go over it with one to
spare, and four ticks are two minutes: a request between two of them, counters that expire at
once and one made anew. With two repetitions one INCR is applied three times, enough to use up the
limit alone and go over it; `RefusalsJustified` covers every number. The publisher's mutex and its
closing need one call inside and one waiting; a read after two payments needs
three calls. A duplicate needs two events of one payment and two workers, a third
event keeps the pool busy; one repetition of a DEL is enough to take another worker's key; two
attempts have a first, a last and a pause. Amounts
0, 1 and 2 with limit 1 are the three sides of the two comparisons.

**Fairness.** Goroutines that can run do, Postgres and Redis end each command
(one way or another), the payment call ends by its timeout, `sync.Mutex` and
`sync.RWMutex` starve nobody, cached values expire, the broker delivers, docker restarts a
process that crashed. Of the broker it is also assumed that a write to its socket returns, since
a publication has no deadline of its own, and that `channel.Close` and
`conn.Close` are answered or cut short by a connection that breaks (AMQP heartbeats end one
that is silent): `CallsEnd` and `ShutdownCompletes` rest on that. `DrainEnds` and `EveryEventIsSettled`
rest on `Send` coming to an end: the simulated sender, which compose configures, always does;
the SMTP one has no deadline and may wait for a silent server until the signal. Nothing makes a client call, read or leave, the gateway answer, a signal
come, an order change, Postgres reconnect, or anybody start a process that exited with status 0.
Weak fairness of whole handlers is enough, since a request has one next call.
Two liveness properties name what is not assumed: `NoOrderStaysPending` excepts orders whose
creator died, and `ShutdownNeedsClientsOnly` says that shutdown waits for connected streams and
for nothing else, as long as they like. `order_live` has reliable statements and contexts that
are not cancelled: with a lost UPDATE an order does stay Pending, as `order_faults` models.

**Disagreements found** (runs that expect a violation):
* `order_stale`: `order_usecase.go:29-31` promises that after the DEL no reader
  gets a stale entry. A reader that took the row before the UPDATE writes it to the
  cache after the DEL. What does hold is `CacheConverges`, and
  `OutcomesShownHold` of what readers are shown.
* `order_cancel`: only Pending orders can be cancelled (`order-service/README.md:19`),
  but the check and the UPDATE are two statements, and the creator's UPDATE to Paid
  fits in between. What does hold is `OutcomeIsFinal`.
* `notify_crash`: "at-least-once, without losses" (`idempotency.go:44-46`) fails
  when the process dies between SETNX and the e-mail. What does hold without a crash
  is `NothingIsLost`.

Some more show in the passing runs. Every listing of payments fails, for its query names the
column `customer_id`, which the migration does not create; `ListPayments` models that. And "release the
lock so that a later redelivery works" (`worker.go:47`) does not hold during a shutdown,
where `Release` has a cancelled context, nor after a SETNX that was applied without a reply:
`worker.go:35-36` dead-letters the event and leaves the key. `FailedAttemptsFreeTheKey` states the
first exception and is not about the second. "Atomically reserves" (`idempotency.go:29`) is broken
by a repeated DEL, which deletes another worker's key; a further duplicate may then send a second e-mail, and
`AtMostOneEmail` and `OneWorkerPerPayment` except the payments in `stolen`. An INCR that is sent
again counts each time: a user may be refused after fewer requests than the limit, and since the
reply is not 1 nobody sends EXPIRE. A cancellation that was answered 200 may be overwritten by the
creator's Paid or Failed (`order_usecase.go:89`), so that `OutcomesShownHold` promises little of a
shown Cancelled; a charged order may be Cancelled, whatever its creator heard, or stay Pending.

## 4. What is proved

`OrderServiceProofs` proves, for every set of requests, keys and amounts, every
choice of failing calls, crashes and disconnects, and with `MarkPaid`:

| Theorem | Statement |
|---|---|
| `TypeInvariant` | `Spec => []TypeOK` |
| `ControlInvariant` | `Spec => []Control`: types, `LocalState` and `RowState` of every request |
| `OutcomeStays` | `Spec => OutcomeIsFinal` |
| `OneCharge` | `Spec => []OneChargePerKey` |
| `OutcomesStayShown` | `Spec => []OutcomesShownHold` |
| `SameOrderForKey` | `Spec => []IdempotentReplies` |
| `RowFollowsGateway` | `Spec => []RowAgreesWithGateway` |
| `CreatorsAreTold` | `Spec => []AllTold`: a creator answered 201 or 422 has settled its row, any other is told 500 or 503 |
| `Invariant` | `Spec => []IndInv` |

The only assumption is `ConstantsAssumption`: the kinds, outcomes and
environment events are the named ones, no key is `NoKey`, amounts are integers.

**The argument.** `TypeOK` is not inductive alone: `UpdateStatus` stores
`status[r]`, which `TypeOK` allows to be `"None"`. With `WritesStatus` (a request
that is about to write holds a status) it is. On it rests `Control`: what each
control point says of the request (`LocalState`) and of the row of the order it
creates (`RowState`). The centre of `RowState` is that only the creator settles
an order, once: while it is about to, the row is Pending or Cancelled. This gives
`OutcomeIsFinal` step by step.

`OutcomesShownHold` says `orders[id] \in MayBecome[view]` of every view: a view Paid leaves
Paid and Cancelled, a view Failed Failed and Cancelled, a view Cancelled all but Pending. That is
not inductive: of a view Failed it leaves the row free to be Cancelled, and of
a Cancelled row it does not know that its creator will not write Paid. The strengthening `Supported` ties a view to the gateway's
answer, which never changes: a view Paid needs `answer = "Authorized"`, a view Failed a
decline or an error. It is kept for statuses in flight between a read or a commit
and its publication, in the cache, in replies and in notifications.
`RowsDifferInKey` is the UNIQUE constraint as a fact of the table; with it, and with
"who charges has a row", there is one charge per key. `ReplyState` ties a 201 to
the creator's order or to one with its key.

`OrderLifecycleProofs` proves `LifecycleImplemented`: `Spec => ImplementsLifecycle`. Each
action maps to one of the abstract ones or to a stutter; what a step needs of the state (a
creator about to update finds its row Pending or Cancelled, the answer it writes by) is
`Control`.

`PaymentProofs` proves, for every set of calls and orders, every limit and all failures:
`TypeInvariant`, `EventsAreTrue` (`EventsAreAuthorizedPayments`), `RepliesAreTrue`
(`RepliesMatchPayments`), `Exclusive` (`PublisherIsExclusive`), `RpcsAreSafe`
(`NoRpcPanics`), `Announced` (`AuthorizedIsAnnounced`) and `ReadsFollow`
(`ReadsFollowReplies`). `CallState` says what a call has stored, published and replied
at its control point; `MutexState` that exactly the call in the publisher holds it, that
the channel is there while it does, and that main holds it from `LockPublisher` until the connection
is closed; `AnnouncedState` that without a broker failure an
authorised payment beyond its publication is in the queue. `ReadsFollow` also needs that the
newest row exists, since positions in `created` are naturals bounded by its length.

`CheckoutProofs` proves that the composition is each of its parts: `OrdersAsAlone`
(`Spec => O!Spec`) and `PaymentsAsAlone` (`Spec => P!Spec`). Every step of the payment
service is a stutter of the order service, which cannot tell it from a gateway that answers and
fails as it likes; the calls of the order service are those of clients that leave
when they like. So the theorems above hold of the composition, and `TypeInvariant` and
`LifecycleImplemented` (`Spec => O!ImplementsLifecycle`) follow. What neither service
knows alone is `Tied`: the answer a request acts on is the reply of its own call, and no
call begins before the row of its order is there. It is inductive since a call is answered once
(`ReplyStays`) and a row never goes (`RowStep`). With it
* `OutcomesFollow` (`OutcomesFollowPayments`) joins `RowState` (the row follows the answer) to
  `CallState` (the reply is what was stored);
* `OnePayment` (`OnePaymentPerKey`) is the UNIQUE column of the one database carried over to
  the other;
* `ChargesAreOwned` (`ChargedOrdersAreOwned`) rests on `CreatorsAreTold`;
* `PurchaseImplemented` (`Spec => ImplementsPurchase`) takes a step of the order service to the
  step of `OrderLifecycle` that `OrderLifecycleProofs` finds for it, and adds what `Purchase`
  asks beyond: of `Place` the UNIQUE column, of `Hear` the tie, each in the state the
  step leads to. A step of the payment service stores one payment, announces one, or does
  neither (`MoneyStep`).

`PurchaseProofs` shows that the abstract specification is worth implementing: `OneCharge`
(`ChargedOncePerKey`), `OutcomesFollow` (`OutcomesFollowCharges`) and `Announcements`
(`AnnouncedIsCharged`) hold of every order, key and cancellation in it. Its invariant ties the
row to the answer, the answer to the charge and the charge to the row (`Follows`).

`EventBusProofs` proves, for any number of streams, orders and updates and every capacity:
`TypeInvariant`, `SendsAreSafe` (`NoSendOnClosed`), `NothingLeaks`
(`NoLeakedSubscriber`), `InOrderDelivery` (`UpdatesInOrder`) and `LossesAreOverflows`
(`OnlyOverflowLoses`). The invariant `IInv` has six parts. `BusState` ties the
map of subscribers to the control points of the streams and what is being served to the map: the
writers' steps are disabled while `listen` serves. `WireState` and `NoGaps` say that what is on the
wire is in order, follows what is in hand, and that of one order nothing was handled after
something that is still due. `StreamState` carries that order along received, held and
buffered updates: all of them come before everything still to come. `MissedState` is the invariant
behind `OnlyOverflowLoses`: an update that `listen` has given to a stream is in its view or came
when its channel was full, and a view loses nothing before the stream ends; a new subscriber
is owed nothing (`NewSubscriber`, from `NoGaps`).

`RateLimiterProofs` proves, for every finite set of requests, every limit, length of the minute and
horizon: `TypeInvariant`, `LimitHolds` (`LimitPerWindow`), `RefusalsJustified`
(`RefusedForOwnRequests`) and `CountersGo` (`CountersExpire`). The deadline of a counter lies in
a later minute than its own, so it stays through that minute; until then the number of requests that
passed on it is at most its value, and its value is at most the number of INCRs of its requests that
the server applied (`hits`), each of which adds one. Minutes are integer division, whose two facts are lemmas.

`NotificationProofs` proves, for every set of events, payments and workers and every number of
attempts: `TypeInvariant`, `Exclusive` (`OneWorkerPerPayment`), `OneEmail`
(`AtMostOneEmail`), `OnceImplemented` (`ImplementsOnce`, for a sender whose errors mean that
nothing was sent) and `PoolFits` (`DeliveriesFitThePool`). `Claims` is one owner per key: a
worker between `Acquire` and its first DEL holds its payment's key alone, and an owner has sent nothing
yet, of every payment whose key no repeated DEL has taken (`stolen`). `PoolInv` counts: what the process holds is among the unacknowledged deliveries of its
connection, and those are at most as many as there are workers.

Two more hold under hypotheses, which the theorems state. `NoEventIsLost` (`NothingIsLost`)
needs `NoCrash`: the process is at most stopped and started again, no SETNX is sent twice by
the client library, and the policy has an attempt to make. Without the first it is
`notify_crash`, without the others an event is acknowledged unsent. The invariant is
`Remembered`: whatever would hide a payment from later workers (its key, an event of it
that is acknowledged or about to be) comes with an e-mail, with an event of it in the DLQ, or with
a worker that is at it or about to dead-letter it. For that worker not to be
overruled by another one that settles the same delivery, a delivery is in one
place of the process only (`Unique`, over the queues, `held` and the workers' jobs).
`FailuresFreeTheKey` (`FailedAttemptsFreeTheKey`) needs that the process does not die and that no DEL is
lost; connections may be.

**Assumptions.** The model of a command is that it takes effect, if at all, while its client waits
for that try; one that a server applies after the client has given up on it is not modelled. Each
module's `ConstantsAssumption` (in `EventBus` also `NotUpdates`) and no other is used: kinds, outcomes and
environment events are the named ones, sets that are counted are finite
(`Requests` of the limiter), markers are not members of the sets they mark.
`Checkout` has those of its two parts.
`OnceImplemented` adds, as its hypothesis, that no send is applied and reported as failed:
`provider/simulated.go` is such a sender, `provider/smtp.go` is not always.

**Only model-checked:** the liveness properties (`CacheConverges`, `NoOrderStaysPending`,
`ListenKeepsUp`, `ShutdownNeedsClientsOnly`, `CallsEnd`, `ShutdownCompletes`, `DrainEnds`,
`EveryEventIsSettled`), which the prover cannot handle (nor `ENABLED`, on which fairness
rests). Every other property of a passing run is a theorem.

## 5. What is not modelled, and the plan

Not modelled: the arithmetic of the backoff's delays (a pause may end at any time; its bounds
are under `hazards`), bodies and wording of replies, HTTP headers, configuration and wiring,
generated protobuf code, what the demo client prints, the unused `ListByStatus`.

What could follow:
1. `EventBus` composed with `OrderService`: the status that the n-th update carries, so that the
   last update a stream gets can be compared with the row.
2. `Backoff`: the delays as a function, with the width of `int64`.
3. The outbox the payment service does not have (`hazards`: a payment stored and not
   announced) would be a new module next to `PaymentService`, to be compared with
   `AuthorizedIsAnnounced` without its condition.
