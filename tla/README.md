# Zippyra, the mall: verification project

TLA+ models of the backend services of this repository, TLC configurations that
check them on small instances, and TLAPS proofs, for every instance, of every
safety property that is checked. `PROJECT.json` maps every definition to the
source lines it stands for and lists the runs, the mutants of the code that
each property catches, the hazards, the findings and the theorems. Paths below
are relative to `src/platform/services/` unless they start with `src/`.

## The system

A customer walks into a store, binds to it by a QR code, scans products, checks
out, pays, gets an order and an exit token, and leaves through a gate that
checks the token. Each step is a Go service. Services share PostgreSQL and
Redis, talk over Kafka, and call each other by HTTP in a few places. Three
replicas of each run (`src/infra/kubernetes/services/*/deployment.yaml`), so
that the unit of concurrency is a request, a message or a background goroutine
in some replica, and the unit of atomicity is one SQL transaction, one Redis
command or one publish.

| Component | State | Operations | Interacts with |
|---|---|---|---|
| exit-validation-service | `exit_tokens`, Redis `exit_used:{hash}` | validate a token at the gate, staff override | gate (MQTT), store-service (occupancy), Kafka (alarms, departures) |
| payment-service: initiation | `payments`, gateway orders | initiate under an idempotency key, status, history | Razorpay, Cashfree |
| payment-service: ledger | `payments`, `payment_webhook_events`, `payment_outbox` | Razorpay and Cashfree webhooks, staff refund | gateways, outbox |
| payment-service: circuit breaker | three atomics per replica | select a gateway, record success and failure | gateways |
| payment-service: outbox relay | `payment_outbox` | poll, publish, mark, drain | Kafka |
| order-service: orders | `orders`, `order_items`, `exit_tokens`, offsets | consume `payment.confirmed`, retry, compensate; show and refresh the exit token; invoice | payment-service, exit-validation-service, object storage, Kafka |
| order-service: returns | `return_requests`, product stock | create, accept | payment-service (refund), Redis stock, Kafka |
| store-service | Redis `store_occupancy`, `store_session`, QR tokens, store cache | bind, exit, capacity, occupancy | exit-validation-service, cart-service |
| auth-service: OTP | Redis `otp`, `otp_attempts`, five rate counters | send, verify | SMS |
| auth-service: sessions | Redis `refresh:{user}:{device}`, token blacklist, `auth_sessions` | login, refresh, logout, list, revoke | every service's JWT middleware |
| cart-service | Redis cart hash, `stock:{store}:{product}`, checkout lock, cart snapshot | scan, remove, clear, coupon, checkout | store session, catalog cache |
| catalog-service | products, offers, recipes, Redis SKU cache, search index | read, sync, search | cart-service, search engine |
| shared libraries (`src/platform/shared`) | Kafka consumer offsets, Redis breaker | jwt, kafka, redis, validators, pagination, middleware | all |
| inventory, notification, analytics, loyalty, warehouse, support, admin, retailer, compliance and chain services | none | health endpoints only | none |

### What is hard in it, and what makes each component correct

*Exit validation.* A token is claimed in two stores that share no transaction.
Redis is optional (100 ms, then the database decides), either call may time out
with an unknown effect, and every publish is fire and forget. Correct: one
token opens the gate for one request of the customer and store it names; a
customer with a good token is not refused because of somebody's outage.

*Initiation.* Two requests under one key may both pass the check. The gateway
order is created before the row, outside any transaction. Correct: a key has at
most one payment, and every answer under it names that payment.

*Ledger.* Webhooks are delivered at least once, in any order, to any replica.
The event id is inserted in one statement and the event applied in another
transaction; each handler rewrites the whole row from a copy it read earlier;
the refund moves money between a check and a write. Correct: an event is
announced once, a row claims only what happened, an acknowledged event has been
applied, money is paid back once and recorded.

*Circuit breaker.* Three atomics are read and written one at a time, and the
gateway is selected twice per call. Correct: opens while Razorpay is down,
closes when it is back, and the row names the gateway used.

*Outbox relay.* Every replica polls the same rows without a lock; publish and
mark are two steps; the writer asks the brokers for no acknowledgement. Correct: a
row is marked only after it was sent, none waits for ever, and none is lost but
by the brokers.

*Orders.* Messages are redelivered; two messages may name one payment; the
order's transaction is followed by four steps outside it; a retry after the
commit sees the order and returns early. Correct: one order per payment, every
payment settled by an order or a saga event or by a publish of that event that was
refused, every token the gate is shown known to it.

*Returns.* Pending returns are looked for before one is inserted, the status is
read before it is written, and between them stock is restored item by item in
two stores, with an event each. Correct: units come back once, the stores agree,
money follows goods and never exceeds what was paid.

*Store.* The count of a store and the store of a customer are two Redis keys
written one after the other; the capacity is compared before the count is
raised; a count below 0 is set back to 0 in a second command. Correct: the count
is the number of customers inside, and never passes the capacity.

*Auth.* The code, its attempts, five counters, the hash of the refresh token, a
blacklist and a row per device are touched one at a time by requests of several
devices and by a goroutine. Correct: a code logs in once, guesses and sends keep
their limits, a device that was signed out stays out, the others stay in.

*Cart.* Stock is read and then lowered, a scan overwrites a line, a checkout
compares from one read of the cart and charges from another, and only time
releases its lock. Correct: units are conserved, none is checked out twice, one
order per lock, at the prices of the scan.

*Catalog.* A lookup reads the row and then stores the copy that an upsert in
between has dropped; the document of the index is written after the row.
Correct: cache, index and row agree when nobody is at work, and the cache never
goes back behind an upsert.

`PROJECT.json` lists the hazards one by one, each with its line.

## Modules

| Module | Models | Extends or instances |
|---|---|---|
| `OneTimeToken` | abstract: a token is claimed once, and only the claimant may open | |
| `ExitValidation` | `exit-validation-service/internal/service/exit.go` | refines `OneTimeToken` |
| `IdempotencyKey` | abstract: a key is bound once and for ever | |
| `PaymentInitiation` | `PaymentService.InitiatePayment` | refines `IdempotencyKey` |
| `PaymentLedger` | webhook handlers, `InitiateRefund`, the rows and the outbox rows they write | |
| `GatewayRouter` | the breaker and its use by `InitiatePayment` | |
| `OutboxRelay` | `outbox.go` and `main.go`'s shutdown | |
| `PaymentOutbox` | requests and relays side by side on `payment_outbox` | extends `PaymentInitiation`, instances `OutboxRelay` |
| `OrderFulfilment` | consumer, `CreateOrderFromPayment`, exit token service, invoice, token endpoint | |
| `OrderReturns` | `CreateReturn`, `AcceptReturn` and the refund request | extends `Heaps` |
| `StoreOccupancy`, `StoreViews` | `store.go` and its middleware; percentages, hours, distances, devices | |
| `AuthLogin`, `AuthViews` | codes, rate limits, login, refresh, logout; keys, versions, session lists | |
| `CartStock`, `CartViews` | scan, remove, clear, checkout; tax, offers, coupons, barcodes | extends `Heaps` |
| `CatalogCache`, `CatalogViews` | lookup, upsert, cache, index; search, category, sync, patterns | |
| `Heaps` | sums as cardinalities, for `OrderReturns` and `CartStock` | |
| `Queries` | what the database may answer to ORDER BY with LIMIT, for `StoreViews` and `AuthViews` | |
| `MC*` | constants of the runs: functions over model values, symmetry, samples; a first state for each sample | the module they check and its views |
| `*Proofs` | invariants, lemmas, theorems | the module they prove and its views, theorem modules of the library, `TLAPS` |

The `*Views` modules hold what a service computes without changing anything, as
operators on rows and keys, each with a property that compares it with another
definition of what it should be. Each also has the set of all inputs the service
may compute with (`ShownInputs`, `PricedInputs`, `AskedInputs`), most of them
infinite; a constant `Samples`, a subset of it; a variable `sample` that is one
of the samples; and a specification in which it stays so (`ShownSpec`,
`PricedSpec`, `AskedSpec`). The property is a property of `sample`. A theorem
thus states it for every input; TLC evaluates it on the samples the `MC` module
gives, in the same run as the service: there a behaviour is either one of the
service, with `sample.kind = "none"`, or a single state that holds an input.

What these inputs leave out, they leave out for a reason: a store has 1 to 199
places, since with 200 the percentage is rounded up to 100 one place too early; a
part of a version has at most 18 characters, which fit an integer of 64 bits; the
rows of a table that is shown in pages differ in the column they are sorted by,
since PostgreSQL may order equal ones differently from page to page, and there are
at most 9900 of them, since OpenSearch returns nothing behind its 10000th document.
Where the whole answer is one page, rows may be equal: a query is then the set of
answers the database may give (`Ordered`), and what is claimed is claimed of each.

Failures are chosen per behaviour: the variable `faults` holds one of the sets
in the constant `Scenarios` and never changes, and an action that stands for a
failure is enabled only if its name is in the set. One run can thus check what
holds under every failure together with what holds only without some of them
(`faults = {} => ...`). `OutboxRelay` and `PaymentInitiation` check nothing of
the second kind and have a constant `Faults` instead, which `PaymentOutbox`
calls `RelayFaults` for the former.

### ExitValidation

`usedBy[t]` is `is_used` of the token's row, with the request whose UPDATE set
it as a history; `exitUsed` is the set of tokens with a Redis key; `pc[r]` is
the step of `Validate` the handler of request `r` stands at. `Receive` is steps
1 to 3 (verification), `SetNX` and `SetNXError` step 4 (an error falls through
to the database, and the key may have been set), `UpdateTokenUsed` and its
error step 5, `SendOpen`, `SpawnDecrement` and `PublishCustomerExited` steps 7
to 9, `SendDeny` and `PublishReplayAlarm` the refusal. `SetNXRepeated` is the
Redis client repeating a command over a broken connection, which it does by
default. A publish whose error is discarded may or may not take effect.
`StaffOpen` and `PublishStaffOverride` are the override. The order service's
insert of a token (`Issue`), its expiry and the expiry of the key are actions
of the environment. The key outlives the token (one hour against ten minutes),
which is the guard of `KeyExpires`.

The RFID lookup of step 6 only logs, and the gate-status endpoint too: neither
changes anything. The occupancy call of the goroutine ends without effect on
this service's state.

### PaymentInitiation

`payments` is the set of requests whose row was inserted, `orders` the requests
for which a gateway order exists. A request checks the key, creates an order at
the gateway and inserts; the UNIQUE column makes the insert of a second row
under a key fail. `Insert` covers the transaction with its outbox row, which
`PaymentOutbox` hands to the relays. Errors may hide a commit. The choice of the
gateway is `GatewayRouter`'s.

### PaymentLedger

`row[p]` has the columns the handlers decide by or overwrite (status,
`gateway_payment_id`, `refund_id`); `snap[d]` is the copy that the goroutine in
slot `d` read, which is what it writes back. `Receive` is the insert of the
event id; `ReadForEvent` and `ApplyEvent` are the two halves of every
`HandlePayment*`; `MarkProcessed` is followed by the 200. An error is only noted
in the event's row (`noted` holds the ids whose row has an `error_message`), so
`ProcessError` goes on to mark. The same goes for an event that names no payment:
`known`, chosen at the start, is the set of payments whose events carry an id that
`GetByID` finds. Razorpay echoes `notes.payment_id`, which `CreateOrder` does not
send (`razorpay.go:50-55`), and Cashfree the order id, which `CreateOrder` makes
`cf_` and the payment's id (`cashfree.go:29`), so that as the service stands its
payments are not `known` unless the app adds the notes; both cases are checked.
`ReadForRefund`, `GatewayRefunds` (or `GatewayRefuses`, `GatewayTimesOut`) and
`RecordRefund` are `InitiateRefund`. `outbox[c]` counts the outbox rows an
event or refund has written. `Emit` is what a gateway may raise: an attempt is
charged or fails once, and a payment is charged once. `IdOf` maps events to
event ids: Razorpay's are unique, Cashfree's are made of order and status, so that two
attempts of one order that end alike share theirs, and an event of a type that is
not handled may share the id of one that is, for which
`AcknowledgedIsAccountedFor` makes an exception (`OutcomeId`). That property has
two parts: an id marked processed without a message has been announced, whatever
fails; and where database and replicas do not fail, what was answered 200 is
announced if the payment is known and has a message if not. `faults` names what a
behaviour may meet: failures, and `overlap`, without which the handlers of a
payment come in turn. In turn the row of a payment with a recorded refund goes on
naming one, and no refund is asked for while the row says REFUNDED
(`RefundStaysOnRow`). Side by side the code keeps neither promise: an event or a
second refund holding a stale copy takes the status and `refund_id` away and lets
the gateway pay twice. The model has those behaviours, and the property is silent
there; what is left is that every refund paid is announced (`RefundIsAnnounced`).
`gateway[p]` is the row's column, chosen at the start and never changed; each
gateway raises only its own kinds of events.

Left out: signatures, amounts, failure reasons, payloads, the audit tables that
no handler writes.

### GatewayRouter

Every atomic load, store and add is a step of its own. Time is a saturating
counter: `sinceOpenedAt` is the age of `circuitOpenedAt`. Nothing distinguishes
ages beyond `ResetAfter + 1` or more failures than `Threshold`, so both saturate.
The flag is stored before the time, so that another call may compare the clock
with the previous opening and close the breaker at once: no property claims that
it stays open for the whole window, and `Recovers` and `Trips` hold regardless.
Its type invariant also says what the labels say of the two selections: a call that
fails was one to Razorpay, and one that trips the breaker was recorded as such.

### OutboxRelay

Rows are natural numbers, ordered by `created_at`. `batch[r]` is what is left of
what the last poll of relay `r` returned; `deployed` is the set of replicas that
exist in this behaviour, one or more; `Current` is its oldest row. `Poll` takes at
most `Limit` rows. The writer of `producer.go` sets no `RequiredAcks`, for which
kafka-go takes `RequireNone`: a write that went well only means that the message is
on its way. `PublishOk` therefore ends with the row in `delivered` or, if Kafka
fails, with a row in `lost` that is then marked all the same. A `PublishError` may
hide a delivery, and so may a `MarkError` a mark. `Sigterm` makes the next turn the
drain, `Exit` is the end of the process (after the drain, or at any time by a crash
or because `main` does not wait for the relay). `Poison` rows are refused by Kafka
every time, for instance for a topic that does not exist (automatic creation is
off).

### PaymentOutbox

The composition of the two modules before. `committed`, a variable of the relay,
is here what `PaymentInitiation` says it is: `Created[p]` is the row that the
transaction of request `p` writes together with the payment, hence `RowsOf(payments)`.
A step is one of a request, which leaves the relays' variables alone, or one of a
relay, which leaves the requests' alone; nothing else is shared, in the model as in the
code. The relay alone (`Relay!Spec`) is a module about which theorems are stated;
its run is that of the composition.

### OrderFulfilment

A worker is a consumer of the group with the message it fetched. `UpsertOrder`
is the INSERT with ON CONFLICT: it waits while another transaction holds the
payment's row (`Locked`), returns early when the order exists, and goes on to
items otherwise; `CommitOrder` is the commit. `Issue` and `UpdateExitToken`
write the token, `PublishCompleted` the event, after which the invoice
goroutine runs by itself. `Retry` repeats the call up to `Attempts` times and
then `PublishCreationFailed`, `CommitMessages` follow. `Unsellable` messages
fail on every attempt. `GetExitToken`, `RefreshIssue` and `RefreshSave` are the
endpoint. A message whose offset is not committed may be fetched again after a
crash or a rebalance. A token is named after who issued it.

`Cancel` is SIGTERM. The call to the database in flight fails, with or without an
effect, and `HandlePaymentConfirmed` returns at once, after whichever attempt; the
loop of `Start` goes on to the saga event and to the offset, whose calls have the
cancelled context and may be carried out or not (`MayFail`), and ends after that.
The producer asks for all acknowledgements, so that a publish without an error is
one. `dropped` holds the payments of which the publish of `order.creation_failed`
failed; its error is ignored (`consumer.go:67`). `main` does not wait for the consumer,
hence `Crash` may follow `Cancel` at any time.

The producer of `payment.confirmed` is part of the environment: no service of
the repository publishes that topic (the payment service writes `payments.*`).

### OrderReturns

A slot is a request; `at[r]` is the label of its next call, `task[r]` what it holds.
`CreateReturn` is the steps up to `insert` (order and window, items, pending return,
INSERT), `Accept` and what follows it `AcceptReturn`: for each item `IncrBy` in
Redis, `UpdateProductStock` and the movement event, then the status, then the refund
through the payment service's handler (`LoadPayment`, `InitiateRefund`, `Gateway`)
and the loyalty event. Errors of Redis, Kafka and the refund are printed and
ignored, one of the database ends the request where it stands, and so does
`Restart`. Amounts are paise; `Inexact` holds those that lose one in `int64(amount *
100.0)` (0.29 and 0.58 do). What may happen in a behaviour is a set in `Conditions`,
kept in `allowed`, as `Scenarios` and `faults` elsewhere: these names and
`ReturnsSpec` differ from those of `OrderFulfilment`, so that one module can extend
both and prove about them. A behaviour with `"routed"` has something between the
services that takes the refund request to the route the payment service serves;
without it the answer is 404, as the code stands.

### StoreOccupancy

`count[s]` and `session[u]` are the two Redis keys. `Arrive` is a request past
the middleware (`RequireAuth`, `ChainScope`); `BindCheck`, `BindIncr` and
`BindSession` are `Bind`, `ExitCheck`, `Decr`, `Reset` and `ExitLeave` are
`Exit`, `Increment` and `DecrementCheck` with the same `Decr` and `Reset` are
`UpdateCapacity`. Sessions expire after four hours, tokens are revoked, Redis
commands fail with their errors dropped where the code drops them.

### AuthLogin

Codes are numbered as they are sent and tokens as they are signed. `CheckRateLimit`
counts under one of the five keys and ends at the first that is full; `StoreCode`
writes code and attempts. `GetCode`, `CountAttempt`, `DelCode` and `DelAttempts`
are the verification, `UpsertUser`, `StoreRefresh` and `CreateSession` the login
after it. `HasActiveSession`, `IsBlacklisted` and `RefreshAccessToken` are the
refresh, which asks the row, the blacklist and the hash one after the other;
`BlacklistToken` and `DeleteRefresh` the logout, whose row is marked by
`LogoutSession`, the goroutine; `RevokeRow`, `RevokeOtherRows` and
`DeleteOtherRefreshes` sign other devices out. `logged_out_at` is never reset,
by no statement of the service: after a sign-out the row of a device stays
`"loggedOut"`.

What a sign-out ends is followed by history: `ended`, the tokens of the device at
the time; `revoked`, the devices whose row `RevokeSession` marked; `revived`, the
tokens of `ended` for which an access token was signed all the same, each with
whether its request began after the sign-out. `SignedOutCannotRefresh` says that no
such token can renew, that no late request ever did, and that a request under way
did only where the device is in `revoked`.

### CartStock

`stock`, `cart` and `lock` are Redis keys, `session` the store service's,
`price[p]` the SKU key of the catalog (None when it is missing). A scan is
`ReadStock`, `DecrementStock`, `AddToCart` and on an error `Rollback`; `GetItem`
and `DelItem`, or `GetAllItems` and `DelCart`, followed by `IncrementStock`, give
units back; `GetCartItems`, `AcquireCheckoutLock`, `Validate`, `Total` and
`SnapshotCart` are the checkout. `Total` is `GetCart`, which reads cart and
prices again. The lock ends by expiry alone, and the cart outlives the order.

`Quantities` may hold any integer, as the handler takes any (`cart.go:24`, `:65`): a
scan of 0 puts a line without a unit into the cart, one below 0 raises the stock
(the scenarios "empty" and "negative"). With "negative" TLC finds more units checked
out than there were, in sequence, so that the properties about units exclude it.
`Crash` ends a request between any two of its calls ("crash"): units on the way are
lost, and `StockConserved` claims an inequality only. The comparison tolerates 0.01,
which for prices a paisa apart depends on how their difference rounds: `Close` is the
set of such pairs that count as equal, and `ScannedPriceIsCharged` allows a paisa per
unit. `Answers(p)` is what `GetProductByBarcode` may find: the key, and when that is
missing or not read the catalog's answer (price 0 and no ID) or nothing.

### CatalogCache

`row`, `sku` and `index` are the three copies of a product, abstracted to the
request its columns come from, its stock and its `sync_seq`. `acked[b]` is the
`sync_seq` of the row at the last invalidation with no lookup between its read
and its write: the exception is the hazard at `barcode.go:71`, and naming it in
the history leaves a property that holds for everything else. PostgreSQL refuses
the statement of `Upsert` as it stands (see below), so that `"accepted"` stands
for a database where it has been repaired. The scenario without it is what the
service does now: rows come from the admin tool (`CatalogImport`), every upsert ends
in a 500, and lookups and stock updates go on. What `CopiesFollowTheRow` and
`CopiesAgree` say of upserts is thus about the repaired statement only.

`Sync` asks for the rows behind a number and then, with a second query, whether there
are more behind the last of them. When the second one fails the answer is a 200 with
`has_more` false (`sync.go:52`), so a client stops before the end. What it can count
on, and what `SyncPagesAreComplete` says: it has every row up to the number it was
given, once, and misses nothing if it comes back with that number.

## Runs

A property that concerns one matter from several sides is a conjunction of named
parts, each with its own comment: `ReleaseIsDue`, `RefusalIsJust` (exit),
`OrderIsFulfilled` (orders), `CountStaysInBounds` (store), `CodesAreLimited`,
`SignOutIsExact` (auth), `ReturnIsHandledOnce`, `RefundIsInBounds` (returns),
`UnitsAreKept` (cart), `CopiesFollowTheRow` (catalog), and one property per `*Views`
module (`StoresShownRight`, `AuthViewsRight`, `CartPricedRight`, `PagesShownRight`),
evaluated on samples. Type invariants are theorems (`TypeCorrect`, `ReturnsTyped`,
`BreakerTyped`); `gateway_router`, `auth_login` and `order_returns` also check
theirs.

Each run is a `.cfg` beside the module named in `PROJECT.json`. Passing runs
enumerate every reachable state of their instance.

| Run | Instance | Shows |
|---|---|---|
| `exit_validation` | 1 token, 3 requests of 2 users at 2 stores; no faults, database and crash, those and the driver's repetition | one release per token, entitled only; nobody is called a replayer without another presenter (unless the driver repeats); refines `OneTimeToken`; without faults a presented token is honoured, even if Redis fails |
| `payment_initiation` | 3 requests under one key, 1 under another, all faults | one payment per key, refines `IdempotencyKey` |
| `payment_ledger` | 1 payment at either gateway, 3 attempts, 7 events (two share an id), 2 refunds, 2 goroutines, in turn or overlapping; the payment known to the webhook or not; no faults, gateway timeouts, all | announced once, rows backed; refunds announced and, in turn, kept on the row and not asked for twice; no acknowledged event lost without a message |
| `gateway_router` | 2 calls, threshold 2, window 1 | recovers and trips |
| `payment_outbox` | 2 requests (one about to insert) and the row of a third, which Kafka refuses; 1 or 2 relays, batch 2, all faults of both halves | marked is delivered or lost by Kafka, delivered is committed, every payment is sent; one relay's marks are final |
| `order_fulfilment` | 2 payments, 3 messages (one unsellable), 2 workers, 2 attempts; no faults, shutdown, database, crash and rebalance, and Kafka with a token request meanwhile | one order, known tokens, committed is settled or its saga event was refused, everything settles; without faults nobody fails needlessly and orders are fulfilled |
| `store_occupancy` | 2 stores with 1 and 2 places, 2 customers, 2 staff (one of no chain), 2 requests; six scenarios; 3200 inputs of the views | exact count for customers who wait for their answers, capacity, repaired negatives; what readers are shown |
| `auth_login` | 1 user, 2 devices, 1 address, 2 requests, 2 codes, 4 tokens, limits of 1 and 2; eight scenarios | limits under overlap, one login per code, three guesses, signed out stays out but for a refresh a revocation overtakes, others stay in; keys, versions, session lists |
| `order_returns` | an order of 2 items and a foreign item, 5 lists, 2 returns, 2 requests; eight scenarios | one pending return, stocks agree, units once, refund backed and bounded, accepted is settled |
| `cart_stock` | 2 customers, products with 1 and 2 units, 2 requests, 2 orders, 1 lock expiry, quantities from -1 to 2, prices a paisa apart; nine scenarios | units conserved, none sold twice, one order per lock, price of the scan up to a paisa; totals, offers, coupons, barcodes |
| `catalog` | 2 products, 2 requests, 3 writes; six scenarios with the repaired upsert, one with the upsert as it is and rows of the admin tool | cache and index against the row, lookups without Redis; pages, sync with second queries that fail, patterns |
| `return_unrefunded` | as `order_returns`, as the code stands | the finding below |

Why the bounds are enough to be interesting: the races are between two handlers, and
each instance has at least two of them over one row, a third where the outcome of a
pair matters to a later one (`exit_validation`, `payment_initiation`), and two
objects where one could be mistaken for the other. Nothing in the code of exit
validation relates two tokens, so that one is enough there, and likewise one payment
in the ledger. A batch of two with three rows makes a poll leave rows behind; two
attempts make the last one differ from the first. The theorems below lift every
safety property to every instance. The store with one place is contended by two
customers, the one with two holds both; a limit of 1 and one of 2 make different
layers of the rate limiter bite; a supply of 1 is fought over and one of 2 shared;
three writes let an upsert fall between a lookup and the upsert after it. Where all
disturbances at once would be too many states, the scenarios pair those that touch
the same keys, and each property names the ones it does not survive. Symmetry is
used in `payment_ledger`, `auth_login`, `order_returns`, `cart_stock` and `catalog`,
over values the modules do not tell apart, and in no run with a liveness property.

`CHECK_DEADLOCK FALSE` is set where requests and messages are finite and all of
them may be done; in the ledger, the breaker and the outbox deadlock is checked.

### Finding

`return_unrefunded` expects a violation. The order service asks for the refund of
an accepted return at `POST /v1/payments/{id}/refund` without a token; the payment
service serves `POST /v1/payment/refund/{payment_id}`, to staff. The answer is
404, which is printed, and the customer is told `"refund_initiated": true`.

### What the code does not promise

The premises of the passing properties are exact: each was written down after
TLC had refuted the property without it. What they exclude, and what else the
models were made to follow:

* Exit: a database error after SETNX leaves the key behind, and the customer's
  retry raises a replay alarm for an unused token (`exit.go:98`, `:102`). The
  Redis client may send SETNX twice and then find its own key.
* Ledger: a crash between the event id and the update makes the redelivery a
  duplicate of an event nobody applied (`webhook.go:57`, `:69`); two refunds
  both pass the check before either is recorded (`payment.go:178`).
* Breaker: the gateway is selected twice, so that the row may name another one
  than the order was made on (`payment.go:125`).
* Relay: with two replicas a marked row may be sent again; with as many poison
  rows as a poll reads no newer row is ever read; a broker that fails loses a
  message behind a write that went well, and its row is marked and never sent again
  (`producer.go:24`, `outbox.go:70`; the order service's writer asks for all
  acknowledgements).
* Orders: an attempt that dies after the commit is repeated, finds the order and
  skips token, event and invoice; where the answer to the commit is lost on the
  last attempt the order is announced as failed (`consumer.go:89`). A shutdown in
  the middle of an attempt ends it, the saga event is published with the cancelled
  context, its error is ignored and the offset may be committed: neither order nor
  event (`consumer.go:67`, `:71`, `:93`); or the event is out, the offset is not
  committed, and the next process makes the order after all.
* Returns: requests side by side make two pending returns, or accept one twice;
  a database error half way leaves it pending and the next attempt restores
  the same items again; `int64` of a float may be a paisa short.
* Store: two customers take the last place, one who enters twice is counted
  twice, and a count of staff corrections is not one of customers; the reset
  to 0 forgets an entry in between.
* Auth: two requests compare one code before either drops it; a wrong guess may
  drop the code of a newer send; a refresh that has read the row before
  `RevokeSession` marks it goes on to sign an access token, since the hash stays
  (`auth.go:131`, `session_store.go:130`); a login after a sign-out cannot be
  refreshed, since `logged_out_at` stays; keys with a kid of their own work in some
  services only.
* Cart: two scans take the last unit, the checkout refuses both until one is given
  back; scanning a product again loses the units of its line; the cart is not
  cleared by the checkout, so that what was ordered can be given back; a quantity
  below 0 raises the stock, after which more is sold than there was; a crash between
  the removal of a line and the `INCRBY`, or between the `DECRBY` and the `HSET`,
  loses the units; when Redis fails at the last read of the prices, they are 0, and
  that is charged (`ScannedPriceIsCharged` excludes it, as the others about units);
  a failed Redis call is modelled as one without effect; the lock is not
  released when a checkout fails, so that the customer waits for its five minutes
  (`checkout.go:47`: no property says otherwise); an SKU key as
  the catalog writes it has no `price` where the cart looks for one, and the
  catalog's answer is one level deeper than the cart reads, so that the price is 0.
  A product that was scanned at the price 0, and whose key is then gone, passes the
  comparison with no ID, hence with no look at its stock: two customers can check
  out its last unit (`checkout.go:58`, `:75`). `CheckedOutIsInStore` therefore
  excludes prices that change where customers act side by side. (TLC found this when
  the scenarios of `cart_stock` were widened for the proof.)
* Catalog: the statement of `Upsert` has 20 columns for 19 values and a
  `sync_seq` in its update that names no table, so that PostgreSQL refuses it;
  `Sync` pages by a per-row `sync_seq` and skips rows with equal or zero numbers
  (`SyncPagesAreComplete` is stated for distinct ones, of the rows behind the number
  the client begins with), and when its second query fails tells a client that has
  not got everything that there is no more (`sync.go:52`); the pages of a search are
  ordered by score where OpenSearch answers and by price where the table does, so that
  pages of the two do not fit together; `GetOffers` asks for
  columns the table lacks; `Search` without an index client ends in a panic that
  is answered with 500; the count of a database search ignores the category; the
  admin tool writes `sku:{barcode}:{store}` where the services read
  `sku:{store}:{barcode}`.

### Mutants

For each property of a passing run, and for each part of one that is a conjunction,
`PROJECT.json` names an operator, defined just before the definition it changes,
with a bug somebody could make there: the claim without `AND is_used = false`, an
event counted as duplicate only once processed, an error that ends a poll, a retry
without a limit. TLC finds the property violated with each.

## Fairness

* Exit validation: weak fairness of the steps of a handler that has begun. Every
  call has a timeout, and goroutines are scheduled.
* Breaker: time passes, customers keep paying, running calls go on. That
  Razorpay comes back or stays away is a premise of the property.
* Relay (`RelaysGoOn`): a replica goes on and is restarted (Kubernetes). Per relay,
  polls, publishes, refusals of poison rows and marks are strongly fair: Kafka and
  the database, asked again and again, answer again and again, and a replica that
  dies again and again does not always die at the same step. Nothing is assumed of
  the requests: `EveryPaymentIsAnnounced` begins where one has committed.
* Orders: uncommitted messages are fetched again, workers and the invoice
  goroutine go on. `PaymentIsSettled` also assumes that crashes and shutdowns end; a
  database that fails is not excluded.
* The other services have no promise of the kind that something happens: a
  request that fails is the client's to repeat, and nothing in the code does so.

## Proofs

TLAPS checks every step of the eight `*Proofs` modules. Assumptions are those
named in the modules, and TLC evaluates them in every run: the maps between the
constant sets are functions; events are not refunds, messages not requests;
`None` and `NoRequest` are no member of what they stand beside (in
`ExitValidation` no request record, in `CartStock` no price); prices that count as
equal are a paisa apart, and no scenario of `CartStock` has both quantities below 0 and
a product whose key is not read (its stock has no ID there); the limits of
`AuthLogin` are positive; slots, customers, products and items are finite where
something is counted; `PaymentOutbox` gives every request an outbox row of its own;
the samples of a `*Views` module are inputs the service may compute with.

What folds over data is written there as a function on `0..n`, each value made from
the one before (a number from its digits, a sum, the answers of a sync, the states
of a pattern). The theorems of the library on induction cannot be cited, but the
least element of a set of numbers can be had (`WFMin`): whatever set of steps holds
0 and with each step the next holds them all (`StepByStep`, `Steps`). What the
function is at each step is first such a set, then a lemma (`NumberIs`, `Sums`,
`AnswersAre`, `ReadIs`), after which nobody looks at its definition again.

* `ExitValidationProofs`: `TypeCorrect`, `OneRelease`, `EntitledRelease` (together
  `DueRelease`), `Refinement`, `JustRefusal`. `OneReleasePerToken` is not inductive:
  it says nothing of a handler between the UPDATE and the gate. The invariant adds
  that a handler past the UPDATE owns the row (`ReleasedOwnsRow`), that verified
  handlers hold a token of their own customer (`VerifiedInFlight`), that idle slots
  have left no trace, and that a request spends a token only by passing the UPDATE.
  Redis appears nowhere in it: whatever Redis does, the row decides. `RefusalIsJust`
  is about Redis, and has an invariant of its own (`RInv`): who is refused is a
  customer (`RefusedAreCustomers`), a key in Redis was written by a presenter of the
  token (`TakenByPresenter`), one refused at the key met the key of another
  (`RefusedAfterAnother`), and while only Redis fails a key stands for a request
  that holds the row or is about to ask for it (`TakenIsHeld`).
* `PaymentOutboxProofs`: first the halves, `TypeCorrect`, `OnePayment`, `Refinement`
  of the requests and `RelayTypeCorrect`, `NoLoss`, `MarkFinal` of the relay. The
  UNIQUE column carries the argument of the first (`Unique`): a row never changes
  its key, so the first row under a key stays the only one, and an answer names it.
  In the second a relay about to mark a row has sent it, and Kafka has it or has lost
  it; where one relay
  is deployed nobody else marks a row that is still in its batch (`Ahead`).
  `Composition` then says that every step of the two together is a step of each or
  leaves it alone, which is where a request that commits turns out to be the relay's
  `Commit`, and `OutboxFaithful` and `FinalMark` follow without another invariant.
  `BreakerTyped` is about the breaker that initiation asks for a gateway; its
  invariant is inductive as it stands.
* `PaymentLedgerProofs`: `TypeCorrect`, `AnnouncedOnce`, `BackedStatus`,
  `RecordedRefund`, `AcknowledgedAccountedFor`. `Exclusive`: one handler per event
  id, and no outbox row while it may still write one. `Backing`: a copy of the row
  was backed when read, and what backs it (events sent, refunds paid, outbox rows)
  never goes away, hence stale writes do no harm to what a status claims, though they
  may replace a newer one. Where the handlers of a payment come in turn (`InTurn`)
  only one is at work on it (`Alone`), the copy it holds is the row as it is
  (`Copies`), and so a row whose refund was announced keeps naming one
  (`RefundsNamed`). Only an event of a known payment is applied (`OnlyKnown`). A
  handler about to mark its event has had its effect, and one about to note a failure
  met, while the service is up, an unknown payment (`MarkedIsDone`). Hence an event
  marked without a note has been dealt with (`ProcessedIsDealtWith`), and an id that
  is taken is in the hands of a handler, dealt with or that of an unknown payment
  (`TakenIsDealtWith`), as long as no crash and no database error comes between.
* `OrderProofs`, about fulfilment: `TypeCorrect`, `OneOrder`, `KnownToken`,
  `NothingDropped`, `OnlyUnsellableFails`. `Ownership`: the worker that inserts a
  payment's order is the only one past the insert until it has announced, failed,
  died or been told to stop (`CancelReleases`). `Decided`: a worker about to commit its
  offset leaves an order or a saga event behind, or a publish of that event that
  failed, which only Kafka and a shutdown bring about (`Undisturbed`). `Hopeless`: in
  a behaviour where nothing fails a worker that gives up has a basket that cannot be
  sold, which is the safety half of `OrderIsFulfilled`.
* `OrderProofs`, about returns: `ReturnsTyped`, `ReturnHandledOnce`,
  `RefundInBounds`, `AcceptedSettled`, for any orders, items, prices, lists and
  number of requests at a time. All rest on `BaseInv`: the items of a return are of
  its order (the check that `CreateReturn` makes), and what a request holds is true
  of its return (`AtWork`). To it each adds an invariant of its own.
  `OnePendingReturn` needs that an order about to get a return has none pending
  (`InsertIsFree`), which is where requests must come in turn. `StocksAgree` is
  inductive as it stands: units on the way are a set of requests, which every step
  changes by one. `UnitsComeBackOnce` says nothing of what is still to come: the
  invariant (`OnceInv`) adds that an item is in one place of one return (`Apart`),
  that what the loop has before it has not come back (`ToRestore`), and neither has
  anything of a pending return nobody works on (`Untouched`). A database error
  breaks the last of these. Money: `Claim` is what a request may still ask for, the
  prices it has added up and, between the database and the sum, that of the item it
  is at. Paid back and claimed together are within the worth of the goods
  (`Backed`), whatever fails: a request that dies drops its claim and the goods
  stay. Points taken and claimed are exactly the worth where neither the database
  nor Kafka nor the process fails. That no more than the payment is paid back has
  another argument (`PaidInv`): a request adds up each item of its return once
  (`Counted`), and only the first refund of a payment finds it confirmed.
  `AcceptedIsSettled` follows a return that is the only one of its order from
  untouched money (`Clean`) over its refund to its points (`SettledInv`). Sums are
  cardinalities (`Units`, below), the sum over all requests included. The lemmas
  about `Units` stand in this module and in `CartStockProofs`.
* `CatalogCacheProofs`: `TypeCorrect`, `CacheCorrect`, `IndexCorrect`,
  `CopiesFollow` (the two together), `RedisIsOptional`, `CopiesCorrect`.
  `CacheHasAcknowledged` is not inductive: it says nothing of a lookup about to
  store what it read. The invariant adds that `acked` is behind the row
  (`AckedIsBehindRow`) and behind the product of such a lookup
  (`AckedIsBehindLookups`), which the definition of `acked` keeps true when a lookup
  is between its two calls; for the index, that every row ever returned is behind
  the present one (`RowIsLatest`) and what a request holds has been a row.
  `CopiesAgree` has an invariant of its own (`QuietInv`): one request at a time, and
  what it holds, the copy and the document are the row up to the step it is at.
  `PagesRight` is about `CatalogViews`, in three parts. Pages: a row stands in a
  sorted list at the place that counts the rows up to it (`Place`, `SortedIs`), and
  pages that follow one another show each place once (`PagesFollow`,
  `PagesShowOnce`), as many of them as the total asks for (`PagesReach`). Sync: each
  answer sends the rows between the number where the one before has ended and its own
  (`Sends`, `SyncSends`), whether its second query fails or not; an answer that says
  more has sent a row, so that fewer are left (`LeftBehind`) and the answers come to
  an end (`AllAnswered`). Patterns:
  between its two `%`, a pattern's states are the places of the name where a prefix
  of the query may end (`Ends`): a piece that `SanitizeQuery` made of a character
  takes that character and no other (`PieceIsLiteral`), and trimming the pieces is
  trimming the query (`TrimmedAlike`).
* `StoreOccupancyProofs`: `TypeCorrect`, `StaffScope`, `NegativeIsRepaired`,
  `CapacityKept`, `CountBounded` (these two together), `CountCorrect`. Three
  invariants. Negative counts: each request about to reset is one of the set
  counted, and a DECR below 0 adds one to it. Capacity: at most one request is
  entering, and while it is past the check there is room (`RoomIsKept`). Exact
  count: each customer has one request and its session decides where it stands, so
  that each step moves one element between `Inside`, `CameIn` and `WentOut`, whose
  cardinalities are counted by the library's theorems on finite sets; that the count
  is never below 0 at a DECR follows from an injection of those on their way out
  into those inside. About what readers are shown: `StoresRight`, made of
  `FullShownFull` (for every count and up to 199 places), `OpenBetweenHours` (for
  every time of day, where comparing characters is comparing digits,
  `SmallerByDigits`), `NearestStores` (a row is left out of an answer only for rows
  that are no farther, and each row of the answer is one place of the table) and
  `SummaryOfHeartbeats` (online and offline devices are two sets that make up the
  list). The second last says something since `AnswersExist`: the database has an
  answer to every query, which is built by taking a row of least rank off what is
  left.
* `AuthLoginProofs`: `TypeCorrect`, `LimitedCodes`, `ExactSignOut`. The limits hold
  under overlap because the increment is what is compared: for each key, the codes
  sent under it and the requests the limiter has let through that have yet to store
  theirs are no more than the limit for each window that has ended and the count of
  the present one (`Counted`). The half about codes needs requests that come in turn
  (`TurnInv`): the code is the latest sent and nobody has logged in with it, its
  attempts are the wrong guesses made. `ExactInv` follows a device through its hash,
  its row, the blacklist and the goroutine: an ended token is no longer the one
  stored, or `RevokeSession` has marked its device's row (`EndedIsDropped`); and
  whatever has been
  taken from a device was taken by a sign-out of that device that has happened or is
  half way, while everything a login hands out is backed by a hash and a row
  (`SInv`). `LateInv` adds the refreshes under way: a late one that got past the row
  carries a token whose hash is gone, and no step stores the hash of an old token
  (`Keeps`). About its keys, for lists of any length: `SmoothRotation`
  (`RotationIsSmooth` of `AuthViews`) and `OneKeyFits` (`OneKeyFitsAll`). The last
  entry of a kid decides, so that an entry with another kid changes no key, nor the
  default one (`LastWithSame`). With two more they make `ViewsRight`:
  `VersionsStay`, which reads versions as three numbers (`NumberIs`, `SemverIs`), so
  that the comparison is that of the first place where they differ, and
  `SessionsAre`, since an answer that leaves no row out has each row of the user at
  one place (`AllAnswered`).
* `CartStockProofs`: `TypeCorrect`, `CheckoutOnce`, `PriceKept`, `KeptUnits`.
  `LocksCounted`: orders plus requests past the lock are at most the locks taken, the
  one held included. `PriceKept`: where a customer acts in turn, the items not yet
  compared and those compared make up the cart, and what was compared has, up to a
  paisa, the price of now unless one has changed during the request (`InTurn`).
  `KeptUnits` is about `UnitsAreKept`, which is about sums; they are written as
  cardinalities (`Units` of `Heaps`): a heap of `n` units of customer `c` is the pairs
  of `c` with `1..n`, and the units in all carts the union of the heaps (nobody asks
  for less than nothing there, which makes every quantity a natural number). Every
  step changes one heap (`OneHeap`). `InHand` says what a request holds at each step.
  `Balance`: stock, carts and units on the way are the supply, while no product is
  scanned twice and no request ends in a crash, and never more. `Claims`: what a
  customer can claim is the larger of cart and last order, since the cart outlives the
  checkout. `InStock`: a customer alone finds in stock what is not in the cart.
  `Sold`: what is ordered, or compared and about to be, is at most the supply, since
  the comparison saw a stock that was not negative. `PricedRight`, about `CartViews`:
  sums are met by their steps only (`Sums`), add up term by term (`SumPlus`) and
  change by what one term changes (`SumChange`). The check digit is the one that makes
  the sum a multiple of ten (`CheckDigit`), and a slip changes it by the difference of
  two digits or three times that, which ten does not divide (`TenDivides`). The best
  of the rules is one of finitely many numbers (`MostExists`, `BestIs`), hence no less
  than the coupon's (`CouponIs`).

Only model-checked: everything under fairness (`PresentedTokenIsHonoured`, `Recovers`,
`Trips`, `EveryPaymentIsAnnounced`, `PaymentIsSettled`, and the liveness half of
`OrderIsFulfilled`), since TLAPS does not reason about `ENABLED`.

## Not modelled, and why

* Signature checks, HMAC, password-free login's SMS: a token, event or message
  is taken as verified or not, sent or not.
* Order and payment history, invoices' layout, profiles, the rows of stores and
  devices that staff create: single statements without a second step.
* `GetOffers` of the catalog service: its query always fails.
* The shared Kafka consumer and pagination library: no modelled service uses them.
* Composition of the exit gate with orders (several tokens of one order may be live
  in turn, so that one paid order can open the gate again): the product of the two
  models is out of the checker's reach. Composition of the outbox with a consumer,
  and with the ledger's rows: no service of the repository consumes the outbox's
  topics, and to the relay a row of a webhook is a row like any other.
* Services with only a health endpoint; manifests, Terraform, index templates,
  the dashboards and the Kafka topic files; the admin tool, but for the rows and
  keys it writes into `CatalogCache`.
* The mobile and web clients: not in the repository beyond schemas.

## Plan

Every invariant and every action property that a run checks is a theorem, and so are
the two refinements and the composition of the outbox. What is left:

1. The lemmas about `Units` (in `OrderProofs` and `CartStockProofs`) and `StepByStep`
   (in three modules) in places of their own.
2. A property about the two selections of a gateway (`payment.go:125`) and one about
   a token issued anew for an order (`order.go:127`): hazards that no property
   covers, for the code promises nothing there that could be stated.
3. Prices and numbers that repeat: which rows the pages then lose or show twice depends
   on the order the database gives to equal rows, from one page to the next.
