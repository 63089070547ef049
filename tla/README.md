# ShopSphere: a formal model

ShopSphere is the backend of a shop: a FastAPI service in front of PostgreSQL
(`src/backend/app`), run as four worker processes behind nginx, with Razorpay
taking the money. This directory holds TLA+ models of the parts of it that
concurrency, failures and late messages can break, the TLC configurations that
check them, and proofs, checked by TLAPS, of their central properties.

Contents: [how the service runs](#how-the-service-runs) ·
[inventory](#inventory) · [modules](#modules) · [runs](#runs) ·
[fairness](#fairness) · [proofs](#proofs) ·
[what the models say of the code](#what-the-models-say-of-the-code) ·
[not modelled](#not-modelled) · [plan](#plan)

## How the service runs

Everything below follows from four facts about how the handlers execute.

- **Processes.** `docker-compose.yml` starts gunicorn with four uvicorn workers. They share
  only the database and the media directory; the WebSocket registry
  (`core/ws_manager.py`) is one dictionary per process.
- **Threads and event loops.** A handler declared `def` runs on a thread of its
  worker and interleaves with everything. A handler declared `async def` runs on
  the worker's event loop and, because the database calls are synchronous, is
  alone in its process from one `await` to the next. `checkout`, the cart
  handlers, `create_razorpay_order` and `refund_payment` are of the first kind;
  `admin_update_order_status`, `verify_razorpay_payment` and `razorpay_webhook`
  of the second.
- **Transactions.** Each request has one session (`db/session.py`), which is one
  transaction at READ COMMITTED, rolled back when an exception leaves the
  handler. A `SELECT` sees what is committed when it runs and takes no lock unless
  it says `with_for_update()`, which only `checkout` does.
- **The ORM.** SQLAlchemy keeps what it read in memory, flushes changes as
  `UPDATE`s of the changed columns, each with the value computed in memory, and
  emits nothing for a column set to the value that was read. `x.n += 1` is
  therefore a read, a computation and a write of an absolute number.

So the unit of interleaving is the statement: a model's action is one database
round trip, what the session holds in memory is a record per request, and the
writes appear at the commit. Where a handler is one statement and one commit, or
where its own races are not the module's subject, it is one action, and the
module says so.

## Inventory

Components in the order in which their failure would hurt. Each lists the state
it keeps, the operations that change it, the behaviours that are hard, and what
makes it correct.

### Checkout and orders — `api/v1/orders.py`, `models/order.py`
State: `orders`, `order_items`, and, written by the same transaction,
`product_variants.stock_quantity`, `coupons.times_used`, the cart.
Operation: `checkout`. It reads the cart, locks each line's variant with
`SELECT … FOR UPDATE`, checks and decrements stock in memory, validates the
coupon by an unlocked read, counts its use, deletes the lines it loaded and
commits.
Hard: the locks are taken in the order in which the lines come back, which no
`order_by` fixes; the coupon's row is not locked; the cart changes between the
read and the commit; a crash or a refusal can come after any statement.
Correct when: stock is never sold twice; an order exists completely or not at
all; every checkout is answered and no row stays locked; nothing is taken from
the cart that was not ordered.

### Cart — `api/v1/cart.py`, `models/cart.py`
State: one `carts` row per user with `applied_coupon_code`, and `cart_items`,
unique per cart and variant. Operations: add, change, remove a line, apply and
remove a coupon; showing the cart drops a coupon that has become invalid.
Hard: every handler reads, then writes; one request commits up to three times
(the cart row, the change, the coupon dropped while the answer is put together);
prices, discounts and coupons change without the cart being told.
Correct when: no two rows exist for one variant, no line asks for more than there
was, and no request leaves a coupon that does not fit.

### Coupons — `core/coupons.py`, `models/coupon.py`, `api/v1/admin_coupons.py`
State: `usage_limit`, `times_used`, dates, minimum. Correct when: a coupon is not
given more often than its limit, and no use is counted without an order.

### Stock administration — `update_variant` in `api/v1/admin_catalog.py`
Sets an absolute `stock_quantity` from a form. Correct when: its write neither
falls between a checkout's read and commit nor makes the quantity negative.

### Order status — `api/v1/admin_orders.py`
State: `orders.status`. Operation: `admin_update_order_status`, which checks
`_FORWARD_TRANSITIONS` against an unlocked read. Hard: two workers check against
the same status and both commit. Correct when: no stage is skipped, and an order
is cancelled only before shipping.

### Payments and refunds — `api/v1/payments.py`, `core/razorpay_gateway.py`
State: `payments.status`, one row per attempt, and the order's status on refund.
Operations: create an attempt, `verify` (the browser's callback), the webhook,
refund. Hard: Razorpay is a second store of truth that no transaction includes;
its events come late, again, and out of order; the browser may never call back; a
worker may die between Razorpay's answer and the commit. Correct when: paid means
the money was taken; refunded means it was paid back; a capture is recorded even
if the browser is closed.

### Delivery tracking — `api/v1/delivery.py`
State: `tracking_events` rows, only ever appended; does not touch the order.
Correct when: the customer is told of each.

### Notifications and WebSocket — `core/notifications.py`, `core/ws_manager.py`, `api/v1/ws.py`
State: `notifications` rows; per process, a list of open sockets per user.
Operations: insert and push, mark as read, connect, disconnect. Hard: the row is a
second transaction after the event's own; the push awaits in a loop over a list
that connections change; a user's socket may be in another process. Correct when:
no event is announced that did not happen, sockets that fail are forgotten, and an
entry whose endpoint is over harms nobody.

### Catalogue administration — `api/v1/admin_catalog.py`, `core/images.py`
State: categories, brands, products, variants, image rows, image files. Hard: the
free-slug search reads and then inserts; primary images are unset one by one; file
and row are not deleted together. Correct when: slugs and SKUs are unique, each
product has at most one primary image, and every row has its file.

### Accounts and addresses — `api/v1/auth.py`, `api/v1/admin_users.py`, `api/v1/addresses.py`, `api/v1/deps.py`
State: `users.role`, `users.is_active`, `addresses.is_default`; tokens, which are
not stored. Hard: several super admins change each other; two default addresses
are created at once, and the `UPDATE` that unsets the old ones locks them.
Correct when: emails are unique whatever their case, a user has at most one default
address, and someone remains who can undo what administrators do.

### Reviews and search log — `api/v1/reviews.py`, `api/v1/search.py`
State: `helpful_count`, `search_count`: counters read and written back unlocked.
Hard: both insert what they did not find. Correct when: a counter counts every
request that was answered, a report is not undone, one review per user and product.

### Middleware and error handling — `main.py`, `core/request_context.py`, `core/security_headers.py`, `core/exception_handlers.py`
State: the request id of each running request. `create_app` stacks five layers;
exceptions become answers in the router, except the catch-all's, which is the
innermost layer. Hard: what an answer carries depends on the layer that makes it.
Correct when: every answer, of whatever error, has its headers and its own id.

### Schema migrations and seed data — `alembic/`, `models/*.py`, `seed.py`
State: the database's types, tables and keys, its version, and the seeded rows.
Hard: the same schema is written twice, in the models and in the revisions, and the
tests use only the first (`create_all` on SQLite); a migration or a seed run may die or
meet another. Correct when: the schema is always that of its version, the newest is
what the models declare, and a second seed run completes the first.

### Deployment — `docker-compose.yml`, `backend/Dockerfile`
State: the backend container, which migrates before it serves and is restarted
whenever it stops. Correct when: it comes up, and only on the newest schema.

### Without state of their own
Pricing and discount arithmetic (`calculate_discount` in `core/coupons.py` and the totals of cart and order), the
read-only endpoints (catalogue browsing, recommendations, dashboard), rate limits
and settings (of a library, or read once at start), and tests.

### How they interact
Checkout reads the cart and the coupon and writes stock; cart handlers read
stock; administrators write stock and order status; a payment is created for a
pending order, and a refund writes the order's status without asking the
lifecycle; status changes, payments and deliveries each end in a notification.
All of it goes through rows, never through calls, except the notification.

`PROJECT.json` lists the hazards of all components line by line, with the
properties that cover each or the reason why none does yet.

## Modules

| module | models | relation |
|---|---|---|
| `Inventory` | what checkout promises: an order is sold in one step from current stock | abstract |
| `Checkout` | `checkout`, the cart handlers, `update_variant` | implements `Inventory` |
| `OrderLifecycle` | `_FORWARD_TRANSITIONS`, one indivisible step per change | abstract |
| `Fulfilment` | `admin_update_order_status` on the loops of several workers | implements `OrderLifecycle` with one worker |
| `Payments` | `payments.py` and Razorpay, composed with `Fulfilment` | extends `Fulfilment` |
| `Notifications` | `notify_user`, the WebSocket registry and its endpoint, under any handler that ends in an announcement | on its own |
| `Sessions` | requests, their database sessions, the middleware around them | base of the next four |
| `Catalogue` | `admin_catalog.py`, `images.py` | extends `Sessions` |
| `Carts` | `cart.py`, statement by statement | extends `Catalogue` |
| `Reviews` | `reviews.py`, `search.py` | extends `Sessions` |
| `Accounts` | `auth.py`, `admin_users.py`, `addresses.py`, `deps.py` | extends `Sessions` |
| `Store` | all of them at once, and their properties | composes the four |
| `Schema` | `models/*.py` and the Alembic revisions as statements | pure definitions |
| `Deployment` | alembic, the container, `seed.py` | extends `Schema` |
| `CheckoutProofs`, `FulfilmentProofs`, `PaymentsProofs`, `NotificationsProofs`, `DeploymentProofs` | theorems | each extends the module it is named for |
| `StoreProofs` | theorems on sessions, accounts and reviews | extends `Store` |
| `CatalogueProofs`, `CartProofs` | theorems on the catalogue; on carts and what needs all areas | each extends the one before |
| `MCCheckout`, `MCFulfilment`, `MCPayments`, `MCNotifications`, `MCStore`, `MCDeployment` | values of constants and symmetry for TLC | |

Definitions named `Bug…` stand next to the definition they spoil and are used by
no other: replacing one by the other is how each property is shown to depend on
the code it is about.

### Checkout
`stock`, `cart`, `cartCoupon`, `timesUsed` and `order` are the committed rows,
`lockedBy` PostgreSQL's row locks, `req[r]` the session of a checkout request and
`adm[a]` that of an `update_variant`. `supplied` and `sold` are history. A request
goes through the statements of the handler:

| action | code |
|---|---|
| `LoadCart` | the cart row; `applied_coupon_code` is in memory from here on |
| `RefuseEmptyCart`, `LoadItems` | `cart.items`: an unordered, unlocked read |
| `LockVariant`, `RefuseStock` | one round of the loop: lock, compare, decrement in memory |
| `DeadlockVictim` | PostgreSQL fails one statement of a cycle of waiting transactions |
| `NoCouponApplied`, `ReadCoupon`, `RefuseCoupon` | `get_valid_coupon_or_raise` |
| `Commit` | every write at once, each the value computed in memory, and the locks' release |
| `Crash` | address not found, a killed worker or a lost connection: rollback |

`live` is the set of lines whose rows the session loaded and that still exist:
the commit deletes rows by id, so a line removed and added again meanwhile is
another row and stays. `Forget` keeps this up in all sessions of the cart's user.
The total, the address and the coupon's dates and minimum are the refusals any
request may meet. The cart handlers are one step each.

### Fulfilment
`change[q]` is a status change between its read and its commit, `status` the
column, `reached` the history of an order. `LoopFree` says that a coroutine
without an `await` runs alone in its worker. `CommitStatus` writes whatever the
status is by then, as the `UPDATE` does.

### Payments
`opening[p]` is a creation request and `payment[p]` the row it inserts; `loop[w]`
is what `verify` or the webhook holds on a worker's loop, which status changes
share (`LoopIdle`); `refund[f]` is a refund. `captured`, `answered` and `repaid`
are Razorpay's books. The events are `captured` (webhook), `verified` (the
browser, with a valid signature) and `failed` (the webhook's event of a declined
try, or a callback whose signature is wrong). They may be delivered at any time,
any number of times; a `failed` event may be of an earlier try of the same
Razorpay order, which can be paid after declined tries. `CommitEvent` writes only
when the value differs from the one read, as the ORM does: that is why a webhook
may leave a status that changed under it. A refund calls Razorpay before it
writes payment and order in one commit. The gateway asks for automatic capture
(`payment_capture: 1`), so a successful payment, its capture and the right to a
valid signature are one step, `Capture`.

### Notifications
`endpoint[s]` is the coroutine of a WebSocket (accepting, listening, raised, ended),
`online` the clients that are really there, `registry[w]` the dictionary of a
worker, `announcement[a]` a handler that commits an event and then calls
`notify_user`. A coroutine runs alone on its loop until it awaits something that
is not ready, so from the event's commit to the first `send_json` nothing else
runs there (`LoopFree`), and every send, accept and receive is a point where
everything else may. `Targets` is the copy `list(…)` that the loop of
`send_to_user` goes through. A client can leave without the connection noticing: a
send to it may then succeed and reach nobody (`Send`), or raise (`SendFails`).
An endpoint ends in two ways. `Disconnected` is the one `ws.py` catches, with its
cleanup. `ReceiveRaises` is any other: `receive_text` raises `KeyError` on a frame that is
not text, nothing catches it, and the connection is closed without `disconnect()`; the
entry stays (`pc` is `raised`) until a push meets it, whose send can only fail.
`Crash` takes a worker's registry, connections and handlers.

### Sessions
`req[r]` is a request: where it is, what it asks (`op`), what its session has
loaded (`read`), its answer and what that answer carried. `Begin` is its arrival and
first reads, `RefuseAtOnce` an arrival those reads refuse, `Proceed` the next round trip,
`Answer` the end, `Die` the end of its worker. `Flush` is SQLAlchemy's unit of work: only
columns assigned a value other than the loaded one are written. `CommitAnswer` is what
`exception_handlers.py` makes of a failed commit: 409 of an `IntegrityError`, 500 of
a `StaleDataError` (an `UPDATE` whose row is gone). `Layers` is the middleware stack,
`Response` what an answer picks up on its way out of it, `context` the `ContextVar`
of the request id. `met` is a history: which requests ran at the same time.

### Catalogue, Carts, Reviews, Accounts
| handlers | actions |
|---|---|
| create and update of categories and brands, `create_product` | `CreateRow`, `UpdateRow`, `CreateProduct`, then `Probe` once per slug candidate, then `WriteRow` |
| `update_product`, `delete_product`, variants | `UpdateProduct`, `WriteProduct`; `CreateVariant`, `UpdateVariant`, `WriteVariant` |
| images | `Upload`, `SaveFile`, `WriteImages`; `SetPrimary`, `WriteImages`; `DeleteImage` (unlinks the file), `DeleteRow` |
| `cart.py` | `AddItem`, `ChangeLine`, `OtherRequest`; `FindCart`, `CreateCart`; `FindLine`, then `InsertLine`, `WriteLine` or `RemoveLine`; `Price`, `DropOld`, `WriteCoupon`; `Serialize`, `DropCoupon` |
| `reviews.py`, `search.py` | `CreateReview`, `CheckPurchase`, `InsertReview`; `MarkHelpful`, `WriteHelpful`; `ReportReview`, `WriteReport`; `LogSearch`, `WriteSearch` |
| `signup`, `admin_users.py` | `Signup`, `InsertUser`; `ChangeUser` (authorization and self check), `LoadUser`, `WriteUser` |
| `addresses.py` | `CreateAddress`, `UnsetDefaults` and `LockDefaults` (an `UPDATE` finds rows, waits for those locked, looks again), `InsertAddress`; `DeleteAddress`, `RemoveAddress` |

Slugs are sequences, so that `Append` is the `-2`, `-3` of `_unique_slug`, and
two names may lead to one slug by different ways. A payload may carry an explicit
`Null`: no check looks at it, and the database's NOT NULL refuses it. An upload's
file has the upload's id. A review may be of a product that is not there: its foreign
key refuses it with 409, without any rival.

`terms` are the prices after discount and the coupons that are active, within their
dates and below their limit; `Reprice` changes them at any time, for `update_product`,
`update_variant`, a coupon's dates and other customers who use it up. `CheckOut` is a
checkout of the same customer, which deletes lines and takes the coupon off in one commit;
its own statements are in `Checkout`. Two histories: `top` is the highest stock a variant
had, and `moved` says that terms changed or a checkout committed since a request of the
cart answered with the cart's coupon.

### Schema and Deployment
`Schema` states the table of each class of `models/` with its foreign keys, enum types
and unique keys, the enum types with the labels `pg_enum` binds, and each revision as the
sequence of its statements up and down. `Legal` is when PostgreSQL accepts a
statement, `Applied` what it does. `Deployment` runs them: `alembic[p]` is a migration,
with the version it has reached and the one it is to reach, its cursor in the script
between that version and the next (`Script`), and the schema as its transaction sees it;
`db` is what is committed. What the schema of a version is to be, the property
`SchemaMatchesVersion` takes from the models (`Declared`), not from the revisions: which
names each revision introduces is the title of its file.

| action | code |
|---|---|
| `ContainerStarts` | `alembic upgrade head && gunicorn`, again after every stop |
| `UpgradeByHand`, `DowngradeByHand` | an operator's `alembic`; he stops the service, and waits for seed runs, before a downgrade |
| `Statement`, `MigrationFails`, `CommitMigration`, `ProcessDies` | one statement of a revision; an illegal one, or one that was `Overtaken`; `env.py`'s single transaction, committed or rolled back |
| `ComposeUp`, `ComposeDown`, `GunicornDies` | the container |
| `SeedStarts`, `CheckRow`, `InsertRow`, `InsertImages`, `SeedDies` | `seed.py`: for each row a query by its key, a commit of the row (a product with its variants), a commit of the images |
| `OwnProduct` | an administrator adds a product meanwhile |

A revision's first statement is `create(…, checkfirst=True)`: it looks for the enum type
and then creates it. A second migration may look, wait for the first one's transaction, and
then fail because the type is there (`Overtaken`), or look after the first one's commit,
pass over the type and fail at the table. Both roll back the same way.
`cut` is a history: products whose run of `seed.py` ended between the commit of the product
and that of its images.

## Runs

| run | question | instance |
|---|---|---|
| `checkout_safety` | Is stock, an order or a coupon's count ever wrong while two customers, their carts and an administrator act at once? | 2 users, 2 variants, a coupon for one use, 2 checkouts, 1 stock edit; 1.1 M states |
| `checkout_atomic` | Does a checkout look like one step, end, free its locks, and leave unordered lines alone? | one cart submitted twice, lines of 1 or 2; 81 k states |
| `coupon_oversold` | Does counting in the order's transaction keep a coupon within its limit? *violated* | 2 users, a coupon for one use |
| `fulfilment` | Are the handlers of one process the lifecycle, and is no stage skipped? | 1 worker, 2 orders, 6 changes |
| `fulfilment_stale` | Is an order cancelled only before shipping? *violated* | 2 workers, 4 changes |
| `payments` | Do payment, order and Razorpay's books agree through every race, and is a captured payment recorded? | 2 attempts of which one is paid, 2 workers, 2 refunds of 1 or 2 units of 2, a status change, fair; 0.5 M states |
| `notifications` | Is what is pushed stored, does a push reach everyone registered, and are sockets kept and forgotten as they should? | 2 workers, a user with 2 tabs and one without, 2 announcements, fair; 0.2 M states |
| `payments_redelivery` | Is the webhook idempotent? *violated* | 1 attempt, 1 refund |
| `payments_unpaid` | Does a captured payment never stay unpaid? *violated* | 1 attempt, fair |
| `store` | What holds of catalogue, cart, reviews, accounts and addresses whatever the interleaving, and which rivals does it take to spoil the rest? | 3 requests, 2 price lists, a checkout, 1 worker that dies; 0.3 M states |
| `lockout` | Can administrators lock each other out? *violated* | 2 requests |
| `deployment` | Is the schema always that of its version and the one the code runs on, does the service come up, and is the seed data complete? | 2 seed runs, the container, an operator who intervenes twice, 1 crash, fair; 0.2 M states |

The bounds, and why they are enough for these questions:

- **Two checkouts and two variants** are the least with which requests can lock in
  opposite orders, and the stock levels 1 and 2 make the last unit contended,
  sufficient stock and insufficient stock all happen. `MaxQty` 1 with two users
  and `MaxQty` 2 with one cover lines that exceed the stock after another
  checkout. Every safety property of `checkout_safety` and `checkout_atomic` is also
  proved for any number.
- **Six status changes** are the length of the longest path of the lifecycle,
  `pending` to `refunded`, with one to spare.
- **Two attempts** can be open at once, or one be refused because the other is paid;
  **two refunds** can each be of part (1 of 2) or all of a payment, or of more than
  it (3, refused). A behaviour has a second attempt or a second refund, and one paid
  attempt (`Bounded`); both bounds leave every step that has fairness free. **Two workers**
  are the least that interleave coroutines. The safety properties of payments, and
  `NoStageSkipped`, are also proved for any number of attempts, refunds, requests and
  workers.
- **Two tabs and two announcements** let a socket be dropped by one push, or by
  its own endpoint, while another push is in the middle of the same list. The
  safety properties are also proved for any number of sockets, users, workers and
  announcements.
- **Two requests** are what a race takes; the **third** lets one commit between the
  steps of two others, or see what they left. In `store` all requests of a behaviour
  belong to one area, or to two areas that share rows (`Together`): handlers of areas
  that share no row commute, and a request refused by its first reads changes
  nothing. Three run in every area of `Alone`; two in categories, in products with
  variants, in carts with variants and in accounts with addresses, where TLC's time
  does not allow a third. Two coupons with minima 4 and 2, and a unit that costs 2 and
  then 1, let one fit where the other does not and each stop to fit without the cart; prices
  move and carts are checked out around two requests that live; two super admins can remove each other, and the
  plain admin who is left cannot give roles. Every property of `store` is also proved for
  any number of requests of all areas at once, of names, SKUs, coupons and staff.
- The **seed list** has one row of each kind and two products, one with sizes; the
  code's sixty products differ in no way the properties tell apart. **One crash** and
  **two interventions** cover down and up again with a failure in between. The
  safety properties are also proved for any number of seed runs, deaths and interventions.
- Deadlock checking is off everywhere: requests are handled once, and a system
  whose requests have all been answered stops. That nobody waits forever is
  `CheckoutEnds` and `LocksComeFree`.
- Customers, variants, requests, workers and orders are interchangeable in the
  safety runs; the liveness runs use no symmetry.

## Fairness

`Checkout!FairSpec` has weak fairness on each request's next step: the thread of
a request is scheduled, a free row lock is granted, and the deadlock detector of
PostgreSQL (`deadlock_timeout`) fails a victim as long as a cycle exists. None on
`LoadCart` (a customer need not check out), on cart or administrator steps, or on
crashes.

`Payments!FairSpec` has weak fairness on what an event loop has begun
(`LoopsRun`: it commits or is lost), and strong fairness on two things per
attempt: an unanswered `captured` event is delivered again and again, since
Razorpay retries until it is answered 200, so the loop, busy at times but free
again and again, gets to it; and not every delivery meets a crash before its commit.
None on captures, on `verify` (the browser may be closed), on creation or refunds.

`Notifications!FairSpec` has weak fairness on endpoints and handlers: a coroutine
goes on when its loop is free, and a send or receive on a dead connection ends at
the latest with uvicorn's ping timeout. None on connecting, leaving, unreadable frames or
crashes.

`Deployment!FairSpec` has weak fairness on each migration's next step (processes run
on, and a statement that waits is granted when the other transaction ends), on
`ContainerStarts` (`restart: unless-stopped`) and on the steps of a seed run. None on
the operator, on crashes or on the start of a seed run. `Store` checks safety only.

## Proofs

TLAPS proves the following for every value of the constants that satisfies the
assumptions named in the modules. Those on `Checkout` and `Payments` are that `None` is no
member of the other sets, bounds are naturals and the set of requests is finite. Those on
`Store` are that

- a row that a request inserts is named by it and by no other name of the model
  (`IdsAssumption`, `StaffAssumption`): ids are random UUIDs;
- the seed has a super admin (`seed.py`, `seed_admin`) and its staff's emails are in lower
  case, and an email in lower case stays as it is (`AccountsAssumption`);
- prices are naturals and minima too, and there is at least one price list
  (`CartAssumption`);
- the seeded product's name and SKU are among the names and SKUs, slugs are
  sequences, and some stock is the highest (`NamesAssumption`): they name the instance's data.

On `Deployment` the only one is that its two bounds are naturals.

| theorem | statement |
|---|---|
| `CheckoutProofs!TypeCorrect` | `Spec => []TypeOK`: no stock is ever negative |
| `CheckoutProofs!LocksProtectStock` | `Spec => []LockedRowsCurrent` |
| `CheckoutProofs!NeverOversells` | `Spec => []StockConserved` |
| `CheckoutProofs!OrdersAreWhole` | `Spec => []AllOrNothing` |
| `CheckoutProofs!Refinement` | `Spec => SellsAtomically` |
| `CheckoutProofs!UsesAreOrdered` | `Spec => []UsesHaveOrders` |
| `CheckoutProofs!CounterStaysBelowLimit` | `Spec => []CounterWithinLimit` |
| `CheckoutProofs!CommitLeavesOtherLines` | `Spec => UnorderedLinesStay`, an action property |
| `FulfilmentProofs!StagesVisited` | `FulfilmentSpec => []NoStageSkipped`, for any number of workers |
| `FulfilmentProofs!OneWorkerFollows` | one worker implements the lifecycle |
| `PaymentsProofs!PaymentsTypeCorrect` | `Spec => []PaymentsTypeOK`: no payment is repaid beyond its amount |
| `PaymentsProofs!PaidIsCaptured` | `Spec => []PaidMeansCaptured` |
| `PaymentsProofs!RefundsPaidBack` | `Spec => []RefundsAreReal` |
| `PaymentsProofs!EarlyRefundsAreReal` | `Spec => []EarlyRefundsPaidBack` |
| `NotificationsProofs!ShapesHold` | `Spec => []NotificationsTypeOK` |
| `NotificationsProofs!PushesAreStored` | `Spec => []PushIsStored` |
| `NotificationsProofs!PushesReachAll` | `Spec => []PushReachesAll` |
| `NotificationsProofs!RegistryIsExact` | `Spec => []OnlineAreRegistered`: listening sockets once, others only of endpoints that ended by an unread frame |
| `NotificationsProofs!DeadSocketsHarmless` | `Spec => DeadSocketsAreSurvived`, an action property |
| `StoreProofs!AnswersAreTraced` | `Spec => []ResponsesAreTraced` |
| `StoreProofs!DefaultIsUnique` | `Spec => []OneDefaultAddress` |
| `StoreProofs!ChangesCanBeUndone` | `Spec => []SomeoneCanUndo` |
| `StoreProofs!CountsHold` | `Spec => []CountsAddUp` |
| `CatalogueProofs!FilesAndRowsAgree` | `Spec => []RowsHaveFiles` |
| `CatalogueProofs!PrimaryIsUnique` | `Spec => []OnePrimaryImage` |
| `CatalogueProofs!SlugsAreOfNames` | `Spec => []SlugsFollowNames` |
| `CartProofs!LinesAreWithinStock` | `Spec => []LinesWithinStock` |
| `CartProofs!RivalsSpoilNoMore` | `Spec => []OnlyRivalsSpoil` |
| `CartProofs!TypesHold` | `Spec => []StoreTypeOK` |
| `CartProofs!ConflictsComeFromRaces` | `Spec => []ConflictsAreRaces` |
| `DeploymentProofs!SchemaMatches` | `Spec => []SchemaMatchesVersion` |
| `DeploymentProofs!ScriptsHold` | `Spec => []ScriptsAreSound` |
| `DeploymentProofs!HeadMatches` | `Spec => []HeadMatchesModels` |
| `DeploymentProofs!ServesCurrent` | `Spec => []ServesCurrentSchema` |
| `DeploymentProofs!DeploymentTypes` | `Spec => []DeploymentTypeOK` |
| `DeploymentProofs!SeedIsComplete` | `Spec => SeedLeavesAll`, an action property |

**Checkout.** `StockConserved` is not inductive: `Commit` writes the quantity it
computed from its read. It is preserved because the row was locked from read to
commit, which is `LockedRowsCurrent`: the holder of a row has read what the table
still has, has covered its line, and past the loop holds every line. That in
turn needs the types and that a closed session has forgotten its lines and an open
one has no order. `IInv` is their conjunction; one lemma per group of actions shows
it preserved. `Refinement` uses it once: `Commit` is `Inventory`'s sale because the
committed stock is current stock less the lines. The coupon's count is no such
thing: nothing locks it, so an open session may write back what is long out of date.
`CountsInv` says what makes even that harmless: what a session has read is below the
limit and no more than the orders made so far, so what it writes is within both; its own
order pays for the one it adds. `LoadedRowsAreLines`, that a row a checkout has loaded and that
still exists is one of its lines, gives `UnorderedLinesStay` in one step.

**Fulfilment.** A status is written long after it was validated, by when the
order may be anywhere. What holds still is that the status the handler *saw* is
among those the order has had and that its target is a successor of it
(`OpenChangesValid`); with that `NoStageSkipped` is inductive for any number of
workers. With one worker, what a handler saw is also still the status, because
`LoopFree` allows one open change, and so each commit is a step of the
lifecycle.

**Payments.** A handler writes a status derived from an event that was genuine
when it was read, so the invariant `PInv` adds what each handler *knows*
(`HandlersKnow`): an event that makes a payment paid is of a captured one, and a
refund past Razorpay has money paid back. Neither can become false, so late
writes stay right. Status changes are carried over from `FulfilmentProofs` by its
lemmas, stated on any write of a status (`WriteKeeps`).

**Notifications.** `PushReachesAll` speaks of the end of a push, whose loop goes
through a copy of a list that connections change under it. `NInv` follows the copy: the
sockets that the loop has passed, and whose client is still there, have what is pushed
(`PushProgresses`). No step can undo that, because a client that leaves never comes back
on the same socket. `ListIsOf` says the registry with sets: a user's list on a
worker has only sockets of his that listen on that worker or were ended there by what they
could not read, each once; that all listening ones with a client are in it is
`ListenersRegistered`. A send to a dead entry cannot return, so it is taken out and the
loop goes on. That the row is stored a handler knows from its own program counter.

**Store.** What its requests share comes first. `SessionInv`: every step of every
handler is a step of its own session, a request stands only where its handler leads
(`Fits`), what was asked is never changed (`Frozen`), and two requests that run at
once have met. From then on each area is proved on its own: a step of another
area leaves its tables alone, and its requests too, unless their worker dies (`Aside`).

The properties hold *unless* two rivals met. So each invariant is a disjunction with the
excuse, which can only become true, and a second part that says what a request
that is between its read and its write still has right as long as there is no
excuse. Who makes an image primary, creates a default address or updates a category has loaded
all primaries, all defaults, the row as it is (`PrimaryLoaded`, `DefaultsFound`, `SlugsLoaded`);
who counts has read the count (`ReviewsInv`); who is about to insert a key has
found it free and it still is (`RowFree`, `CartFree`, `ReviewFree`, `EmailFree`). A step of
another request can break such a part only by writing the same thing while both
run, and then they have met.

- `SomeoneCanUndo` needs to know of each change under way that its actor is still what he
  was when he was authorized, or that someone is changing him.
- `LinesWithinStock` needs that what a cart handler is about to store was compared with a
  stock the variant once had (`CartSound`).
- `OnlyRivalsSpoil` was stated with an excuse for rivals at the cart. The proof has
  no use for it: whoever leaves a coupon that does not fit has still to put its answer together,
  and looks again then (`CouponMended`). What excuses is what does not come from
  the cart's handlers: a death before the answer, and prices, coupons or a checkout that moved
  since the last answer with this coupon (`moved`).
- `ConflictsAreRaces` is proved last, of all inserts at once. `RowFree` and its like say
  that a key found free stays free without a rival, and `KeysUnique` that a conflict over
  a row's own key is none.

The models were changed only in form for these proofs: rows are added by `With`, of
which the provers see the domain, instead of `:>` and `@@`; the metadata is one record of
named tables, and a migration goes through its revisions one by one instead of through
one list put together of them.

**Deployment.** The five revisions create 25 types and tables and take them down in
the opposite order. `Names` lists them, and `Prefix(k)` is the schema with the
first `k`, each as the *models* declare it. Five lemmas, `Revision1Is` to
`Revision5Is`, read the scripts: the i-th statement of an upgrade creates the next name as
declared, the i-th of a downgrade drops the last. From there on no script is looked into
again. `Climbing` and `Falling` say of any statement of this kind that it is legal and leads
from one prefix to the next, because every table refers to earlier names only
(`ReferencesGoBack`). `SchemaInv` then says where a migration stands: what it sees is the prefix it
has got to (`Fresh`), unless another upgrade was committed after it read the version
(`Stale`). It sees the whole schema then, fails at a type it had looked for too early or
passes over the types, and fails at its first table (`Repeating`). So two
upgrades at once never mix. A downgrade has the database to itself, because the
operator stopped the service.

`SeedInv` says of the rows what a run of `seed.py` may rely on: `Orderly`, what it has passed is
there, and no downgrade runs beside it; `Pictured`, a product without images is
about to get them from some run, or its run was cut off before them (`cut`). `SeedLeavesAll`
speaks of the step with which a run ends well (`EndOfRun`, `WhoEnds`), because a
downgrade afterwards may take everything away again; what the operator did before that step
does not matter. A commit of a migration is the one step
that takes rows away; that tables of the catalogue come and go together
(`TablesTogether`) keeps the others whole.

Only model-checked: liveness (`CheckoutEnds`, `LocksComeFree`, `CaptureIsRecorded`,
`LeaversAreForgotten`, `ServiceComesUp`). Out of this prover's reach: liveness under
fairness and `ENABLED`; induction over data, whose library theorems take an
operator as a parameter, so that to the proofs `Subtotal` is some function of prices and
lines; anything that uses a
`RECURSIVE` operator. The modules above use none.

## What the models say of the code

Five statements of the repository do not hold of it. Each has a run that shows it.

- *Coupon limit* (`models/coupon.py:12-15`). Counting uses in the order's
  transaction does not stop two concurrent checkouts, since both read
  `times_used` without a lock and both write the same value back:
  `coupon_oversold`. The counter itself stays within the limit
  (`CounterWithinLimit`), which is why nothing shows in the table.
- *Cancellation only before shipping* (`admin_orders.py:9-10`). A cancellation
  validated in one worker while the order was packed is committed after another
  worker shipped it: `fulfilment_stale`. It cannot happen with one worker
  (`FollowsLifecycle`), and no stage is skipped either way (`NoStageSkipped`).
- *Idempotent webhook* (`payments.py:194-196`). A captured event delivered again
  after a refund turns `REFUNDED` into `PAID`: `payments_redelivery`.
- *The webhook saves you from "unpaid forever"* (`payments.py:39-41`). A declined
  try's `payment.failed` that arrives after the capture of the next try leaves the
  payment `FAILED`: `payments_unpaid`. That the capture is recorded at some time
  does hold (`CaptureIsRecorded`).
- *Someone is left who can undo it* (`admin_users.py:14-16`). The guard forbids
  changing oneself; two super admins who demote each other at the same time both
  pass it, and none is left: `lockout`. It takes exactly such a pair
  (`SomeoneCanUndo`).

The models also allow, with no statement in the repository either way or one that
is plainly about a single request: one cart
submitted twice becoming two orders, a quantity raised during a checkout being
deleted with its line, an order paid through two attempts, and a refund
committing over a concurrent status change; two primary images or two default
addresses set at once; votes, searches and additions to a cart lost when two come at
once; a slug that was free when probed answered with 409 instead of the next
suffix, and an explicit null answered as a conflict; a file without a row after a
crash or a failed commit; a seeded product that stays without images after a crash
between its two commits, because the next run finds the product; a coupon that
stays on an idle cart after a price went down or its dates passed, until somebody looks
(checkout validates it again); the entry of a socket that sent what is not text, until a push
meets it. The properties
of `store` say that nothing less than such a rival or crash leads there. A push reaches only sockets of the
worker that sends it, which `core/ws_manager.py` itself states as a limit, and
the deployment starts four of them. They are among the hazards.

## Not modelled

- **Columns and amounts.** Texts, descriptions and their validation,
  formatting and logging change nothing the properties speak of. Prices and a coupon's dates
  count where a cart's coupon is judged (`Carts!terms`); in `Checkout` they are the refusal
  any request may meet. Of a schema only keys, references and enums
  are kept: a missing or mistyped plain column would not show.
- **Pricing.** `calculate_discount` and the totals: Decimal arithmetic of one
  transaction. `create_coupon` and delivery partners insert rows nothing races for.
- **Tokens.** They are signed and stored nowhere: login, refresh and logout change no
  state. Signatures of payments are modelled by what they show (`Genuine`).
- **Read-only endpoints**: queries and reports.
- **Rate limits and settings**: counters of a library in each process's memory, and
  values read once at start.
- **Marking notifications as read**, and the database connection a WebSocket
  keeps (`ws.py:31`): the pool is taken as large enough everywhere.
- **Nginx, the frontend, PostgreSQL's container**, image processing. SQLite, which
  the tests use, is not modelled: the service runs on PostgreSQL.

Assumed of people: the operator stops the service before a downgrade and runs none
during a seed run. Without the first, the service would answer on an older schema; without
the second, a seed run could end well on rows that are gone.

## Plan

What remains, most useful first; theorems are for every value of the constants.

1. **Carts and Checkout**: the statements of `Carts` shown to implement the single
   steps `Checkout` takes them for.
2. **Pricing**: `calculate_discount`, percentage and rounding as operators, against
   a reference over bounded amounts; theorems on the bounds of a discount.
3. **Connections**: the pool that open sockets and pushing handlers draw on.
