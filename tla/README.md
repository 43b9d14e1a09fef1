# A TLA+ verification of Seapedia

Seapedia is a marketplace: buyers fill a cart from one store, pay from a prepaid wallet, the seller
hands the order to a driver, and an order that takes too long is returned and refunded. It runs as
four services (`catalog`, `commerce`, `identity`, `search`), each with a database of its own, which
tell each other what changed through RabbitMQ. This directory holds models of the parts where money,
stock and order status can go wrong under concurrency, TLC runs on small instances of them, and
TLAPS proofs for instances of any size.

Paths below are relative to the repository (`services/...`, `packages/...`).

## 1. Inventory

| Component | State | Operations that change it | Talks to |
|---|---|---|---|
| commerce: cart (`buyers-cart.service.ts`) | `carts`, `cart_items` | add, update, remove, clear; every read heals an empty cart | reads the product replica |
| commerce: checkout (`orders-checkout.service.ts`) | `orders`, `order_items`, history; also wallet, stock, vouchers, cart | `createOrder` (`preview` only computes) | outbox: `inventory.changed` |
| commerce: discounts (`discounts.service.ts`) | `vouchers`, `promos` | create; `decrementVoucherUsage` from checkout | - |
| commerce: wallets (`buyers.service.ts`) | `wallets`, `wallet_transactions` | `directTopUp`; paid by checkout, refunded by admin | - |
| commerce: seller (`orders-seller.service.ts`) | order status, delivery job | `processOrder` | - |
| commerce: driver (`driver.service.ts`) | delivery job, order status | `takeJob`, `completeJob` | outbox: `order.completed` |
| commerce: admin (`admin.service.ts`) | clock offset; order, wallet, stock | `simulateTime`, `processOverdueOrders` | outbox: `inventory.changed` |
| commerce: inventory (`inventory.service.ts`) | `inventory`, `pending_stock` | `setStock` | outbox; advisory lock shared with the replica |
| commerce: replica (`catalog-sync.service.ts`) | `product_refs`, `store_refs`, `user_refs` | handlers of catalog's and identity's events | consumes the bus |
| commerce: addresses (`buyers.service.ts`) | `addresses` | create, update, delete, set default | - |
| platform: event bus (`packages/platform/src/events`) | `outbox`, queues, retry and parking queues, `inbox` | enqueue, publish, mark, handle, retry, park | every service |
| catalog: products, stores | MongoDB documents with versions | create, update, delete, each with its event | outbox |
| catalog: consumers, reviews | stock read model, purchases, ratings | `inventory.changed`, `order.completed`, reviews | consumes the bus |
| search | Elasticsearch index, tombstones, store lookup, rebuild lease | guarded upserts, `reindex` | consumes the bus; exports from catalog |
| identity | users, roles, sessions, refresh tokens | register, login, refresh, logout, roles | outbox; denylists of every service |
| web, gateway, Consul, storage, locations | views and configuration | - | - |

What is hard, and where:

* **Plain reads before guarded writes.** Postgres runs at READ COMMITTED. `createOrder` repeats the
  conditions it read in its UPDATEs; `processOrder` does not, nor do the cart operations.
* **Work lists.** An overdue run selects orders outside any transaction and works through them later.
* **At-least-once, unordered events.** A relay can die between the broker's confirm and the mark, an
  ack can be lost, a failed message comes back after newer ones, and after five attempts it is parked.
* **Replication races.** A seller can set the stock of a product commerce has not heard of yet.
* **A rebuild beside a stream.** Search fills a new Elasticsearch index from catalog's export while
  every instance goes on applying events, and any call, process or lease may fail in between.
* **Read models.** Catalog counts what other services tell it, and averages what buyers tell it.
* **Two records of one fact.** An order and its delivery job; a stock row and the event that
  announces it; a wallet and its transactions; a voucher and the orders that used it.

What makes each component right: money is conserved, stock and uses never go negative, an order and
its job agree and move along the documented arcs, a refund and a completion happen once, a cart is of
one store, no event is lost, and a replica that has nothing left to receive equals its original; a unit
sold and a review are counted once; what was applied to the search index survives its rebuilds, there
is always an index to search, and every instance gets ready.
`PROJECT.json` lists every hazard with its line and the properties that look for it.

## 2. Modules

```
CommerceTables --------------- the tables and the write phase of every transaction
  |- TableProperties          MoneyConserved, OutboxMirrorsStock, VoucherAccounting
  |- OrderLifecycle           seller, driver, overdue runs, checkout's write phase
  |    `- OrderProperties     implements OrderDiagram, the state machine of a status
  |         |- MCOrderLifecycle
  |         `- OrderLifecycleProofs   (lemmas on the tables' write phases first)
  `- Checkout (+ Pricing)     carts, the quote and checkout, request by request
       `- CheckoutProperties  implements OrderLifecycle
            |- MCCheckout
            `- CheckoutProofs         takes the lifecycle's theorems by INSTANCE
EventBus --------------------- outbox, relay, queue with retries and parking
  |- EventDelivery            with a recording consumer - MCEventDelivery, EventDeliveryProofs
  `- ProductReplica           catalog -> commerce, pending stock
       `- ReplicaProperties - MCProductReplica, ReplicaProofs
CatalogReadModel ------------- commerce, identity -> catalog; reviews and ratings
  `- CatalogProperties        - MCCatalogReadModel, CatalogProofs
SearchIndex ------------------ catalog -> search; rebuilds under a lease
  `- SearchProperties         - MCSearchIndex, SearchProofs
Session ---------------------- refresh tokens, access tokens, revocations, denylists
  `- SessionProperties        - MCSession, SessionProofs
SumProofs -------------------- laws of sums over finite sets, for the proofs about money and ratings
```

Two chains of refinement: `Checkout` implements `OrderLifecycle` (whose `CreateOrder` may take any cart
and any total; the mapping gives it the snapshots and totals checkout can produce), and
`OrderLifecycle` implements `OrderDiagram`. `EventDelivery` stands for the bus wherever a module says
that its events come in any order and any number of times.

How state and actions correspond to the code:

* **A transaction** that reads without locks is one step per such read (what it read is kept in a
  local variable of the request) and one step for everything from its first guarded UPDATE to the
  commit: those UPDATEs lock their rows until the commit, so nobody sees or changes a row in between.
  A condition of an UPDATE is evaluated in the commit step, on the rows as they are then. A
  transaction that fails has no effect: its request just ends (`Abort`, `OverdueSkip`).
* **`CommerceTables`**: one variable per column that matters. The rows of `wallet_transactions` are
  represented by what they say: top-ups by their sum per buyer, payments by the order's bill, refunds
  by their number per order (`REFUND-<order>`). A wallet that does not exist counts as 0. The outbox
  part is the set of `inventory.changed` events and the number of `order.completed` events. The status
  history is the number of rows of each status. Their order is not kept, because the code keeps none: a row has
  only its `created_at`, the time its transaction began (`order-schema.ts:57`), by which the seller's view sorts
  them (`orders-seller.service.ts:150`). When `processOrder` revives an order it began before the overdue run that
  returned it, and the history as read ends in `dikembalikan` while the status is `menunggu_pengirim`.
  `setStock` is its SELECT (`FindProduct`, after which the product is in `setting`) and its upsert (`SetStock`):
  `ProductDeleted` takes no advisory lock and may come between, and then the row comes back at version 1.
* **`OrderLifecycle`**: `ProcessOrderRead` is the SELECT of `processOrder`, `ProcessOrderWrite` its
  UPDATE by id, history row and INSERT of the job with its unique order id. `OverdueSelect` takes the
  list, `OverdueReturn` handles one order under `FOR UPDATE`, `OverdueSkip` covers both the re-check
  and the logged failure. `late` is the set of orders beyond their SLA; `ClockMoves` may change it
  to anything, because the administrator moves the clock forwards and back. `CreateOrder` is the write
  phase of checkout for any snapshot of a cart and any total: `Checkout` shows which ones arise.
* **`Checkout`**: a request in flight is a record of what it has read. `addItemToCart` is three steps
  (product and cart; the optional UPDATE of the cart and the SELECT of the item; the write), the
  other cart operations and the self-healing are two each, `createOrder` is four. The row lock that
  UPDATE `carts` takes and the disappearance of deleted rows under a waiting UPDATE or DELETE are
  modelled, since they decide which interleavings exist.
* **`Pricing`** and `Quote`: `preview`, `validateCode` and `calculateTotals` on natural numbers. `Math.round(taxBase * 0.12)`
  is rounding to nearest; a tie would need 12t = 100k + 50, which has no solution.
* **`EventBus`**: `outbox` holds unpublished rows; `RelayPublish` is a published and confirmed batch,
  `RelayMark` the update after it, and a crash can come between them or in the middle of a batch.
  A consumer that dies between parking a message and acknowledging it leaves it in both places (`Failed`).
  `queue` is a set: handlers run concurrently (prefetch) and retried messages return later, so any
  message may be next; copies of one event with one attempt count are a single member, and handling
  one while another remains is `HandledUnacked`. The topology (`infra/rabbitmq/init.ts`) gives one
  retry and one parking queue per consumer.
* **`ProductReplica`**: catalog's writes enqueue their events in the same step (a MongoDB
  transaction). A handler of commerce is one step. `setStock` is its SELECT under the advisory lock
  and its write. Product and store versions are those the events carry.

* **`CatalogReadModel`**: a MongoDB transaction reads a snapshot and is retried when what it writes was
  written meanwhile, so each is one step: `order.completed` with its inbox row, a review with its
  insert and both scores. What is read outside one is a step of its own: the two checks of
  `createReview`, and the upsert of a user, which finds no row and then inserts one (`inserting`).
  `addToAverage` works in hundredths and allows either neighbour on a tie, since `toFixed` rounds a
  binary fraction. `newest` and `collided` are history: what a handler returned for, and the users for
  whom an E11000 was taken for a newer row and was none. The version of a product or store and its event,
  which some of these transactions also write, are `SearchIndex`'s `ChangeProduct`.
* **`SearchIndex`**: Elasticsearch is `exists`, `docs` and the two aliases; `task[i]` is the handler or
  rebuild instance i is in, one at a time as `exclusive` has it, and each call to Elasticsearch is a
  step. `ApplyLive` and `ApplyBuilding` are the two guarded upserts of a handler. `KeepLease` is a
  write conditional on what was last seen, so an instance that lost the lease goes to `Undo`, the catch
  of `reindex`. Failures: a call that does nothing (`StepFails`), one whose clean-up fails too
  (`Outage`), the deletion of the replaced index (`CleanupFails`), the move of the alias taking effect while
  its answer is lost (in `SwapAlias`, counted with `CleanupFails`: in both the catch deletes the live index),
  `Crash`, and a lease that expires under its holder (`ExpireEarly`). `failures` counts them and `mishaps` says of which kinds they were; a
  crash after a takeover and before the deletion of the replaced index leaves it unsearched, as a failing
  deletion does, and counts as an outage. The code names an
  index by the time; `FreshNames` are the names nothing uses, and a rebuild waits while there is none.
  `applied` and `raced` are history.
* **`Session`**: `refresh` and `logout` hold the session's row lock from their first look at it to the
  commit and are one step. `selectRole` and `onboard` are an authentication, their database steps, and
  `Sign`, since the access token is signed after the commit. Of a session's access tokens only the
  latest expiry is kept. The stream of revocations keeps an event at least `Retention` after it was
  published; `unread[i]` is what instance i has still to be sent, and starts again with the whole stream on
  every connect. An expired refresh token is one that nobody presents any more. `isRevoked` compares
  the entry's expiry with the clock; deleting entries that have run out cannot be observed. Ticks
  are shared by all processes, and a request ends within `Delay` ticks.

Abstracted: names, prices inside events, addresses, notes, timestamps, slugs and images. Amounts are
unbounded: 32-bit columns reject an overflow, they do not wrap. Authorisation is reduced to ownership
where a query joins on it.

## 3. What the runs check

Every property is shown to depend on the code by a mutant of a definition (a dropped guard, a missed
event, an unlogged top-up, ...) that breaks it; `PROJECT.json` lists them.

| Run | Instance | Question and answer |
|---|---|---|
| `order_lifecycle` | 2 orders, 1 wallet, 1 product, 1 voucher use, 2 sellers' requests, 2 overdue runs, 2 drivers | Do status, job, refunds, history, stock events, vouchers and money stay consistent under every interleaving? Yes, in the form stated: a revived order is bounded to two refunds. |
| `order_double_refund` | 1 order | `docs/ADMIN.md` says a double refund is prevented. **Violated** (finding 1). |
| `checkout_concurrent` | 1 buyer, 2 requests, 2 orders, 1 product of prices 7 and 25, stock 2, 1 use of a voucher of 30, a promo of 33% up to 5 | Is checkout the `CreateOrder` the lifecycle takes it for, whatever requests interleave? Yes: so what holds of the lifecycle holds of it. And every quote adds up, with the tax to the nearest rupiah, and no discount exceeds its offer. |
| `checkout_stores` | 2 requests, 2 stores | `docs/BUYER.md`: one store per checkout. **Violated** (finding 2). |
| `event_delivery` | 2 events, 2 relays, 2 attempts | No event lost, every event is settled. |
| `replica_sync` | 1 store, 1 product, 2 versions, 2 sellers, 2 levels | Replicas never go back; when the bus is quiet and nothing is parked they equal catalog. Pending stock is never stranded. |
| `replica_deleted` | 1 product | A late older upsert cannot revive a deletion. **Violated** (finding 3). |
| `catalog_consumers` | 2 products of 1 store, 2 orders, 2 buyers, 2 requests, 2 versions of a stock row and of a user | Units sold and reviews counted once, the newest stock and name shown, the average never further from the mean than its rounding allows. |
| `search_index` | 2 instances, 1 product of 2 versions, one failure of any of 5 kinds | Does a handled event survive rebuilds, does the index only move forward, is the building index known, does a failing rebuild leave the live index, does every instance get ready? Yes, with the exceptions the properties name. |
| `search_rebuild` | the same, no failure | `sync/lock.ts` says a swapped-in index cannot miss a change. **Violated** (finding 4). |
| `session_revocation` | 1 session, 3 refresh tokens, 2 instances, 2 requests, cap 3, lifetime 1, 5 ticks | With a lifetime well below the cap: a revocation is final, the session is refused by every instance that has read the stream, whatever restarts, and every instance gets there. |
| `session_horizon` | 1 session, 1 instance, 1 request, lifetimes up to the cap | `auth.service.ts` says a revocation covers every access token of its session. **Violated** (finding 5). |

### Findings

1. **A returned order can be revived and refunded twice.** `processOrder` reads the status with a plain
   SELECT; an overdue run returns and refunds the order; `processOrder` then updates it by id to
   `menunggu_pengirim`; a second overdue run returns and refunds it again and restores the stock a
   second time. `RefundsBounded` and `ImplementsDiagram` state exactly how far this goes: once per
   order, because the job's order id is unique.
2. **One order with products of two stores.** Two `addItemToCart` requests both read a cart without a
   store; the second UPDATE waits for the first and overwrites `store_id`. Checkout then bills both
   products to one store.
3. **A deletion that arrives first is forgotten.** An upsert waits in the retry queue for its store;
   the deletion is handled, finds no row and is acknowledged; the upsert then creates the product for
   good. Catalog sends no event for it any more.
4. **A rebuild can lose a change.** The lock in `sync/lock.ts` orders handlers and rebuilds of one
   instance. With two, an event that instance B applies after A exported the product's page and before A
   wrote it is overwritten in the new index, since the bulk write carries no version guard; and an event
   B has written to the live index only when A moves the alias never reaches the new one. `AppliedIsKept`
   shows that for products that are not deleted these two windows are the only ones.
5. **An access token can outlive its session's revocation.** `selectRole` and `onboard` sign their access token
   after the transaction. A logout that commits before gives its revocation an expiry from its own clock, so with
   `accessTokenTtlSeconds` at or near the cap the token is valid longer. `HorizonHolds` says for which
   lifetimes this cannot happen: `2 * (MaxTtl + Delay) <= Horizon + 1`, so up to about half an hour; the
   default is ten minutes.

Two more points contradict a document; the models have them, no run states them:

* `docs/architecture/data-ownership.md:50` says that tombstones in search keep a late, older upsert from
  resurrecting a deleted product. A rebuild exports no deleted products, so it forgets tombstones, and an
  upsert delayed beyond it brings the product back. `AppliedIsKept` is silent about deleted products, and
  `IndexNeverGoesBack` is about one index.
* `docs/architecture/data-ownership.md:57` says a deletion removes the product's inventory. `productDeleted`
  takes no advisory lock, so a `setStock` that has found the product inserts the row again, at version 1 and
  behind the events of the row that was removed; `OutboxMirrorsStock` asks less of a deleted product for this.

No document says otherwise, but worth knowing:

* A crash between the swap and the release, a failing deletion of the replaced index, or a lost answer to the
  swap can take the live index away (`AliasStays` excepts them); the next reindex or boot builds one.
* The status history of a revived order reads as if it had been returned last (section 2).
* An order of a cart that is checked out twice at the same time is placed and paid twice; `ImplementsLifecycle`
  allows it.
* A rating cannot move once a product has 800 reviews (`RatingsFreeze`).

### Bounds, and why they are enough

* Two orders, requests, relays, sellers: every race in the code is between two transactions on a row
  or a list, and each actor kind appears twice wherever two of them can meet. `Symmetry` is used for
  interchangeable model values only and never in a run with a liveness property.
* `MaxBalance` and `MaxVersion` (top-ups and stock levels) stop the two counters that grow without an
  order; balances still cover zero, one and two orders. `MaxVersion` and `MaxSets` of `ProductReplica`
  bound catalog's edits and commerce's stock writes: two versions are a creation and a change or a
  deletion around one another (`replica_deleted` has the longer sequences); a guard on versions
  compares two of them at a time. `MaxStoreVersion` is 3, as a store's version counts its creation and each
  product created in it or deleted from it.
* `MaxTime` ends the clock of `Session` when a session revoked at tick 1 has outlived every expiry and
  the retention of the stream.
* `MaxAttempts` is 5 in the code; 2 has a retry and a parking, and 1 in the replica runs parks at once
  (the failing handler may still be replaced by a later redelivery, since the relay can publish again).
* `checkout_concurrent` has one product and one buyer: requests of different buyers meet only in the tables, where
  `order_lifecycle` covers them; the second store is in `checkout_stores`. Prices 7 and 25 with a fee of 2 make totals that round up and down, carts cheaper than the voucher and
  promos below and above their cap; `QuotesAreExact` covers every value.
* `search_index`: a second product would only add interleavings of handlers that touch different
  documents; two versions are a change or a deletion around a rebuild; four index names are one live, one
  left behind and one for each instance; `MaxMishaps` is one failure per behaviour, and five kinds of it.
* `catalog_consumers`: a version guard compares two versions, a duplicate is a second delivery, and the
  score of a store is shared by two products.
* `CHECK_DEADLOCK FALSE` everywhere: all orders final, all events handled, is a proper end of each
  bounded instance.

### Fairness

Three runs have a liveness property. In `event_delivery` `Publish` and the ways a message leaves its place are
weakly fair: the relay polls for as long as its process runs and is restarted, and RabbitMQ delivers
what it holds to a consumer that reconnects. `Mark` is strongly fair: a relay that crashes before the
mark publishes again, and does not crash every time. `Commit`, `Crash`, partial publishing and lost
acks get no fairness. A handler is not assumed to succeed: a message may fail until it is parked. In
`session_revocation` publishing and delivery from the stream are weakly fair for the same reasons; time,
restarts, reconnects and requests get no fairness. In `search_index` an instance goes on with the
handler or rebuild it is in (its calls have timeouts), `index.ts` tries to boot again every five seconds, and a lease
nobody renews expires; events, changes, failures and the reindex endpoint get no fairness, so `BootSettles`
does not rest on anybody calling it.

## 4. What is proved

`tlapm` checks every proof to its leaves. From the named assumptions on the constants
(`TablesAssumption`, `LifecycleAssumption`, `CheckoutAssumption`, `BusAssumption`,
`ReplicaAssumption`, `ReplicaEventsAssumption`, `CatalogAssumption`, `SearchAssumption`,
`SessionAssumption`), which TLC evaluates on every run:

* **`SumProofs`**: lemmas for the theorems about money and ratings, on what a sum over a finite set gains when a
  row is added and when one row changes. `SumFunction` is a fold that takes the elements in the order CHOOSE gives
  them. That the order is immaterial is induction, which the prover cannot do over an operator; the
  proofs argue instead with a minimal counterexample in the set of all subsets, which the well-foundedness of
  strict inclusion among finite sets provides.

* **`OrderLifecycleProofs`**, for any sets of orders, buyers, products, requests, runs and drivers:
  * `TypeCorrect`: TypeOK is inductive. Its weight is in `Nat`: the guarded UPDATEs are what keeps
    stock, balances and voucher uses from going negative, and its last conjunct says that whatever a
    request or a run holds is an order that was placed.
  * `OrderSteps` reduces the fifteen actions to five ways an order moves; on it rest
    `JobsTrackOrders` (inductive with TypeOK) and, from that, `RefundsAreBounded`,
    `CompletionAnnouncedOnce` and the action properties `CompletedOrdersAreFinal`,
    `DeliveriesHaveOneDriver`, `StrandedJobsAreInert`. The strengthening matters: without the job's
    state nothing prevents `ProcessOrderWrite` from reviving an order twice, and only
    `JobTracksOrder` tells that a completed order has a job.
  * `LifecycleImplementsDiagram`: initial states map to initial states, every step to an arc or a
    stutter of `OrderDiagram`.
  * `HistoryIsTrue` (HistoryMatchesRecords) counts: each way an order moves adds a row where it changes the job,
    the driver, the outbox or the wallet's refunds. That a second `ProcessOrderWrite` adds none is `NoJob`.
  * `OutboxIsTruthful`: OutboxMirrorsStock is inductive with TypeOK. A product once deleted stays so, which is
    what its exception needs.
  * `VouchersAddUp`: for a finite set of orders; `VoucherInv` adds the finiteness of the users of a
    voucher, so that cardinalities can be counted with `FiniteSetTheorems`.
  * `NoMoneyIsLost`: MoneyConserved for any number of orders and buyers. `MoneyInv` adds that a buyer has placed
    finitely many orders; an order placed is a row more in the sum, a refund a change of one row. That a
    new row is the order's total alone needs `RefundsBounded`: an order not placed yet was not refunded.
    Even a second refund of one order is accounted for.
* **`EventDeliveryProofs`**: `BusTypeCorrect`; `NoEventIsLost` and `MarksFollowConfirms`, inductive
  together (`DeliveryInv`): a mark is harmless because what a relay marks is on its way or settled.
* **`SessionProofs`**: `TypeCorrect`, `RotationIsUnique`, `RevocationsAreFinal`; `HorizonHolds` (HorizonCoversTokens) and
  `CaughtUpInstancesDeny` under `LongEnough`, which is false of the instance of `session_horizon`. `HorizonInv` follows what may still be signed for a
  revoked session: `Once(s)`, the latest expiry without an onboarding, bounds when a request of it can
  have been authenticated, and a user is onboarded once, so that the chain has two links. `StreamInv` says where
  a revocation is: in the outbox, in the stream, read by the instance, or past mattering.
* **`CheckoutProofs`**:
  * `CheckoutImplementsLifecycle`. Every step of `Checkout` but a commit, a top-up, a change of stock and a
    deletion stutters; a commit is `CreateOrder` with what the request holds. That this is a snapshot with
    items and a total `calculateTotals` can come to is `CartInv`: what a request remembers at each of its
    steps, which stock there can be, and which prices. `TypeCorrect` follows from it.
  * `CheckoutsConserveMoney`, `CheckoutsCountVouchers`, `CheckoutsAnnounceStock`: the lifecycle's theorems hold
    of checkout because it implements the lifecycle. They are not proved again: `Proved` is an INSTANCE of
    `OrderLifecycleProofs` under the refinement mapping, `AssumptionsMet` shows that its assumptions on the
    constants hold there, and `SameLifecycle` that both instances are one specification.
  * `QuotesAreExact` and `DiscountsStayWithinOffer`: in every reachable state, what any cart would be
    quoted with any code it may use adds up to the rupiah, and no discount exceeds its offer, for any prices,
    vouchers and promos; from lemmas on rounding and on each kind of discount. They need that a cart has
    finitely many rows (`FiniteCarts`), without which its subtotal means nothing.
  * `OneRequestOneStore`: `Spec /\ []OneAtATime => []OneStorePerCart`, which no run checks. The hypothesis is needed (finding 2 is its failure with two requests of one buyer) and says no more than that no
    two requests of one buyer are in flight; other buyers, catalog's deletions and failing requests are
    unrestricted. `ScopeInv` says that what the buyer's only request has read of the cart is still so.
* **`CatalogProofs`**: `TypeCorrect`, `StockConverges`, `NamesAreNewest`, `ReviewsAreCounted` from one
  invariant. Its strengthenings: a score without reviews is 0 and any other between one and five stars (so
  that a sum stays in range), a user whose row is missing has no newer name, a request holds a review of
  something bought, and reviews are finite (so that one more is counted as one more). `RatingsFreeze` is an
  action property of the running average. `SalesCountedOnce`: an order in the inbox is a row in the sum of
  what was sold of a live product, and `FirstDelivery` keeps it from becoming two. `RatingsDriftSlowly`: after `n`
  reviews a rating is off its mean by at most `(n + 1)/4` hundredths; `DriftGrows` shows that one step of
  `addToAverage` adds no more than half a hundredth, which weighs as much as the reviews there are by then.
* **`ReplicaProofs`**: `TypeCorrect`, `NeverBack`, `NoStockStranded` and `Replicated`, for any stores,
  products, relays and requests. `Replicated` follows an event from the write of catalog that sends it to
  the replica: it is in the outbox, in flight, parked or applied (`Sent`, stable by `SentStays`), because a
  relay's batch has left it (`BatchInv`); what travels is true of catalog and stays so while its versions
  grow (`KnownInv`), so that the replica is never ahead (`StoreInv`, `ProductInv`). `NoStockStranded` needs
  the lock: a request that found no row is still right when it writes (`LockInv`). The quiet state is
  about live products only; `replica_deleted` shows why it cannot say more.
* **`SearchProofs`**, for any instances, products, index names and kinds of failure:
  * `TypeCorrect`. That a type is kept depends on who owns an index: `OwnIndex` says that no two rebuilds
    fill the same one, none fills the live one, and the building alias covers every index that is still to
    go live.
  * `AppliedStays` (AppliedIsKept). `Versions`: nothing that travels (a document, an event in a handler, an exported
    page) is ahead of catalog. `Kept` follows an applied event of an unraced product through a rebuild: an
    exported page is not behind the index it goes to (`PageIsNewer`); what was applied is still to be
    exported, in the page, or in the new index (`BuildCovers`); and a handler between its two upserts has
    reached the live index (`LiveCovers`). So what goes live with the swap has everything.
  * `IndexMovesForward` (IndexNeverGoesBack), of every index while it exists: a guarded upsert never lowers a
    version, and neither does an unguarded bulk write, by `PageIsNewer`.
  * `OneIsBuilt` (OneBuilding). Its invariant `Alone` is conditional: as long as no lease has expired early and no
    deletion failed, whoever rebuilds holds the lease, and the building alias covers only what the lease
    records or its new holder is about to drop.
  * `SearchStaysUp` (AliasStays), from `NeverAbandoned`: as long as no rebuild crashed, failed to clean up or was
    not answered when it moved the alias, no
    lease is left behind and nothing a rebuild may still delete is the live index.

  The last two conditions are the exceptions the properties themselves name; section 3 says what happens
  in them.

Only model-checked:

* Liveness, which rests on fairness and ENABLED: `EventsSettle`, `BootSettles` and `RevocationIsHeard`.
* `OneStorePerCart` without the hypothesis `OneAtATime`, of which it is false.
* The five violations of section 3: TLC shows each of them on an instance; nothing is proved of them.

## 5. Not modelled, and what is left

* They only read or only show: lists, reports, dashboards, search queries and ranking, locations, the web
  application with its generated API client, routes and schemas. These and the seed data are most of the
  repository's lines; the state the services change is in a few thousand of them, most of which the modules cover.
* Their state is external: Consul, object storage, the gateway; scripts that provision them.
* Writes without a promise to check: `updateSellerProduct`, `updateStore` and `updateProfile` write fields
  they read before the transaction; the default address; `simulateTime`'s read-then-write; app reviews.
* Store names in the search index (`upsertStore`, `updateByQuery`).

Left for later, in this order: the store names of the index; the default address under concurrent
requests; the order in which checkout, overdue runs and drivers lock rows (a deadlock is broken by
Postgres, and the aborted transaction is a step the models have).
