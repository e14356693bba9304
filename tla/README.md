# Verification of NextStock

NextStock is a multi-tenant back office for shops: a NestJS server (`src/src/`)
over PostgreSQL through Prisma, a public storefront, cash registers in the
browser (`src/public/Js/`), an agenda for pet shops, recurring billing through a
payment gateway, fiscal documents, and a local printing agent
(`src/scripts/printing/`).  The server runs as several replicas; nothing of what
matters is kept in memory.  What is hard about it is therefore what happens
between the statements of transactions that run at the same time under READ
COMMITTED, between a database and a service that may not answer, and between a
process that dies and the one that takes over.

This directory holds TLA+ models of those parts, the TLC configurations that
check them on small instances, and proofs that TLAPS checks for all instances.

## 1. Inventory

| Part | State it keeps | Operations | Interacts with | What makes it correct |
|---|---|---|---|---|
| Orders and stock (`orders/`) | `orders`, `order_items`, `version`, `stockRestoredAt`; `products.quantity` | create, update (a form with `expectedVersion`), updateStatus, deliver, cancel, remove | sales, storefront, catalogue, by rows | stock is taken and returned once; statuses follow the table; no edit overwrites what its author did not see |
| Sales (`sales/sales.service.ts`) | `sales`, items, payments; unique `order_id`, unique idempotency key | create (cash register), createFromOrder, cancel | orders, stock, till | one sale per order and key, of the order's items |
| Till (`public/Js/caixa.js`, `sales/internal-receipt.service.ts`) | the cart, `checkoutKey`, `printRequestKey`; print events | add, edit, discount, checkout, print, preview, reload | sales, printing agent | a cart is sold once, at the amount shown; a receipt comes out as often as asked |
| Printing agent (`scripts/printing/`) | a queue in memory and in a file | enqueue, process, cancel, resolve, restart | till, spooler | no receipt twice unasked |
| Storefront (`storefront/`) | guest orders, their keys and hashes, advisory locks | createGuestOrder, cancelGuestOrder, expireReservations | orders, stock, audit outbox | limit of active orders per phone, a key is one order, every request is answered |
| Audit outbox (`audit/audit-outbox.service.ts`) | `audit_outbox_events`, `security_audit_events`; timers, deliveries in each process | enqueue, claim, deliver, fail, start, shutdown | every audited transaction | each committed operation is recorded exactly once or visibly given up |
| Billing ledger (`billing/payments.service.ts`, `billing-state-order.ts`) | `billing_payments`, refund intents, `checkout_sessions`, the subscription and its version | processVerifiedPayment, refundForTenant, reconcileRefundIntent | gateway, webhook, reconciliation, checkout, promotions | payments do not regress, no report is lost, access follows the latest payment, one refund |
| Checkout, cancellation, plan change (`checkout.service.ts`, `subscriptions.service.ts`) | intents and operations with claim tokens and leases | create, cancelForTenant, requestPlanChange | gateway, ledger, promotions | one remote effect per intent; unknown results are not repeated |
| Webhook inbox, reconciliation (`webhook.service.ts`, `reconciliation*.ts`) | `gateway_webhook_events`, a lease row | handle, claim, finish; batch | ledger | an event is settled once and never lost |
| Promotions (`promotions/`) | reservation and conversion counts, a reservation per tenant | activate, close, reserve, convert, release, expire | checkout, ledger | a campaign's limit |
| Upload quota, stored files, image pipeline (`storage/`) | reservations, three counters, file rows, objects; a semaphore with a queue | reserve, upload, register, confirm, release, expire, reconcile, remove | Supabase storage | counters equal the files; what is stored is charged; places are not lost |
| Point-of-sale payments (`payments/`) | connections with encrypted credentials, PIX charges | connect, validate, revoke, createPix | provider | credentials stay readable or are gone |
| Authentication, sessions (`auth/`, `sessions/`) | registration intents, credentials with a version, reset tokens, sessions | register, login, refresh, log-out, recover, reset, change | identity provider, e-mail | one company per registration, a reset per version, a revoked session stays so |
| User provisioning (`users/`) | `user_provisionings` | create, reconcile | identity provider | the row says what is at the provider |
| Fiscal documents and certificates (`fiscal/`) | documents with attempts, sequences; certificate row, cleanup jobs, administrative executions | send, query; upload, validate, remove, activate, clean up | tax authority's provider, bucket | one attempt in doubt, no object lost or named in vain |
| Performance cache (`performance/`) | entries, generations, flights | getOrSet, invalidate, expire, evict | dashboard, every write | no stale summary after an invalidation |
| Agenda (`agenda-pet/`) | appointments, advisory locks | create, update, remove | pets, employees | nobody is booked twice |
| Usage cycles, pets, clients, employees, suppliers, expenses, partners, profile, dashboard, developer tools | single rows, reports | create, read, update, delete | - | scoping by tenant |

Hard behaviours, by kind (the full list with lines is in `PROJECT.json`):

* **A read before a claim.** A handler reads a row, checks it, and then claims it
  with an `UPDATE ... WHERE` whose count must be one.  What the `WHERE` does not
  test may have changed since the read.  Orders, sales, storefront, billing,
  registration, checkout, connections, certificates, promotions.
* **Reads that do not belong together.** Prisma executes an `include` as one SELECT
  per table (no `relationJoins` here), each with a snapshot of its own.
* **Snapshots of a remote system** that arrive late, twice or out of order.
* **Leases** that run out while their holder works: outbox, webhook inbox,
  registration, checkouts, cancellations, refunds, fiscal attempts.
* **Retries** of what may have been done: lost replies, P2034, a browser that
  repeats a key, a gateway or an identity provider that never answered.
* **Crashes** between a claim and what it was made for, and between two stores
  (row and bucket, queue and file, row and spooler).
* **Two computations of one amount**, at the till and at the server.

## 2. Modules

| Module | Models | State and actions |
|---|---|---|
| `OrderStock` | the rows that OrdersService, SalesService, StorefrontService and ProductsService share | `quantity`, `orders`, `orderSales`, `posSales`; `req` is what each request in flight has read. `XRead`/`XLookup` are the reads of a handler up to its first UPDATE, `XClaim`/`XCommit` everything from that UPDATE to the commit. `ledger` and `staleClaims` are history: units taken net of returns, and orders claimed on items edited since. |
| `GuestOrders` | createGuestOrder with its advisory lock, key, retry loop and lost replies | `pc` of each request walks through the statements of the transaction; `Advance`, `Cancel`, `Hide`, `Rephone` are what the rest of the system does to orders (in full in `OrderStock`). |
| `AuditTrail` | what RC-013 promises: owed, then recorded or abandoned | one variable |
| `AuditOutbox` | AuditOutboxService in several replicas | `row` (the attempt number stands for the claim token, which is as fresh), `ledger`, `worker`, `running`. `Trail` maps it to `AuditTrail`. |
| `BillingOrder` | decideBillingState as operators | `Level`, `Older`, `Applies`, `Applied` |
| `BillingReplay` | the same snapshots reaching two ledgers in different orders | `told`, `left`, `right` |
| `BillingPayments` | applyWithCas by concurrent workers, with the gateway, checkouts and cancellation around it | `remote` is the gateway; `job` is what a worker has read. `current`: the workers whose read of `subscription.version` is still the row's (for the numbers, which only grow). |
| `Refunds` | refundForTenant, reconcileRefundIntent | the intent row, `refunding`, the gateway's `charge`, the `ledger`; `sent` is history |
| `Promotions`, `Checkout` | the slots of a campaign; CheckoutService.create, which `EXTENDS Promotions` and binds reservations | `campaign`, `slot`; `intent`, `session`, `step`, `seen` |
| `SubscriptionOps` | cancellation and plan change of one subscription | two operation rows under one unique index, confirmation by webhook or reconciliation, renewals |
| `WebhookInbox` | handleMercadoPago for one event | claims with tokens and leases; `settled` is history |
| `Registration`, `Provisioning` | the two sagas over an intent row, the identity provider and a local transaction, with compensation | `calls` and `answer` are the provider: late, lost or never. `LeaseExpires` waits for nobody; `overtaken` and `strayed` are history: who worked on the row when another claimed it, and who wrote it nevertheless. |
| `Sessions` | a profile's password and all that depends on `credentialVersion` | logins, refreshes, recoveries, resets, change forms |
| `PaymentConnections` | validation and revocation of a connection | `sealed`: the version the credentials are encrypted for |
| `Fiscal` | sendDocument and queryDocumentStatus of one NF-e | `document`, `nextNumber`, `send` |
| `Certificates` | the A1 certificate of a branch: row, bucket, cleanup jobs, administrative executions | `office` are the requests, `cleaner` the worker; `confirmed`, `astray`, `unheard` are history |
| `Uploads` | quota, file rows, objects, their expiry and removal, for the requests of a tenant | `pc` of an upload walks through prepareImage and its callers; `removal` is what a request that removes files has read. `doubled` is history: the rows it took off although another had marked them. |
| `ImageCoordinator` | the semaphore of the image pipeline | one step is one turn of the event loop |
| `AgendaPet` | appointments with ordered advisory locks | `request` walks through lock, read, checks, write |
| `PerformanceCache` | getOrSet, invalidation | `floor`: the newest write announced when a request came |
| `PrintQueue` | the printing agent over its file and the spooler | `queue` is memory, `disk` the file; every await is a step |
| `CashRegister` | the till, its posts and prints; the agent as `PrintQueue` promises it | `cart`, `checkoutKey`, `printKey`; a sale has its key's name |
| `SaleAmounts` | the arithmetic of a sale: the page's totals, SalesService's, labels of scales | quantities in 1/`Scale`, cents, `Round` is Math.round |
| `MC*` | instances for TLC | see 3 |
| `*Proofs` | theorems | see 5 |

Composition: `BillingPayments` and `BillingReplay` extend `BillingOrder`;
`Checkout` extends `Promotions`; `AuditOutbox` instantiates `AuditTrail` under a
refinement mapping; `GuestOrders` details `OrderStock`'s `GuestCreate`;
`CashRegister` relies on what `PrintQueue` guarantees.

What is one step follows PostgreSQL: a statement sees what is committed when it
starts; an UPDATE waits for the row, tests its WHERE again on the newest version
and holds the row to the end.  So the reads before the first UPDATE are steps of
their own, and what follows the UPDATE on rows it holds is one step.  A
transaction that throws changes nothing.  A call of another service is a step,
its answer another.  In a process with one event loop a step runs from one await
to the next.  In `OrderStock` an order is read together with its items although
they are two SELECTs: a pair of an older order and newer items has an older
version, which the edit form's claim refuses, and cancellations and payments
keep only the items.  In `BillingPayments` the same split is not harmless and is
modelled.

Definitions named after a fault (their comment begins with *Fault*) are not part
of a specification: each is a plausible mistake in the definition that follows
it, and the property of a run is known to notice it (`mutants`).

What the models take on trust, all of it from how the code is written:

* A gateway's error status (4xx, 5xx as the adapters raise it) means that it
  did not apply the change (`SubscriptionOps`, `Refunds` for 4xx); what is not
  answered may have been applied.  The gateway deduplicates by key.
* A transport that throws an error other than its ambiguous one printed nothing.

## 3. Runs

| Run | Properties | Bounds, and why they are enough |
|---|---|---|
| `order_races` | `LedgerExact`, `SaleOrderConsistent`, `SaleMatchesFreshOrder`, `FormFresh`, `OneUnitEach`, `LegalTransitions`, `NoBlindEdit` | Two instances, told apart by `instance`. *races*: one product, one order, one key, two requests in flight, carts of 1 or 2, versions to 3: two handlers are what a race needs; the order is created, edited twice and raced for by every pair of handlers. *contention*: one unit, never refilled, two orders, two keys. |
| `eventual`, guests | `ActiveLimit`, `AnswersAgree`, `StockExact`, `Answered` | Two requests with every combination of two phones, keys and contents; limit 1, two tries, stock 2. The limit is reached by one order, so that two requests compete for the last place (3 in the code; the theorem has any). |
| `eventual`, outbox | `EvidenceOwed`, `EvidenceOnce`, `Fenced`, `TrailSpec` | Two events, payloads, workers, attempts and faults. `MaxFaults` bounds how often something goes wrong, which liveness needs. |
| `billing` | `LatestPaidKept`, `ToldIsKnown`, `Settled` | Two charges, two checkouts, two workers, three changes at the gateway: two payments and a late reversal of the first under either checkout. `Reported` leaves CHARGEBACK out: nothing but `Level` tells it from REFUNDED. |
| `shared` | `CountersHonest`, `PlacesHandedOut`, `TenantFifo`, `NoDoubleBooking`, `LocksGranted` | Two uploads of two objects by one user at limits that admit one or both, two removals that may read the same files, two days; five pipelines of two tenants over two places and a queue of three; two appointments, two requests, two pets, attendants and hours (`AgendaNext`: the first request creates and moves to another pet, the second moves to another hour or closes). |
| `services` | one or two of each service, below | below |
| `stale_cancel`, `stale_payment` | `StockReturnedExactly`, `SaleMatchesOrder`, violated | *races* of `order_races` |
| `stale_checkout`, `refund_after_checkout` | `ApprovedCompletes`, `RefundSuspends`, violated | one or two charges, as `billing` |
| `billing_replay` | `PermutationsConverge`, violated | three changes of one payment |
| `suspension_lifted` | `SuspensionHolds`, violated | one upload, validation and activation |
| `removed_twice` | `RemovedOnce`, violated | as `shared` |

`MCEventual`, `MCShared` and `MCServices` hold parts that share no variable.  A behaviour of
theirs moves one part (`moves`) and leaves the others at their start, so that
TLC explores the sum of their states and not the product; each part is checked
as if it had a run of its own.  The parts of `services`:

| `moves` | Property | Instance |
|---|---|---|
| campaign | `NeverOversold` | two tenants, two keys, at most two slots |
| checkout, takeover | `OneCheckout` | one tenant: two requests of one key and one of another; three of one key |
| registration | `OneCompany` | three requests, two payloads, an identity of another origin |
| provisioning | `RowIsTrue` | two managers, a worker |
| passwords, sessions | `ResetOncePerVersion`, `RevocationHolds` | two recoveries and resets, a change form; a browser with one recovery |
| fiscal | `OneInDoubt` | three attempts, a provider that is real or simulated |
| cache | `NeverStale` | three readers of two keys, one entry, two writes |
| connection | `CredentialsReadable` | two validations, two revocations |
| webhook | `SettledOnce` | three deliveries |
| subscription | `MutationsApart` | two cancellations, two plan changes, two renewals |
| refund | `OneRefund` | three requests, a row of an earlier version or none |
| print | `NoBlindReprint` | two receipts, two attempts |
| selling, receipts | `SoldOnce`, `CopiesAsked` | three carts, two keys, two posts; two prints, one post |
| exchange, cleanup, status | `BucketAgrees` | two uploads, a validation and a removal, two at a time; one upload and a removal with the worker; activation and suspension |
| amounts | `AmountsAgree` | quantities of two decimals, four prices on both sides of the bound, two scans, discounts of both kinds |

Deadlock is not checked where requests are finitely many, a clock is bounded or
a queue may rest empty: those systems end or wait.

What the properties say is at their definitions.  A word on some:

* `LedgerExact`, `SaleMatchesFreshOrder`: what goes wrong in `stale_cancel` and
  `stale_payment` is the *only* way stock and sales go wrong.
* `CountersHonest`: the three counters are the sums of the reservations; an object
  or a row that may exist is charged for; and the total is what was confirmed less
  what was deleted, and covers the files there are, but for the rows that a removal
  takes off a second time (`doubled`). Those are the only way in which the total
  departs from what there is: that they occur is `removed_twice`.
* `RowIsTrue`: a row that may be created again has left no identity and no call that
  makes one, and a COMPLETED row has its profile and its identity. A lease may run
  out at any moment, whatever its holder waits for, and a worker may reconcile the
  row while the request runs. What the property exempts is what follows a write of
  the row by somebody who no longer holds it, and a worker's claim of a row that is
  not the one it read (`strayed`); the code allows both (below).
* `OneCompany`: an address whose registration is asked for several times, with lost
  answers, leases that run out and compensations, gets one company at most.
* `BucketAgrees`: what the row names is stored, and what is stored is named, queued
  for removal or being uploaded.  The ways the code has of leaving an object
  behind, or of losing one, are named in its comment and kept as history.
* `SoldOnce`: a cart is sold once through lost answers, retries, reloads and late
  posts, unless its method of payment was changed in between.
* `AmountsAgree`: a card is never charged other than the sale says, whatever the
  price has become; at an unchanged price both sides compute the same; and a line
  of scale labels costs their sum while count times price is below 10^6 cents.
  That bound is sharp: beyond it the six decimals lose a cent.

What the violated runs show:

1. **A cancellation returns stale items.** `cancel`, `cancelGuestOrder` and
   `expireReservations` read the order's items, then claim it by status.  An edit
   that commits in between changes the items and the stock; the cancellation then
   returns the old ones.  `update` re-reads after its claim, these do not.
2. **A payment sells stale items.** `createFromOrder` copies the items and totals it
   read before its claim into the sale.
3. **A paid checkout falls back to PENDING.** `applyWithCas` reads the checkout in
   one SELECT and the subscription, whose version is the lock of the aggregate, in
   the next.  A payment committed between the two has its version accepted and its
   checkout status overwritten; the tenant cannot open another checkout.
4. **Permutations do not converge.** `decideBillingState` refuses an older date
   before it compares stages, and the adapter reports PENDING for any status it
   has no name for: approved@1, pending@2 gives APPROVED or PENDING by the order.
5. **A refund that does not suspend.** Opening another checkout makes the paid one
   superseded at once; a refund of the payment the access rests on is then taken
   for an old one.
6. **A suspension that is lifted.** `validate` writes the status that it derived
   before it downloaded the certificate; a branch suspended meanwhile is active
   again without a confirmation.

7. **A file is taken off twice.** `StoredFilesService.markDeleted` takes from the
   total the rows that it *read*, not those that its UPDATE changed: of two requests
   that remove the same images both subtract them, and the tenant's total stays too
   small. Where nothing else is confirmed, the table's CHECK refuses the second
   decrement, and that removal fails after its objects are gone.

Met while modelling, without a run of their own, because the repository nowhere
says that it is otherwise:

* Provisioning, `transition` (users.service.ts:698-712) tests neither the claim nor
  the state before it writes. A request whose transaction failed is slow, its lease
  of a minute runs out, a worker claims the row as AUTH_CREATED and looks the
  identity up; the request writes COMPENSATION_REQUIRED and asks for the deletion;
  the worker then creates the profile and writes COMPLETED; the deletion arrives: a
  user without an identity. TLC finds it in 12 steps where `RowIsTrue` is asked for
  without `strayed = {}`.
* Provisioning, the claim of `reconcile` (:495-510) tests the state that was read but
  not `authUserId`: a row that was compensated, created again and is to be
  compensated anew is claimed with the identity of the first time, which the provider
  no longer has; the worker takes that for an absence and forgets the second identity.

* Till: another payment method chosen after a lost answer makes a second sale;
  opening the payment window resets the method without the key; what is added to a
  cart while its sale is asked for vanishes with the success.
* Certificates: two uploads at once leave the object of the first without a name;
  the rollback after a commit that was not heard of deletes the object named; a
  validation stores a removed legacy object again; activation writes after a removal.
* The product form writes the absolute quantity it was filled in with.
* An outbox row whose delivery kills its worker is claimed without limit; a webhook
  delivered again while its event is processed is answered 200.
* Printing agent: a receipt in "error" is sent again by load and enqueue, also one
  the operator cancelled after an ambiguous delivery.
* PIX: two retries of a failed charge both proceed, and after the route changed they
  reach two accounts; a late failure overwrites SUCCEEDED; CLAIMED and PROCESSING
  are never resolved after a crash.

## 4. Fairness

* `GuestOrders`: a request that can go on does (`WF` of its steps: nothing waits
  but for a lock). `SF` of `Lock`: PostgreSQL grants a lock in the order it was
  asked for, so a waiting request is not passed over for ever. Faults are not
  fair. With it `Answered`: no lock is left behind, tries are finite.
* `AuditOutbox`: time passes (`LeaseExpires`, `BackoffOver`), each due row is
  claimed in the end (claims are ordered by `available_at` and the timers of the
  processes fire again), processes are started again, a delivery under way goes
  on. Faults are bounded by `MaxFaults`.
* `MCEventual` runs the two side by side, one of them moving per behaviour, and
  states the same fairness for the one that moves.
* All other specifications have safety properties only.  What must not wait for
  ever is stated without fairness where it can be: `PlacesHandedOut` (nobody waits
  beside a free place) and `LocksGranted` (while one waits, somebody can go on).

## 5. Theorems

All are proved for every value of the constants, from the named assumptions that
the modules make of them and that TLC evaluates on every run: carts are functions
to naturals, ids of orders and keys are distinct, requests of different kinds are
different (`TillAssumption`, `ProvisioningAssumption`, `AgendaAssumption`,
`CertificateAssumption`), no model value for "nobody" is somebody, bounds, prices
and amounts are naturals (`CacheAssumption`, `CoordinatorAssumption`,
`AmountAssumption`), and what is summed or counted is finite (`HoldersFinite`,
`KeysAssumption`, `QuotaAssumption`).

Each theorem names the specification of its component.  `MCEventual`, `MCShared` and
`MCServices` run several components with one `Next`, and one component of
`MCServices` at a time moves: a theorem about `P!Spec` is about the component
`P` that the run checks, with any number of actors.  `RunIsOfServices` and
`RunIsOfShared` prove the link: `MCSpec` implies the specification of each.

* `OrderStockProofs`. The inductive invariant `IInv` is `TypeOK`,
  `SaleOrderConsistent`, `NoSaleNoItems` (a key without a sale holds nothing),
  `LedgerExact`, `SaleMatchesFreshOrder` and `FormFresh`. `StepKinds` reduces the
  22 actions to nine kinds of changes of the rows; each conjunct is then shown
  kind by kind. `LedgerExact` needs only the types and `NoSaleNoItems`, because
  every claim that returns stock asks for a status in which the order still holds
  its items; `SaleMatchesFreshOrder` needs that an order with a sale is not
  mutable. `FormFresh` must compare versions, items and status together: guest
  cancellations and expiries leave the version alone, but only when they end
  mutability. `LegalTransitions` and `NoBlindEdit` follow from `IInv`.
  `OneUnitTheorem`, of the instance *contention*, is the other side of
  `LedgerExact`: where nobody edits, what the product has left and what the rows
  hold are the units there were. `ContentionInv` keeps that all rows, and all
  reads, hold one unit of the one product (`RowsAlike`, `ReadsAlike`) and the
  balance as the cardinality of the set of rows that hold it (`Account`).
* `GuestOrdersProofs`. `IInv` adds that a request in its transaction holds the lock
  of its phone (`Locked`) and that what it counted is still below the limit
  (`Counted`): others can only shrink the set, because who adds to it must hold the
  same lock. `AnswersAgree` needs only that orders keep their contents under a key.
  `StockExact` counts the units of active orders as a set of pairs, because a sum
  over rows needs an induction that a cardinality does not.
* `AuditOutboxProofs`. `Inv` is `TypeOK`, `EvidenceOwed`, `EvidenceOnce`;
  `TrailSafety` shows that every step of the outbox is a step of `AuditTrail` or
  leaves the mapped trail alone. `Fenced` needs no invariant but the types: a
  delivery whose token is not the row's writes nothing.
* `BillingPaymentsProofs`, for any charges, checkouts and workers. `IInv` says
  what the two sources a worker trusts are worth: the gateway's dates grow and no
  two approvals share one (`Dated`), what was fetched and what the ledger holds
  was so once at the gateway (`Told`, `Behind`, both by `Past`), and the row read
  is the row as it is exactly while the worker is in `current` (`RowRead`).
  `Settled` is then the compare-and-set plus `Applies`; `ToldIsKnown` needs that a
  snapshot refused although current can only be refused by a row as late as the
  gateway itself; `LatestPaidKept` needs that two charges have distinct dates of
  approval.
* `CheckoutProofs`. `NeverOversoldHolds`: the campaign's counts are the cardinalities
  of the tenants in each status, through recycling, lapse and changes of the
  capacity, for any finite set of tenants. `OneCheckoutHolds`: a request between its
  claim and its commit is the one the intent names. SubscriptionOps: who is between
  its operation row and its answer owns a row that is pending, and the unique index
  admits one: a cancellation and a plan change are never sent side by side.
  WebhookInbox, Refunds: the compare-and-set on what was read; a settled event is
  finished in the same transaction; the refund leaves from PROCESSING, which no
  claim accepts.
* `ServicesProofs`, what `CheckoutProofs` and `TillProofs` leave of `MCServices`.
  - Registration: the row is COMPLETED exactly when a company exists, and then there
    is one: the transaction that makes it is fenced by the claim's token *and* by
    the state, and no claim takes a COMPLETED row. `fresh`, the requests whose read
    still holds, stands for the comparison of `updatedAt`.
  - Sessions: a token is used in the transaction that moves the password's version
    on, under the version it was read with (`ResetOncePerVersion`). `RevocationHolds`
    is an action property: which steps may let a refused session pass again; its
    invariant says what cookie and row can hold between the two writes of a
    revocation.
  - Fiscal: while an attempt may be with the provider the document holds its claim
    in a state that no other claim accepts, whether or not the lease has run out;
    so at most one attempt is in doubt.
  - PaymentConnections: the compare-and-set on what was read.
  - Provisioning: `ProvInv` gives each state of the row what is at the provider and
    what is on its way there (`Stage`), each actor what the row was when it went
    on (`ManagerHolds`, `WorkerHolds`), and at most one actor that holds the row, the
    last that claimed it (`OneHolder`): a claim ends the hold of whoever worked before,
    a lease that runs out does not. What a row that is not complete says of the
    provider holds until its user exists; of a complete one, that nobody deletes its
    identity or is about to (`Whole`, with `Spared` for a worker that still means an
    identity that it has read). All of it holds until somebody strays.
  - PerformanceCache: an entry is as new as the last write that an invalidation
    announced (`Recent`), because a flight that such a write overtook is not the
    key's flight any more (`Owned`, `Flown`), and a reader was promised no more than
    its flight brings (`Promised`). Which entries stay is computed by `Kept`, of
    which the proof uses that it gives entries of the sequence, from the places kept.
* `TillProofs`, four components.
  - PrintQueue: what may be on paper is in a state that nothing sends from, in the
    memory of the process and in the file (`OutIsClosed`), and load makes a job of
    it again (`OutIsKnown`), so that a restart between any two writes prints
    nothing by itself (`NoBlindReprint`).
  - CashRegister: a key stands for one cart, and a cart has one key unless its
    method was changed in between (`KeyOfCart`), which gives `SoldOnce`. For
    `CopiesAsked` the till owes each paper at least the jobs that may still print
    it and one more while it is asked for without a job (`Covered`).
  - SaleAmounts: rounding a label's cents to a quantity moves them by half a unit
    of the scale at the price of the line, so n labels by half of n times the price
    (`NearLabels`); while that product is below the scale, this is less than half a
    cent in all and `Round` gives their sum back. `ChargedAsShown` and
    `SameArithmetic` compare what the page and the server compute from one post.
    The provers do no arithmetic that is not linear: products and quotients are
    kept behind a handful of lemmas (division, rounding, percentages).
  - Certificates: `CertInv` gives each request what it knows of the object it has in
    hand: an upload's object is its own until it commits (`Unshared`); nobody removes
    an object, or says that it is removed, without a job for it (`Warranted`); no job
    is out for what the row names (`NamedStays`); and what is stored is named, queued
    or being uploaded (`StoredIsKept`). What the histories of deviations (`astray`,
    `unheard`) exempt is what the property exempts, no more.
* `SharedProofs`. Agenda: whoever is served holds the locks of what it will write
  (`LocksCover`), and what it looked for and did not find cannot have been written
  without one of them (`Checked`), so `NoDoubleBooking`; locks are taken in the order
  of their ranks, so who has the highest lock that is held waits for none
  (`LocksGranted`). ImageCoordinator: the counters are those of who works and the
  queue is who waits, none of them beside a place it could have; `Passes`, the loop
  over the queue, keeps that by induction over the queue (`PlacesHandedOut`,
  `TenantFifo`). Uploads: what is reserved, and what is confirmed on a day, is the
  size of a set of uploads (`CountersExact`); the total follows each removal by the
  rows it had read, those that are marked and those that were (`TotalExplained`), and
  so covers what there is (`ActiveCharged`), for any number of removals at once.

Induction is by the least counterexample: a set of naturals that is not empty has
a least element, which SMT proves from a well-founded order; the library's
induction theorems take an operator as a parameter and cannot be used.  Recursion
in modules with theorems is by recursive functions (`Passes`, `Kept`), whose
existence the proofs show first.

Every safety property of the passing runs is stated by a theorem.  Model-checked
only is liveness, which is out of the prover's reach: `Answered`, and the fairness
part of `TrailSpec`, whose safety part is `TrailSafety`.

What the violated runs refute is of course not proved.

## 6. Not modelled

* `createPix`, terminals, routing and the provider's webhook: the deviations found
  are listed in section 3.
* Fiscal drafts, cancellation and validation of documents; the provider itself.
* Google's sign-in, the migration of remote accounts, rate limits (counters of one
  row), the partner's code in a registration, and the commissions of partners.
* The decimal stock of weighed products: sales take from `quantityDecimal` as
  orders take from `quantity`.
* The lease of the reconciliation's scheduler: two batches at once are two workers.
* Usage cycles and server usage (an upsert under a unique key that nothing reads
  back), pets and clients, employees, suppliers, expenses, profile, dashboard,
  developer tools, metrics: single rows and reports without a protocol.
* Tenancy and entitlement checks: read-only decisions before what is modelled.
* Pages other than the till, the installer, migrations: user interface, packaging
  and schema.  Most of the repository's lines are of these kinds, which is why the
  lines mapped are about a seventh of them.

What would come next is breadth: a module for PIX charges (two retries and two
accounts, section 3), the decimal stock, and fiscal cancellation.
