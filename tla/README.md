# SahulatKar: a TLA+ model of its money paths

SahulatKar sells goods from online shops on Murabaha (cost-plus) instalments:
the customer pastes a product URL, the shop's price is extracted, the offer is
accepted against a reserved credit limit, an agency contract (Wakalah) and a
sale contract (Murabaha) are signed, a down payment is taken, a virtual card is
issued with which the goods are bought, and the rest is collected in
instalments. A ledger books every event in double entry and gives late fees to
charity.

The system is six Python services (FastAPI, SQLAlchemy on PostgreSQL, Redis)
that call each other over HTTP, through Redis lists, through Redis pub/sub and
through an outbox table. Every request is a coroutine with its own database
session, and each service runs in several processes. The modules here model what
such requests, workers and listeners do to shared state between two awaits.

Paths below are relative to the repository; `gw/` stands for
`src/apps/gateway/src/`, `po/` for `src/apps/payment-orchestrator/src/`, `ls/` for
`src/apps/ledger-service/src/`, `ps/` for `src/apps/product-service/src/`, `ns/` for
`src/apps/notification-service/src/` and `ce/` for `src/apps/credit-engine/src/`.

1. [Modules](#1-modules)
2. [Inventory](#2-inventory)
3. [How the modules correspond to the code](#3-how-the-modules-correspond-to-the-code)
4. [Runs, bounds and fairness](#4-runs-bounds-and-fairness)
5. [Proofs](#5-proofs)
6. [Findings and observations](#6-findings-and-observations)
7. [What is not modelled](#7-what-is-not-modelled)
8. [Plan](#8-plan)

## 1. Modules

| module | what it is |
|---|---|
| `InstallmentCollection` | the four ways an instalment is charged, their locks and rows |
| `MCInstallmentCollection` | its instance for TLC |
| `DownPayment` | from a signed contract over payment, outbox and queues to the card |
| `HumanQueue` | orders that need a person: reports, the operators' queue, its deadline sweep |
| `Prohibition` | the list of prohibited words, its cached answers, bans by hand |
| `KeyRotation` | the keys of the card numbers, their rotation and retirement |
| `Revisions` | what each migration does to tables, columns and value checks |
| `Models` | what the services' ORM classes and handlers expect of the schema |
| `Migrations` | upgrades and downgrades through `Revisions`, compared with `Models` |
| `MCBackOffice` | `MCInstallmentCollection`, `HumanQueue`, `Prohibition` for TLC |
| `MCCards` | `DownPayment`, `PaymentSessions`, `KeyRotation`, `Migrations` for TLC |
| `EventDelivery` | from the outbox over stream and pub/sub to the ledger's journal |
| `JournalOnce` | abstract specification: each event is booked at most once and stays booked |
| `EventDeliveryProofs` | type correctness, no lost outbox row, implements `JournalOnce`; `Books` does too, its balances are exact, its postings foot |
| `CharityFund` | late fees, the charity account, its sweep, administrators, reversals, periods |
| `CharityFundProofs` | type correctness, implements `JournalOnce`; no allocation is marked unpaid, two sweeps do not pay for one |
| `OrderLifecycle` | orders, carts, reserved credit, contracts and the loan |
| `MCOrderLifecycle` | its instance for TLC, used for the finding about the credit |
| `OrderLifecycleProofs` | type correctness and three safety properties |
| `Refund` | both ways to ask for a refund, the provider, its webhook, the retries |
| `Checkout` | the checkout agent from the issued card to the confirmed purchase |
| `Notification` | a notification, its channels, retries and dead letters |
| `Verification` | a customer's documents, checks, review and account status |
| `AccountDesk` | credit limit with a second administrator, account status, closure |
| `Reconciliation` | the ledger's import of settlements, the orchestrator's report |
| `Catalogue` | the page of one product: scraping jobs, staleness, bans, archival |
| `Delivery` | the carrier's webhook and the two services that write the order's status |
| `CreditPolicy` | scores, bands, limits and outcome of an application, as operators |
| `CreditApplications` | concurrent applications over `CreditPolicy`, their locks and answers |
| `BillingSweep` | the daily sweep over due and overdue instalments and its lock |
| `Books` | posting rules, entries, reversals, snapshots, month and year end |
| `PaymentSessions` | sessions of the down payment endpoint, routing of gateways, expiry |
| `CardUse` | events about a card and the ways it ends |
| `MCOrders` | `OrderLifecycle`, `Refund`, `Catalogue`, `Delivery`, `CreditApplications`, `CardUse` for TLC |
| `MCServices` | `Checkout`, `Notification`, `Verification`, `AccountDesk`, `Reconciliation` for TLC |
| `MCLedger` | `CharityFund` and `BillingSweep` for TLC |
| `MCEvents` | `EventDelivery` and `Books` for TLC |
| `CardsProofs` | no card unpaid, a key charged once, card numbers stay readable, the types of `MCCards` |
| `OfficeProofs` | `pay_installment` charges once, requests advance; cached negatives, the human queue, the types of `MCBackOffice` |
| `GoodsProofs` | the safety properties of the components in `MCOrders` beside `OrderLifecycle`, and its types |
| `ServicesProofs` | the safety properties of the components in `MCServices`, and its types |
| `SumTheorems` | sums over finite sets, and induction over finite sets, for the proofs |

`JournalOnce` is instantiated by `EventDelivery` (`Journal`, events of the outbox)
and by `CharityFund` (`Fees`, the late fees), since both go through
`_create_balanced_entry`; the proofs instantiate it once more (`BooksJournal`) for `Books`, which models that function. `CreditApplications` extends `CreditPolicy`, and `Migrations` extends `Revisions` and `Models`. The other
modules do not share variables: where one component's result enters another (a
signed contract in `DownPayment`, a price event in `OrderLifecycle`, an overdue
instalment in `BillingSweep`) it does so as an initial state or an action of the
environment.

The six MC modules with several components check them *side by side*: a variable
`moving` is chosen once, the component it names takes all the steps, and the others stay
where they begin. The states of such a run are the sum of its components' states,
not the product; nothing is claimed about their interaction. A proof module about such a
composition extends the MC module; its theorems say of the composition what they say of each component.

To run: `tlc -config Collect.cfg MCBackOffice` and likewise for the
other configurations of section 4; `tlapm CharityFundProofs.tla` for a proof
module. `PROJECT.json` maps each definition to the source lines it models, and
lists for each checked property a mutation of the model that breaks it: the
operators commented *Seeded fault* are these, and no specification uses them.

## 2. Inventory

State, operations, interactions and what makes a component correct. The last column
names the module.

| component | state | operations | interacts with | correct when | module |
|---|---|---|---|---|---|
| Instalment collection (`po/api/v1/payments.py`, `po/workers/payment_initiate_consumer.py`) | installments, payment_transactions, Redis lock key, queue | pay_installment, auto_collect, trigger, queued job, manual payment | providers, gateway, billing sweep, ledger events | one instalment, one charge; a request ends | `InstallmentCollection` |
| Down payment and card (`gw/api/v1/payments.py`, `po/services/vcn.py`, workers) | order status, payment rows, outbox rows, three queues, virtual_cards, issuer | create_down_payment, initiate and webhook consumers, callback, issue_vcn, cancel_order | gateway, outbox, issuer | one payment per order, a paid order gets a card, no card unpaid | `DownPayment` |
| Event delivery (`po/workers/outbox_publisher.py`, `ls/events`, `ls/workers/dlq_worker.py`) | outbox rows, stream with pending entries, pub/sub, dead-letter file, journal | poll, XADD, claim, publish, handle, push and replay dead letters | all services, ledger | an event is booked once and not lost | `EventDelivery` |
| Late fees and charity (`ls/services/charity_service.py`, `late_fee_service.py`, `accounting_service.py`, `period_service.py`) | journal, allocations, balance snapshots, period, Redis lock | late fee, sweep, record_disbursement, reversal, close, reopen | billing sweep, admin API | one fee, one disbursement per allocation, covered by the balance | `CharityFund` |
| Orders, carts, credit (`gw/services/order_service.py`, `cart_service.py`, `delivery_events.py`) | orders, carts, users.available_credit, Redis event markers | initiate, extraction event, accept, checkout, remove, cancel | product service, credit engine | credit and reservations make up the limit; event and offer count once | `OrderLifecycle` |
| Contracts and loan (`gw/services/contract_generator.py`, `contract_signer.py`) | wakalah, murabaha, loans | generate, sign, consolidate | orders, carts | agency before sale, a loan only for signed orders, one loan an order | `OrderLifecycle` |
| Refunds (`po/orchestration/refund_orchestrator.py`, `po/workers/refund_consumer.py`) | refund_workflows, queue, Redis dedupe key | POST /refund, queued request, provider call, webhook | provider, outbox, order events | money goes back once per reference | `Refund` |
| Direct webhooks (`gw/api/v1/webhooks.py`, `po/api/v1/webhooks.py`) | Redis marks, processed_webhook_events, queue | mark, insert, push; per-provider handlers | providers | an event counts once and is not lost | `CardUse` (Stripe), `DownPayment`, `Refund` |
| Keys of card numbers (`po/services/vcn_encryption.py`, `src/apps/payment-orchestrator/scripts/rotate_vcn_encryption_keys.py`) | key versions, encrypted cards | encrypt, generate a key, rotate page by page, retire | issuance | every card can be decrypted | `KeyRotation` |
| Card use and expiry (`po/orchestration/vcn_orchestrator.py`, `po/workers/vcn_expiry_worker.py`, `po/api/v1/vcn.py`) | virtual_cards, the issuer's card, charge key | charge, update, void, expire, poll | issuer, checkout agent, outbox | a charge is booked once | `CardUse` |
| Provider adapters and routing (`po/services/routing_engine.py`) | failure counters per window | select, record success or failure | providers | a degraded gateway is avoided | `PaymentSessions`; adapters: no, I/O |
| Mandates | payment_mandates | create, revoke | auto-collect | – | no, chooses a provider |
| Payment sessions, expiry, polling (`po/orchestration/payment_orchestrator.py`, `po/workers/payment_expiry_worker.py`, `po/services/stripe_poller.py`) | payment_workflows, Redis idempotency key | initiate, confirm, fail, expire, retry | providers, customer | a key is charged once | `PaymentSessions`, `CardUse`; reconciliation: `Reconciliation` |
| Billing sweep (`ls/billing/billing_sweep.py`) | installments, Redis lock | read due and overdue, late fee, collect | orchestrator, late fees | every overdue instalment is asked for | `BillingSweep` |
| Journal, accounts, posting rules (`ls/domain/posting_engine.py`, `ls/services/accounting_service.py`, `balance_service.py`) | journal lines, balances, snapshots | post, reverse, snapshot, read | all | a balance is the sum of its entries | `Books` |
| Year end, trial balance (`ls/services/period_service.py`) | periods, closing entries | close a month, reopen | journal | income is closed once, no entry in a closed month | `Books`, `CharityFund` |
| Ledger reconciliation, TASDEEQ (`ls/services/reconciliation_service.py`) | reconciliations with items; files | import a settlement, override, report | gateway settlements | what is called matched agrees with the payments | `Reconciliation`; TASDEEQ: no, files |
| Credit engine (`src/apps/credit-engine`) | assessments, portfolio, three Redis locks, cached answers | apply, assess from the queue, override, push | gateway | a better score is not worse off; approved limits stay under the portfolio's | `CreditPolicy`, `CreditApplications` |
| Product extraction (`src/apps/product-service`) | products, scraping jobs, queue, DLQ, locks; prohibited categories with cached negatives | scrape, sweep, refresh, extract at once, ban, archive; edit the list | gateway | one payload of a job at a time; no negative outlives the list it was found with | `Catalogue`, `Prohibition` |
| Checkout agent, human queue (`ps/services/checkout`, `ps/workers`) | executions, locks, charge key, DLQ, human queue | run, verify, reap, requeue, cancel; claim, start, resolve, override | card, gateway | one purchase per execution, no confirmation without payment | `Checkout`, `HumanQueue` |
| Delivery tracking (`ns/services/tracking_service.py`, `gw/services/delivery_events.py`) | shipments, order status, Redis markers | carrier webhook, listeners | gateway, ledger | a delivered order's wakalah is executed | `Delivery` |
| Notifications (`ns/services/notification_service.py`, workers) | notification rows, queue, DLQ, Redis keys | create, dispatch, retry, replay | providers | no channel is sent twice; a due retry ends | `Notification` |
| KYC (`gw/services/kyc.py`, `kyc_queue.py`) | verification, documents, queue entry, user status | upload, submit, resubmit, claim, decide | credit engine, orders | nobody is approved without documents | `Verification` |
| Administration (`gw/api/v1/admin_users.py`, `admin_approvals.py`) | users, approval and closure requests | limit, status, closure | credit, sessions | two administrators for a high limit | `AccountDesk` (types only); the rest: CRUD |
| Database migrations (`src/db/migrations`) | the schema and its version | upgrade, downgrade | all | downgrades can be undone; the schema fits the models | `Migrations` |
| Authentication, shared package | sessions, users | CRUD | all | – | no, see section 7 |

What is hard in this code, and where the 40 entries under "hazards" come from:

* **Interleaved coroutines.** A handler reads, awaits a provider or Redis, and
  writes what it read. Row locks (`with_for_update`) are taken in some handlers
  and not in others that touch the same rows.
* **Two systems in one step.** A provider is charged, or a stream is written,
  before the database commit that records it.
* **Redis locks with a TTL** that are shorter than what they protect, and that are
  released with an unconditional or a non-atomic delete.
* **At-least-once delivery** out of an outbox to a pub/sub channel that is
  at-most-once, to several processes that each get a copy.
* **Retries**: queue entries re-pushed with a counter, a callback that is repeated
  after a lost acknowledgement, dead letters that are replayed.
* **Counting** contracts of a cart to recognise the last signature.

## 3. How the modules correspond to the code

Common to all modules: a step ends where the code awaits something that another
process can get in between (a Redis call, a provider, a commit, or a read that
is acted upon later). What a handler does between two such points is one action,
with every guard and early return of it. A crash is an action of its own, at
every such point. A database transaction that fails leaves nothing behind; its
Redis and provider effects stay. Amounts are units: only equality and sums matter
to the properties.

### InstallmentCollection

`txn[c]` is the transaction row of call `c`, `charges[c]` how often the provider
took money for it, `paid` the instalments whose status is "paid", `lockKey` the
Redis keys, `rowLock` the owner of `SELECT ... FOR UPDATE`. `PayRead`, `PayLock`,
`PayVerify`, `PayCharge`/`PayDecline`, `PayCommit`, `PayRelease` are the awaits of
`pay_installment` (`po/api/v1/payments.py:300-415`); `SweepCheck`, `SweepCharge`,
`AutoDecline`, `TriggerDecline`, `SweepCommit`, `Publish` are
`auto_collect_installment` and `internal_trigger_installment`, which differ in
what they do when a charge is refused; `Submit`, `Enqueue`, `JobTake`, `JobCharge`,
`JobDecline`, `JobCommit`, `JobError` are the gateway's submission and the queue
consumer. `LockExpire` can remove a key at any time, `PayRelease` deletes the key
whoever owns it, as the code does. `ManualPay` is the administrator. `PayVerify` goes by the transactions alone: the session of the
request keeps the status that `PayRead` loaded, since the SELECT ... FOR UPDATE (347-349) does not refresh an object it already has.

### DownPayment

One order and the payments made for it. `txn[p]` and the queue state `job[p]`
(`create_down_payment`, `_process`, `_handle_down_payment`), `hook[p]` (the queue of
provider webhooks and its worker), `note[p]` and `issue[p]` (the two outbox rows
`gateway.payment_confirmed` and `vcn.issue`), `task[t]` (entries of the card
queue, retried until `DLQ_MAX_RETRIES`), `issuer` (cards at the issuer), `card`
(the row), `cancel` and `gone` (`cancel_order` and the message it publishes).
`NoteApply` is `payment_confirmed_callback`, whose effect on the order depends on
the status it finds; `TaskTake` has the gate of `issue_vcn` on status, on amount
(a job of the webhook worker carries the wrong one, `amount`), and on an existing
card.

### HumanQueue

`failing` is the status of one order, `items` the rows of hitl_queue, `client[c]` what a request has read. `ReportSucceeded`, `ReportFailed` and
`RegisterShipment` are the callbacks of the other services; `ReadItem` and `CommitItem` are claim, start, resolve and cancel, which write the columns they
changed of what they read; `OverrideStatus` is the administrator. `FindBreaches` and `Alert` are the deadline sweep with its Redis key (`alerted`).

### Prohibition

`list` is the row of a prohibited category, `catalogVersion` the counter in Redis, `negative` the cached negatives with the text each was found on.
`ReadCategory`, `CommitUpsert` or `CommitDelete`, `Invalidate` are an administrator's edit, which bumps the counter after its commit; `ReadVersion` or `CheckUrl`,
`LookInCache`, `MatchText`, `NoteNegative` a check; `Refuse`, `StoreProduct`, `ProhibitProduct`, `DeleteProduct`, `BlockMerchant` what comes of it.

### KeyRotation

`key[v]` is the key of a version, `pan` the encrypted rows, `current[p]` the version a process was started with. `BeginIssue`, `GetCipher` (`LocalCipher`, or `KmsCipher`
with `GenerateKey`, `Proceed`, `LoseRace`), `CommitIssue` are an issuance; `StartScript` to `Report` the rotation script, whose pages are transactions.
`Restart` gives a process another version and `RetireSecret` drops an old one when the script's instructions allow it (`clean`).

### Revisions, Models and Migrations

`Revisions[n]` has what the n-th revision's `upgrade()` and `downgrade()` do, as a sequence of statements on sets of tables, columns and value checks; `Execute` is one
statement, which fails on what PostgreSQL refuses (a table that exists, a column that does not). `Upgrade` and `Downgrade` run a whole revision, in its transaction, or
nothing. `Models` has the tables and columns of the ORM classes and the values the handlers write (`Writes`).

### EventDelivery

`row[e]` is an outbox row, `stream` the Redis stream with `new`, `held` and `acked`
entries, `pub[w]` what a publisher process has in hand, `conn`, `inbox` and `job` of each
ledger replica, `file` the dead-letter file, `dlq` what `run_once` has in hand,
`archive` the exhausted lines, `book` the journal. The failures are guarded by
`MaxFaults`, their sum. `StreamTake` is XAUTOCLAIM followed by XREADGROUP;
`ListenInsert` is the insert, which the unique index on the source id lets
succeed once, `ListenConflict` the other outcome. `ListenRefuse` is an event the ledger cannot post; `Refusable` names the events
for which that may happen, at any delivery and without a bound.

### CharityFund

`fee[i]` and `entry[ref]` are the journal entries, keyed as the code keys them (by
instalment; by payment reference), `rev` their reversals, `fund` the balance of
`charity_payable`, `unseen` the part of it that `get_account_balance` leaves out
because it is dated on or before the last snapshot, `alloc` the allocations. `run`
is a sweep or an administrator's call, which share `Check`, `Look`, `Post`, `Mark`:
the two commits of `record_disbursement` are `Post` and `Mark`. `lost` and `late`
are history: which sweeps no longer hold the lock they took, and which
references such a sweep, or one that died before marking, has used. The late fee
is the fixed unit: `fund` counts fees. `AutoRefs` are the seconds that a generated reference can name
(`charity_service.py:242` formats the time to the second): `Now` is the current one, `Tick` ends it, `past` has those that are over, so that two runs of
one second share a reference. `run[r].again` notes that a call found the entry of its reference there.

### OrderLifecycle

`order[o]` with its status, whether its row is soft-deleted (`gone`) and its loan;
`cart`, `carts`; `credit` is `users.available_credit` of the one customer;
`wakalah[o]`, `murabaha[o]` count the contracts made and hold the signed ones;
`loans[S]` is the loan for the set `S` of orders; `event` is what the product service
published, `inbox[w]` the copies a gateway process has not looked at, `claimed` the Redis
markers, `job[w]` the event it handles; `req[r]` is a request of the customer with what it has read (`saw`, `cash`).
`Authenticate` is where `get_current_user` loads the user, whose credit some
handlers write back later. `taken`, `accepted`, `offered` and `torn` are history;
`torn` records that an override or one of the overwrites named under `CreditKept`
has happened. `MIGRATED` says that the database was made by the migrations: then making a loan fires the trigger that sets the credit to the limit less what
the loans leave outstanding (`Recalculated`), and a loan cannot be cancelled, because its status has a value check. The down payment is left out of the outstanding amount.

### Refund

One order with a paid transaction. `refund[r]` is the refund_workflows row of reference `r`,
`inserted[r]` the transaction that holds its uncommitted row (a second insert of the unique
reference waits for it), `sent[r]` counts what the provider accepted. `PostRefund` is `POST /refund`
with its ceiling on `AlreadyRefunded`; `RequestRefund` and `HandleRefund` are the gateway's job, which has no
ceiling and a fresh reference for each attempt; both go through `Insert`, `CallGateway`, `CommitRefund`
of the orchestrator. `LoseAnswer`, `CrashRefund`, `Rollback` and `FailRefund` are its failures; `Backoff` requeues;
`HearRefund` and `SettleRefund` are the provider's webhook. `repeated` names the references whose row was lost after the provider had
the money sent.

### PaymentSessions

`session[k]` is the committed payment_workflows row of idempotency key `k`, `holder[k]` the request whose insert is not
committed, `idem` the Redis keys, `payer[r]` a request with what it carries, `asked[k]` the charges. `CheckKey`, `ClaimIdem`,
`FindSession` or `FindNothing`, `InsertSession`, `ChargeGateway` or `GatewayRaises`, `CommitSession` are the awaits of
`down_payment`; `RetrySession` is the retry endpoint, which takes a new key. `SelectGateway`, `Strike`, `Relief` and `Degraded` are the
routing engine. `Allowed` is `validate_transition` for the transitions these handlers ask for. `Expirable` and `ExpireSession` are the worker; since time is not modelled, a session may expire at any moment.

### CardUse

One card. Stripe's events are `Charges` and `Updates`; `direct` chooses which of the two endpoints gets each. `marked` and `rows` are the two
marks of the gateway service: `Receive`, `FindRow` or `NoRow`, `MarkKey`, `InsertRow`, `QueueHook` are `_enqueue_webhook`; `ClaimHook` is the
direct endpoint's `_dedupe_webhook`. `hooks[e][n]` counts the jobs of event `e` in the queue with `_retry_count` `n`; `TakeHook`, `HandleHook`, `CommitHook`, `TaskRaises`, `RequeueHook` are the consumer and
`handle_stripe_event`. The void, the expiry sweep and the poller read, call the issuer and write: `BeginEnd`, `EndCard`.
`raced` and `lapsed` are history: events that were delivered twice at once, and events that lost a key.

### Checkout

Executions of one order and card. `status` is the row; `task[t].old` and `.mem` what the task has in memory, since
`process_job` writes on that basis. `HearIssued`, `InsertExecution`, `PushExecution` are the listener; `Pop`, `CheckIdempotency`, `Acquire`,
`Release`, `Leave` the consumer with its processing key and lock; `Load`, `BeginRun`, `IsCancelled`, `EmitStep`, `PlaceOrder`,
`Uncertain`, `Succeed`, `Pend`, `MarkFailed`, `Escalate` are `process_job`; `VerifyTake` to `VerifyTimeout` the verification worker; `ReapStuck` the
reaper; `Requeue`, `Reprocess` and the `Cancel` steps are administrators, customers and events. Driving the browser is
`PlaceOrder` and the steps that may fail around it.

### Notification

`note` and `row[ch]` are the notification and its dispatch rows, `jobQueue` and `dead` the two lists. `LookUp`, `InsertNote`, `Enqueue` create;
`TakeNote`, `LoadDue`, `MarkDispatching`, `SendChannel`, `FinishDispatch` are a dispatch, which commits everything at its
end; `holder` is the row lock its first UPDATE takes. What a provider answers is one of `Outcomes`: "lost" is a message that was accepted and whose answer
never came, which the dispatchers report as to be retried. `DispatcherRaises` is an exception out of a dispatcher, which the consumer logs and which rolls the whole dispatch
back; it may recur without a bound, whereas `CutOff`, the death of a process, is a mishap. `unstored` is history: channels whose acceptance no row shows. `RequeueDue` is the retry worker, `RetryNote` and the `RetryAll` steps
are administrators, `Receipt` is the provider's callback.

### Verification

One customer. `kyc` are the rows of user_kyc_verifications, `entry` their queue entries, `call[c]` a request with the row it read; a request writes at its commit
the attributes it changed (`Assign`). `Create`, `Upload`, `Submit`, `ChecksPass` or `ChecksFail`, `Verified`, `Enter`, `Review` are the customer's requests; `Claim`, `Decide`,
`Approve`, `PushJob`, `Reject`, `UpdateStatus`, `TriggerReverification` the officers. `crossed` is history: a resubmission was committed between another request's steps.
`MaxRows` bounds the rows, and an insert takes a free one.

### AccountDesk

`account` is the users row, `raises` and `closures` the two tables of requests, `desk[d]` a request in progress. `UpdateLimit` grants at once or asks for a second administrator, `ReadRaise` and
`DecideRaise` are his decision; `AskClosure`, `FileClosure`, `CoolOff`, `ReadClosure`, `ExecuteClosure` a closure. The module is run for its types and its
overlaps, which section 6 describes.

### Reconciliation

`rowOf[t]` is the status of a payment's row, `recons` the committed reconciliations, `importing[i]` an import between its two reads: `ReadSum` has the verdict,
`WriteItems` the items, lines and commit. Each read is one step: the code pages through the day's payments with OFFSET and LIMIT 1000 and without an order
(`ls/services/reconciliation_service.py:60-77`, `120-136`), so that on more than a page of rows that move meanwhile it can miss or repeat some, which the model leaves out. `Reconcile` is the orchestrator's report as an operator, `RunReconciliation` its call, `ManualOverride` the administrator.

### Catalogue

`jobStatus`, `attempt` are the scraping_jobs rows, `scraping` and `deadJobs` the payloads in the two lists, `dropped` the jobs whose payload is
gone. `PopJob` to `AnnounceJob` are the scraping worker; `SweepRead`, `SweepPush`, `SweepCommit`, `ArchiveOld` the staleness worker, which
pushes before it commits; `RefreshRead`, `RefreshCommit`, `RefreshPush` the refresh, which commits first; `AskUrl` to `FinishUrl` the
synchronous extraction under the lock of the URL; `ReprocessJob` and `PurgeJobs` the DLQ endpoints, called by one administrator at a time.

### Delivery

`shipment` is the row of the notification service, `orderStatus` the order that both services write. `ReceiveHook` to `MarkHook` are the webhook, which
commits, reads the shipment again, publishes twice, writes the order and only then sets its dedupe key. Its status event and the order follow what it read again (`saw`), which another
request may have written; the confirmation follows its own tag. `untold` is history: the shipment was set to delivered and no confirmation published since. `HookKeyLapses` is the TTL of the dedupe key. `Claim`, `ApplyStatus`, `ApplyConfirmed` are the gateway's
listeners; `DropMessage` is pub/sub without a listener, or a handler that fails after its claim.

### CreditPolicy and CreditApplications

`CreditPolicy` has the scorecards, the band, the limit, the down payment and the outcome as operators over a record of the applicant's data;
scores are in hundredths, as integers, with the rounding of the code. `CreditApplications` runs them: `Apply`, `ClaimKey`, `LockPortfolio`,
`CheckEligibility`, `CheckFraud`, `ScoreApplicant`, `CheckPortfolio`, `InsertApplication`, `UnlockPortfolio`, `CacheAnswer`, `Push` follow
`POST /assess` and the pipeline; `TakeAssessment` is the queue's consumer, which takes no Redis lock; `Override` the administrator. `highest` is
what `current_limit` reads. A key's lock can expire (`KeyExpires`), and so can its cached answer (`AnswerLapses`, `RedisTTL.CREDIT_IDEMPOTENCY`), after which the key makes another application. Eligibility, velocity and the fraud score are a choice between the code's outcomes.

### BillingSweep

`biller[b]` is a run with the instalments it found and the waivers it read; `ChargeFee`, `RefuseFee`, `AskCollection` are its loop, a transaction each;
`CompareOwner` and `DeleteLock` are the release. `Collect` is the orchestrator, which does not set an instalment's status when it collects by itself, so
that paying it is a separate choice in the action.

### Books

`entries` is the journal in commit order: a date, lines (account to amount, debit positive), a source. `OrderRule`, `CollectionRules`, `PaymentRules`,
`SimpleRules` are the posting rules; `AccountBalance` is `get_account_balance` with its snapshot, `TrialBalance` the report. `Prepare` and `PostCommit` are
`_create_balanced_entry`; `SnapStart`, `SnapRead`, `SnapCommit` the snapshot worker, which reads account after account; `CloseBegin`, `CloseDraft`,
`CloseCommit`, `CloseMark` the close of a month with its closing entry. `TextIds` says whether the database takes a text in
`journal_entries.source_id` (section 6).

## 4. Runs, bounds and fairness

Times are with two workers.

| run | configuration | distinct states | shows |
|---|---|---|---|
| `collect` | `Collect.cfg` (`MCBackOffice`) | 471,435 (60 s) | two customer requests, an auto-collect or trigger call and a queued job race for one instalment: the two customer requests charge once, every request ends. Beside it the operators' queue, and the list of prohibited words: a cached negative is right about its text |
| `down_payment` | `DownPayment.cfg` (`MCCards`) | 446,676 (60 s) | one order, a payment confirmed at once and one confirmed by webhook, two card-queue entries: no card without a charge; a recorded payment ends in a card. Beside it the sessions of the other endpoint: a key is charged once; the card keys: every card can be decrypted; the migrations: what is downgraded as far as 029 can be upgraded to the same head |
| `down_payment_twice` | `DownPaymentTwice.cfg` | violation | a second payment is created and charged between the recording of the first and its callback |
| `down_payment_webhook` | `DownPaymentWebhook.cfg` | violation | a payment confirmed through the webhook worker never gets its card |
| `events` | `EventDelivery.cfg` (`MCEvents`) | 291,412 (190 s) | one event, one publisher, two replicas, three failures: published means streamed, booked once, no entry stays unacknowledged, the copies of a posted event come to rest. Beside it the books: a balance is what its entries and snapshots say |
| `events_lost` | `EventDeliveryLost.cfg` | violation | an event published while nobody listens is acknowledged and lost |
| `charity` | `Ledger.cfg` (`MCLedger`) | 486,305 (130 s) | two billers, two sweeps, an administrator, a reversal, a closing, references by the second, one crash or expired lock. Beside it two runs of the billing sweep at two instalments: an overdue one is asked for again and again |
| `charity_twice` | `CharityFundTwice.cfg` | violation | the administrator's call, which takes no lock, pays what the sweep pays |
| `services` | `Services.cfg` (`MCServices`) | 845,365 (120 s) | two checkout tasks, the verifier and the reaper at one execution: one buyer at a time, no confirmation without a purchase, nothing stays running; two dispatches of one notification with two channels: a channel whose acceptance was stored is sent once, a due retry ends. Beside it one customer's verification: nobody is approved without documents; the account's administrators; two reconciliations: what is matched agrees |
| `orders` | `Orders.cfg` (`MCOrders`) | 691,371 (50 s) | one order in a migrated database, an event delivered to two workers, two concurrent requests of every kind, an override of the credit; beside it the refund, the page, the delivery, the credit applications and the card |
| `credit_recalculated` | `CreditRecalculated.cfg` | violation | signing one order's contract makes the credit that another offer has reserved available again |
| `schema_head` | `SchemaHead.cfg` (`Migrations`) | violation | the schema at the head lacks what the models map, and refuses what handlers write |

**Bounds and why they are enough.** Each bound is a constant.

* `Collect.cfg`: one instalment, since no step touches two. Two customer requests
  and one call of the sweep are the pairs that can race; `DLQ_MAX_RETRIES = 1`
  gives one retry, the shortest that re-charges. `MAX_INSTALLMENT_RETRIES = 2`
  lets the counter be both below and at its limit. For the human queue one entry, two operators and two runs of the deadline sweep, one alert whose key may expire once, the smallest
  instance in which two stale reads meet. For the prohibited goods one category with two words, one of which is also in the address, two keepers, one checker, and requests of the keepers until the
  list has changed once, so that the two of them overlap.
* `DownPayment.cfg`: two payments (a third would only be a second again, since at
  most one is open); two queue entries, so that the outbox and a customer can
  both queue a card; one failed commit or lost acknowledgement at each place
  (`MaxFaults` counts them all), `OUTBOX_RETRIES = 2` instead of 5. A worker may die
  at any time (`MayCrash`).
  For the sessions two requests at a key and the retry's key; for the card keys two processes and the script, two key versions, two cards, and three keys, so that a lost race
  leaves one unused. The revisions are all there, in every order of up- and downgrades.
* `EventDelivery.cfg`: one event, since rows, entries and copies of different
  events only meet in the batch, which `PublishedRowStreamed` is proved about for
  any number; two replicas are needed for the race on the insert; `MaxStream = 4`
  allows an event to be streamed again after each of the failures. The event may be refused any number of times (`Refusable`). For the books two days, the last of December and
  the first of January, two accounts of one sale, two entries and two runs of the snapshot worker: a run before and one after an entry.
* `Ledger.cfg`: two instalments, two sweeps, one administrator and references of two seconds. `Small` divides the exploration in two: one instalment is charged, by one caller, with
  everything that can happen to its fee, which is the smallest instance in which an allocation can be paid for twice in each of the ways the code has; or both are charged, by either caller, without
  reversals, closings and administrators, so that two sweeps of one second can meet with different allocations in hand. All of it together does not fit five minutes. `NISAB = 1` lets the threshold be passed. Two runs of the billing sweep and two instalments, one of which the ceiling on fees refuses.
* `Services.cfg`: one execution, which two tasks can both hold (a duplicate payload), `MaxInterventions = 2` so that a lock can expire and an
  administrator requeue. Two channels, so that one is retried when the other is done; two senders and one mishap for the overlap.
  For the verification two requests of the customer, an officer, one document, two attempts with a queue entry each, one change of the status; outside of production a check that fails is let through. For the accounts a limit on either
  side of the threshold, one request for a higher one, two closures. For reconciliation two payments, three settlements and three files of lines, of which one is a duplicate, with one import and one report, in every state the rows can be in.
* `Orders.cfg`: one order, one event, two workers, two requests, one contract of a
  kind, one override. Two events for one order are beyond what five minutes
  allow, as are two contracts of a kind; they are described under section 6, and the theorems of section 5 hold for any number. For the other components: two callers' references and one generated; two scraping tasks, a sweep, a refresh and a request at
  two jobs; two webhook calls and two listeners; two requests, the consumer and an administrator at one user, whose data and wishes take two values each,
  chosen on both sides of the thresholds; two deliveries, a consumer's task and the three ways a card ends.
* `CreditRecalculated.cfg` has two orders, since one alone has nothing reserved when its loan is made, and leaves out the operations that do not matter to
  it (`Operations`). With `MIGRATED = FALSE` the property holds there.
* `SchemaHead.cfg` has no bounds.

**Symmetry.** `MCOrders` and `MCOrderLifecycle` permute workers, requests and events, and only check
safety properties: `Init` and the actions treat the members alike. In `Orders.cfg` the other components' calls, jobs, forms and receivers are the model values of the requests, and their
workers those of the workers, so that each component is reduced when it moves: no component tells its members apart, and none compares a member with another component's. Orders are not permuted,
because the code sorts them. The runs that check liveness use no symmetry.

**Fairness**, and why the code justifies it:

* `InstallmentCollection`: weak fairness of a request that has begun, since the event
  loop resumes it. Nobody has to begin one, and a crash is always possible.
  A row lock is held by somebody whose steps are fair or released by his crash.
* `DownPayment`: the consumers and the publisher are loops that are restarted, so their
  next steps are weakly fair, and so are the rest of a request and of a
  cancellation that has begun. Paying, cancelling and asking for a card are not fair.
  A failure is never fair, and its number is bounded.
* `EventDelivery`: weak fairness of each loop; strong fairness of a claim that takes every
  idle entry (XAUTOCLAIM's idle time passes in the end), and of a replica taking any one
  message, as the pub/sub buffer is a queue.
* `CharityFund`: weak fairness of the calls in progress and of the sweep, which the
  worker starts every day, and of the expiry of the lock key.
* `BillingSweep`: a run is started every day while something is unpaid; the steps of a run, the orchestrator's listener and the expiry of the lock key are weakly fair.
* `Checkout`: only that time passes (`GrowOld`) and that the reaper runs (`ReapStuck`). The tasks may stop for ever.
* `Notification`: the retry worker, and a sender's next step while it has one. Providers need not accept anything. `RetryEnds` speaks of behaviours in which dispatchers stop raising at some point, since the code retries for ever while one does.
* The other modules: none; they have safety properties only.

In `MCServices`, `MCBackOffice` and `MCCards` no fair action is enabled in an initial state, so that the component that does not move is treated fairly as it stands. In
`MCLedger` the fairness of `CharityFund` is asked for where it moves. In `MCEvents` the fairness of `EventDelivery` is asked for always: it only leaves
behaviours out in which the books move, and of these only safety is checked.

**Deadlock** is checked in the runs `events` and `charity`, whose loops and
requests never end. It is not checked in the other passing runs: there every call is made a bounded number of times, and when all
have ended the system has rightly stopped.

## 5. Proofs

The theorems hold for any sets of callers, events, orders, cards and so on, finite or not
unless an assumption says finite, and for all values of the bounds. What is assumed of the constants is in one named ASSUME per module, which TLC
evaluates on every run: the bounds are naturals, kinds of callers that the code tells apart are disjoint, the value for "nobody" is not a member. Beyond that:
`RefundAssumption`, `FundAssumption`, `CatalogueAssumption` and `ReconAssumption` have finitely many references, instalments, scraping tasks and refreshes, and transactions
(the properties count or add over them); `PolicyAssumption` has the tables of the credit policy monotone from band A to D, as its defaults are; `KeyAssumption` numbers the key versions 1 to n;
`BooksAssumption` lets a posting come only from a posting rule, has amounts in whole cents, accounts of manual entries and of `CHART` in the chart, a calendar that is not empty and closed months with a day in it; `ReconAssumption` has amounts that are integers; `SessionAssumption` has at least
one gateway. `RevisionsAssumption` is no assumption on a constant: it says of the chain of migrations, which is written out, that it is numbered to the head and made of statements of the kinds that `Execute` knows. TLC evaluates it in full.

Each proof follows one scheme: an invariant that is inductive, which TLC has checked first, holds initially, is kept by each action, and implies the property. Below is what each such
invariant adds to the property, since that is the reason why the property holds.

**`SumTheorems`.** The models sum over finite sets (`SumFunctionOnSet`), and the library's induction theorems take a predicate, which the provers cannot instantiate. `SetInduction` takes a set instead: the subsets of a finite set are well founded
under inclusion (`WFMin`), so that if the subsets that lack the property had a member, they would have a minimal one. From it: that the recursive functions behind sums and maxima exist and agree, that a sum is an integer, splits, is taken part by part, and that a double sum can be taken in either order
(`SumSwap`); `MaxIs` says what `Max` is of a set of numbers.

**`OfficeProofs`** (extends `MCBackOffice`). `TypeCorrect`: `Spec => []TypeOK`. `PayOnce`: `Spec => []PayChargesOnce`. The property alone is
not inductive: that two requests have not both charged follows only from who holds the
row lock. `PayInv` adds `LockHeld` (a request between its re-check and its commit holds the
row), `NoneRecorded` (when it does, no success is recorded for the instalment),
`ChargeTraced` (a charge is in progress, recorded, or its process died) and
`OneRecorded` (at most one recorded success). The Redis lock appears nowhere in the
argument: the row lock, and the transaction looked for behind it, are what serialises. `RowsReleased` and `RequestsAdvance` are the safety that `RequestsEnd` rests on: a row is only ever held by a request between its re-check and its commit, which waits for nobody (`RowHolderRuns`), and each step of a request leaves it fewer
(`OnlyForward`, with `StepsLeft` as the measure). `NegativesCurrent`: `ListInv` adds `PassedIsCurrent`: while no change waits to be announced, an extraction that passed the list under the
version that still counts has a text without its words. The announcement after the commit makes this enough, and a process that dies between the two is the exemption `unannounced`. `QueueKept` is the queue's type invariant, which says that an entry
somebody took keeps an operator, a closed one its verdict, and alerts are as many as keys: `ItemsInv` relates what a request has read to the entry as it is by then (`Went`), `AlertsInv` counts alerts against lapsed keys.
`OfficeTypeCorrect` composes the types of all three into the invariant of the run.

**`CardsProofs`** (extends `MCCards`). `CardPaid`: `PaymentInv` adds `PaidFor`, that whatever carries the total to a card was written by a worker that had charged. `KeyChargedOnce`: `SessionInv` adds `GatewayTurn` (who is at the gateway
holds its key, or charges again for a session that can only stay failed or expired), `HolderPays`, and `Counted`, which is the property with the charge of the uncommitted holder. `NumbersReadable`: `KeyInv` adds `RunsAgree` (a process encrypts
with the key that its version will keep; one transaction at a time inserts a version's key), `ScriptAt` and `NoneBehind` (after a run that reports zero while every process uses the current version, no row and no process is behind it), which is what makes
retiring a secret safe. `CardsTypeCorrect` composes their types with those of `Migrations`: `Sound` says that columns and value checks belong to tables that exist, each made by a revision. Each kind of statement keeps it (`ExecuteSound`), and so does the fold over a revision's statements
(`RunSound`), by `SetInduction` over the positions, since a fold takes off the largest one (`FoldsExist`, `RunFolds`).

**`EventDeliveryProofs`** (extends `MCEvents`). `TypeCorrect` needs that a publisher only holds
ids of entries that exist. `RowStreamed`: `Spec => []PublishedRowStreamed`, from `RowInv`, whose part `AddedStreamed` says that what a publisher has noted as added in its
batch is in the stream; the lemma `StreamKept` shows that no step takes an event out of the stream.
`JournalRefined`: `Spec => PostedOnce`, that is, the pipeline implements `JournalOnce` under
the identity mapping; only `ListenInsert` moves the journal. `BookedOnce`: in `Books` each source has one entry (`SourcesUnique`, a part of its type invariant): `SourcesInv` adds that a closing that is about to post
has found no entry of its source, and that drafts of clerks are never closings. `BooksRefined`:
`BooksSpec => BooksJournal!Spec`, that is, the books implement `JournalOnce` too, where the number of entries of each source is the abstract state (a refinement mapping); only `PostCommit` and `CloseCommit` move it (`AppendPosts`). `BalancesAreExact`: `BooksSpec => []BalanceIsExact`, by `BalancesInv`: what is
committed and what is about to be is balanced and dated (`EntriesInv`), a snapshot is the sum of the entries that a balance of its day rests on (`SnapsInv`), and what the snapshot worker holds of an account is the snapshot that is there for the day, or a sum that goes at least as far as any snapshot of the account
(`WorkerInv`): this is why its commit misses nothing that an older snapshot had. That a closing entry foots (`ClosingOK`) rests on balances being integers, that is, on the same invariant. `DoubleEntry` sums it up: over any days, the postings to all accounts come to nothing, by exchanging the sum over the accounts
with the sum over the entries. `BooksTypeCorrect` and `LedgerTypeCorrect` draw the types from these invariants.

**`CharityFundProofs`** (extends `MCLedger`). `FeeRefined`: `Spec => FeeOnce`, the fees implement `JournalOnce`, with `Billed` (a call that is about to
post has an instalment). `MarkedPaid`: `Spec => MarkedIsPaid`, by `PayInv`, whose part `Backed` says that a call
that is about to mark has a reference with an entry, and that the entry holds what it marks unless `Look` found it there (`again`): then somebody else
made it, with a given reference used again or in the same second. That entries never change does the rest. `FundTyped` is the type invariant, `SweptOnce` adds `SweepsDisburseOnce`, by `SweepInv`: a sweep in progress has the lock or is in `lost` (`Owned`); what a sweep with its lock is about to pay
was not paid by another (`Fresh`); and what sweeps have paid is marked, or is about to be by one that still has the lock (`Settled`), so that the next one to read does not find it. `LedgerTypeCorrect` is the same for the composition, with the types of the billing sweep.

**`OrderLifecycleProofs`.** `TypeCorrect` is
`Spec => []TypeOK` by `TypeInv`, that is `TypeOK` with `Published` (a marker only exists for a published
event) and `DocNamed` (a request that is about to sign names a contract that exists).
`HandledOnce` is `EventOnce` by `ClaimInv`: at most one worker is past the marker of an event
(`OneHandler`), and until it commits, the event is not counted (`NotYet`). `AcceptedOnce` is
`AcceptOnce` by `OfferInv`: an order that still has an open offer has been accepted less often than
offered (`OpenOffer`). `AgencyFirst` is `WakalahFirst` by `AgencyInv`: a request on its way to a
sale has seen a signed agency, and signed agencies stay (`SaleAfterAgency`).

**`GoodsProofs`** (extends `MCOrders`). `RefundedOnce`: `RefundInv` adds that exactly the calls between the insert and the commit hold the uncommitted row of their reference (`RowsHeld`), and that a provider asked without
a row was asked by that call (`AskedOnce`). `DeliveryExecutes`: `DeliveryInv` adds `Confirmed`: if the order may be delivered (it is, the shipment is, or a request read that it is) and the confirmation of it is published, then it is handled or under way; who handles one has read every instalment still pending. `PayloadOnce`: `CatalogueInv` says for each job
in which of the lists and hands its one payload is (`OnePlace`, `Attended`, `MadeOnce`). `ChargeBookedOnce`: `CardInv` has a delivery or task where its event leads it (`Routed`), and for a charge that it is in one place: unmarked, with one delivery, queued, in one task's hands, or booked, each
route with its own mark (`QueuedCharge`, `DirectCharge`). `KeyAppliedOnce`: `CreditInv` adds for each key that one request at a time is past its claim, and that the application is answered or about to be, as long as the answer is kept (`KeyInv`).
`ApprovalHasRoom` is the action property `PortfolioKept`: who is about to insert an approval holds the row and compared with the limit that is still the highest (`RowInv`); the Redis lock on the portfolio is not needed for it. It rests on lemmas about `CreditPolicy`: what score, band and limit are, and that an approval
fits the limit. `AllTyped` draws the types of all six components from their own theorems, since a behaviour of the composition is one of each component.

**`ServicesProofs`** (extends `MCServices`). `BuyersApart` and `PaidBeforeConfirmed`: `CheckoutInv` has each task inside `process_job` own the lock or have lost it when it expired (`Locked`), and has a verification queued only for what pressed Place Order, and committed only on a
charge (`Bought`). `DocumentsBeforeApproval`: `VerificationInv` adds `Documented`: what was submitted, entered or approved has all documents, and a request has seen none that is not on file, unless an attempt was cleared under it. `ChannelsSentOnce`: `NoteInv` adds `Counted`: one dispatch at a time, and a channel was delivered
exactly if its row, or the memory of the dispatch that works on it, has an id, unless an acceptance of it was not stored (`unstored`). `TwoAdministrators` is the type invariant of `AccountDesk`, whose last part is that a limit above the threshold was decided by somebody other than who asked; `DeskInv` adds that the request is numbered, and that who is about to decide did not ask.
`ReconciliationsNumbered` has an id of its own for each reconciliation. `MatchedIsPaid` is `MatchedAgrees`: `PaidInFull` has the sum that an import read agree with the settlement, and as long as no row moved since, the items it writes mirror those rows one by one, so that they come to the same sum (`MirroredTotal`). `ServicesTyped` composes the types.

**What the proofs showed about the models.** Five things that the runs' bounds had hidden, each corrected after the source: an insert in `Verification` could overwrite another's row when three were under way; the retry count of a webhook job belongs to
the job, as `_retry_count` does, and not to the task (`CardUse`); a score with no bins is 0 points (`CreditPolicy`); in `Migrations` the case of a failed statement overlapped with those of its kind, which leaves open what follows a failure (`Execute`: no statement follows one that failed); and what `Books` needs of its
calendar, chart and amounts was nowhere said (`BooksAssumption`: a month without a day has no last day to date its closing entry).

**Only model-checked.** All liveness: `RequestsEnd`, `SuccessGetsCard`, `NoEntryAbandoned`, `CopiesSettle`,
`DueDisbursed`, `OverdueAsked`, `RunningEnds`, `RetryEnds` (liveness under fairness and ENABLED are out of the prover's reach). `RollForward`: it is about what 93 concrete revisions do to concrete tables, which is a computation rather than an argument, and since `Migrations` has no constants, TLC's
run of it leaves nothing out. Every other property of the passing runs is proved. No module has a RECURSIVE operator.

## 6. Findings and observations

Six disagreements between the code and what it says of itself have a run each
(listed under "findings" with the quoted lines):

1. `down_payment_twice`: the lock on the order row does not make "duplicate down-payment
   initiation race-safe" (`gw/api/v1/payments.py:340`), since a recorded payment is no longer
   looked for while the order has not moved yet.
2. `down_payment_webhook`: the webhook worker queues the card with the down payment's amount,
   the mistake that the direct webhook's comment describes as corrected.
3. `events_lost`: the durable stream ends in the pub/sub channel it was meant to replace.
4. `charity_twice`: the sweep's lock does not keep an administrator's disbursement away.
5. `credit_recalculated`: "Loan creation consumes that reservation; no further decrement needed here"
   (`gw/services/contract_signer.py:284-285`), but the trigger on loans sets the credit from the loans alone, so that what other offers
   have reserved is available again.
6. `schema_head`: the models and the migrations are each "the single source of truth" (`src/README.md:41`, `45`). At the head there is no table prohibited_item_logs; user_devices.deleted_at,
   reconciliations.period_key, notification_preferences.category and .is_globally_unsubscribed are missing; and the status "cancelled" is refused for loans and
   instalments, so that cancelling a signed order fails.

The following was met while modelling and has no run. Unless said otherwise the
model contains it, and the properties exempt it by name, so that they say
what is left.

*Instalments.* Two of the call sites that `po/api/v1/payments.py:61-74` says are guarded against a double charge, auto-collect and the internal trigger, take neither the Redis lock
nor the row lock, and charge beside a customer's payment. A queued job charges an instalment whose success is already
recorded, as it looks only at its own transaction. When `internal_trigger_installment`
gives up (`po/api/v1/payments.py:603`) it emits an event that is not registered, which raises
and rolls back the retry count, contrary to its docstring (532). A charge whose process dies before
the commit leaves no trace. The consumer drops the gateway's requests for restructuring, and `payment.adjustment_requested` has no consumer (read, not modelled).

*Down payment and card.* `cancel_order` and `payment_confirmed_callback` read the
order without a lock and overwrite each other's status. Two workers can create two cards
at the issuer, of which one gets a row. A card that is issued while the cancellation
is handled is not voided. After the customer has asked for a card, `pending_vcn` is a status from which
neither the job in the queue nor the administrator's retry gets one.

*Event delivery.* `_rebuild_dlq` drops lines appended since the file was read; a listener pushes
an event with its retry count at the maximum, so it is archived without being published
again; an event that is refused every time circles without end, because its count restarts with each delivery
(`ls/events/listener.py:53`), although `ls/workers/dlq_worker.py:34-38` says that messages are archived after `dlq_max_retries`: `CopiesSettle` speaks of posted events only; lines are lost when
writing the archive fails; a row is dead after five polls without the exponential backoff
that the docstring names.

*Charity.* After a crash between the two commits, the allocations are pending again
while the account has paid for them: their sum exceeds the balance, and every later sweep is
refused. A payment reference that is used again marks allocations without paying for them, and so does a second sweep within a second of the first, since a generated reference has the
resolution of a second: it finds the entry there and posts nothing (`MarkedIsPaid` exempts both by `again`).
The lock's release is a read and a delete, between which it can change hands.
Two reversals of one entry with different keys both post. Entries dated on or before the last
snapshot are never counted.

*Orders.* `accept_offer` compares the total with the available credit, from which that total
has been deducted already. `sweep_stuck_orders` is described as running "on a timer" and
has no caller. A failure event for an order that is already offered overwrites its status and
the credit stays reserved. Credit is restored on what was read at authentication, which can
raise it over the limit. Two events with different ids for one order (a repeated POST to
the product service) deduct twice.

*Contracts and loans.* The last signature is recognised by counting contracts (`gw/services/contract_signer.py:231-235`), and `generate_murabaha` looks for an existing one without a lock: two contracts for one order make
up for a sibling's that is missing, and the loan finances both. `generate_wakalah` looks at no status, so a failed order can go on to
contracts. Two siblings that sign at the same time do not see each other, and no loan is made; nor if
duplicates or a removed item make the counts differ. `add_item` commits the order before its
cart item (`gw/services/order_service.py:127`, `cart_service.py:53-58`), so an order can be signed and financed
alone in between, and then again with the cart: `uq_loans_order_id` does not object, as the
second loan carries the id of a sibling. Contracts of a cancelled order can still be signed,
which with the trigger also sets the credit. The trigger on late fees (024:179-197) waits for a status "overdue" that no code sets.
`max_active_orders` is checked without a lock.

*Refunds.* A refund asked for at the gateway service has no ceiling, takes a new reference at each attempt and leaves the order as it is, so that each
request refunds the total. Concurrent calls of `POST /refund` pass the ceiling together, although the comment at `po/api/v1/payments.py:467` says "never
refund more". A lost answer is recorded as failed and not counted. The webhook's dedupe key is set before its row is looked up.

*Payment sessions.* A repeated key whose session failed or expired is answered "success". Nothing calls `confirm_payment` for an asynchronous session, so
every one of them expires although it was paid; the comments say that the webhook confirms it. A retry with a synchronous gateway charges and marks the session only pending.
Two retries charge twice, as do two keys for one order. The failure counter can become negative (GET, then DECR). When the key in Redis has lapsed, a failed
session is charged again and the answer is an error with nothing recorded.

*Cards and webhooks.* The gateway service marks an event in Redis and in its table before it pushes the job: a failed push is not made up for when
the event comes again. After an IntegrityError ("nothing more to do") it pushes all the same. The direct endpoint sets its key before it handles the event. The two
routes use different keys. A void and a cancelled order always use the Stripe adapter, also for a card of Lithic. "expired" can overwrite "voided". The
key the checkout agent waits for is written before the charge is committed.

*Checkout.* A cancellation between the task's read and its commit is overwritten by "running", and one that is noticed later ends as failed or in the human
queue, although `ps/services/checkout/agent.py:38-45` says it is never clobbered; the verifier writes "succeeded" after up to 120 s without reading again. `checkout_uncertain` gets
no verification job. The `finally` of a duplicate deletes the processing key of the first; a third copy waits 10 s, is put into the DLQ and the status set to failed
while the first runs. A payload that is reprocessed while its verification is pending buys again. Two replicas can insert two executions, which both buy. After
one error in its loop the consumer reads no more (`import redis` inside the except clause shadows the client). The requeue after a Playwright timeout cannot be reached. A charge key that is left over verifies a later execution. Nobody
listens to `order.purchase_failed`.

*Notifications.* The retry workers of two replicas queue a notification twice, and two dispatches at once send twice. A dispatch cut off after sending sends again. So does, one dispatch after the other, a message whose answer is lost: WhatsApp, push and e-mail report every `httpx.RequestError`, a read timeout included, as to be
retried (`ns/dispatchers/whatsapp_dispatcher.py:38-48`, `push_dispatcher.py:75-85`, `email_dispatcher.py:43-53`). An exception that a dispatcher lets out (`sms_dispatcher.py` catches `ConnectError` only, at 117, and parses the answer at 83) rolls back `attempt_count` with the rows of the channels sent before it:
these are sent again, and the notification is retried for ever while the exception recurs. A push that fails, or a
consumer that dies with the job, leaves rows "pending" that nothing finds. "Retry all" pushes before it commits and deletes the whole list. Retrying a delivered notification without dead rows
leaves it "queued".

*Product pages.* The staleness sweep pushes before it commits: a job picked up in between is skipped and stays queued, and its product is left out of every later sweep. An archived page
can never be extracted again, since the unique index on `canonical_url` counts archived rows. A crash while a retry sleeps leaves "retrying". Bans are not consulted when a job is requeued.

*Delivery.* A webhook reads the shipment again after its commit (`ns/services/tracking_service.py:157`) and writes the order by that: one for "in transit" that overlaps the one for "delivered" can write the order delivered
before the confirmation is published, and if the second request dies there, the carrier's retry has to make up for it (`untold`). Neither writer of the order's status compares: a late "in transit" puts a delivered order back. A lost message, or a handler that fails after its claim, leaves the
wakalah unexecuted. Overdue instalments are not rescheduled, and one that is paid between the read and the commit still gets its date moved.

*Credit.* A limit between 50 and 55 % of the order is approved in part, while a better one, up to what the down payment leaves, gets a counter-offer that is stored as rejected and cannot be accepted.
The push overwrites the available credit with the full limit whatever is reserved, and pushes can be lost, repeated or overtake each other. `current_limit` is
the highest limit ever approved, so that lowering it by an override has no effect. An Idempotency-Key makes another application when its answer has lapsed after a day. A 409 on the portfolio's lock leaves the key locked for 30 s; that lock is deleted whoever owns it; the consumer does not take it. With the mock
data sources nobody passes band C, and band D is always declined. `users.id` is a UUID in the ORM and BIGINT in migration 041. A blacklist entry removed at the gateway stays active in
the engine's table and its cache, though `ce/policy/rule_policy.py` says that it "is invalidated eagerly elsewhere".

*Billing.* An instalment that was collected automatically never becomes paid and is found again every day. Waivers are read once, at the start of a run. `installments_overdue` is published twice per run. Between `CompareOwner` and `DeleteLock`
the lock can pass to another run.

*Books.* `journal_entries.source_id` is BIGINT (`src/db/migrations/versions/011_init_m11_ledger.py:67`), but manual entries, reversals over HTTP and the closing entry of December pass a text, which asyncpg refuses on PostgreSQL;
the SQLite of the tests takes it. `TextIds = TRUE` is the latter, `FALSE` leaves those actions out; `CharityFund`'s reversal stands for `record_reversal` with a number, as its tests call it. A closing entry dated December 31 and
posted after that day's snapshot is not seen by any balance. A close after a reopening posts nothing. Entries committed between the closing entry and the closing of the period stay unclosed. The close looks at December only, though the comment
says the year. Expenses that were credited, negative balances and a profit of zero are not handled. A snapshot run again for a day returns what it had. The trial balance can be unbalanced when an entry is committed between the snapshots of two accounts.
`journal.posted` is published before the commit.

*KYC.* Submitting and uploading do not look at the status. Two first requests can create two rows, after which every read raises. `trigger_reverification` says that it resets the status to
PENDING, but assigns an attribute the model does not have; the exception is swallowed and only the user's status changes. A decision does not require the claim, and a claim takes over
another's. A resubmission committed between the steps of another request can end in an approval without documents (`crossed`). The job for the credit engine is pushed before the
commit, so that a job may have no approval.

*Accounts.* A rejecting decision that was read before an approval overwrites its status, though the limit was granted. Limit and available credit are both overwritten, whatever is reserved. A bulk activation, or a new closure request,
opens a closed account again. Two closure requests at once make `one_or_none` raise ever after.

*Reconciliation.* The ledger's import counts rows of any status. Only tests pass `line_items`, and a line that is listed twice matches twice. Importing twice makes two rows, and nobody consumes the event, which is published before
the commit. The orchestrator's report reads all "success" rows of any day, though its docstring says "for the settlement period", and reports rows that the callback has set to "confirmed" as missing. The override takes no lock.

*Human queue.* `sweep_hitl_sla_breaches` has no caller but tests. The handlers commit on stale reads: an entry that was resolved can be in progress again, and one can be in progress with the resolution "cancelled". Every failed report
makes a new entry; an override of the status leaves the entries open.

*Prohibited goods.* The cached negative is kept per address, not per text, so that a page that changes passes until it expires or the list changes. Two updates of one category at once can lose a word. A process that dies between the commit and the new version
leaves old negatives in force. A blocked merchant is not looked at by an extraction; nothing writes prohibited_merchant_domains.

*Keys of card numbers.* A transaction that loses the race for a KMS key rolls back, which expires the objects loaded before: the issuance fails after the issuer has made the card, and the script dies. The script pages by OFFSET
over the table as it is at each page. A run that reports zero is only worth something when every process uses the current version (`settled`).

*Migrations.* The downgrades of 006 (line 227), 007 (186), 019 (89), 026 and 049 fail, the last in every case, so that no database can be brought back past 049. 013, 032 to 035 and 039 do not bring back the tables they replaced, and 029
fails when it is run again after them. 019 drops a column that 007 made; 050's downgrade leaves account 2101. The rows of the tables are not modelled: 057's downgrade fails if a row has the status "confirmed".
Tests make the schema from the models, so that none of them meets a missing column or a value check.

## 7. What is not modelled

* **Pure I/O**: provider adapters, browser automation, PDF generation, storage, dispatchers, page extractors,
  signature checks of webhooks. The models keep the outcomes: moved money, refused, pending, died.
* **Reads and files**: reports, TASDEEQ files, dashboards.
* **Authentication, permissions, the profile and bank statements of KYC**: what the other components take from them is that a user is
  allowed to make the request and what the request has read of the user.
* **Containers, front ends, mobile app, generated files, documentation sites, and the CRUD endpoints of the administration.** They are a large part of the repository; the map
  covers about a third of its implementation lines.
* **Of the schema**: column types, indexes, partitions, triggers but the one on loans, views, seed rows; columns that only one revision touches and that the models have.
* **Left out of modelled components**: the content of journal entries in `EventDelivery` and `CharityFund` (it is in `Books`);
  control accounts, currencies and listings of the ledger; seeding of periods; purchase statuses of orders; the signing OTP and validity windows of contracts;
  the instalment plan of the loan; registering a shipment and the cache of its status; dry runs and the batch size
  of the billing sweep; authorizations of a card, which change nothing; reminders and preferences of notifications. `FEATURE_HITL_ESCALATION` is TRUE, its default.
  Time is not modelled: a TTL, an age or a validity that can pass, passes at any moment.
* **Chosen instead of computed**: whether a user is blacklisted, too fast or suspected of fraud; whether a browser step fails; what a provider answers.

External code is modelled from its use: PostgreSQL row locks and unique indexes as atomic
guards, Redis commands as atomic steps, the providers as environment actions.

## 8. Plan

Done: the core (instalments, down payment, events, charity, orders and contracts), refunds, checkout and the operators' queue, product pages and prohibited goods, notifications, credit, billing, books and year
end, payment sessions, card use and card keys, delivery, KYC, accounts, reconciliation, migrations.

Not composed: components that meet in the code are checked side by side; a composition of `DownPayment` with `PaymentSessions` and `CardUse` is beyond the five minutes of a run.

Left to prove: the safety part of the other liveness properties, as `RowsReleased` and `RequestsAdvance` are for `RequestsEnd`. Out of the prover's reach are the properties listed as only model-checked in section 5.
