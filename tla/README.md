# billing-core: TLA+ verification project

billing-core is a service that creates charges and subscriptions at a payment
gateway (Asaas, Mercado Pago), processes the gateway's webhooks, and tells the
systems that own the subscriptions what happened.  It is a FastAPI application,
an ARQ worker and two stores: PostgreSQL (at READ COMMITTED) and Redis.  This
directory holds TLA+ models of it, the TLC runs that check them, and proofs
checked by TLAPS.

Paths below are relative to `src/`.

## 1. Inventory

### 1.1 Components

| component | code | state it keeps | operations |
|---|---|---|---|
| domain rules | `app/domain/entities` | payment, subscription, operation, delivery objects | `mark_as_*`, `cancel`, `request_cancellation`, `renew_checkout`, `register_attempt`, ... |
| webhook processing | `app/application/use_cases/process_webhook.py` | rows of `subscriptions`, `payments`, `webhook_events` | one handler per event kind, each one transaction |
| repositories | `app/infra/repo`, `app/infra/db` | the tables; unique keys | plain reads, `SELECT ... FOR UPDATE`, whole-row `save` |
| webhook pipeline | `routes/webhooks.py`, `workers/tasks.py`, `worker.py` | Redis: replay keys, processing locks, job queue; rows of `internal_webhook_deliveries` | receive, queue, resolve, lock, apply, announce, send; retries |
| gateway operations | `gateway_operation.py`, `create_subscription.py`, `create_checkout.py`, `cancel_subscription.py` | rows of `gateway_operations` | reserve, call the gateway, record the outcome; reconcile |
| checkout payments | `create_checkout.py`, `sync_checkout_status.py` | standalone rows of `payments` | create, renew, synchronise, webhooks |
| API requests | `routes/payments.py`, `routes/subscriptions.py`, `routes/jobs.py`, `dependencies/idempotency.py`, `dependencies/rate_limit.py` | Redis: records of keys, counters, owner and metadata of jobs | admit, claim the key, enqueue, answer; show a job |
| customers | `create_customer.py`, `cpf.py`, `cnpj.py` | rows of `customers` | find or create |
| gateway adapters | `app/infra/interfaces` | none | HTTP calls, translation of the gateways' resources |
| billing dates | `subscription.py` | `last_paid_date`, `expires_at` | `_add_billing_period` |

### 1.2 How they interact

A gateway webhook reaches `POST /webhooks/...`, which drops replays with a Redis
key and enqueues a job.  A worker takes a Redis lock on the event, runs
`ProcessWebhookService.execute` in one transaction, writes an internal delivery
in a second one, and enqueues the job that posts it to the origin system.  A
request to create or cancel something is answered `202` and becomes a job too;
the job reserves a row of `gateway_operations`, commits, calls the gateway, and
commits the outcome.  A cron task reconciles the operations whose outcome is
not known; another asks the gateway for the checkouts that are still pending.
All meet in the same rows, and mostly without row locks.

### 1.3 What is hard

- several workers and the crons change the same rows in any order; only the
  payment and delinquency handlers of a subscription lock it;
- `save` copies a whole domain object onto a row read later than the object;
- the Redis locks and keys expire, and are deleted by name, whoever holds them;
- jobs are redelivered, retried and killed at a timeout between any two awaits,
  and so are the requests of the API;
- the gateway's calls may take effect and then fail to answer;
- webhooks arrive late, twice, on two topics and out of order, and some only say
  where to look;
- months have different lengths.

`PROJECT.json` lists the hazards line by line with the properties that cover
them.  Section 5 describes those that come true.

### 1.4 What makes each component correct

| component | it is correct if |
|---|---|
| webhook processing | an event is credited at most once; no committed extension of a live subscription is lost; a canceled subscription stays canceled; overlapping executions add up to some one-at-a-time order; every execution ends |
| cancellation | nothing is closed here before the gateway has closed it; subscription, operation and delivery agree; the origin system is told the truth, once; every job ends, and what is left to the cron gets completed |
| creation | one subscription at the gateway per `system_sub_id`; its reference and its terms are not lost; a completed operation has its row; what is left to the cron gets completed |
| webhook pipeline | an event is applied once; it is announced at most once, by one job; an announcement is lost only at a known place; no notification is dropped but for one that is in hand; every job ends |
| internal delivery | the row tells the truth about what the consumer got; the sending ends |
| checkout payments | a row that says paid was paid, stays paid, and names the only session a buyer can pay |
| API requests | one key starts one job; nobody is given the job of another body; what is shown of a job is so; nobody is locked out |
| customers | an account is bound to one customer, that of its person; a person has one customer |
| adapters, dates | nothing expires that can still be paid; a payment buys one period, however long the months |

## 2. Modules

| module | models | state and actions |
|---|---|---|
| `BillingRules` | the transitions of a payment and of a subscription, and the effect of one webhook on them (`payment.py`, `subscription.py`, the handlers of `process_webhook.py`) | operators only |
| `BillingLedger` | abstract: what webhook processing promises, each event at most once and all at once | `sub`, `payment`, `processed`; `Process(e)` |
| `WebhookBilling` | concurrent `ProcessWebhookService.execute` over one subscription | the three tables, the row lock, one program counter per execution and what it has read; `Start`, `LockSubscription`, ... |
| `SubscriptionCancellation` | `CancelSubscription.execute`, its worker, `SUBSCRIPTION_DELETED`, the cancel branch of the reconciliation, the delivery until it is enqueued | status of subscription, operation and gateway, both row locks, delivery, program counters |
| `SubscriptionCreation` | `CreateSubscription.execute`, its worker, the create branch of the reconciliation, `gateway_operation_repo.save` | the subscriptions at the gateway (a sequence of whose terms they carry), the mirror row, the operation row, program counters |
| `Outbox` | abstract: what the pipeline promises, each event applied at most once and announced at most once | `applied`, `announced`; `Apply(e)`, `Announce(k)` |
| `WebhookPipeline` | the two webhook routes, `process_webhook` and `process_mercadopago_webhook` with their except and finally clauses, the creation of the delivery | edge, replay key, job and tries of each notification, lock of each event, resources at the gateway, events applied, deliveries and their jobs; `Receive`, `Resolve`, `TakeLock`, `CommitEvent`, `Fail`, `Die`, `RunAgain`, ... |
| `InternalDelivery` | `send_internal_webhook` | the row's status and attempts, the job, what the consumer got |
| `CheckoutPayments` | `CreateCheckout` (first request and renewals), the checkout branches of the webhook, `SyncCheckoutStatus`, the create_checkout branch of the reconciliation | one payment's row, its operations, the sessions at the gateway, the notifications, the copies each writer holds |
| `ApiRequests` | rate limit, idempotency key, the routes that answer 202, the worker's reports, `GET /v1/jobs` | counter and its TTL, the key's record, owner and metadata of the jobs; one action per call to Redis |
| `CustomerRegistration` | `CreateCustomer` over the unique keys of `customers` | customers at the gateway, bindings, program counters |
| `Documents` | the check digits of CPF and CNPJ | operators only |
| `BillingCalendar` | `_add_billing_period` on real months and leap years | operators only |
| `MercadoPago` | how payments, preferences and invoices of Mercado Pago reach the local row: notifications, `resolve_checkout_status`, the cron | the payments there, the search index, the row, the payloads under way, the dates of a subscription |

`BillingRules` is extended by `BillingLedger` and `WebhookBilling`, which
instantiates `BillingLedger` as the specification it implements; `Documents` by
`CustomerRegistration`, `BillingCalendar` by `MercadoPago`.  `WebhookPipeline`
instantiates `Outbox`.  The modules named `MC...` hold instances for TLC, those
named `..._proofs` theorems.

What one module does step by step another takes as one step.  The cancellation
treats a payment webhook as atomic (`PaymentReceived`), and the pipeline an event
(`CommitEvent`): that the locking handlers may be seen so is what
`LedgerImplemented` proves.  `CheckoutPayments` and `SubscriptionCancellation`
stop where a delivery is committed or enqueued, and `InternalDelivery` starts
there; its theorems are in `WebhookPipeline_proofs`, next to those of the pipeline
that enqueues the job.  `MercadoPago` has one actor at a time on the row and looks at the order
of things at the gateway; the races for the row are in `CheckoutPayments`.

### 2.1 How steps correspond to the code

A step ends where another actor can tell: at a read of committed rows, at a
lock that may wait, at a commit, at a call of Redis or of the gateway.
Uncommitted writes are seen by nobody at READ COMMITTED, so the `UPDATE`s and
`INSERT`s of a transaction are part of its commit; an `INSERT` that waits on a
unique key and the wait itself are one step.

`save` loads the row, assigns every field of the domain object to it, and
SQLAlchemy then emits the columns that differ from what was loaded.  The
identity map of a session holds its rows weakly and the repositories keep only
the domain object, so the row is loaded again at the save: loading and writing
are two steps, and a column that another transaction changed in between is kept
or overwritten according to whether the saved value differs from the loaded one
(`Column` in `SubscriptionCreation`, its counterparts in `WebhookBilling`).  In
`CheckoutPayments` (`Saves`) the load and the write are one step: either all of the
copy comes back, or, where the row changed between the two, only the columns the
writer had changed; mixtures of the two, where some columns changed before the load
and others after it, are not generated.

A retry, a redelivery and a second worker are other jobs with the same event in
`WebhookBilling`; in the other modules a job counts its tries.  After an
exception or a death a job runs again or is given up, whichever: ARQ runs a job
again after `Retry`, a cancellation or the loss of its worker only, and which of
them an exception becomes depends on its class.  In `WebhookPipeline` `Fail` is
an exception, which the except clauses handle, and `Die` a death, which nothing
handles; in `InternalDelivery` they are `SendingFails` and `SenderDies`, in
`ApiRequests` `WorkerErrs` and `WorkerDies`.  A death may come between any two
awaits, also after the last word of a try was written and before the queue hears
that the job is over: `InternalDelivery` writes FAILED, tells Redis and ends in
three steps (`WriteRejection`, `ReportRejection`), `ApiRequests` takes a job,
reports it and leaves it in three (`WorkerTakes`, `WorkerStarts`, `WorkerLeaves`).

SET NX and the GET that follows a refusal are two steps (`TakeLock`, `AskHolder` in
`WebhookPipeline`; `Claim`, `Look` in `ApiRequests`), and so are the unlocked read of
a payment and its save (`ReadPayment`, `SavePayment` in `CheckoutPayments`; `Apply`,
`JobSaves` in `MercadoPago`; `SyncLists`, `SyncAsks`, `SyncSaves` in both).

### 2.2 Abstractions

- `WebhookBilling`: one subscription, dates are numbers and a billing period is
  a constant number of them (`BillingCalendar` has the months); amounts and
  links are left out; the `UPDATE` of the payment row is part of the commit.
- `SubscriptionCancellation`: the operation row is its status (its reference is
  constant, and every overlap of two saves leaves the status of one of them);
  the webhook's transaction is atomic as far as the status goes; `webhook_link`
  is set.  The branch of `execute` for a COMPLETED operation cannot be reached
  (`CompletedIsCanceled`) and has no action.
- `SubscriptionCreation`: a job's request is its identity ("terms"); the
  gateway makes a new subscription for every call it executes; the status it
  reports and the later payments are left out, so `payment` says whether the
  creation itself stored one.
- `WebhookPipeline`: an event takes effect or is refused; a body of Asaas carries
  its event, a body of Mercado Pago names a resource, which goes through a
  sequence of states (`States`) and is read when the job runs.  The lock cannot
  expire in the try that set it, because
  `WEBHOOK_PROCESSING_LOCK_TTL_SECONDS` (300) is more than
  `WORKER_JOB_TIMEOUT_SECONDS` (120); it can in a later try (`aged`).  The retry
  of a Mercado Pago job may find another event and leave its old lock behind
  (`moved`), and its own aged lock may expire between the SET that refuses it and the
  GET that asks for the holder (`lapsed`).  A key of `OnChange` is one that only the
  event announces that changed the payment (a refund: `process_webhook.py:344-350`
  returns None for another event of the same refund); the other keys are announced by
  every event that names them.  Signatures and the counter of dead letters are left
  out.
- `InternalDelivery`: what the consumer answers is: taken, taken with an answer
  that cannot be read, or an error, behind which it may have been taken.
- `CheckoutPayments`: one payment; `updated_at` is a stamp that every write
  increases.  The delivery is written with the status that it announces.  A
  buyer pays a session whose link the row has shown.  A copy of the row is its
  status, its session (`provider_payment_id` and the link), its reference and its
  stamp, and a save brings back all of them.  Three history variables name what the
  code does not survive (`doubled`, `overlap`, `overtaken`, section 5), and the
  properties that need their absence say so (`Calm`).  `doubled` also counts an
  operation resumed once after an incomplete answer for which the gateway had opened a
  session.
- `ApiRequests`: a body is its hash; a request enqueues at most one job, which
  has its name; tries are not counted: after each the queue runs the job again or
  drops it, whichever.
- `CustomerRegistration`: the row is written with its binding, so that a row
  without one does not occur; e-mails are right, documents may be mistyped; a
  customer may be deleted at the gateway, which stays bound here.
- `MercadoPago` assumes of the gateway: the search shows a payment before the
  grace period (300 s) of its preference is over; a reversal is final; the
  notifications of an invoice arrive before the next charge; a charge is made on
  the day of the first one, or on the last day of a shorter month; the first
  `expires_at` is the date of the first charge.

## 3. Runs

| run | instance | states | shows |
|---|---|---|---|
| `webhook_ledger` | two invoices, five jobs: a confirmation delivered twice, the receipt of the next invoice, an overdue notice, a refund; subscription PENDING or CANCELLATION_PENDING; payment known, unknown, or provisional | 301 792 | the executions implement the one-at-a-time ledger and credit an event at most once |
| `webhook_cancel` | two payments, the unlocked `SUBSCRIPTION_DELETED` and the unlocked `PAYMENT_DELETED` | 60 650 | no reactivation, no lost extension, the inductive invariant, and every execution ends |
| `cancellation` | two jobs with two tries, one webhook, one cron run that may fail once | 238 982 | the agreement of all parties, reports true and single, jobs end, the cron completes what is left |
| `creation` | two jobs with two tries, a cron that may fail once | 41 518 | one subscription until an attempt is recorded as failed, completed means mirrored, the mirror stays, the cron completes what the unique key lets it |
| `pipeline` | two stories: the refund of a subscription's payment, which Mercado Pago notifies on two topics, one of the notifications twice, of a resource that moves on meanwhile; and the confirmation and the settlement of one card payment at Asaas, two events with one dedupe key; two tries, one fault | 1 638 826 | an event is applied and announced at most once (`KeepsPromise`); what a change owes is lost only in the gap between two commits; a notification is dropped only when in hand, or after its own lock lapsed; every job ends |
| `delivery` | five tries | 4 333 | attempts cover posts, DELIVERED is true, FAILED is final unless the try that wrote it was cut off, and, of a consumer that got nothing, means that the tries are spent; the sending ends well or is given up |
| `checkout` | two create jobs, three sessions, two overlapping synchronisers, the reconciler, all notifications; four requests at Asaas, three at Mercado Pago | 1 215 183 | paid rows were paid; while `Calm`, one session can be paid, and its payment is recorded and kept |
| `requests` | three requests with one key, two bodies, a limit of two, two faults of the workers | 4 522 287 | one job while the record stays, never the job of another body, job ids that can be asked for, true statuses as far as `StatusIsTrue` goes (section 5), a counter that runs out |
| `customers` | three calls; a company with accounts in two systems, a person with the same e-mail and one with a document of their own; every wrong, missing or swapped digit in the documents | 408 365 | answers are the binding of the right person; one customer per person but for simultaneous searches; only documents ending in 00 let a slip through |
| `gateway` | two payments for a preference or an invoice; subscriptions from six dates, monthly, half-yearly and yearly, until March 2025 | 1 032 814 | nothing expires that can be paid; rows are true; a refund stays; `expires_at` stays near the next charge; checkouts end |

Two runs end in a counterexample to something the repository says of itself:

| run | what the code does |
|---|---|
| `invoice_credited_twice` | a receipt that arrives after the confirmation of the *next* invoice extends the subscription again, because only `last_paid_date` is compared |
| `checkout_notified_twice` | the synchroniser marks as paid its own copy of a payment that the webhook has marked meanwhile; the new `updated_at` makes a second dedupe key and a second notification |

Each finding in `PROJECT.json` quotes the line it contradicts.

### 3.1 Bounds

- `MaxTries` is the code's `WORKER_MAX_TRIES` (3); the runs take 2, a first try
  and a retry.  `MaxSends` is `INTERNAL_WEBHOOK_MAX_TRIES`, at its own value of 5.
- `MaxOutages` (cancellation, creation) bounds how often a cron run fails; one
  failure shows that the next tick finds the operation again, and the liveness
  properties need some bound.  `MaxFaults` (pipeline) bounds exceptions and
  deaths; what a second fault could add is a second gap, which the theorems cover.
  `MaxFaults` (requests) is two: a try that fails and one that is cut off.
- `Stories` (pipeline) are the sets of notifications sent together: one per gateway,
  since no Asaas event and no Mercado Pago event share a resource or a key.  The two
  notifications that are one sent twice may change places (`Redelivered`).
- Two cancellation or creation jobs exist at once if two requests carry different
  Idempotency-Keys; two are enough for every overlap of a pair of steps.  One
  state of the creation needs three: two overlapping saves after a third job's
  failure can leave an operation FAILED *with* a reference, which is neither
  retried nor reconciled.  The theorems cover any number of jobs.
- `checkout`: four requests of the client at Asaas, because the second session of
  one reference takes a third to do harm, and three at Mercado Pago, where a
  reference has one session; five writes of the row (`MaxStamp`).  A session
  cannot be renewed before the row says that it ended, which takes two stamps a
  round, so that the run reaches renewals of renewals, and the late save of a copy read
  before one.  States that differ only in *which*
  exception to `Calm` happened are one (`MCView`): no step reads these histories.
- `requests`: three requests, because an expired record takes one to make it, one
  to lose it and one to take the key again.
- `gateway`: the six dates begin on the last days of long, short and leap months
  and in the middle of one; the run goes through the Februaries of
  2024 and 2025.  `MaxDelay` (3) is
  how late a charge is paid; `MaxPayments` is two, one to fail and one to pass.
- The modules that run without fairness stop at these bounds, or where every
  request is answered; their cfg files say `CHECK_DEADLOCK FALSE`.

The theorems depend on none of these values.

### 3.2 Fairness

- Weak fairness of every job's own steps: the worker keeps running its jobs, and
  ARQ runs again a job whose worker died.  Crashes, gateway failures and outages
  are never obliged to happen.  `SendingEnds` needs no more, because a try is cut
  off by its timeout and tries are counted.
- Weak fairness of the crons: the reconciliation ticks every 15 minutes, the
  synchroniser every 5 (`SyncAsks`, `SyncSaves`).
- Strong fairness only where a step waits for a row lock that others take and
  release repeatedly: PostgreSQL queues the waiters of a row and wakes them.
- Webhooks of the gateway are not obliged to arrive, except that an execution
  that has started goes on.
- A cycle of row locks (cron: operation, then subscription; job: subscription,
  then operation) is broken by PostgreSQL's deadlock detection, which makes one
  of the two raise.
- `JobsEnd` of the pipeline needs no fairness: it says that each step of a job
  brings it closer to its end (`Work`), and deadlock is checked.

## 4. Proofs

All theorems hold for every set of jobs, events, invoices, notifications, accounts,
requests and sessions and every limit.  The assumptions are those of the
modules: the actors are distinct, the limits and the period are natural numbers,
the events and the rows to start from have their types.

**`WebhookBilling_proofs`.**  `TypeCorrect` first: what a handler computes has
the types of the tables, by one lemma per handler of `BillingRules`.  Then the
inductive `LockingInvariant`.  That a canceled subscription stays canceled is
not inductive: one has to know why a handler that is about to save cannot have
read an older row.  `LockDiscipline` says that a locking handler holds the row
from its read to its end, `LockHolderIsCurrent` that what it read is therefore
the latest version, `SavedSubscription` that a handler which extends does so to
a subscription that was alive when read, and `CanceledWhenLoaded` covers the
handler that does not lock.  `CanceledForGood` and `PaidTimeKept` follow from a
lemma on what one commit writes; `CreditedAtMostOnce` from the unique event.
For the refinement: if every event is of a kind whose handler locks,
what a handler is about to save is the effect of its event on the rows as they
are at that moment (`EffectsAreCurrent`); its commit is then `Process(e)` of
`BillingLedger`, every other step a stutter (`LedgerImplemented`).  The
hypothesis is needed: `SUBSCRIPTION_DELETED` and `PAYMENT_DELETED` do not lock,
and section 5 says what follows.

**`SubscriptionCancellation_proofs`.**  `CancellationAgreement` is inductive:
whoever is about to close the subscription knows that the gateway has
(`CloserIsSure`), a job that reserves holds the row it has read
(`ReserveDiscipline`), and the one delivery is inserted by one actor only.  That
nothing is closed too early, and that reports are true and single, are conjuncts
of it; `CanceledStays` follows.

**`SubscriptionCreation_proofs`.**  `CreationInvariant` is inductive.  Its heart
is `OneCreationUntilFailure`: while no attempt has been recorded as failed, at
most one job is past the guard of the operation, and it has created at most
once.  Section 5 shows the premise to be needed.  Three lemmas carry the steps that
write no row: a job that moves without an answer in hand (`QuietMove`), one on its
way to save (`SavingMove`), and the cron (`CronMoves`); `SavedDoes` says what the
save of a row loaded earlier can leave behind.

**`WebhookPipeline_proofs`.**  `PipelineInvariant` is inductive.  The lock names a
job that has its event in hand or has turned to another (`HolderHasEvent`), a
job beyond the lock holds it or lost it (`HeldOrDropped`), and a job that was refused
the lock and is about to ask for its holder knows that another has the event, or
that the lock was its own (`RefusedForAnother`): from there follow
`SwallowedIsInHand` and `LockProtects`.  The lock is no part of the reason why an
event is applied once: that is the unique `event_id`, and one delivery with one
sending job comes from the unique `dedupe_key`.  `PipelineKeepsPromise` maps
`CommitEvent` to `Apply`, `InsertDelivery` to `Announce` and every other step to a
stutter; `JobsComeToAnEnd` shows by cases that `Work` falls.

Its last section is about `InternalDelivery`, where `Recorded` is inductive: between
two tries the attempts are one per try, and a delivery is closed as FAILED by the
last try or by an answer that cannot be read, which was taken.  That FAILED is the end
has one exception, the try that is cut off after it wrote FAILED and before its job
was over (`cut`): the queue runs it again, and nothing looks at the status.

**`CheckoutPayments_proofs`.**  `PaidInvariant` is inductive: every word that a
payment was made, whether in a notification, in the synchroniser's answer or in
the copy a reconciler holds, is of a session that was paid (`WordOfPayment`), a
payment that exists names a session, and so does whatever carries a session to it
(`SessionsNamed`).  It holds whatever happens, and so does `PaymentsAreReal`.

`PaymentInvariant` adds `CalmInvariant`: what holds as long as no failed operation
was resumed over a live try or session, no synchroniser outlived its lock, and no
notification saved a copy that a renewal had overtaken.  `Calm` is needed: section 5
says what each of the three does.  `OnePayable` alone is not inductive, since a job may
hold a session that the row is yet to show, and the row may be replaced by three
writers.  The argument:

- An operation is tried by one job at a time, and a job calls the gateway only for a
  reference for which it has opened nothing; so a reference has one session
  (`OneTry`), and the row, the jobs and the operations name sessions of their
  references (`SessionsMatch`).
- A renewal's reference is the stamp of the row it replaces, and stamps are never
  given twice (`StampsGrow`).  Hence at most one operation is on its way to the row
  (`Unfinished`), and the row it replaces names a session that nobody can pay any
  more (`OneRenewal`): a new link is only shown after the old one is dead.
- A writer that saves its copy of the row brings back the session the row still
  names: the reconciler because it holds the operation's row and no other operation
  can bring a session (`OneRepair`), a synchroniser because it holds the lock and a
  pending row is not replaced (`OneSync`), a notification because it is not overtaken
  (`NothingOvertaken`).  What a notification has read of the status is still so too,
  because only one can change the row it has found (`Notified`, `NotifiedOfTheRow`),
  unless money went back in between, which is why the properties speak of the time
  until a refund; the reconciler may bring back an older status only after one.

`NothingIsPaidTwice`, `PaymentsAreRecorded` and `PaidIsNotTakenBack` follow; the
`checkout` run checks the invariant on its instance.

**`ApiRequests_proofs`.**  Two inductive invariants.  `RequestsInvariant`: while
the record stays, one request has the key (`KeyIsHeld`), and a record that names a
job has the hash of that job's body (`RecordIsTrue`).  `ShownInvariant`: a job
gets into the record when its owner is the next thing to be written (`GivenOut`), and
the worker reports all it does (`Reported`), a job that the queue dropped and a try
that was cut off after its last report (`cut`) excepted.

**`CustomerRegistration_proofs`.**  `CallsAreToldTheTruth`: every id that a call
holds (`GotIsOfThePerson`) or an account is bound to (`BoundIsOfThePerson`) is of a
customer of that person, and what is known, submitted or bound stays so
(`StepsKeep`).  `OnePersonOneCustomer`: a call that is about to register a document
that nobody else looked for is the only one, and the document is not registered
(`CreatesWhatIsMissing`).  For Mercado Pago, which is asked for the e-mail, this
takes `SharedDocuments`: no document is accepted for two accounts with different
e-mails, as a typing error in one could make it.

`OnlyZerosSlipThrough` is about the check digits of `Documents`, for every account
whose right document is valid and who types it with at most one slip: a digit wrong,
a digit missing, two neighbours swapped.  Such a document is only accepted if it ends
in 00, if it ends in 0 and the right one in 00, or if it is a CPF whose first digit
is wrong and whose first check digit is 0.  The argument goes by the weights: two
remainders give the check digit 0 and every other digit stands for one
(`OneRemainderEach`), a slip changes the weighted sum by the difference of the digits
times a weight, or times the difference of two neighbours' weights (`SumsChange`), and
11, a prime, divides neither (`NoMultipleOfEleven`), but for the weight 11 that the
second check digit gives to the first digit of a CPF.

**`MercadoPago_proofs`.**  `GatewayInvariant` is inductive: what is under way was said
by a payment (`PayloadsAreOfPayments`), only a checkout expires, dates are dates
(`InvoiceDates`), and `expires_at` is about where the charge is (`ExpiresAboutThen`),
which says more than the three days of `ExpiresNearTheCharge`: the day of the month is
clamped twice, by the gateway from the first day of all and by `_add_billing_period`
from the previous `expires_at`, and the drift must not add up.  `PeriodKeepsNear`
proves that it does not, for every first day, every month and every period, if a
charge is paid within 24 days.  `RowsAreTrue`, `ExpiredIsUnpayable`,
`ExpiryFollowsTheCharge` and `RefundsStay` follow; the last speaks of a refunded row
against which nobody holds a copy, neither the cron nor a job with an approval
(`NoCopy`), and says that none is made any more.

**Model-checked only.**  Every invariant and every action property that a passing
run checks is stated by a theorem.  The liveness properties (`EveryExecutionEnds`,
`EveryJobEnds`, `MarkedIsCompleted`, `SendingEnds`, `CheckoutEnds`) are not, because
they rest on fairness, which the prover does not handle; neither are the two
properties of the violation runs, which the code breaks.

## 5. What the code does that a reader may not expect

Found while modelling; the models contain all of it, and the premises or the
history variables of the properties name it.  Except for the two runs above, no
run states it as a property of its own.

Subscriptions:

- An overdue notice turns a CONFIRMED payment OVERDUE: `_OVERDUE_REJECTED_FROM`
  (`process_webhook.py:28-35`) lists PAID and others, not CONFIRMED.
- `SUBSCRIPTION_DELETED` is handled without a lock and writes the dates it read
  before a payment back over the paid ones; the subscription is canceled then,
  which is why `LiveSubscriptionKeepsPaidTime` speaks of live ones.
- A settlement that arrives after the next confirmation is credited again: see
  `invoice_credited_twice`.
- A job's FAILED overwrites the REQUIRES_RECONCILIATION of another job, and the
  cron no longer finds the operation (cancellation and creation).
- A lost answer of the gateway is recorded as FAILED, which allows another
  creation; the first subscription stays at the gateway, unknown
  (`create_subscription.py:94`).
- Two jobs that resume one failed operation, which is read without a lock, make two
  subscriptions; the second can never be mirrored and its mark never resolved.
- A retry with other terms does not update `request_payload`: the cron mirrors the
  new subscription with the old terms (`create_subscription.py:76`).
- A worker that dies after reserving leaves a PENDING operation under which every
  later creation is refused.
- The cron completes a creation whose payment was never stored, because
  `get_by_provider_id` returns None where the branch expects an exception
  (`tasks.py:811`).
- `expires_at` drifts up to three days away from the next charge, since each
  extension clamps the day of the one before, and heals when a payment is later.

Webhooks and deliveries:

- After a crash between the commit of an event and that of its delivery the origin
  system is not told (`gap` in `WebhookPipeline`); after one between the commit of
  a delivery and its enqueuing the delivery stays PENDING, since whoever finds the
  row later enqueues nothing (`tasks.py:562`).  Of a refund that comes as two events
  the second announces nothing, because it changes nothing: it does not make good what
  the first lost.
- A job that is run again while the lock of its earlier try still stands, and asks for
  its holder just when it has expired, answers "duplicate", completed, though no other
  job has the event (`tasks.py:200-221`; `lapsed`).
- `finally` deletes the lock by name; a job that fails before it knows its event in
  its last try leaves the lock to its TTL.
- Redis failing after the commit of DELIVERED turns the row to RETRYING or FAILED,
  and a 200 answer that is no JSON makes a delivery FAILED that was taken.  If the
  worker dies after that commit and before the job returns, ARQ runs the job again and
  it posts the FAILED delivery once more (`tasks.py:669-692`; `cut`).

Checkouts:

- A FAILED operation that is resumed stays FAILED while the gateway is called: two
  jobs open two sessions (`doubled`; `create_checkout.py:88`).
- The synchroniser's lock (240 s) may expire under it; its stale copy is then
  written over a renewed row (`overlap`), and at any time EXPIRED or PAID over
  REFUNDED, or PAID over PAID, see `checkout_notified_twice`.
- A webhook job saves the whole payment as it read it (`process_webhook.py:366`, `:422`,
  `payment_repo.py:111-135`).  If the payment was refunded, expired and renewed in
  between, the old session's id, reference and link come back over those of the new
  session, which can still be paid (`overtaken`).
- With two approved payments of one preference, the job of one that read PENDING before
  the other was recorded as PAID and refunded puts PAID over REFUNDED (`holding` in
  `MercadoPago`).
- A refund handled before its payment is consumed without effect.  One that is saved
  late can mark a renewed Mercado Pago row REFUNDED while its new session is paid.
- After a rollback an operation is recorded as FAILED over the COMPLETED of another
  actor; an incomplete answer of the gateway is recorded as FAILED though a session
  exists; an operation without a session is left to a human.
- If two payments of one Mercado Pago preference are approved and one is refunded,
  the row says REFUNDED though the other stands.
- `list_pending_checkouts` takes the first 100 rows: payments whose call fails every
  time stay at its head.

Requests and customers:

- The check digits let some slips through, all of them with zeros at the end: a check
  digit 0 stands for two remainders, and the first digit of a CPF has the weight 11 in
  the second check digit, which cannot see it; with a first check digit 0 nothing sees
  it (`cpf.py`).
- An ambiguous failure of the enqueuing clears the record although the job may be
  queued; SETEX and DEL go by the key's name, over the record of another request;
  these are the ways a record is `lost` that `OneJob` names.
- A route that dies between the placeholder and the record leaves the key refusing
  its own request for 24 hours; one that dies before the owner is written gives the
  key's next request a job id that answers 404.
- The route's "queued" may overwrite the worker's "completed" (`late`).
- A job that ARQ gives up after its last try died goes on being shown as it was shown
  last, `queued`, `processing` or `retrying`, although `routes/jobs.py:50` says of
  `retrying` that a new execution will follow.  A report that fails, or a death before
  it, on the last try does the same (`tasks.py:362-371`, `:419`).  `StatusIsTrue` claims
  the ends only, and `queued` of a job that no try has reported.
- A crash between INCR and EXPIRE refuses its system for good once the limit is
  reached (`stranded`).
- The same person registered by a second system meets the unique key of the
  gateway's customer and gets a NotFoundError; two simultaneous searches create two
  customers (`overlapped`); an account once bound is answered with its customer
  whatever the gateway is now, and also after that was deleted there.

## 6. Not modelled

- Signatures and HTTP of the adapters and of the edge: what they answer is the
  nondeterminism of the models.
- The check of an e-mail, the constructors' checks, `mark_as_failed` of a payment,
  which nothing calls.
- The TTLs of job metadata and owner and the poll key; the order and the limit of
  `list_pending_checkouts`.
- A change of the default gateway between two renewals of a payment, and the Asaas
  `PAYMENT_*` events of a standalone payment other than its refund.
- Observability, configuration, health endpoints, migrations and scripts, which
  change no billing state.
