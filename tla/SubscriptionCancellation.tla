---------------------- MODULE SubscriptionCancellation ----------------------
(***************************************************************************)
(* The cancellation of one subscription: jobs that run                     *)
(* cancel_subscription_worker, executions of process_webhook for the       *)
(* gateway's SUBSCRIPTION_DELETED, and the cron that reconciles gateway    *)
(* operations.  They share the subscription's status, the row of           *)
(* gateway_operations and the delivery that tells the origin system.       *)
(*                                                                         *)
(* A step is one transaction or one call of the gateway, split where it    *)
(* may wait for a row lock.  The gateway may fail before or after a call   *)
(* took effect; a job may die between any two steps, and after a failure   *)
(* it runs again or, when the queue gives it up, does not.                 *)
(***************************************************************************)
EXTENDS Naturals

CONSTANTS
    Job,            \* cancel_subscription_worker jobs
    Webhook,        \* deliveries of SUBSCRIPTION_DELETED, one event each
    Reconciler,     \* runs of the reconciliation cron
    Nobody,
    MaxTries,       \* WORKER_MAX_TRIES
    MaxOutages      \* bound: how often a reconciliation may fail

Actor == Job \cup Webhook \cup Reconciler

ASSUME ActorAssumption ==
    /\ Nobody \notin Actor
    /\ Job \cap Webhook = {}
    /\ Job \cap Reconciler = {}
    /\ Webhook \cap Reconciler = {}
ASSUME LimitAssumption == MaxTries \in Nat \ {0} /\ MaxOutages \in Nat

VARIABLES
    sub,            \* subscriptions.status
    op,             \* gateway_operations.status of cancel_subscription:...
    gateway,        \* the subscription as the gateway has it
    delivery,       \* the row of internal_webhook_deliveries exists
    enqueued,       \* times its send_internal_webhook job was enqueued
    subLock,        \* who holds the subscription row FOR UPDATE
    opLock,         \* who holds the operation row FOR UPDATE
    pc,
    tries,          \* job_try of each job
    seen,           \* the status each job read
    outages

locks == <<subLock, opLock>>
database == <<sub, op, delivery>>
vars == <<database, gateway, enqueued, locks, pc, tries, seen, outages>>

SubscriptionStatus == {"PENDING", "ACTIVE", "CANCELLATION_PENDING", "CANCELED"}
OperationStatus == {"ABSENT", "PENDING", "COMPLETED", "FAILED", "REQUIRES_RECONCILIATION"}

NotifyLabel == {"notify", "insert", "enqueue"}
JobLabel == {"reserve", "verify", "request", "finalize", "settle",
             "mark_failed", "mark_reconcile"} \cup NotifyLabel
ReconcilerLabel == {"listed", "verify", "close", "enqueue"}
Ended == {"done", "rejected", "failed"}

TypeOK ==
    /\ sub \in SubscriptionStatus
    /\ op \in OperationStatus
    /\ gateway \in {"ACTIVE", "CANCELED"}
    /\ delivery \in BOOLEAN
    /\ enqueued \in Nat
    /\ subLock \in Job \cup Reconciler \cup {Nobody}
    /\ opLock \in Reconciler \cup {Nobody}
    /\ pc \in [Actor -> {"idle"} \cup JobLabel \cup ReconcilerLabel \cup Ended]
    /\ tries \in [Job -> 1 .. MaxTries]
    /\ seen \in [Job -> SubscriptionStatus]
    /\ outages \in 0 .. MaxOutages

Init ==
    /\ sub \in {"PENDING", "ACTIVE"}
    /\ op = "ABSENT"
    /\ gateway = "ACTIVE"
    /\ delivery = FALSE
    /\ enqueued = 0
    /\ subLock = Nobody
    /\ opLock = Nobody
    /\ pc = [a \in Actor |-> "idle"]
    /\ tries = [j \in Job |-> 1]
    /\ seen = [j \in Job |-> sub]
    /\ outages = 0

Goto(a, label) == pc' = [pc EXCEPT ![a] = label]

\* The session of a ends or rolls back: its row locks are gone.
Release(a) ==
    /\ subLock' = IF subLock = a THEN Nobody ELSE subLock
    /\ opLock' = IF opLock = a THEN Nobody ELSE opLock

(****************************** The gateway ********************************)

\* Somebody else cancels the subscription there: its customer, an operator.
CanceledElsewhere ==
    /\ gateway = "ACTIVE"
    /\ gateway' = "CANCELED"
    /\ UNCHANGED <<database, enqueued, locks, pc, tries, seen, outages>>

\* A payment webhook, whole: WebhookBilling shows that they take effect one at
\* a time under the row lock.
PaymentReceived ==
    /\ sub \in {"PENDING", "CANCELLATION_PENDING"}
    /\ subLock = Nobody
    /\ sub' = "ACTIVE"
    /\ UNCHANGED <<op, delivery, gateway, enqueued, locks, pc, tries, seen, outages>>

(**************************** A cancellation job ***************************)

\* Mutant: get_by_id where the code has get_by_id_for_update.
ReadSubscription(j) ==
    /\ pc[j] = "idle"
    /\ seen' = [seen EXCEPT ![j] = sub]
    /\ Goto(j, "reserve")
    /\ UNCHANGED <<database, gateway, enqueued, locks, tries, outages>>

\* get_by_id_for_update
LockSubscription(j) ==
    /\ pc[j] = "idle"
    /\ subLock = Nobody
    /\ subLock' = j
    /\ seen' = [seen EXCEPT ![j] = sub]
    /\ Goto(j, "reserve")
    /\ UNCHANGED <<database, gateway, enqueued, opLock, tries, outages>>

\* Canceled already: the session, and the lock with it, lives on until the
\* delivery is dealt with.
AlreadyCanceled(j) ==
    /\ pc[j] = "reserve"
    /\ seen[j] = "CANCELED"
    /\ Goto(j, "notify")
    /\ UNCHANGED <<database, gateway, enqueued, locks, tries, seen, outages>>

\* An operation to reconcile is left to the cron: a DomainError, no retry.
RefuseCancellation(j) ==
    /\ pc[j] = "reserve"
    /\ seen[j] # "CANCELED"
    /\ op = "REQUIRES_RECONCILIATION"
    /\ Goto(j, "rejected")
    /\ Release(j)
    /\ UNCHANGED <<database, gateway, enqueued, tries, seen, outages>>

\* The operation row is made, the subscription waits for the gateway, and the
\* transaction commits.  A COMPLETED operation goes straight to the end (in no
\* reachable state, as CompletedIsCanceled shows).
ReserveCancellation(j) ==
    /\ pc[j] = "reserve"
    /\ seen[j] # "CANCELED"
    /\ op # "REQUIRES_RECONCILIATION"
    /\ IF op = "COMPLETED"
       THEN Goto(j, "finalize") /\ UNCHANGED <<sub, op, locks>>
       ELSE /\ op' = IF op = "ABSENT" THEN "PENDING" ELSE op
            /\ sub' = "CANCELLATION_PENDING"
            /\ Goto(j, "verify")
            /\ Release(j)
    /\ UNCHANGED <<delivery, gateway, enqueued, tries, seen, outages>>

\* verify_status
VerifyStatus(j) ==
    /\ pc[j] = "verify"
    /\ Goto(j, IF gateway = "CANCELED" THEN "finalize" ELSE "request")
    /\ UNCHANGED <<database, gateway, enqueued, locks, tries, seen, outages>>

\* The gateway cancels the subscription, and its answer may be lost.
CancelAtGateway(j) ==
    /\ pc[j] = "request"
    /\ gateway' = "CANCELED"
    /\ \E label \in {"settle", "mark_failed"} : Goto(j, label)
    /\ UNCHANGED <<database, enqueued, locks, tries, seen, outages>>

\* The second get_by_id_for_update.
LockToClose(j) ==
    /\ pc[j] \in {"finalize", "settle"}
    /\ subLock = Nobody
    /\ subLock' = j
    /\ UNCHANGED <<database, gateway, enqueued, opLock, pc, tries, seen, outages>>

\* The subscription and the operation, whose UPDATE waits for the cron's lock.
CloseSubscription(j) ==
    /\ pc[j] \in {"finalize", "settle"}
    /\ subLock = j
    /\ opLock = Nobody
    /\ sub' = "CANCELED"
    /\ op' = "COMPLETED"
    /\ Goto(j, "notify")
    /\ Release(j)
    /\ UNCHANGED <<delivery, gateway, enqueued, tries, seen, outages>>

\* Mutant: the transaction is not rolled back after an exception.
RaiseWithoutRollback(j) ==
    /\ pc[j] \in {"verify", "request", "finalize", "settle"}
    /\ Goto(j, IF pc[j] = "settle" THEN "mark_reconcile" ELSE "mark_failed")
    /\ UNCHANGED <<database, gateway, enqueued, locks, tries, seen, outages>>

\* The gateway or the database raises, PostgreSQL breaking a deadlock included.
Raise(j) ==
    /\ pc[j] \in {"verify", "request", "finalize", "settle"}
    /\ Goto(j, IF pc[j] = "settle" THEN "mark_reconcile" ELSE "mark_failed")
    /\ Release(j)
    /\ UNCHANGED <<database, gateway, enqueued, tries, seen, outages>>

\* The job ends by an exception: it runs again, or is given up.
RunAgain(j) ==
    /\ tries[j] < MaxTries
    /\ tries' = [tries EXCEPT ![j] = @ + 1]
    /\ Goto(j, "idle")

GiveUp(j) == Goto(j, "failed") /\ UNCHANGED tries

\* mark_failed, whatever the operation's status has become; then raise.
MarkFailed(j) ==
    /\ pc[j] = "mark_failed"
    /\ opLock = Nobody
    /\ op' = "FAILED"
    /\ RunAgain(j) \/ GiveUp(j)
    /\ UNCHANGED <<sub, delivery, gateway, enqueued, locks, seen, outages>>

\* mark_requires_reconciliation; the DomainError that follows is not retried.
MarkForReconciliation(j) ==
    /\ pc[j] = "mark_reconcile"
    /\ opLock = Nobody
    /\ op' = "REQUIRES_RECONCILIATION"
    /\ Goto(j, "rejected")
    /\ UNCHANGED <<sub, delivery, gateway, enqueued, locks, tries, seen, outages>>

\* The worker dies, or the job is cancelled at its timeout.
Crash(j) ==
    /\ pc[j] \in JobLabel
    /\ Release(j)
    /\ RunAgain(j) \/ GiveUp(j)
    /\ UNCHANGED <<database, gateway, enqueued, seen, outages>>

(***************************** A webhook ***********************************)

\* SUBSCRIPTION_DELETED, which the gateway sends once the subscription is gone.
\* Nothing but the UPDATE of a subscription that is not canceled waits for the
\* row lock; a crash before this commit only delays the event.
SubscriptionDeleted(w) ==
    /\ pc[w] = "idle"
    /\ gateway = "CANCELED"
    /\ sub # "CANCELED" => subLock = Nobody
    /\ sub' = "CANCELED"
    /\ Goto(w, "notify")
    /\ UNCHANGED <<op, delivery, gateway, enqueued, locks, tries, seen, outages>>

\* A crash later is for good: the event is processed, a retry returns nothing.
CrashWebhook(w) ==
    /\ pc[w] \in NotifyLabel
    /\ Goto(w, "failed")
    /\ UNCHANGED <<database, gateway, enqueued, locks, tries, seen, outages>>

(***************** Telling the origin system: jobs and webhooks ************)

\* The lookup by dedupe_key; a delivery that exists is somebody else's.
LookUpDelivery(a) ==
    /\ pc[a] = "notify"
    /\ Goto(a, IF delivery THEN "done" ELSE "insert")
    /\ IF delivery THEN Release(a) ELSE UNCHANGED locks
    /\ UNCHANGED <<database, gateway, enqueued, tries, seen, outages>>

\* Mutant: dedupe_key is not unique.
InsertAnyway(a) ==
    /\ pc[a] = "insert"
    /\ delivery' = TRUE
    /\ Goto(a, "enqueue")
    /\ Release(a)
    /\ UNCHANGED <<sub, op, gateway, enqueued, tries, seen, outages>>

InsertDelivery(a) ==
    /\ pc[a] = "insert"
    /\ ~delivery
    /\ delivery' = TRUE
    /\ Goto(a, "enqueue")
    /\ Release(a)
    /\ UNCHANGED <<sub, op, gateway, enqueued, tries, seen, outages>>

\* dedupe_key is unique: the session rolls back and the task raises.
DuplicateDelivery(a) ==
    /\ pc[a] = "insert"
    /\ delivery
    /\ Release(a)
    /\ (a \in Job /\ RunAgain(a)) \/ GiveUp(a)
    /\ UNCHANGED <<database, gateway, enqueued, seen, outages>>

EnqueueDelivery(a) ==
    /\ pc[a] = "enqueue"
    /\ enqueued' = enqueued + 1
    /\ Goto(a, IF a \in Reconciler THEN "idle" ELSE "done")
    /\ UNCHANGED <<database, gateway, locks, tries, seen, outages>>

(*************************** The reconciliation cron ***********************)

\* list_by_status(REQUIRES_RECONCILIATION)
ListOperations(r) ==
    /\ pc[r] = "idle"
    /\ op = "REQUIRES_RECONCILIATION"
    /\ Goto(r, "listed")
    /\ UNCHANGED <<database, gateway, enqueued, locks, tries, seen, outages>>

\* SELECT ... FOR UPDATE of the operation; its status is checked again.
LockOperation(r) ==
    /\ pc[r] = "listed"
    /\ opLock = Nobody
    /\ IF op = "REQUIRES_RECONCILIATION"
       THEN opLock' = r /\ Goto(r, "verify")
       ELSE Goto(r, "idle") /\ UNCHANGED opLock
    /\ UNCHANGED <<database, gateway, enqueued, subLock, tries, seen, outages>>

\* An operation whose subscription still lives at the gateway stays marked.
VerifyReconciled(r) ==
    /\ pc[r] = "verify"
    /\ IF gateway = "CANCELED"
       THEN Goto(r, "close") /\ UNCHANGED locks
       ELSE Goto(r, "idle") /\ Release(r)
    /\ UNCHANGED <<database, gateway, enqueued, tries, seen, outages>>

LockToReconcile(r) ==
    /\ pc[r] = "close"
    /\ subLock = Nobody
    /\ subLock' = r
    /\ UNCHANGED <<database, gateway, enqueued, opLock, pc, tries, seen, outages>>

\* Mutant: the reconciled operation is not saved.
ReconcileForgetting(r) ==
    /\ pc[r] = "close"
    /\ subLock = r
    /\ sub' = "CANCELED"
    /\ delivery' = TRUE
    /\ Goto(r, IF delivery THEN "idle" ELSE "enqueue")
    /\ Release(r)
    /\ UNCHANGED <<op, gateway, enqueued, tries, seen, outages>>

\* Subscription, operation and delivery in one transaction; the job that sends
\* the delivery is enqueued after it.
Reconcile(r) ==
    /\ pc[r] = "close"
    /\ subLock = r
    /\ sub' = "CANCELED"
    /\ op' = "COMPLETED"
    /\ delivery' = TRUE
    /\ Goto(r, IF delivery THEN "idle" ELSE "enqueue")
    /\ Release(r)
    /\ UNCHANGED <<gateway, enqueued, tries, seen, outages>>

\* The gateway or the database fails, or the worker dies: logged, and tried
\* again at the next tick.
ReconcileFails(r) ==
    /\ pc[r] \in ReconcilerLabel
    /\ outages < MaxOutages
    /\ outages' = outages + 1
    /\ Goto(r, "idle")
    /\ Release(r)
    /\ UNCHANGED <<database, gateway, enqueued, tries, seen>>

\* The cron holds the operation and waits for the subscription, a job the other
\* way round: PostgreSQL aborts one of them; the job by Raise, the cron here.
Deadlocked(r, j) ==
    /\ pc[r] = "close"
    /\ opLock = r
    /\ subLock = j
    /\ pc[j] \in {"finalize", "settle"}

BreakDeadlock(r, j) ==
    /\ Deadlocked(r, j)
    /\ \/ Goto(r, "idle") /\ Release(r)
       \/ /\ Goto(j, IF pc[j] = "settle" THEN "mark_reconcile" ELSE "mark_failed")
          /\ Release(j)
    /\ UNCHANGED <<database, gateway, enqueued, tries, seen, outages>>

-----------------------------------------------------------------------------

Notify(a) == LookUpDelivery(a) \/ InsertDelivery(a) \/ DuplicateDelivery(a) \/ EnqueueDelivery(a)

CancelStep(j) ==
    \/ LockSubscription(j) \/ AlreadyCanceled(j) \/ RefuseCancellation(j)
    \/ ReserveCancellation(j) \/ VerifyStatus(j) \/ CancelAtGateway(j)
    \/ LockToClose(j) \/ CloseSubscription(j)
    \/ MarkFailed(j) \/ MarkForReconciliation(j) \/ Notify(j)

ReconcileStep(r) ==
    \/ ListOperations(r) \/ LockOperation(r) \/ VerifyReconciled(r)
    \/ LockToReconcile(r) \/ Reconcile(r) \/ EnqueueDelivery(r)
    \/ \E j \in Job : BreakDeadlock(r, j)

WebhookStep(w) == SubscriptionDeleted(w) \/ Notify(w)

AllEnded ==
    /\ \A a \in Job \cup Webhook : pc[a] \in Ended
    /\ \A r \in Reconciler : pc[r] = "idle"
    /\ op # "REQUIRES_RECONCILIATION"
    /\ UNCHANGED vars

Next ==
    \/ CanceledElsewhere
    \/ PaymentReceived
    \/ \E j \in Job : CancelStep(j) \/ Raise(j) \/ Crash(j)
    \/ \E w \in Webhook : WebhookStep(w) \/ CrashWebhook(w)
    \/ \E r \in Reconciler : ReconcileStep(r) \/ ReconcileFails(r)
    \/ AllEnded

Spec == Init /\ [][Next]_vars

\* The worker runs its jobs and its cron; PostgreSQL hands a row that is released
\* to the transaction that waits for it; nothing obliges the gateway to send
\* SUBSCRIPTION_DELETED, but what such an event started goes on.
FairSpec ==
    /\ Spec
    /\ \A j \in Job : WF_vars(CancelStep(j)) /\ SF_vars(CloseSubscription(j))
    /\ \A r \in Reconciler : WF_vars(ReconcileStep(r))
    /\ \A w \in Webhook : WF_vars(Notify(w))

-----------------------------------------------------------------------------
(****************************** Properties *********************************)

\* Why the rest holds.  A job that reserves holds the row it has read ...
ReserveDiscipline ==
    \A j \in Job : /\ pc[j] = "reserve" => subLock = j /\ seen[j] = sub
                   /\ subLock = j => \/ pc[j] \in {"reserve", "finalize", "settle"}
                                     \/ pc[j] \in {"notify", "insert"} /\ sub = "CANCELED"

\* ... and whoever is about to close the subscription knows that the gateway
\* has canceled it, which nobody undoes.
CloserIsSure ==
    /\ \A j \in Job : pc[j] \in {"finalize", "settle", "mark_reconcile"}
                      => gateway = "CANCELED"
    /\ \A r \in Reconciler : /\ pc[r] = "close" => gateway = "CANCELED"
                             /\ subLock = r => pc[r] = "close"

\* The subscription is closed here only after the gateway stopped charging for
\* it; an operation waits for reconciliation only once the gateway has.
CanceledOnlyAfterGateway ==
    sub = "CANCELED" \/ op = "REQUIRES_RECONCILIATION" => gateway = "CANCELED"

\* A completed operation, the end of every later attempt, is one whose
\* subscription is closed.
CompletedIsCanceled == op = "COMPLETED" => sub = "CANCELED"

\* The origin system is told the truth: no delivery exists, or is on its way,
\* for a subscription that is not closed.
OnlyCanceledIsReported ==
    /\ delivery => sub = "CANCELED"
    /\ \A a \in Actor : /\ pc[a] \in NotifyLabel => sub = "CANCELED"
                        /\ pc[a] = "enqueue" => delivery

\* "um eventual evento do gateway nao gera entrega duplicada": of the jobs, the
\* webhooks and the cron one enqueues the delivery, once.
DeliveredAtMostOnce ==
    /\ enqueued <= 1
    /\ enqueued > 0 => delivery
    /\ \A a, b \in Actor : pc[a] = "enqueue" => /\ enqueued = 0
                                                /\ pc[b] = "enqueue" => a = b

\* Each actor goes through its own code.
OwnLabels ==
    /\ \A w \in Webhook : pc[w] \in {"idle"} \cup NotifyLabel \cup Ended
    /\ \A r \in Reconciler : pc[r] \in {"idle"} \cup ReconcilerLabel

\* The inductive invariant.
CancellationAgreement ==
    /\ TypeOK
    /\ OwnLabels
    /\ ReserveDiscipline
    /\ CloserIsSure
    /\ CanceledOnlyAfterGateway
    /\ CompletedIsCanceled
    /\ OnlyCanceledIsReported
    /\ DeliveredAtMostOnce

\* No job, webhook or payment, whatever it read before, brings the canceled
\* subscription back.
CanceledStays == [][sub = "CANCELED" => sub' = "CANCELED"]_vars

\* Every cancellation job ends, whoever holds the two rows it needs: the jobs
\* and the cron take them in opposite orders.
EveryJobEnds == \A j \in Job : <>(pc[j] \in Ended)

\* An operation left for reconciliation when the last job has ended is
\* completed by the cron.
MarkedIsCompleted ==
    op = "REQUIRES_RECONCILIATION" /\ (\A j \in Job : pc[j] \in Ended)
        ~> op = "COMPLETED"
=============================================================================
