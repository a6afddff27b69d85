------------------- MODULE SubscriptionCancellation_proofs ------------------
(***************************************************************************)
(* The cancellation of a subscription is agreed upon with the gateway and  *)
(* told once, for every number of jobs, webhooks, cron runs, retries and   *)
(* outages.                                                                *)
(*                                                                         *)
(* CancellationAgreement is inductive; one step of its proof is one action *)
(* of the module.  The row locks carry it: a job that reserves holds the   *)
(* subscription, so the status it read is the current one and it does not  *)
(* write CANCELLATION_PENDING over CANCELED; the cron and the webhook      *)
(* write nothing but CANCELED.                                             *)
(***************************************************************************)
EXTENDS SubscriptionCancellation, TLAPS

USE ActorAssumption, LimitAssumption
USE DEF Actor, SubscriptionStatus, OperationStatus, NotifyLabel, JobLabel,
        ReconcilerLabel, Ended, locks, database

\* The parts of the invariant, for the steps that need all of them.
USE DEF CancellationAgreement, TypeOK, OwnLabels, ReserveDiscipline, CloserIsSure,
        CanceledOnlyAfterGateway, CompletedIsCanceled, OnlyCanceledIsReported,
        DeliveredAtMostOnce

\* A program that has not started agrees with the gateway.
LEMMA InitAgrees == Init => CancellationAgreement
<1> SUFFICES ASSUME Init
             PROVE  CancellationAgreement
  OBVIOUS
<1>1. TypeOK
  <2>1. sub \in SubscriptionStatus /\ seen \in [Job -> SubscriptionStatus]
    BY DEF Init
  <2>2. pc \in [Actor -> {"idle"} \cup JobLabel \cup ReconcilerLabel \cup Ended]
    BY DEF Init
  <2>3. tries \in [Job -> 1 .. MaxTries] /\ outages \in 0 .. MaxOutages
    BY DEF Init
  <2> QED
    BY <2>1, <2>2, <2>3 DEF Init
<1>2. \A a \in Actor : pc[a] = "idle"
  BY DEF Init
<1> QED
  BY <1>1, <1>2 DEF Init

\* What the gateway and the payments do.
LEMMA EnvironmentAgrees ==
    ASSUME CancellationAgreement, CanceledElsewhere \/ PaymentReceived
    PROVE  CancellationAgreement'
<1>1. CASE CanceledElsewhere
  BY <1>1 DEF CanceledElsewhere
<1>2. CASE PaymentReceived
  BY <1>2 DEF PaymentReceived
<1> QED
  BY <1>1, <1>2

\* The first transaction of a job: nothing but the lock holder's is written.
LEMMA ReservationAgrees ==
    ASSUME CancellationAgreement, NEW j \in Job,
           LockSubscription(j) \/ AlreadyCanceled(j) \/ RefuseCancellation(j)
             \/ ReserveCancellation(j)
    PROVE  CancellationAgreement'
<1>1. CASE LockSubscription(j)
  BY <1>1 DEF LockSubscription, Goto
<1>2. CASE AlreadyCanceled(j)
  BY <1>2 DEF AlreadyCanceled, Goto
<1>3. CASE RefuseCancellation(j)
  BY <1>3 DEF RefuseCancellation, Goto, Release
<1>4. CASE ReserveCancellation(j)
  <2>1. sub # "CANCELED" /\ op # "COMPLETED" /\ subLock = j
    BY <1>4 DEF ReserveCancellation
  <2>2. ~delivery /\ \A a \in Actor : pc[a] \notin NotifyLabel
    BY <2>1
  <2> QED
    BY <1>4, <2>1, <2>2 DEF ReserveCancellation, Goto, Release
<1> QED
  BY <1>1, <1>2, <1>3, <1>4

\* From the gateway's answer to the second transaction.
LEMMA GatewayCallsAgree ==
    ASSUME CancellationAgreement, NEW j \in Job,
           VerifyStatus(j) \/ CancelAtGateway(j) \/ LockToClose(j) \/ CloseSubscription(j)
    PROVE  CancellationAgreement'
<1>1. CASE VerifyStatus(j)
  BY <1>1 DEF VerifyStatus, Goto
<1>2. CASE CancelAtGateway(j)
  BY <1>2 DEF CancelAtGateway, Goto
<1>3. CASE LockToClose(j)
  BY <1>3 DEF LockToClose
<1>4. CASE CloseSubscription(j)
  BY <1>4 DEF CloseSubscription, Goto, Release
<1> QED
  BY <1>1, <1>2, <1>3, <1>4

\* Failures, and what is written after them.
LEMMA FailuresAgree ==
    ASSUME CancellationAgreement, NEW j \in Job,
           Raise(j) \/ MarkFailed(j) \/ MarkForReconciliation(j) \/ Crash(j)
    PROVE  CancellationAgreement'
<1>1. CASE Raise(j)
  BY <1>1 DEF Raise, Goto, Release
<1>2. CASE MarkFailed(j)
  BY <1>2 DEF MarkFailed, RunAgain, GiveUp, Goto
<1>3. CASE MarkForReconciliation(j)
  BY <1>3 DEF MarkForReconciliation, Goto
<1>4. CASE Crash(j)
  BY <1>4 DEF Crash, RunAgain, GiveUp, Goto, Release
<1> QED
  BY <1>1, <1>2, <1>3, <1>4

\* The gateway's event finds the subscription gone there, and closes it here.
LEMMA WebhookAgrees ==
    ASSUME CancellationAgreement, NEW w \in Webhook,
           SubscriptionDeleted(w) \/ CrashWebhook(w)
    PROVE  CancellationAgreement'
<1>1. CASE SubscriptionDeleted(w)
  BY <1>1 DEF SubscriptionDeleted, Goto
<1>2. CASE CrashWebhook(w)
  BY <1>2 DEF CrashWebhook, Goto
<1> QED
  BY <1>1, <1>2

\* Only who inserts the delivery enqueues it.
LEMMA NotificationAgrees ==
    ASSUME CancellationAgreement, NEW a \in Actor,
           LookUpDelivery(a) \/ InsertDelivery(a) \/ DuplicateDelivery(a) \/ EnqueueDelivery(a)
    PROVE  CancellationAgreement'
<1>1. CASE LookUpDelivery(a)
  BY <1>1 DEF LookUpDelivery, Goto, Release
<1>2. CASE InsertDelivery(a)
  <2>1. enqueued = 0 /\ \A b \in Actor : pc[b] # "enqueue"
    BY <1>2 DEF InsertDelivery
  <2> QED
    BY <1>2, <2>1 DEF InsertDelivery, Goto, Release
<1>3. CASE DuplicateDelivery(a)
  BY <1>3 DEF DuplicateDelivery, RunAgain, GiveUp, Goto, Release
<1>4. CASE EnqueueDelivery(a)
  <2>1. enqueued = 0 /\ delivery /\ \A b \in Actor \ {a} : pc[b] # "enqueue"
    BY <1>4 DEF EnqueueDelivery
  <2> QED
    BY <1>4, <2>1 DEF EnqueueDelivery, Goto
<1> QED
  BY <1>1, <1>2, <1>3, <1>4

\* The cron closes only what the gateway has canceled.
LEMMA ReconciliationAgrees ==
    ASSUME CancellationAgreement, NEW r \in Reconciler,
           \/ ListOperations(r) \/ LockOperation(r) \/ VerifyReconciled(r)
           \/ LockToReconcile(r) \/ Reconcile(r) \/ ReconcileFails(r)
           \/ \E j \in Job : BreakDeadlock(r, j)
    PROVE  CancellationAgreement'
<1>1. CASE ListOperations(r)
  BY <1>1 DEF ListOperations, Goto
<1>2. CASE LockOperation(r)
  BY <1>2 DEF LockOperation, Goto
<1>3. CASE VerifyReconciled(r)
  BY <1>3 DEF VerifyReconciled, Goto, Release
<1>4. CASE LockToReconcile(r)
  BY <1>4 DEF LockToReconcile
<1>5. CASE Reconcile(r)
  BY <1>5 DEF Reconcile, Goto, Release
<1>6. CASE ReconcileFails(r)
  BY <1>6 DEF ReconcileFails, Goto, Release
<1>7. ASSUME NEW j \in Job, BreakDeadlock(r, j)
      PROVE  CancellationAgreement'
  BY <1>7 DEF BreakDeadlock, Deadlocked, Goto, Release
<1> QED
  BY <1>1, <1>2, <1>3, <1>4, <1>5, <1>6, <1>7

\* Every step of the program keeps the invariant.
LEMMA StepAgrees ==
    ASSUME CancellationAgreement, [Next]_vars
    PROVE  CancellationAgreement'
<1>1. ASSUME NEW j \in Job, CancelStep(j) \/ Raise(j) \/ Crash(j)
      PROVE  CancellationAgreement'
  <2>1. CASE Notify(j)
    BY <2>1, NotificationAgrees DEF Notify
  <2>2. CASE CancelStep(j) /\ ~Notify(j)
    BY <2>2, ReservationAgrees, GatewayCallsAgree, FailuresAgree DEF CancelStep
  <2> QED
    BY <1>1, <2>1, <2>2, FailuresAgree
<1>2. ASSUME NEW w \in Webhook, WebhookStep(w) \/ CrashWebhook(w)
      PROVE  CancellationAgreement'
  BY <1>2, WebhookAgrees, NotificationAgrees DEF WebhookStep, Notify
<1>3. ASSUME NEW r \in Reconciler, ReconcileStep(r) \/ ReconcileFails(r)
      PROVE  CancellationAgreement'
  BY <1>3, ReconciliationAgrees, NotificationAgrees DEF ReconcileStep
<1>4. CASE UNCHANGED vars
  BY <1>4 DEF vars
<1> QED
  BY <1>1, <1>2, <1>3, <1>4, EnvironmentAgrees DEF Next, AllEnded

\* In every reachable state the subscription, the operation, the gateway and
\* the delivery agree.
THEOREM AgreementHolds == Spec => []CancellationAgreement
BY InitAgrees, StepAgrees, PTL DEF Spec

\* No subscription is closed, and no operation waits for reconciliation, that
\* the gateway still charges for.
THEOREM NeverClosedTooEarly == Spec => []CanceledOnlyAfterGateway
<1>1. CancellationAgreement => CanceledOnlyAfterGateway
  OBVIOUS
<1> QED
  BY <1>1, AgreementHolds, PTL

\* The origin system is told of no cancellation that did not happen.
THEOREM ReportedTruthfully == Spec => []OnlyCanceledIsReported
<1>1. CancellationAgreement => OnlyCanceledIsReported
  OBVIOUS
<1> QED
  BY <1>1, AgreementHolds, PTL

\* Jobs, webhooks and cron together enqueue the delivery at most once.
THEOREM ReportedAtMostOnce == Spec => []DeliveredAtMostOnce
<1>1. CancellationAgreement => DeliveredAtMostOnce
  OBVIOUS
<1> QED
  BY <1>1, AgreementHolds, PTL

\* A step takes no subscription out of CANCELED: of the steps that write the
\* status, a payment needs another one, a reservation has read the current one
\* under the lock, and the others write CANCELED.
LEMMA StepKeepsCanceled ==
    ASSUME CancellationAgreement, [Next]_vars, sub = "CANCELED"
    PROVE  sub' = "CANCELED"
<1>1. ASSUME NEW j \in Job, CancelStep(j) \/ Raise(j) \/ Crash(j)
      PROVE  sub' = "CANCELED"
  <2>1. ~(ReserveCancellation(j))
    BY DEF ReserveCancellation
  <2> QED
    BY <1>1, <2>1
    DEF CancelStep, LockSubscription, AlreadyCanceled, RefuseCancellation, VerifyStatus,
        CancelAtGateway, LockToClose, CloseSubscription, Raise, MarkFailed,
        MarkForReconciliation, Crash, Notify, LookUpDelivery, InsertDelivery,
        DuplicateDelivery, EnqueueDelivery
<1>2. ASSUME NEW w \in Webhook, WebhookStep(w) \/ CrashWebhook(w)
      PROVE  sub' = "CANCELED"
  BY <1>2 DEF WebhookStep, CrashWebhook, SubscriptionDeleted, Notify, LookUpDelivery,
              InsertDelivery, DuplicateDelivery, EnqueueDelivery
<1>3. ASSUME NEW r \in Reconciler, ReconcileStep(r) \/ ReconcileFails(r)
      PROVE  sub' = "CANCELED"
  BY <1>3 DEF ReconcileStep, ReconcileFails, ListOperations, LockOperation,
              VerifyReconciled, LockToReconcile, Reconcile, EnqueueDelivery, BreakDeadlock
<1>4. CASE CanceledElsewhere \/ PaymentReceived
  BY <1>4 DEF CanceledElsewhere, PaymentReceived
<1>5. CASE UNCHANGED vars
  BY <1>5 DEF vars
<1> QED
  BY <1>1, <1>2, <1>3, <1>4, <1>5 DEF Next, AllEnded

\* The end of a subscription is final for everybody who cancels it or is paid.
THEOREM CanceledForEver == Spec => CanceledStays
<1>1. CancellationAgreement /\ [Next]_vars => [sub = "CANCELED" => sub' = "CANCELED"]_vars
  BY StepKeepsCanceled
<1> QED
  BY <1>1, AgreementHolds, PTL DEF Spec, CanceledStays
=============================================================================
