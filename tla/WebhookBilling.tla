--------------------------- MODULE WebhookBilling ---------------------------
(***************************************************************************)
(* Concurrent executions of ProcessWebhookService.execute over one         *)
(* subscription, its payments and the table webhook_events, in PostgreSQL  *)
(* at READ COMMITTED.  A job is one execution: a retry, a redelivery and a *)
(* second worker are other jobs with the same event.                       *)
(*                                                                         *)
(* A step is what one execution does between two awaits that other         *)
(* executions can observe: a read of committed rows, the lock of SELECT    *)
(* ... FOR UPDATE, the SELECT by which a repository loads the row it is    *)
(* about to save, the commit.  Uncommitted writes are seen by nobody, so   *)
(* the UPDATEs and the INSERT of a transaction are part of its commit.     *)
(***************************************************************************)
EXTENDS BillingRules

CONSTANTS
    Job,                    \* executions of ProcessWebhookService.execute
    NoJob,
    EventOf,                \* the event each job carries
    InitialSubscriptions,   \* subscription rows to start from
    InitialPayments         \* payment tables to start from

ASSUME NoJobAssumption == NoJob \notin Job
ASSUME EventAssumption == EventOf \in [Job -> WebhookEvent]
ASSUME InitialAssumption ==
    /\ InitialSubscriptions \subseteq Subscription
    /\ InitialPayments \subseteq [PaymentKey -> PaymentRow]

VARIABLES
    \* committed rows
    sub,            \* the row of table subscriptions
    payment,        \* the rows of table payments, by provider_payment_id
    processed,      \* webhook_events.event_id; every row there is processed
    rowLock,        \* the job that holds the subscription row FOR UPDATE
    \* local to each job
    pc,             \* where the execution is
    seen,           \* the subscription as it was read
    effect,         \* the domain objects to save
    subLoaded,      \* the rows as the repositories' save loaded them
    paymentLoaded,
    \* history
    credits         \* periods added to expires_at in the name of each event

database == <<sub, payment, processed, rowLock>>
local == <<seen, effect, subLoaded, paymentLoaded>>
vars == <<database, pc, local, credits>>

Running == {"subscription", "payment", "save", "commit"}
Ended == {"done", "rejected", "failed", "crashed"}

\* Mutant: the handler of PAYMENT_CONFIRMED forgets the FOR UPDATE.
UnlockedConfirmation == {"PAYMENT_RECEIVED"} \cup LifecycleKind

\* The handlers that read the subscription with get_by_provider_id_for_update.
LockingKind == CreditKind \cup LifecycleKind

TypeOK ==
    /\ sub \in Subscription
    /\ payment \in [PaymentKey -> PaymentRow]
    /\ processed \subseteq EventId
    /\ rowLock \in Job \cup {NoJob}
    /\ pc \in [Job -> {"idle"} \cup Running \cup Ended]
    /\ seen \in [Job -> Subscription]
    /\ effect \in [Job -> Effect]
    /\ subLoaded \in [Job -> Subscription]
    /\ paymentLoaded \in [Job -> PaymentRow]
    /\ credits \in [EventId -> Nat]

Init ==
    /\ sub \in InitialSubscriptions
    /\ payment \in InitialPayments
    /\ processed = {}
    /\ rowLock = NoJob
    /\ pc = [j \in Job |-> "idle"]
    /\ seen = [j \in Job |-> sub]
    /\ effect = [j \in Job |-> Acknowledge(EventOf[j], sub)]
    /\ subLoaded = [j \in Job |-> sub]
    /\ paymentLoaded = [j \in Job |-> NoPayment]
    /\ credits = [id \in EventId |-> 0]

Goto(j, label) == pc' = [pc EXCEPT ![j] = label]

\* The session is closed: committed or rolled back, its row lock is gone.
Release(j) == rowLock' = IF rowLock = j THEN NoJob ELSE rowLock

(***************************************************************************)
(* The event row is looked up; an event already processed ends the job.    *)
(***************************************************************************)
Start(j) ==
    /\ pc[j] = "idle"
    /\ Goto(j, IF EventOf[j].id \in processed THEN "done"
               ELSE IF EventOf[j].kind = "PAYMENT_DELETED" THEN "payment"
               ELSE "subscription")
    /\ UNCHANGED <<database, local, credits>>

\* Mutant: get_by_provider_id where the code has ..._for_update.
ReadWithoutLock(j) ==
    /\ pc[j] = "subscription"
    /\ EventOf[j].kind \in LockingKind
    /\ seen' = [seen EXCEPT ![j] = sub]
    /\ Goto(j, "payment")
    /\ UNCHANGED <<database, effect, subLoaded, paymentLoaded, credits>>

\* SELECT ... FOR UPDATE: waits for the row, then returns its latest version.
LockSubscription(j) ==
    /\ pc[j] = "subscription"
    /\ EventOf[j].kind \in LockingKind
    /\ rowLock = NoJob
    /\ rowLock' = j
    /\ seen' = [seen EXCEPT ![j] = sub]
    /\ Goto(j, "payment")
    /\ UNCHANGED <<sub, payment, processed, effect, subLoaded, paymentLoaded, credits>>

\* SUBSCRIPTION_DELETED reads the subscription without a lock.
ReadSubscription(j) ==
    /\ pc[j] = "subscription"
    /\ EventOf[j].kind \notin LockingKind
    /\ seen' = [seen EXCEPT ![j] = sub]
    /\ Goto(j, "payment")
    /\ UNCHANGED <<database, effect, subLoaded, paymentLoaded, credits>>

(***************************************************************************)
(* The payment is read, without a lock (SUBSCRIPTION_DELETED needs none),  *)
(* and the domain objects are mutated in memory.  A DomainError ends the   *)
(* job and nothing is kept.                                                *)
(***************************************************************************)
ReadPayment(j) ==
    LET outcome == EffectOf(EventOf[j], seen[j], payment) IN
    /\ pc[j] = "payment"
    /\ ~outcome.rejected
    /\ effect' = [effect EXCEPT ![j] = outcome]
    /\ paymentLoaded' = [paymentLoaded EXCEPT ![j] = payment[outcome.key]]
    /\ Goto(j, "save")
    /\ UNCHANGED <<database, seen, subLoaded, credits>>

\* Mutant: the session is not closed when the handler raises.
RejectKeepingLock(j) ==
    /\ pc[j] = "payment"
    /\ EffectOf(EventOf[j], seen[j], payment).rejected
    /\ Goto(j, "rejected")
    /\ UNCHANGED <<database, local, credits>>

RejectEvent(j) ==
    /\ pc[j] = "payment"
    /\ EffectOf(EventOf[j], seen[j], payment).rejected
    /\ Release(j)
    /\ Goto(j, "rejected")
    /\ UNCHANGED <<sub, payment, processed, local, credits>>

(***************************************************************************)
(* save copies every field of a domain object onto the row it has just     *)
(* loaded; SQLAlchemy then updates only the columns whose value changed.   *)
(* A payment that was not found is inserted, and nothing is loaded for it. *)
(***************************************************************************)
IsNew(p) == p.status = "ABSENT"

LoadForSave(j) ==
    /\ pc[j] = "save"
    /\ subLoaded' = [subLoaded EXCEPT ![j] = sub]
    /\ paymentLoaded' =
         [paymentLoaded EXCEPT ![j] = IF IsNew(@) THEN @ ELSE payment[effect[j].key]]
    /\ Goto(j, "commit")
    /\ UNCHANGED <<database, seen, effect, credits>>

Column(current, loaded, new) == IF new # loaded THEN new ELSE current

UpdatedSubscription(j) ==
    LET new == effect[j].subscription
        old == subLoaded[j]
    IN  [status    |-> Column(sub.status, old.status, new.status),
         last      |-> Column(sub.last, old.last, new.last),
         expires   |-> Column(sub.expires, old.expires, new.expires),
         requested |-> Column(sub.requested, old.requested, new.requested)]

UpdatedPayment(j) ==
    LET new == effect[j].payment
        old == paymentLoaded[j]
        current == payment[effect[j].key]
    IN  IF IsNew(old) THEN new
        ELSE [status |-> Column(current.status, old.status, new.status),
              paid   |-> Column(current.paid, old.paid, new.paid),
              card   |-> Column(current.card, old.card, new.card)]

\* An UPDATE of the subscription waits for whoever holds the row.
RowAvailable(j) == effect[j].savesSubscription => rowLock \in {NoJob, j}

\* Mutant: webhook_events.event_id is not unique.
PaymentKeyFree(j) ==
    effect[j].savesPayment /\ IsNew(paymentLoaded[j])
       => payment[EventOf[j].invoice].status = "ABSENT"

\* The unique keys: one row per event id, one payment per provider id.
KeysFree(j) ==
    /\ EventOf[j].id \notin processed
    /\ effect[j].savesPayment /\ (IsNew(paymentLoaded[j]) \/ effect[j].key # EventOf[j].invoice)
       => payment[EventOf[j].invoice].status = "ABSENT"

Credited(j) == effect[j].savesSubscription /\ EventOf[j].kind \in CreditKind

Commit(j) ==
    LET e == EventOf[j] IN
    /\ pc[j] = "commit"
    /\ RowAvailable(j)
    /\ KeysFree(j)
    /\ sub' = IF effect[j].savesSubscription THEN UpdatedSubscription(j) ELSE sub
    /\ payment' = IF effect[j].savesPayment
                  THEN Stored(payment, effect[j].key, e.invoice, UpdatedPayment(j))
                  ELSE payment
    /\ processed' = processed \cup {e.id}
    /\ credits' = [credits EXCEPT ![e.id] = @ + (IF Credited(j) THEN 1 ELSE 0)]
    /\ Release(j)
    /\ Goto(j, "done")
    /\ UNCHANGED local

\* IntegrityError: the whole transaction is rolled back and the job raises.
RollBack(j) ==
    /\ pc[j] = "commit"
    /\ RowAvailable(j)
    /\ ~KeysFree(j)
    /\ Release(j)
    /\ Goto(j, "failed")
    /\ UNCHANGED <<sub, payment, processed, local, credits>>

\* The worker dies or cancels the job at its timeout: the session rolls back.
Crash(j) ==
    /\ pc[j] \in Running
    /\ Release(j)
    /\ Goto(j, "crashed")
    /\ UNCHANGED <<sub, payment, processed, local, credits>>

AllEnded == (\A j \in Job : pc[j] \in Ended) /\ UNCHANGED vars

Step(j) == \/ Start(j) \/ LockSubscription(j) \/ ReadSubscription(j)
           \/ ReadPayment(j) \/ RejectEvent(j) \/ LoadForSave(j)
           \/ Commit(j) \/ RollBack(j)

Next == (\E j \in Job : Step(j) \/ Crash(j)) \/ AllEnded

Spec == Init /\ [][Next]_vars

\* The event loop resumes every execution whose await is over.
FairSpec == Spec /\ \A j \in Job : WF_vars(Step(j))

-----------------------------------------------------------------------------
(****************************** Properties *********************************)

\* However often and however concurrently an event is delivered, it adds at
\* most one period, and only in the transaction that records the event:
\* Redis' processing lock may expire, the unique event_id does not.
EventCreditedAtMostOnce ==
    \A id \in EventId : credits[id] <= (IF id \in processed THEN 1 ELSE 0)

\* "Assinatura cancelada nao pode ser reativada por esse fluxo": no handler,
\* whatever it read before the cancellation, brings the subscription back.
CanceledIsTerminal ==
    [][sub.status = "CANCELED" => sub'.status = "CANCELED"]_vars

\* No committed extension of a subscription that stays alive is lost: only a
\* cancellation may leave expires_at earlier than it was.
LiveSubscriptionKeepsPaidTime ==
    [][sub'.expires < sub.expires => sub'.status = "CANCELED"]_vars

\* Why these hold.  The handlers that lock the row hold it from the read of
\* the subscription to the end of the transaction ...
LockDiscipline ==
    \A j \in Job : rowLock = j <=> /\ pc[j] \in {"payment", "save", "commit"}
                                   /\ EventOf[j].kind \in LockingKind

\* ... so what they read, and what save loads, is the row's latest version ...
LockHolderIsCurrent ==
    \A j \in Job : rowLock = j => /\ seen[j] = sub
                                  /\ pc[j] = "commit" => subLoaded[j] = sub

\* ... and a saved subscription is one that was extended while it was alive,
\* or a canceled one ...
SavedSubscription ==
    \A j \in Job :
        pc[j] \in {"save", "commit"} /\ effect[j].savesSubscription =>
            IF EventOf[j].kind \in CreditKind
            THEN /\ seen[j].status # "CANCELED"
                 /\ effect[j].subscription.expires > seen[j].expires
            ELSE /\ EventOf[j].kind = "SUBSCRIPTION_DELETED"
                 /\ effect[j].subscription.status = "CANCELED"

\* ... whose unlocked write leaves the status alone if the row it loaded was
\* canceled already: the row still is.
CanceledWhenLoaded ==
    \A j \in Job : pc[j] = "commit" /\ subLoaded[j].status = "CANCELED"
                   => sub.status = "CANCELED"

\* The inductive invariant: the four parts above and the types.
LockingInvariant ==
    TypeOK /\ LockDiscipline /\ LockHolderIsCurrent /\ SavedSubscription /\ CanceledWhenLoaded

\* When every handler locks the row, the payments do not change under the
\* holder either: what it is about to save is the effect of its event on the
\* rows as they are now.
LockedEffectIsCurrent ==
    \A j \in Job : rowLock = j /\ pc[j] \in {"save", "commit"} =>
        /\ effect[j] = EffectOf(EventOf[j], sub, payment)
        /\ ~effect[j].rejected
        /\ paymentLoaded[j] = payment[effect[j].key]

\* No execution waits for the row lock for ever.
EveryExecutionEnds ==
    \A j \in Job : pc[j] \in Running ~> pc[j] \in Ended

\* The events whose handlers lock the row take effect one at a time.
Ledger == INSTANCE BillingLedger WITH Event <- {EventOf[j] : j \in Job}
ImplementsLedger == Ledger!Spec

\* "PAYMENT_RECEIVED comes later, should not duplicate activation": the
\* confirmation and the receipt of one invoice extend the subscription once.
InvoiceCreditedOnce ==
    \A i, j \in Job :
        /\ EventOf[i].invoice = EventOf[j].invoice
        /\ EventOf[i].id # EventOf[j].id
        => credits[EventOf[i].id] + credits[EventOf[j].id] <= 1
=============================================================================
