----------------------- MODULE WebhookBilling_proofs -----------------------
(***************************************************************************)
(* Theorems about WebhookBilling, for every set of jobs, events, invoices  *)
(* and initial rows.                                                       *)
(***************************************************************************)
EXTENDS WebhookBilling, TLAPS

USE DEF NoDate, Date

(************************* The domain rules are typed **********************)

\* A period added to a date is a later date.
LEMMA PeriodAdvances ==
    ASSUME NEW a \in Date, NEW b \in Date
    PROVE  /\ AddBillingPeriod(Later(a, b)) \in Date
           /\ AddBillingPeriod(Later(a, b)) > b
BY PeriodAssumption DEF AddBillingPeriod, Later

LEMMA MarkSubscriptionPaidType ==
    ASSUME NEW s \in Subscription, NEW d \in Date
    PROVE  /\ MarkSubscriptionPaid(s, d) \in Subscription
           /\ MarkSubscriptionPaid(s, d).status = "ACTIVE"
           /\ MarkSubscriptionPaid(s, d).expires > s.expires
<1>1. s.expires \in Date
  BY DEF Subscription
<1>2. AddBillingPeriod(Later(d, s.expires)) \in Date /\ AddBillingPeriod(Later(d, s.expires)) > s.expires
  BY <1>1, PeriodAdvances
<1> QED
  BY <1>2 DEF MarkSubscriptionPaid, Subscription, SubscriptionStatus

LEMMA PaymentKeys == Provisional \in PaymentKey /\ Invoice \subseteq PaymentKey
BY DEF PaymentKey

LEMMA NoPaymentType == NoPayment \in PaymentRow
BY DEF NoPayment, PaymentRow

LEMMA AcknowledgeType ==
    ASSUME NEW e \in WebhookEvent, NEW s \in Subscription
    PROVE  Acknowledge(e, s) \in Effect
BY PaymentKeys DEF Acknowledge, Effect, WebhookEvent, NoPayment, PaymentRow

LEMMA SavePaymentType ==
    ASSUME NEW e \in WebhookEvent, NEW s \in Subscription, NEW p \in PaymentRow
    PROVE  SavePayment(e, s, p) \in Effect
BY AcknowledgeType DEF SavePayment, Acknowledge, Effect

\* The payment a handler finds, and the one it works on.
LEMMA LocalPaymentType ==
    ASSUME NEW e \in WebhookEvent, NEW payments \in [PaymentKey -> PaymentRow]
    PROVE  /\ FindSubscriptionPayment(e, payments) \in PaymentKey
           /\ LocalPayment(e, payments) \in PaymentRow
           /\ PaymentDate(e, LocalPayment(e, payments)) \in Date
<1>1. FindSubscriptionPayment(e, payments) \in PaymentKey
  BY PaymentKeys DEF FindSubscriptionPayment, WebhookEvent
<1>2. LocalPayment(e, payments) \in PaymentRow
  BY <1>1 DEF LocalPayment, NewPayment, PaymentRow, PaymentStatus, WebhookEvent
<1>3. PaymentDate(e, LocalPayment(e, payments)) \in Date
  BY <1>2 DEF PaymentDate, PaymentRow, WebhookEvent
<1> QED
  BY <1>1, <1>2, <1>3

LEMMA SettleType ==
    ASSUME NEW e \in WebhookEvent, NEW s \in Subscription,
           NEW payments \in [PaymentKey -> PaymentRow], NEW p \in PaymentRow,
           NEW date \in Date, NEW changed \in BOOLEAN, NEW extends \in BOOLEAN
    PROVE  Settle(e, s, payments, p, date, changed, extends) \in Effect
BY LocalPaymentType, MarkSubscriptionPaidType DEF Settle, Effect

LEMMA ReceivedType ==
    ASSUME NEW e \in WebhookEvent, NEW s \in Subscription,
           NEW payments \in [PaymentKey -> PaymentRow]
    PROVE  ReceivedEffect(e, s, payments) \in Effect
<1> DEFINE p == LocalPayment(e, payments)
           date == PaymentDate(e, p)
<1>1. MarkAsPaid(p, date) \in PaymentRow
  BY LocalPaymentType DEF MarkAsPaid, PaymentRow, PaymentStatus
<1>2. Settle(e, s, payments, MarkAsPaid(p, date), date, TRUE, s.last # date) \in Effect
  BY <1>1, LocalPaymentType, SettleType
<1>3. Reject(e, s) \in Effect
  BY AcknowledgeType DEF Reject, Acknowledge, Effect
<1> QED
  BY <1>2, <1>3, AcknowledgeType DEF ReceivedEffect

LEMMA ConfirmedType ==
    ASSUME NEW e \in WebhookEvent, NEW s \in Subscription,
           NEW payments \in [PaymentKey -> PaymentRow]
    PROVE  ConfirmedEffect(e, s, payments) \in Effect
<1> DEFINE p == LocalPayment(e, payments)
           date == PaymentDate(e, p)
           confirmed == MarkAsConfirmed(p, date)
<1>1. confirmed \in PaymentRow
  BY LocalPaymentType DEF MarkAsConfirmed, PaymentRow, PaymentStatus
<1>2. p.card \in BOOLEAN
  BY LocalPaymentType DEF PaymentRow
<1>3. Settle(e, s, payments, confirmed, date, confirmed.status # p.status,
             p.card /\ s.last # date) \in Effect
  BY <1>1, <1>2, LocalPaymentType, SettleType
<1>4. Reject(e, s) \in Effect
  BY AcknowledgeType DEF Reject, Acknowledge, Effect
<1> QED
  BY <1>3, <1>4 DEF ConfirmedEffect

LEMMA LifecycleType ==
    ASSUME NEW e \in WebhookEvent, NEW s \in Subscription,
           NEW payments \in [PaymentKey -> PaymentRow]
    PROVE  LifecycleEffect(e, s, payments) \in Effect
<1> DEFINE p == payments[e.invoice]
<1>1. p \in PaymentRow
  BY PaymentKeys DEF WebhookEvent
<1>2. MarkAsOverdue(p) \in PaymentRow /\ MarkAsRefunded(p) \in PaymentRow
  BY <1>1 DEF MarkAsOverdue, MarkAsRefunded, PaymentRow, PaymentStatus
<1>3. SavePayment(e, s, MarkAsOverdue(p)) \in Effect /\ SavePayment(e, s, MarkAsRefunded(p)) \in Effect
  BY <1>2, SavePaymentType
<1> QED
  BY <1>3, AcknowledgeType DEF LifecycleEffect

LEMMA DeletedType ==
    ASSUME NEW e \in WebhookEvent, NEW s \in Subscription,
           NEW payments \in [PaymentKey -> PaymentRow]
    PROVE  DeletedEffect(e, s, payments) \in Effect
<1> DEFINE p == payments[e.invoice]
<1>1. p \in PaymentRow
  BY PaymentKeys DEF WebhookEvent
<1>2. MarkAsCanceled(p) \in PaymentRow
  BY <1>1 DEF MarkAsCanceled, PaymentRow, PaymentStatus
<1>3. SavePayment(e, s, MarkAsCanceled(p)) \in Effect
  BY <1>2, SavePaymentType
<1> QED
  BY <1>3, AcknowledgeType DEF DeletedEffect

LEMMA InactivatedType ==
    ASSUME NEW e \in WebhookEvent, NEW s \in Subscription
    PROVE  InactivatedEffect(e, s) \in Effect
<1>1. Cancel(s) \in Subscription
  BY DEF Cancel, Subscription, SubscriptionStatus
<1> QED
  BY <1>1, AcknowledgeType DEF InactivatedEffect, Acknowledge, Effect

LEMMA EffectType ==
    ASSUME NEW e \in WebhookEvent, NEW s \in Subscription,
           NEW payments \in [PaymentKey -> PaymentRow]
    PROVE  EffectOf(e, s, payments) \in Effect
<1>1. e.kind \in Kind
  BY DEF WebhookEvent
<1> QED
  BY <1>1, ReceivedType, ConfirmedType, LifecycleType, DeletedType, InactivatedType
  DEF EffectOf, Kind, CreditKind, LifecycleKind

(***************************** Type correctness ****************************)

LEMMA EventOfType == ASSUME NEW j \in Job PROVE EventOf[j] \in WebhookEvent
BY EventAssumption

LEMMA UpdatedSubscriptionType ==
    ASSUME TypeOK, NEW j \in Job
    PROVE  UpdatedSubscription(j) \in Subscription
<1>1. sub \in Subscription /\ subLoaded[j] \in Subscription /\ effect[j].subscription \in Subscription
  BY DEF TypeOK, Effect
<1> QED
  BY <1>1 DEF UpdatedSubscription, Column, Subscription

LEMMA UpdatedPaymentType ==
    ASSUME TypeOK, NEW j \in Job
    PROVE  UpdatedPayment(j) \in PaymentRow
<1>1. /\ effect[j].payment \in PaymentRow
      /\ paymentLoaded[j] \in PaymentRow
      /\ payment[effect[j].key] \in PaymentRow
  BY DEF TypeOK, Effect
<1> QED
  BY <1>1 DEF UpdatedPayment, Column, PaymentRow

LEMMA StoredType ==
    ASSUME NEW payments \in [PaymentKey -> PaymentRow], NEW key, NEW invoice,
           NEW p \in PaymentRow
    PROVE  Stored(payments, key, invoice, p) \in [PaymentKey -> PaymentRow]
BY DEF Stored, NoPayment, PaymentRow

LEMMA StepType == TypeOK /\ [Next]_vars => TypeOK'
<1> SUFFICES ASSUME TypeOK, [Next]_vars PROVE TypeOK'
  OBVIOUS
<1> USE DEF Running, Ended
<1>1. ASSUME NEW j \in Job, Start(j) PROVE TypeOK'
  BY <1>1 DEF TypeOK, Start, Goto, database, local
<1>2. ASSUME NEW j \in Job, LockSubscription(j) PROVE TypeOK'
  BY <1>2 DEF TypeOK, LockSubscription, Goto
<1>3. ASSUME NEW j \in Job, ReadSubscription(j) PROVE TypeOK'
  BY <1>3 DEF TypeOK, ReadSubscription, Goto, database
<1>4. ASSUME NEW j \in Job, ReadPayment(j) PROVE TypeOK'
  <2> DEFINE outcome == EffectOf(EventOf[j], seen[j], payment)
  <2>1. outcome \in Effect
    BY EventOfType, EffectType DEF TypeOK
  <2>2. payment[outcome.key] \in PaymentRow
    BY <2>1 DEF TypeOK, Effect
  <2> QED
    BY <1>4, <2>1, <2>2 DEF TypeOK, ReadPayment, Goto, database
<1>5. ASSUME NEW j \in Job, RejectEvent(j) PROVE TypeOK'
  BY <1>5 DEF TypeOK, RejectEvent, Release, Goto, local
<1>6. ASSUME NEW j \in Job, LoadForSave(j) PROVE TypeOK'
  <2>1. payment[effect[j].key] \in PaymentRow
    BY DEF TypeOK, Effect
  <2> QED
    BY <1>6, <2>1 DEF TypeOK, LoadForSave, Goto, database
<1>7. ASSUME NEW j \in Job, Commit(j) PROVE TypeOK'
  <2>1. sub' \in Subscription
    BY <1>7, UpdatedSubscriptionType DEF Commit, TypeOK
  <2>2. payment' \in [PaymentKey -> PaymentRow]
    BY <1>7, UpdatedPaymentType, StoredType DEF Commit, TypeOK
  <2>3. EventOf[j].id \in EventId
    BY EventOfType DEF WebhookEvent
  <2>4. processed' \subseteq EventId /\ credits' \in [EventId -> Nat]
    BY <1>7, <2>3 DEF Commit, TypeOK
  <2> QED
    BY <1>7, <2>1, <2>2, <2>4 DEF TypeOK, Commit, Release, Goto, local
<1>8. ASSUME NEW j \in Job, RollBack(j) PROVE TypeOK'
  BY <1>8 DEF TypeOK, RollBack, Release, Goto, local
<1>9. ASSUME NEW j \in Job, Crash(j) PROVE TypeOK'
  BY <1>9 DEF TypeOK, Crash, Release, Goto, local
<1>10. CASE UNCHANGED vars
  BY <1>10 DEF TypeOK, vars, database, local
<1> QED
  BY <1>1, <1>2, <1>3, <1>4, <1>5, <1>6, <1>7, <1>8, <1>9, <1>10
  DEF Next, Step, AllEnded

LEMMA InitialType == Init => TypeOK
<1> SUFFICES ASSUME Init PROVE TypeOK
  OBVIOUS
<1>1. sub \in Subscription /\ payment \in [PaymentKey -> PaymentRow]
  BY InitialAssumption DEF Init
<1>2. \A j \in Job : Acknowledge(EventOf[j], sub) \in Effect
  BY <1>1, EventOfType, AcknowledgeType
<1> QED
  BY <1>1, <1>2, NoPaymentType DEF Init, TypeOK

\* Every reachable state has the declared types.
THEOREM TypeCorrect == Spec => []TypeOK
BY InitialType, StepType, PTL DEF Spec

(************************* The inductive invariant *************************)

\* Which handler an event goes to.
LEMMA Dispatch ==
    ASSUME NEW e, NEW s, NEW payments
    PROVE  /\ e.kind = "PAYMENT_RECEIVED" => EffectOf(e, s, payments) = ReceivedEffect(e, s, payments)
           /\ e.kind = "PAYMENT_CONFIRMED" => EffectOf(e, s, payments) = ConfirmedEffect(e, s, payments)
           /\ e.kind \in LifecycleKind => EffectOf(e, s, payments) = LifecycleEffect(e, s, payments)
           /\ e.kind = "PAYMENT_DELETED" => EffectOf(e, s, payments) = DeletedEffect(e, s, payments)
           /\ e.kind = "SUBSCRIPTION_DELETED" => EffectOf(e, s, payments) = InactivatedEffect(e, s)
BY DEF EffectOf, LifecycleKind

\* The effects that leave the subscription alone.
LEMMA SubscriptionUntouched ==
    ASSUME NEW e \in WebhookEvent, NEW s \in Subscription, NEW p \in PaymentRow
    PROVE  /\ Acknowledge(e, s).savesSubscription = FALSE
           /\ Reject(e, s).savesSubscription = FALSE
           /\ SavePayment(e, s, p).savesSubscription = FALSE
<1>1. Acknowledge(e, s).savesSubscription = FALSE
  BY DEF Acknowledge
<1>2. Acknowledge(e, s) \in Effect
  BY AcknowledgeType
<1> QED
  BY <1>1, <1>2 DEF Reject, SavePayment, Effect

\* What a handler saves as the subscription, and when.
LEMMA SavedByEffect ==
    ASSUME NEW e \in WebhookEvent, NEW s \in Subscription,
           NEW payments \in [PaymentKey -> PaymentRow],
           EffectOf(e, s, payments).savesSubscription
    PROVE  IF e.kind \in CreditKind
           THEN /\ s.status # "CANCELED"
                /\ EffectOf(e, s, payments).subscription.expires > s.expires
           ELSE /\ e.kind = "SUBSCRIPTION_DELETED"
                /\ EffectOf(e, s, payments).subscription.status = "CANCELED"
<1>1. e.kind \in Kind
  BY DEF WebhookEvent
<1> DEFINE p == LocalPayment(e, payments)
           date == PaymentDate(e, p)
<1>2. date \in Date
  BY LocalPaymentType
<1>3. /\ Acknowledge(e, s).savesSubscription = FALSE
      /\ Reject(e, s).savesSubscription = FALSE
  BY SubscriptionUntouched, NoPaymentType
<1>4. ASSUME NEW q, NEW changed, NEW extends \in BOOLEAN,
             Settle(e, s, payments, q, date, changed, extends).savesSubscription
      PROVE  /\ extends
             /\ Settle(e, s, payments, q, date, changed, extends).subscription.expires > s.expires
  BY <1>2, <1>4, MarkSubscriptionPaidType DEF Settle
<1>5. CASE e.kind = "PAYMENT_RECEIVED"
  <2> DEFINE extends == s.last # date
             settled == Settle(e, s, payments, MarkAsPaid(p, date), date, TRUE, extends)
  <2>1. EffectOf(e, s, payments) = ReceivedEffect(e, s, payments)
    BY <1>5, Dispatch
  <2>2. ReceivedEffect(e, s, payments) = settled /\ (extends => s.status # "CANCELED")
    BY <2>1, <1>3 DEF ReceivedEffect, CanMarkSubscriptionPaid
  <2> QED
    BY <1>5, <2>1, <2>2, <1>4 DEF CreditKind
<1>6. CASE e.kind = "PAYMENT_CONFIRMED"
  <2> DEFINE extends == p.card /\ s.last # date
             confirmed == MarkAsConfirmed(p, date)
             settled == Settle(e, s, payments, confirmed, date, confirmed.status # p.status, extends)
  <2>1. EffectOf(e, s, payments) = ConfirmedEffect(e, s, payments)
    BY <1>6, Dispatch
  <2>2. ConfirmedEffect(e, s, payments) = settled /\ (extends => s.status # "CANCELED")
    BY <2>1, <1>3 DEF ConfirmedEffect, CanMarkSubscriptionPaid
  <2>3. extends \in BOOLEAN
    BY LocalPaymentType DEF PaymentRow
  <2> QED
    BY <1>6, <2>1, <2>2, <2>3, <1>4 DEF CreditKind
<1>7. CASE e.kind \in LifecycleKind
  <2>1. payments[e.invoice] \in PaymentRow
    BY PaymentKeys DEF WebhookEvent
  <2>2. /\ MarkAsOverdue(payments[e.invoice]) \in PaymentRow
        /\ MarkAsRefunded(payments[e.invoice]) \in PaymentRow
    BY <2>1 DEF MarkAsOverdue, MarkAsRefunded, PaymentRow, PaymentStatus
  <2>3. LifecycleEffect(e, s, payments).savesSubscription = FALSE
    BY <2>1, <2>2, SubscriptionUntouched DEF LifecycleEffect
  <2> QED
    BY <1>7, <2>3, Dispatch
<1>8. CASE e.kind = "PAYMENT_DELETED"
  <2>1. payments[e.invoice] \in PaymentRow
    BY PaymentKeys DEF WebhookEvent
  <2>2. MarkAsCanceled(payments[e.invoice]) \in PaymentRow
    BY <2>1 DEF MarkAsCanceled, PaymentRow, PaymentStatus
  <2>3. DeletedEffect(e, s, payments).savesSubscription = FALSE
    BY <2>1, <2>2, SubscriptionUntouched DEF DeletedEffect
  <2> QED
    BY <1>8, <2>3, Dispatch
<1>9. CASE e.kind = "SUBSCRIPTION_DELETED"
  <2>1. InactivatedEffect(e, s).savesSubscription => InactivatedEffect(e, s).subscription.status = "CANCELED"
    <3>1. Cancel(s).status = "CANCELED"
      BY DEF Cancel, Subscription
    <3> QED
      BY <1>3, <3>1, AcknowledgeType DEF InactivatedEffect, Effect
  <2> QED
    BY <1>9, <2>1, Dispatch DEF CreditKind
<1> QED
  BY <1>1, <1>5, <1>6, <1>7, <1>8, <1>9 DEF Kind, CreditKind

\* The commit of a job that holds the row writes what the job computed from
\* the latest version; the commit of any other job cancels the subscription.
LEMMA CommitWrites ==
    ASSUME LockingInvariant, NEW j \in Job, Commit(j)
    PROVE  \/ sub' = sub
           \/ /\ rowLock = j
              /\ sub.status # "CANCELED"
              /\ sub'.expires > sub.expires
           \/ sub'.status = "CANCELED"
<1>1. CASE ~effect[j].savesSubscription
  BY <1>1 DEF Commit
<1>2. CASE effect[j].savesSubscription /\ EventOf[j].kind \in CreditKind
  <2>1. rowLock = j
    BY <1>2 DEF Commit, LockingInvariant, LockDiscipline, LockingKind
  <2>2. seen[j] = sub /\ subLoaded[j] = sub
    BY <2>1 DEF Commit, LockingInvariant, LockHolderIsCurrent
  <2>3. seen[j].status # "CANCELED" /\ effect[j].subscription.expires > seen[j].expires
    BY <1>2 DEF Commit, LockingInvariant, SavedSubscription
  <2>4. sub'.expires = effect[j].subscription.expires
    BY <1>2, <2>2 DEF Commit, UpdatedSubscription, Column
  <2> QED
    BY <2>1, <2>2, <2>3, <2>4
<1>3. CASE effect[j].savesSubscription /\ EventOf[j].kind \notin CreditKind
  <2>1. effect[j].subscription.status = "CANCELED"
    BY <1>3 DEF Commit, LockingInvariant, SavedSubscription
  <2>2. sub'.status = Column(sub.status, subLoaded[j].status, "CANCELED")
    BY <1>3, <2>1 DEF Commit, UpdatedSubscription
  <2>3. subLoaded[j].status = "CANCELED" => sub.status = "CANCELED"
    BY DEF Commit, LockingInvariant, CanceledWhenLoaded
  <2> QED
    BY <2>2, <2>3 DEF Column
<1> QED
  BY <1>1, <1>2, <1>3

\* Only a commit changes the subscription.
LEMMA OnlyCommitWrites ==
    ASSUME [Next]_vars, sub' # sub
    PROVE  \E j \in Job : Commit(j)
BY DEF Next, Step, AllEnded, Start, LockSubscription, ReadSubscription, ReadPayment, RejectEvent,
       LoadForSave, RollBack, Crash, vars, database

LEMMA CanceledStays ==
    ASSUME LockingInvariant, [Next]_vars, sub.status = "CANCELED"
    PROVE  sub'.status = "CANCELED"
BY OnlyCommitWrites, CommitWrites

LEMMA LockDisciplineKept ==
    ASSUME LockingInvariant, [Next]_vars
    PROVE  LockDiscipline'
<1> USE NoJobAssumption DEF Running, Ended
<1>0. TypeOK /\ LockDiscipline
  BY DEF LockingInvariant
<1>1. ASSUME NEW j \in Job, Start(j) PROVE LockDiscipline'
  <2>1. EventOf[j].kind = "PAYMENT_DELETED" => EventOf[j].kind \notin LockingKind
    BY DEF LockingKind, CreditKind, LifecycleKind
  <2> QED
    BY <1>0, <1>1, <2>1 DEF TypeOK, LockDiscipline, Start, Goto, database
<1>2. ASSUME NEW j \in Job, LockSubscription(j) PROVE LockDiscipline'
  BY <1>0, <1>2 DEF TypeOK, LockDiscipline, LockSubscription, Goto
<1>3. ASSUME NEW j \in Job, ReadSubscription(j) PROVE LockDiscipline'
  BY <1>0, <1>3 DEF TypeOK, LockDiscipline, ReadSubscription, Goto, database
<1>4. ASSUME NEW j \in Job, ReadPayment(j) PROVE LockDiscipline'
  BY <1>0, <1>4 DEF TypeOK, LockDiscipline, ReadPayment, Goto, database
<1>5. ASSUME NEW j \in Job, RejectEvent(j) PROVE LockDiscipline'
  BY <1>0, <1>5 DEF TypeOK, LockDiscipline, RejectEvent, Release, Goto
<1>6. ASSUME NEW j \in Job, LoadForSave(j) PROVE LockDiscipline'
  BY <1>0, <1>6 DEF TypeOK, LockDiscipline, LoadForSave, Goto, database
<1>7. ASSUME NEW j \in Job, Commit(j) PROVE LockDiscipline'
  BY <1>0, <1>7 DEF TypeOK, LockDiscipline, Commit, Release, Goto
<1>8. ASSUME NEW j \in Job, RollBack(j) PROVE LockDiscipline'
  BY <1>0, <1>8 DEF TypeOK, LockDiscipline, RollBack, Release, Goto
<1>9. ASSUME NEW j \in Job, Crash(j) PROVE LockDiscipline'
  BY <1>0, <1>9 DEF TypeOK, LockDiscipline, Crash, Release, Goto
<1>10. CASE UNCHANGED vars
  BY <1>0, <1>10 DEF LockDiscipline, vars, database
<1> QED
  BY <1>1, <1>2, <1>3, <1>4, <1>5, <1>6, <1>7, <1>8, <1>9, <1>10 DEF Next, Step, AllEnded

\* A commit that changes the subscription leaves no other job with the row.
LEMMA NobodyElseHolds ==
    ASSUME LockingInvariant, NEW i \in Job, Commit(i), effect[i].savesSubscription
    PROVE  rowLock' = NoJob
BY NoJobAssumption DEF Commit, RowAvailable, Release

LEMMA LockHolderKept ==
    ASSUME LockingInvariant, [Next]_vars
    PROVE  LockHolderIsCurrent'
<1> USE NoJobAssumption DEF Running, Ended
<1>0. TypeOK /\ LockDiscipline /\ LockHolderIsCurrent
  BY DEF LockingInvariant
<1>1. ASSUME NEW j \in Job, Start(j) PROVE LockHolderIsCurrent'
  BY <1>0, <1>1 DEF TypeOK, LockHolderIsCurrent, Start, Goto, database, local
<1>2. ASSUME NEW j \in Job, LockSubscription(j) PROVE LockHolderIsCurrent'
  BY <1>0, <1>2 DEF TypeOK, LockHolderIsCurrent, LockSubscription, Goto
<1>3. ASSUME NEW j \in Job, ReadSubscription(j) PROVE LockHolderIsCurrent'
  BY <1>0, <1>3 DEF TypeOK, LockDiscipline, LockHolderIsCurrent, ReadSubscription, Goto, database
<1>4. ASSUME NEW j \in Job, ReadPayment(j) PROVE LockHolderIsCurrent'
  BY <1>0, <1>4 DEF TypeOK, LockHolderIsCurrent, ReadPayment, Goto, database
<1>5. ASSUME NEW j \in Job, RejectEvent(j) PROVE LockHolderIsCurrent'
  BY <1>0, <1>5 DEF TypeOK, LockHolderIsCurrent, RejectEvent, Release, Goto, local
<1>6. ASSUME NEW j \in Job, LoadForSave(j) PROVE LockHolderIsCurrent'
  BY <1>0, <1>6 DEF TypeOK, LockHolderIsCurrent, LoadForSave, Goto, database
<1>7. ASSUME NEW j \in Job, Commit(j) PROVE LockHolderIsCurrent'
  <2>1. CASE effect[j].savesSubscription
    BY <1>7, <2>1, NobodyElseHolds DEF LockHolderIsCurrent
  <2>2. CASE ~effect[j].savesSubscription
    BY <1>0, <1>7, <2>2 DEF TypeOK, LockHolderIsCurrent, Commit, Release, Goto, local
  <2> QED
    BY <2>1, <2>2
<1>8. ASSUME NEW j \in Job, RollBack(j) PROVE LockHolderIsCurrent'
  BY <1>0, <1>8 DEF TypeOK, LockHolderIsCurrent, RollBack, Release, Goto, local
<1>9. ASSUME NEW j \in Job, Crash(j) PROVE LockHolderIsCurrent'
  BY <1>0, <1>9 DEF TypeOK, LockHolderIsCurrent, Crash, Release, Goto, local
<1>10. CASE UNCHANGED vars
  BY <1>0, <1>10 DEF LockHolderIsCurrent, vars, database, local
<1> QED
  BY <1>1, <1>2, <1>3, <1>4, <1>5, <1>6, <1>7, <1>8, <1>9, <1>10 DEF Next, Step, AllEnded

LEMMA SavedSubscriptionKept ==
    ASSUME LockingInvariant, [Next]_vars
    PROVE  SavedSubscription'
<1> USE DEF Running, Ended
<1>0. TypeOK /\ SavedSubscription
  BY DEF LockingInvariant
<1>1. ASSUME NEW j \in Job, Start(j) PROVE SavedSubscription'
  BY <1>0, <1>1 DEF TypeOK, SavedSubscription, Start, Goto, local
<1>2. ASSUME NEW j \in Job, LockSubscription(j) PROVE SavedSubscription'
  BY <1>0, <1>2 DEF TypeOK, SavedSubscription, LockSubscription, Goto
<1>3. ASSUME NEW j \in Job, ReadSubscription(j) PROVE SavedSubscription'
  BY <1>0, <1>3 DEF TypeOK, SavedSubscription, ReadSubscription, Goto
<1>4. ASSUME NEW j \in Job, ReadPayment(j) PROVE SavedSubscription'
  <2> DEFINE outcome == EffectOf(EventOf[j], seen[j], payment)
  <2>1. outcome.savesSubscription =>
          IF EventOf[j].kind \in CreditKind
          THEN seen[j].status # "CANCELED" /\ outcome.subscription.expires > seen[j].expires
          ELSE EventOf[j].kind = "SUBSCRIPTION_DELETED" /\ outcome.subscription.status = "CANCELED"
    BY <1>0, EventOfType, SavedByEffect DEF TypeOK
  <2> QED
    BY <1>0, <1>4, <2>1 DEF TypeOK, SavedSubscription, ReadPayment, Goto
<1>5. ASSUME NEW j \in Job, RejectEvent(j) PROVE SavedSubscription'
  BY <1>0, <1>5 DEF TypeOK, SavedSubscription, RejectEvent, Goto, local
<1>6. ASSUME NEW j \in Job, LoadForSave(j) PROVE SavedSubscription'
  BY <1>0, <1>6 DEF TypeOK, SavedSubscription, LoadForSave, Goto
<1>7. ASSUME NEW j \in Job, Commit(j) PROVE SavedSubscription'
  BY <1>0, <1>7 DEF TypeOK, SavedSubscription, Commit, Goto, local
<1>8. ASSUME NEW j \in Job, RollBack(j) PROVE SavedSubscription'
  BY <1>0, <1>8 DEF TypeOK, SavedSubscription, RollBack, Goto, local
<1>9. ASSUME NEW j \in Job, Crash(j) PROVE SavedSubscription'
  BY <1>0, <1>9 DEF TypeOK, SavedSubscription, Crash, Goto, local
<1>10. CASE UNCHANGED vars
  BY <1>0, <1>10 DEF SavedSubscription, vars, local
<1> QED
  BY <1>1, <1>2, <1>3, <1>4, <1>5, <1>6, <1>7, <1>8, <1>9, <1>10 DEF Next, Step, AllEnded

LEMMA CanceledWhenLoadedKept ==
    ASSUME LockingInvariant, [Next]_vars
    PROVE  CanceledWhenLoaded'
<1> SUFFICES ASSUME NEW j \in Job, pc'[j] = "commit", subLoaded'[j].status = "CANCELED"
             PROVE  sub'.status = "CANCELED"
  BY DEF CanceledWhenLoaded
<1>0. TypeOK /\ CanceledWhenLoaded
  BY DEF LockingInvariant
<1>1. CASE LoadForSave(j)
  BY <1>0, <1>1 DEF TypeOK, LoadForSave, database
<1>2. CASE ~LoadForSave(j)
  <2>1. pc[j] = "commit" /\ subLoaded[j] = subLoaded'[j]
    BY <1>0, <1>2 DEF TypeOK, Next, Step, AllEnded, Start, LockSubscription, ReadSubscription,
       ReadPayment, RejectEvent, LoadForSave, Commit, RollBack, Crash, Goto, vars, local
  <2>2. sub.status = "CANCELED"
    BY <1>0, <2>1 DEF CanceledWhenLoaded
  <2> QED
    BY <2>2, CanceledStays
<1> QED
  BY <1>1, <1>2

\* The inductive invariant holds: what a handler that locks the subscription
\* row has read stays the row's latest version until its transaction ends.
THEOREM LockingCorrect == Spec => []LockingInvariant
<1>1. Init => LockingInvariant
  <2> SUFFICES ASSUME Init PROVE LockingInvariant
    OBVIOUS
  <2>1. TypeOK
    BY InitialType
  <2> QED
    BY <2>1, NoJobAssumption DEF Init, LockingInvariant, LockDiscipline, LockHolderIsCurrent,
       SavedSubscription, CanceledWhenLoaded
<1>2. LockingInvariant /\ [Next]_vars => LockingInvariant'
  BY StepType, LockDisciplineKept, LockHolderKept, SavedSubscriptionKept, CanceledWhenLoadedKept
  DEF LockingInvariant
<1> QED
  BY <1>1, <1>2, PTL DEF Spec

(***************************** What follows from it ************************)

\* No handler brings a canceled subscription back.
THEOREM CanceledForGood == Spec => CanceledIsTerminal
<1>1. LockingInvariant /\ [Next]_vars => [sub.status = "CANCELED" => sub'.status = "CANCELED"]_vars
  BY CanceledStays
<1> QED
  BY <1>1, LockingCorrect, PTL DEF Spec, CanceledIsTerminal

\* No committed extension of a subscription that stays alive is lost.
THEOREM PaidTimeKept == Spec => LiveSubscriptionKeepsPaidTime
<1>1. ASSUME LockingInvariant, [Next]_vars, sub'.expires < sub.expires
      PROVE  sub'.status = "CANCELED"
  <2>1. sub.expires \in Nat /\ sub'.expires \in Nat
    BY <1>1, StepType DEF LockingInvariant, TypeOK, Subscription
  <2>2. PICK j \in Job : Commit(j)
    BY <1>1, <2>1, OnlyCommitWrites
  <2> QED
    BY <1>1, <2>1, <2>2, CommitWrites
<1>2. LockingInvariant /\ [Next]_vars
      => [sub'.expires < sub.expires => sub'.status = "CANCELED"]_vars
  BY <1>1
<1> QED
  BY <1>2, LockingCorrect, PTL DEF Spec, LiveSubscriptionKeepsPaidTime

\* An event adds at most one period, however often it is delivered.
THEOREM CreditedAtMostOnce == Spec => []EventCreditedAtMostOnce
<1>1. Init => EventCreditedAtMostOnce
  BY DEF Init, EventCreditedAtMostOnce
<1>2. TypeOK /\ EventCreditedAtMostOnce /\ [Next]_vars => EventCreditedAtMostOnce'
  <2> SUFFICES ASSUME TypeOK, EventCreditedAtMostOnce, [Next]_vars
               PROVE  EventCreditedAtMostOnce'
    OBVIOUS
  <2>1. ASSUME NEW j \in Job, Commit(j) PROVE EventCreditedAtMostOnce'
    BY <2>1, EventOfType DEF TypeOK, EventCreditedAtMostOnce, Commit, KeysFree, WebhookEvent
  <2>2. CASE UNCHANGED <<credits, processed>>
    BY <2>2 DEF EventCreditedAtMostOnce
  <2> QED
    BY <2>1, <2>2 DEF Next, Step, AllEnded, Start, LockSubscription, ReadSubscription, ReadPayment,
       RejectEvent, LoadForSave, RollBack, Crash, vars, database
<1> QED
  BY <1>1, <1>2, TypeCorrect, PTL DEF Spec

(************* The locking handlers implement BillingLedger ****************)

\* Webhooks whose handlers lock the subscription row take effect one at a time:
\* concurrent executions, crashes and redeliveries of them implement BillingLedger.

USE DEF NoDate, Ledger!NoDate

(******************** The rules as BillingLedger sees them *****************)

LEMMA SameSubscriptionRules ==
    ASSUME NEW s, NEW date
    PROVE  /\ Ledger!MarkSubscriptionPaid(s, date) = MarkSubscriptionPaid(s, date)
           /\ Ledger!CanMarkSubscriptionPaid(s) = CanMarkSubscriptionPaid(s)
           /\ Ledger!Cancel(s) = Cancel(s)
<1>1. Ledger!MarkSubscriptionPaid(s, date) = MarkSubscriptionPaid(s, date)
  BY DEF Ledger!MarkSubscriptionPaid, MarkSubscriptionPaid, Ledger!AddBillingPeriod,
         AddBillingPeriod, Ledger!Later, Later
<1>2. Ledger!CanMarkSubscriptionPaid(s) = CanMarkSubscriptionPaid(s)
  BY DEF Ledger!CanMarkSubscriptionPaid, CanMarkSubscriptionPaid
<1>3. Ledger!Cancel(s) = Cancel(s)
  BY DEF Ledger!Cancel, Cancel
<1> QED
  BY <1>1, <1>2, <1>3

LEMMA SamePaymentRules ==
    ASSUME NEW p, NEW date
    PROVE  /\ Ledger!MarkAsPaid(p, date) = MarkAsPaid(p, date)
           /\ Ledger!CanMarkAsPaid(p) = CanMarkAsPaid(p)
           /\ Ledger!MarkAsConfirmed(p, date) = MarkAsConfirmed(p, date)
           /\ Ledger!CanMarkAsConfirmed(p) = CanMarkAsConfirmed(p)
           /\ Ledger!MarkAsOverdue(p) = MarkAsOverdue(p)
           /\ Ledger!MarkAsRefunded(p) = MarkAsRefunded(p)
           /\ Ledger!CanMarkAsRefunded(p) = CanMarkAsRefunded(p)
<1>1. Ledger!MarkAsPaid(p, date) = MarkAsPaid(p, date)
  BY DEF Ledger!MarkAsPaid, MarkAsPaid
<1>2. Ledger!CanMarkAsPaid(p) = CanMarkAsPaid(p)
  BY DEF Ledger!CanMarkAsPaid, CanMarkAsPaid
<1>3. Ledger!MarkAsConfirmed(p, date) = MarkAsConfirmed(p, date)
  BY DEF Ledger!MarkAsConfirmed, MarkAsConfirmed
<1>4. Ledger!CanMarkAsConfirmed(p) = CanMarkAsConfirmed(p)
  BY DEF Ledger!CanMarkAsConfirmed, CanMarkAsConfirmed
<1>5. Ledger!MarkAsOverdue(p) = MarkAsOverdue(p)
  BY DEF Ledger!MarkAsOverdue, MarkAsOverdue
<1>6. Ledger!MarkAsRefunded(p) = MarkAsRefunded(p)
  BY DEF Ledger!MarkAsRefunded, MarkAsRefunded
<1>7. Ledger!CanMarkAsRefunded(p) = CanMarkAsRefunded(p)
  BY DEF Ledger!CanMarkAsRefunded, CanMarkAsRefunded
<1> QED
  BY <1>1, <1>2, <1>3, <1>4, <1>5, <1>6, <1>7

LEMMA SameLocalPayment ==
    ASSUME NEW e, NEW payments
    PROVE  /\ Ledger!FindSubscriptionPayment(e, payments) = FindSubscriptionPayment(e, payments)
           /\ Ledger!LocalPayment(e, payments) = LocalPayment(e, payments)
           /\ Ledger!PaymentDate(e, LocalPayment(e, payments))
                = PaymentDate(e, LocalPayment(e, payments))
<1>1. Ledger!FindSubscriptionPayment(e, payments) = FindSubscriptionPayment(e, payments)
  BY DEF Ledger!FindSubscriptionPayment, FindSubscriptionPayment
<1>2. Ledger!LocalPayment(e, payments) = LocalPayment(e, payments)
  BY <1>1 DEF Ledger!LocalPayment, LocalPayment, Ledger!NewPayment, NewPayment
<1>3. ASSUME NEW p PROVE Ledger!PaymentDate(e, p) = PaymentDate(e, p)
  BY DEF Ledger!PaymentDate, PaymentDate
<1> QED
  BY <1>1, <1>2, <1>3

LEMMA SameBareEffects ==
    ASSUME NEW e, NEW s, NEW p
    PROVE  /\ Ledger!Acknowledge(e, s) = Acknowledge(e, s)
           /\ Ledger!Reject(e, s) = Reject(e, s)
           /\ Ledger!SavePayment(e, s, p) = SavePayment(e, s, p)
<1>1. Ledger!Acknowledge(e, s) = Acknowledge(e, s)
  BY DEF Ledger!Acknowledge, Acknowledge, Ledger!NoPayment, NoPayment
<1>2. Ledger!Reject(e, s) = Reject(e, s)
  BY <1>1 DEF Ledger!Reject, Reject
<1>3. Ledger!SavePayment(e, s, p) = SavePayment(e, s, p)
  BY <1>1 DEF Ledger!SavePayment, SavePayment
<1> QED
  BY <1>1, <1>2, <1>3

LEMMA SameSettle ==
    ASSUME NEW e, NEW s, NEW payments, NEW p, NEW date, NEW changed, NEW extends
    PROVE  Ledger!Settle(e, s, payments, p, date, changed, extends)
             = Settle(e, s, payments, p, date, changed, extends)
BY SameLocalPayment, SameSubscriptionRules DEF Ledger!Settle, Settle

LEMMA LedgerDispatch ==
    ASSUME NEW e, NEW s, NEW payments
    PROVE  /\ e.kind = "PAYMENT_RECEIVED"
                => Ledger!EffectOf(e, s, payments) = Ledger!ReceivedEffect(e, s, payments)
           /\ e.kind = "PAYMENT_CONFIRMED"
                => Ledger!EffectOf(e, s, payments) = Ledger!ConfirmedEffect(e, s, payments)
           /\ e.kind \in LifecycleKind
                => Ledger!EffectOf(e, s, payments) = Ledger!LifecycleEffect(e, s, payments)
BY DEF Ledger!EffectOf, LifecycleKind, Ledger!LifecycleKind

LEMMA SameEffect ==
    ASSUME NEW e, e.kind \in LockingKind, NEW s, NEW payments
    PROVE  Ledger!EffectOf(e, s, payments) = EffectOf(e, s, payments)
<1> DEFINE p == LocalPayment(e, payments)
           date == PaymentDate(e, p)
<1>1. /\ Ledger!LocalPayment(e, payments) = p
      /\ Ledger!PaymentDate(e, p) = date
  BY SameLocalPayment
<1>2. Ledger!ReceivedEffect(e, s, payments) = ReceivedEffect(e, s, payments)
  <2>1. /\ Ledger!MarkAsPaid(p, date) = MarkAsPaid(p, date)
        /\ Ledger!CanMarkAsPaid(p) = CanMarkAsPaid(p)
        /\ Ledger!CanMarkSubscriptionPaid(s) = CanMarkSubscriptionPaid(s)
    BY SamePaymentRules, SameSubscriptionRules
  <2> QED
    BY <1>1, <2>1, SameBareEffects, SameSettle DEF Ledger!ReceivedEffect, ReceivedEffect
<1>3. Ledger!ConfirmedEffect(e, s, payments) = ConfirmedEffect(e, s, payments)
  <2>1. /\ Ledger!MarkAsConfirmed(p, date) = MarkAsConfirmed(p, date)
        /\ Ledger!CanMarkAsConfirmed(p) = CanMarkAsConfirmed(p)
        /\ Ledger!CanMarkSubscriptionPaid(s) = CanMarkSubscriptionPaid(s)
    BY SamePaymentRules, SameSubscriptionRules
  <2> QED
    BY <1>1, <2>1, SameBareEffects, SameSettle DEF Ledger!ConfirmedEffect, ConfirmedEffect
<1>4. Ledger!LifecycleEffect(e, s, payments) = LifecycleEffect(e, s, payments)
  BY SameBareEffects, SamePaymentRules
  DEF Ledger!LifecycleEffect, LifecycleEffect, Ledger!OverdueRejectedFrom, OverdueRejectedFrom
<1> QED
  BY <1>2, <1>3, <1>4, Dispatch, LedgerDispatch DEF LockingKind, CreditKind

(*************************** The inductive invariant ***********************)

\* Every handler locks the subscription row.
AllLock == \A j \in Job : EventOf[j].kind \in LockingKind

\* The commit of a job that holds the row, written with the latest versions.
LEMMA HolderCommits ==
    ASSUME AllLock, LockingInvariant, LockedEffectIsCurrent, NEW j \in Job, Commit(j)
    PROVE  /\ rowLock = j
           /\ UpdatedSubscription(j) = effect[j].subscription
           /\ effect[j].savesPayment => UpdatedPayment(j) = effect[j].payment
<1>0. TypeOK /\ LockDiscipline /\ LockHolderIsCurrent
  BY DEF LockingInvariant
<1>1. rowLock = j
  BY <1>0 DEF AllLock, Commit, LockDiscipline
<1>2. subLoaded[j] = sub
  BY <1>0, <1>1 DEF Commit, LockHolderIsCurrent
<1>3. paymentLoaded[j] = payment[effect[j].key]
  BY <1>1 DEF Commit, LockedEffectIsCurrent
<1>4. effect[j].subscription \in Subscription /\ effect[j].payment \in PaymentRow
  BY <1>0 DEF TypeOK, Effect
<1>5. UpdatedSubscription(j) = effect[j].subscription
  BY <1>2, <1>4 DEF UpdatedSubscription, Column, Subscription
<1>6. UpdatedPayment(j) = effect[j].payment
  BY <1>3, <1>4 DEF UpdatedPayment, Column, PaymentRow
<1> QED
  BY <1>1, <1>5, <1>6

LEMMA LockedEffectKept ==
    ASSUME AllLock, LockingInvariant, LockedEffectIsCurrent, [Next]_vars
    PROVE  LockedEffectIsCurrent'
<1> USE NoJobAssumption DEF Running, Ended
<1>0. TypeOK /\ LockDiscipline /\ LockHolderIsCurrent
  BY DEF LockingInvariant
<1>1. ASSUME NEW j \in Job, Start(j) PROVE LockedEffectIsCurrent'
  BY <1>0, <1>1 DEF TypeOK, LockedEffectIsCurrent, Start, Goto, database, local
<1>2. ASSUME NEW j \in Job, LockSubscription(j) PROVE LockedEffectIsCurrent'
  BY <1>0, <1>2 DEF TypeOK, LockedEffectIsCurrent, LockSubscription, Goto
<1>3. ASSUME NEW j \in Job, ReadSubscription(j) PROVE LockedEffectIsCurrent'
  BY <1>3 DEF AllLock, ReadSubscription
<1>4. ASSUME NEW j \in Job, ReadPayment(j) PROVE LockedEffectIsCurrent'
  <2>1. rowLock = j /\ seen[j] = sub
    BY <1>0, <1>4 DEF AllLock, ReadPayment, LockDiscipline, LockHolderIsCurrent
  <2> QED
    BY <1>0, <1>4, <2>1 DEF TypeOK, LockedEffectIsCurrent, ReadPayment, Goto, database
<1>5. ASSUME NEW j \in Job, RejectEvent(j) PROVE LockedEffectIsCurrent'
  BY <1>0, <1>5 DEF TypeOK, LockedEffectIsCurrent, RejectEvent, Release, Goto, local
<1>6. ASSUME NEW j \in Job, LoadForSave(j) PROVE LockedEffectIsCurrent'
  BY <1>0, <1>6 DEF TypeOK, LockedEffectIsCurrent, LoadForSave, Goto, database
<1>7. ASSUME NEW j \in Job, Commit(j) PROVE LockedEffectIsCurrent'
  <2>1. rowLock = j
    BY <1>7, HolderCommits
  <2> QED
    BY <1>7, <2>1 DEF LockedEffectIsCurrent, Commit, Release
<1>8. ASSUME NEW j \in Job, RollBack(j) PROVE LockedEffectIsCurrent'
  BY <1>0, <1>8 DEF TypeOK, LockedEffectIsCurrent, RollBack, Release, Goto, local
<1>9. ASSUME NEW j \in Job, Crash(j) PROVE LockedEffectIsCurrent'
  BY <1>0, <1>9 DEF TypeOK, LockedEffectIsCurrent, Crash, Release, Goto, local
<1>10. CASE UNCHANGED vars
  BY <1>0, <1>10 DEF LockedEffectIsCurrent, vars, database, local
<1> QED
  BY <1>1, <1>2, <1>3, <1>4, <1>5, <1>6, <1>7, <1>8, <1>9, <1>10 DEF Next, Step, AllEnded

\* What a handler is about to save is the effect of its event on the rows as
\* they are at that moment.
THEOREM EffectsAreCurrent ==
    ASSUME AllLock
    PROVE  Spec => []LockedEffectIsCurrent
<1>1. Init => LockedEffectIsCurrent
  BY NoJobAssumption DEF Init, LockedEffectIsCurrent
<1>2. LockingInvariant /\ LockedEffectIsCurrent /\ [Next]_vars => LockedEffectIsCurrent'
  BY LockedEffectKept
<1> QED
  BY <1>1, <1>2, LockingCorrect, PTL DEF Spec

(******************************* Refinement ********************************)

LEMMA CommitIsProcess ==
    ASSUME AllLock, LockingInvariant, LockedEffectIsCurrent, NEW j \in Job, Commit(j)
    PROVE  Ledger!Process(EventOf[j])
<1> DEFINE e == EventOf[j]
<1>1. rowLock = j
  BY HolderCommits
<1>2. effect[j] = EffectOf(e, sub, payment) /\ ~effect[j].rejected
  BY <1>1 DEF LockedEffectIsCurrent, Commit
<1>3. Ledger!EffectOf(e, sub, payment) = effect[j]
  BY <1>2, SameEffect DEF AllLock
<1>4. e.id \notin processed /\ processed' = processed \cup {e.id}
  BY DEF Commit, KeysFree
<1>5. sub' = IF effect[j].savesSubscription THEN effect[j].subscription ELSE sub
  BY HolderCommits DEF Commit
<1>6. payment' = IF effect[j].savesPayment
                 THEN Ledger!Stored(payment, effect[j].key, e.invoice, effect[j].payment)
                 ELSE payment
  BY HolderCommits DEF Commit, Stored, Ledger!Stored, PaymentKey, Ledger!PaymentKey,
     NoPayment, Ledger!NoPayment
<1> QED
  BY <1>2, <1>3, <1>4, <1>5, <1>6 DEF Ledger!Process

\* Concurrent, crashing and redelivered executions amount to one worker that
\* processes each event at most once.
THEOREM LedgerImplemented ==
    ASSUME AllLock
    PROVE  Spec => ImplementsLedger
<1>1. Init => Ledger!Init
  BY DEF Init, Ledger!Init
<1>2. LockingInvariant /\ LockedEffectIsCurrent /\ [Next]_vars => [Ledger!Next]_(Ledger!vars)
  <2> SUFFICES ASSUME LockingInvariant, LockedEffectIsCurrent, [Next]_vars
               PROVE  [Ledger!Next]_(Ledger!vars)
    OBVIOUS
  <2>1. ASSUME NEW j \in Job, Commit(j) PROVE Ledger!Next
    BY <2>1, CommitIsProcess DEF Ledger!Next
  <2>2. CASE UNCHANGED <<sub, payment, processed>>
    BY <2>2 DEF Ledger!vars
  <2> QED
    BY <2>1, <2>2 DEF Next, Step, AllEnded, Start, LockSubscription, ReadSubscription,
       ReadPayment, RejectEvent, LoadForSave, RollBack, Crash, vars, database
<1> QED
  BY <1>1, <1>2, LockingCorrect, EffectsAreCurrent, PTL DEF Spec, ImplementsLedger, Ledger!Spec
=============================================================================
