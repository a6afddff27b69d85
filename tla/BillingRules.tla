---------------------------- MODULE BillingRules ----------------------------
(***************************************************************************)
(* The domain rules of a subscription and its payments, and the effect of  *)
(* one gateway webhook on them, as pure operators: app/domain/entities and *)
(* the decisions of ProcessWebhookService.execute.  Who calls them, on     *)
(* which rows and in which order is left to the modules that EXTEND this   *)
(* one.                                                                    *)
(*                                                                         *)
(* A date is a natural number, 0 being Python's None.  Dates count days of *)
(* a calendar whose billing periods are all Period days long: the clamping *)
(* of the day at the end of a short month is left out.                     *)
(***************************************************************************)
EXTENDS Integers

CONSTANTS
    Period,        \* days one billing period adds
    Invoice,       \* payment ids the gateway uses for this subscription
    Provisional,   \* the subscription's own gateway id, used as a payment id
    EventId        \* values of webhook_events.event_id

ASSUME PeriodAssumption == Period \in Nat \ {0}
ASSUME ProvisionalAssumption == Provisional \notin Invoice

NoDate == 0
Date == Nat

(***************************** Payment rows ********************************)

PaymentStatus == {"PENDING", "CONFIRMED", "PAID", "OVERDUE", "FAILED",
                  "CANCELED", "EXPIRED", "REFUNDED"}

\* A row of table payments; status ABSENT stands for "no such row".
PaymentRow == [status : PaymentStatus \cup {"ABSENT"}, paid : Date, card : BOOLEAN]

\* The payments of the subscription, by provider_payment_id (a unique column).
PaymentKey == Invoice \cup {Provisional}

NewPayment(card) == [status |-> "PENDING", paid |-> NoDate, card |-> card]
NoPayment == [status |-> "ABSENT", paid |-> NoDate, card |-> FALSE]

CanMarkAsConfirmed(p) == p.status \in {"PENDING", "OVERDUE", "CONFIRMED", "PAID"}
MarkAsConfirmed(p, date) ==
    IF p.status \in {"CONFIRMED", "PAID"} THEN p
    ELSE [p EXCEPT !.status = "CONFIRMED", !.paid = date]

CanMarkAsPaid(p) == p.status \in {"PENDING", "OVERDUE", "CONFIRMED", "PAID"}
MarkAsPaid(p, date) ==
    IF p.status = "PAID" THEN p
    ELSE [p EXCEPT !.status = "PAID", !.paid = date]

OverdueRejectedFrom == {"PAID", "CANCELED", "REFUNDED", "FAILED"}
MarkAsOverdue(p) == [p EXCEPT !.status = "OVERDUE"]

CanMarkAsRefunded(p) == p.status \in {"PAID", "CONFIRMED"}
MarkAsRefunded(p) == [p EXCEPT !.status = "REFUNDED"]

CanMarkAsCanceled(p) == p.status \in {"PENDING", "OVERDUE", "CONFIRMED"}
MarkAsCanceled(p) == [p EXCEPT !.status = "CANCELED"]

(*************************** The subscription row **************************)

SubscriptionStatus == {"PENDING", "ACTIVE", "CANCELLATION_PENDING", "CANCELED"}

\* requested: cancellation_requested_at is not None.
Subscription == [status : SubscriptionStatus, last : Date, expires : Date,
                 requested : BOOLEAN]

Later(a, b) == IF a >= b THEN a ELSE b
AddBillingPeriod(date) == date + Period

CanAlwaysMarkPaid(s) == TRUE   \* mutant: a canceled subscription is accepted
CanMarkSubscriptionPaid(s) == s.status # "CANCELED"
MarkSubscriptionPaid(s, date) ==
    [s EXCEPT !.status = "ACTIVE",
              !.last = date,
              !.expires = AddBillingPeriod(Later(date, s.expires))]

Cancel(s) ==
    IF s.status = "CANCELED" THEN s
    ELSE [s EXCEPT !.status = "CANCELED", !.requested = TRUE]

(************************** The effect of a webhook ************************)

CreditKind == {"PAYMENT_CONFIRMED", "PAYMENT_RECEIVED"}
LifecycleKind == {"PAYMENT_OVERDUE", "PAYMENT_REFUNDED"}   \* and chargebacks
Kind == CreditKind \cup LifecycleKind \cup {"PAYMENT_DELETED", "SUBSCRIPTION_DELETED"}

WebhookEvent == [id : EventId, kind : Kind, invoice : Invoice, date : Date,
                 card : BOOLEAN]

(***************************************************************************)
(* What handling an event amounts to: nothing is kept (a DomainError rolls *)
(* the transaction back), or the domain objects that are saved - the       *)
(* payment read under key, the subscription - with the event row.          *)
(***************************************************************************)
Effect == [rejected : BOOLEAN, key : PaymentKey, payment : PaymentRow,
           subscription : Subscription, savesPayment : BOOLEAN,
           savesSubscription : BOOLEAN]

\* Only the event row is written.
Acknowledge(e, s) ==
    [rejected |-> FALSE, key |-> e.invoice, payment |-> NoPayment,
     subscription |-> s, savesPayment |-> FALSE, savesSubscription |-> FALSE]

Reject(e, s) == [Acknowledge(e, s) EXCEPT !.rejected = TRUE]

SavePayment(e, s, p) ==
    [Acknowledge(e, s) EXCEPT !.payment = p, !.savesPayment = TRUE]

\* Where _find_subscription_payment finds the payment: under the invoice's id,
\* or the pending provisional payment, whose id the invoice then takes over.
FindSubscriptionPayment(e, payments) ==
    IF payments[e.invoice].status = "ABSENT" /\ payments[Provisional].status = "PENDING"
    THEN Provisional
    ELSE e.invoice

LocalPayment(e, payments) ==
    LET p == payments[FindSubscriptionPayment(e, payments)] IN
    IF p.status = "ABSENT" THEN NewPayment(e.card) ELSE p

PaymentDate(e, p) == IF e.date # NoDate THEN e.date ELSE p.paid

\* Payment p is settled on that date; credits: it extends the subscription.
Settle(e, s, payments, p, date, changed, credits) ==
    [rejected |-> FALSE, key |-> FindSubscriptionPayment(e, payments), payment |-> p,
     subscription |-> IF credits THEN MarkSubscriptionPaid(s, date) ELSE s,
     savesPayment |-> changed \/ credits, savesSubscription |-> credits]

\* PAYMENT_RECEIVED of a subscription.
ReceivedEffect(e, s, payments) ==
    LET p == LocalPayment(e, payments)
        date == PaymentDate(e, p)
        credits == s.last # date
    IN  IF p.status = "PAID" THEN Acknowledge(e, s)
        ELSE IF date # NoDate /\ CanMarkAsPaid(p) /\ (credits => CanMarkSubscriptionPaid(s))
        THEN Settle(e, s, payments, MarkAsPaid(p, date), date, TRUE, credits)
        ELSE Reject(e, s)

\* PAYMENT_CONFIRMED of a subscription: only a card payment activates it.
ConfirmedEffect(e, s, payments) ==
    LET p == LocalPayment(e, payments)
        date == PaymentDate(e, p)
        credits == p.card /\ s.last # date
        confirmed == MarkAsConfirmed(p, date)
    IN  IF date # NoDate /\ CanMarkAsConfirmed(p) /\ (credits => CanMarkSubscriptionPaid(s))
        THEN Settle(e, s, payments, confirmed, date, confirmed.status # p.status, credits)
        ELSE Reject(e, s)

\* PAYMENT_OVERDUE, PAYMENT_REFUNDED and PAYMENT_CHARGEBACK_REQUESTED.
LifecycleEffect(e, s, payments) ==
    LET p == payments[e.invoice]
        changed == IF e.kind = "PAYMENT_OVERDUE"
                   THEN p.status \notin OverdueRejectedFrom \cup {"OVERDUE"}
                   ELSE CanMarkAsRefunded(p)
    IN  IF p.status = "ABSENT" \/ ~changed THEN Acknowledge(e, s)
        ELSE SavePayment(e, s, IF e.kind = "PAYMENT_OVERDUE" THEN MarkAsOverdue(p)
                                                             ELSE MarkAsRefunded(p))

\* PAYMENT_DELETED.
DeletedEffect(e, s, payments) ==
    LET p == payments[e.invoice] IN
    IF CanMarkAsCanceled(p) THEN SavePayment(e, s, MarkAsCanceled(p))
    ELSE Acknowledge(e, s)

\* SUBSCRIPTION_DELETED and SUBSCRIPTION_INACTIVATED.
InactivatedEffect(e, s) ==
    IF s.status = "CANCELED" THEN Acknowledge(e, s)
    ELSE [Acknowledge(e, s) EXCEPT !.subscription = Cancel(s), !.savesSubscription = TRUE]

EffectOf(e, s, payments) ==
    CASE e.kind = "PAYMENT_RECEIVED" -> ReceivedEffect(e, s, payments)
      [] e.kind = "PAYMENT_CONFIRMED" -> ConfirmedEffect(e, s, payments)
      [] e.kind \in LifecycleKind -> LifecycleEffect(e, s, payments)
      [] e.kind = "PAYMENT_DELETED" -> DeletedEffect(e, s, payments)
      [] e.kind = "SUBSCRIPTION_DELETED" -> InactivatedEffect(e, s)

\* The payments once row p, read under key, is saved with provider id invoice.
Stored(payments, key, invoice, p) ==
    [k \in PaymentKey |-> IF k = invoice THEN p
                          ELSE IF k = key THEN NoPayment
                          ELSE payments[k]]
=============================================================================
