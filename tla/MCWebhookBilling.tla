-------------------------- MODULE MCWebhookBilling --------------------------
(***************************************************************************)
(* Small instances of WebhookBilling.  The keys of each EventOf are the    *)
(* jobs; two jobs with one event are its duplicate deliveries.             *)
(***************************************************************************)
EXTENDS WebhookBilling

Event(id, kind, invoice, date) ==
    [id |-> id, kind |-> kind, invoice |-> invoice, date |-> date, card |-> TRUE]

Confirmed1 == Event("conf1", "PAYMENT_CONFIRMED", "inv1", 2)
Received1 == Event("recv1", "PAYMENT_RECEIVED", "inv1", 2)
Confirmed2 == Event("conf2", "PAYMENT_CONFIRMED", "inv2", 5)
Received2 == Event("recv2", "PAYMENT_RECEIVED", "inv2", 5)
Overdue1 == Event("over1", "PAYMENT_OVERDUE", "inv1", NoDate)
Refunded1 == Event("refd1", "PAYMENT_REFUNDED", "inv1", NoDate)
Deleted1 == Event("del1", "PAYMENT_DELETED", "inv1", NoDate)
Inactivated == Event("inact", "SUBSCRIPTION_DELETED", "inv1", NoDate)

Ids == {"conf1", "recv1", "conf2", "recv2", "over1", "refd1", "del1", "inact"}

\* Two invoices, one event delivered twice, one without a date, an overdue
\* notice and a refund in any order.
LedgerJobs == [a |-> Confirmed1, b |-> Confirmed1, c |-> Received2,
               d |-> Overdue1, e |-> Refunded1]
\* Payments racing the cancellation.
CancelJobs == [a |-> Received1, b |-> Confirmed2, c |-> Inactivated, d |-> Deleted1]
\* The settlement of a card payment arrives after the next confirmation.
MonthlyCardJobs == [a |-> Confirmed1, b |-> Confirmed2, c |-> Received1]

LedgerJobsNames == DOMAIN LedgerJobs
CancelJobsNames == DOMAIN CancelJobs
MonthlyCardJobsNames == DOMAIN MonthlyCardJobs

Sub(status, expires) == [status |-> status, last |-> NoDate, expires |-> expires,
                         requested |-> status = "CANCELLATION_PENDING"]
Subscriptions == {Sub("PENDING", 1), Sub("CANCELLATION_PENDING", 3)}
PendingSubscription == {Sub("PENDING", 1)}

Rows(first, provisional) ==
    [k \in PaymentKey |-> CASE k = "inv1" -> first
                            [] k = Provisional -> provisional
                            [] OTHER -> NoPayment]
\* Asaas creates the first invoice with the subscription, Mercado Pago a
\* provisional payment.
Payments == {Rows(NewPayment(TRUE), NoPayment), Rows(NoPayment, NewPayment(TRUE)),
             Rows(NewPayment(FALSE), NoPayment)}
FirstInvoice == {Rows(NewPayment(TRUE), NoPayment)}
=============================================================================
