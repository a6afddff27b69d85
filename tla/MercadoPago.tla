----------------------------- MODULE MercadoPago -----------------------------
(***************************************************************************)
(* How what happens to a payment at Mercado Pago reaches the local row:    *)
(* the notifications of its topics, which name a resource that is read     *)
(* when the job runs, the translation of what is read into the vocabulary  *)
(* of the use cases, and the cron that asks for checkouts, because nobody  *)
(* notifies that one expired.                                              *)
(*                                                                         *)
(* The row is that of a checkout (a preference several payments may be     *)
(* tried for) or that of an invoice of a subscription.  The invoices of a  *)
(* subscription follow one another, and the dates it is paid until are     *)
(* compared with those Mercado Pago charges.  Locks, retries and the       *)
(* internal webhook are left to WebhookPipeline, races for the row of a    *)
(* checkout with its renewal to CheckoutPayments.                          *)
(***************************************************************************)
EXTENDS BillingCalendar

CONSTANTS
    MaxPayments,   \* payments tried for a preference or an invoice
    Starts,        \* dates of the first charge
    LastMonth,     \* no invoice is due after it
    MaxDelay       \* days the retries of a charge may take

ASSUME PaymentsAssumption == MaxPayments \in Nat \ {0}
ASSUME StartsAssumption == \A start \in Starts : IsDate(start)
ASSUME DelayAssumption == MaxDelay \in 0 .. 24

VARIABLES
    kind,                     \* whose row it is
    remote, listed,           \* the payments, and those the search shows
    window,                   \* of the preference
    row,                      \* payment_status
    resolved, events,         \* payloads in jobs, and the event ids processed
    holding,                  \* those whose jobs hold a copy of the row they will save
    asked,                    \* the copy of the cron: listed, and the status it will save
    type, anchor, due,        \* of the subscription at Mercado Pago
    paidOn,                   \* date_approved of its invoice
    last, expires             \* last_paid_date and expires_at

checkout == <<listed, window, asked>>
subscription == <<type, anchor, due, paidOn, last, expires>>
jobs == <<resolved, events, holding>>
vars == <<kind, remote, row, jobs, checkout, subscription>>

Payment == 1 .. MaxPayments
Unsettled == {"pending", "in_process", "authorized", "in_mediation"}
Reversed == {"refunded", "charged_back"}
Failed == {"rejected", "cancelled"}
RemoteStatus == {"none", "approved"} \cup Unsettled \cup Reversed \cup Failed
NoDate == [month |-> 0, day |-> 0]

TypeOK ==
    /\ kind \in {"checkout", "subscription"}
    /\ remote \in [Payment -> RemoteStatus]
    /\ listed \subseteq Payment
    /\ window \in {"open", "grace", "over"}
    /\ row \in {"ABSENT", "PENDING", "PAID", "REFUNDED", "EXPIRED"}
    /\ asked \in {"none", "listed", "PAID", "EXPIRED"}
    /\ IsDate(due) /\ IsDate(expires)
    /\ paidOn = NoDate \/ IsDate(paidOn)

Init ==
    /\ kind \in {"checkout", "subscription"}
    /\ remote = [p \in Payment |-> "none"]
    /\ listed = {}
    /\ window = "open"
    /\ row = "PENDING"
    /\ resolved = {} /\ events = {} /\ holding = {}
    /\ asked = "none"
    /\ \E start \in Starts :
         due = start /\ expires = start /\ anchor = start.day
    /\ type \in IF kind = "checkout" THEN {"MONTHLY"} ELSE SubscriptionType
    /\ kind = "checkout" => \A start \in Starts : ~Earlier(start, due)
    /\ paidOn = NoDate /\ last = NoDate

(****************************** Mercado Pago *******************************)

MovesFrom == [
    none         |-> {"pending", "in_process", "authorized", "approved", "rejected"},
    pending      |-> {"in_process", "approved", "rejected", "cancelled"},
    in_process   |-> {"approved", "rejected", "cancelled"},
    authorized   |-> {"approved", "cancelled"},
    approved     |-> {"in_mediation", "refunded", "charged_back"},
    in_mediation |-> {"approved", "refunded", "charged_back"},
    rejected     |-> {}, cancelled |-> {}, refunded |-> {}, charged_back |-> {}]

\* A buyer pays while the preference is open; a charge is tried again after a refusal.
MayBeTried(p) ==
    IF kind = "checkout" THEN window = "open"
    ELSE \A q \in 1 .. p - 1 : remote[q] \in Failed

Move(p) ==
    /\ remote[p] = "none" => MayBeTried(p)
    /\ \E status \in MovesFrom[remote[p]] :
         /\ remote' = [remote EXCEPT ![p] = status]
         /\ IF kind = "subscription" /\ status = "approved" /\ paidOn = NoDate
            THEN \E days \in 0 .. MaxDelay : paidOn' = Plus(due, days)
            ELSE UNCHANGED paidOn
    /\ UNCHANGED <<kind, row, jobs, checkout, type, anchor, due, last, expires>>

\* The search by external_reference shows a payment some time after it was tried.
List(p) ==
    /\ kind = "checkout" /\ remote[p] # "none" /\ p \notin listed
    /\ listed' = listed \cup {p}
    /\ UNCHANGED <<kind, remote, window, row, jobs, asked, subscription>>

\* expiration_date_to passes, then MERCADOPAGO_CHECKOUT_EXPIRY_GRACE_SECONDS: long enough
\* for the search to show what was tried before.
WindowEnds ==
    /\ kind = "checkout"
    /\ \/ window = "open" /\ window' = "grace"
       \/ /\ window = "grace" /\ \A p \in Payment : remote[p] # "none" => p \in listed
          /\ window' = "over"
    /\ UNCHANGED <<kind, remote, listed, row, jobs, asked, subscription>>

\* A period later, on the day of the first charge or the last of the month.
NextCharge == DayOf(due.month + MonthsOf(type), anchor)

\* The notifications of an invoice have arrived when the next one is due.
NextInvoice ==
    /\ kind = "subscription"
    /\ row \in {"PAID", "REFUNDED"} /\ resolved = {} /\ holding = {}
    /\ NextCharge.month <= LastMonth
    /\ due' = NextCharge
    /\ remote' = [p \in Payment |-> "none"]
    /\ row' = "ABSENT" /\ events' = {} /\ paidOn' = NoDate
    /\ UNCHANGED <<kind, resolved, holding, checkout, type, anchor, last, expires>>

(****************************** Translation ********************************)

ReversalEvent == [refunded |-> "PAYMENT_REFUNDED", charged_back |-> "PAYMENT_CHARGEBACK_REQUESTED"]
Payload(event, topic, p) == [event |-> event, id |-> <<topic, p, remote[p]>>]

\* Mutant: a payment under way is taken for a paid one.
PaidWhenTried(p) ==
    IF remote[p] \in Reversed THEN {Payload(ReversalEvent[remote[p]], "payment", p)}
    ELSE IF kind = "checkout" /\ remote[p] \in {"approved", "authorized"}
    THEN {Payload("CHECKOUT_PAID", "payment", p)} ELSE {}

\* Topic payment.  The approval of an invoice comes by the other topic; a refusal does
\* not end a checkout.
PaymentNotification(p) ==
    IF remote[p] \in Reversed THEN {Payload(ReversalEvent[remote[p]], "payment", p)}
    ELSE IF kind = "checkout" /\ remote[p] = "approved"
    THEN {Payload("CHECKOUT_PAID", "payment", p)} ELSE {}

\* Topic subscription_authorized_payment, for an invoice and the last payment tried for it.
AuthorizedPaymentNotification(p) ==
    IF kind = "checkout" \/ \E q \in Payment : q > p /\ remote[q] # "none" THEN {}
    ELSE IF remote[p] \in Reversed
    THEN {Payload(ReversalEvent[remote[p]], "authorized_payment", p)}
    ELSE IF remote[p] = "approved"
    THEN {Payload("PAYMENT_RECEIVED", "authorized_payment", p)} ELSE {}

\* Mutant: a payment that was tried keeps the checkout open, a refused one too.
OpenWhileTried ==
    LET statuses == {remote[p] : p \in listed}
    IN  IF "approved" \in statuses THEN "PAID"
        ELSE IF window # "over" \/ statuses # {} THEN "ACTIVE" ELSE "EXPIRED"

\* Mutant: the end of the window is enough.
ExpiredByDate ==
    LET statuses == {remote[p] : p \in listed}
    IN  IF "approved" \in statuses THEN "PAID"
        ELSE IF window # "over" THEN "ACTIVE" ELSE "EXPIRED"

\* A preference has no status: it is that of the payments found and of the dates.
ResolveCheckoutStatus ==
    LET statuses == {remote[p] : p \in listed}
    IN  IF "approved" \in statuses THEN "PAID"
        ELSE IF window # "over" \/ statuses \cap Unsettled # {} THEN "ACTIVE" ELSE "EXPIRED"

(**************************** The billing core *****************************)

\* A job reads the resource its notification names.
Resolve(p) ==
    /\ \E payload \in PaymentNotification(p) \cup AuthorizedPaymentNotification(p) :
         /\ payload.id \notin events /\ payload \notin resolved \cup holding
         /\ resolved' = resolved \cup {payload}
    /\ UNCHANGED <<kind, remote, row, events, holding, checkout, subscription>>

Consumed(payload) == events' = events \cup {payload.id} /\ UNCHANGED holding

\* The job will change the row and save it: it has read it without a lock.
Holds(payload) == holding' = holding \cup {payload} /\ UNCHANGED events

\* Mutant: a terminal row is not looked at.
CheckoutPaidAnyway(payload) ==
    /\ payload.event = "CHECKOUT_PAID"
    /\ Holds(payload)
    /\ UNCHANGED <<row, last, expires>>

\* _process_checkout_webhook, up to the save
CheckoutPaid(payload) ==
    /\ payload.event = "CHECKOUT_PAID"
    /\ IF row = "PENDING" THEN Holds(payload) ELSE Consumed(payload)
    /\ UNCHANGED <<row, last, expires>>

\* apply_gateway_payment_status: a reversal of what is not paid is without effect.
Reversal(payload) ==
    /\ payload.event \in {"PAYMENT_REFUNDED", "PAYMENT_CHARGEBACK_REQUESTED"}
    /\ IF row = "PAID" THEN Holds(payload) ELSE Consumed(payload)
    /\ UNCHANGED <<row, last, expires>>

\* Subscription.mark_as_paid
MarkAsPaid ==
    /\ last' = paidOn
    /\ expires' = AddBillingPeriod(Later(paidOn, expires), type)

\* PAYMENT_RECEIVED, under the lock of the subscription, which is the only one to make
\* an invoice paid: a refunded payment cannot be paid, the job fails.
Received(payload) ==
    /\ payload.event = "PAYMENT_RECEIVED"
    /\ row' = IF row \in {"ABSENT", "PENDING"} THEN "PAID" ELSE row
    /\ IF row = "REFUNDED" THEN UNCHANGED <<events, holding>> ELSE Consumed(payload)
    /\ IF row \in {"ABSENT", "PENDING"} /\ last # paidOn
       THEN MarkAsPaid ELSE UNCHANGED <<last, expires>>

Apply(payload) ==
    /\ CheckoutPaid(payload) \/ Reversal(payload) \/ Received(payload)
    /\ resolved' = resolved \ {payload}
    /\ UNCHANGED <<kind, remote, checkout, type, anchor, due, paidOn>>

\* A job saves the copy it read, whatever the row is now.
JobSaves(payload) ==
    /\ payload \in holding
    /\ row' = IF payload.event = "CHECKOUT_PAID" THEN "PAID" ELSE "REFUNDED"
    /\ holding' = holding \ {payload}
    /\ events' = events \cup {payload.id}
    /\ UNCHANGED <<kind, remote, resolved, checkout, subscription>>

\* sync_pending_checkouts_worker lists a pending checkout ...
SyncLists ==
    /\ kind = "checkout" /\ row = "PENDING" /\ asked = "none"
    /\ asked' = "listed"
    /\ UNCHANGED <<kind, remote, listed, window, row, jobs, subscription>>

\* ... asks for it ...
SyncAsks ==
    /\ asked = "listed"
    /\ asked' = IF ResolveCheckoutStatus = "ACTIVE" THEN "none" ELSE ResolveCheckoutStatus
    /\ UNCHANGED <<kind, remote, listed, window, row, jobs, subscription>>

\* ... and writes the copy it listed, whatever the row is now.
SyncSaves ==
    /\ asked \in {"PAID", "EXPIRED"}
    /\ row' = asked /\ asked' = "none"
    /\ UNCHANGED <<kind, remote, listed, window, jobs, subscription>>

Next ==
    \/ \E p \in Payment : Move(p) \/ List(p) \/ Resolve(p)
    \/ WindowEnds \/ NextInvoice
    \/ \E payload \in resolved : Apply(payload)
    \/ \E payload \in holding : JobSaves(payload)
    \/ SyncLists \/ SyncAsks \/ SyncSaves

Spec == Init /\ [][Next]_vars

\* The cron runs every five minutes.
FairSpec == Spec /\ WF_vars(SyncLists) /\ WF_vars(SyncAsks) /\ WF_vars(SyncSaves)

(******************************** Properties *******************************)

\* A checkout expires only when no payment for it can still be approved ("So expira apos o
\* desfecho"): a renewal would let the buyer pay twice.
ExpiredIsOver == row = "EXPIRED" \/ asked = "EXPIRED" =>
    \A p \in Payment : remote[p] \in {"none"} \cup Failed \cup Reversed

\* A row is paid or refunded only by a payment that was approved, whichever topic,
\* translation or cron brought the word of it.
Approved == \E p \in Payment : remote[p] \in {"approved", "in_mediation"} \cup Reversed
RowIsOfAPayment == row \in {"PAID", "REFUNDED"} \/ asked = "PAID" => Approved
RowIsTrue == TypeOK /\ RowIsOfAPayment

\* A refund that no copy of the row is held against, by a job with an approval or by the
\* cron, is there for good: approvals that were read at the gateway before it, and their
\* notifications by any topic, do not undo it, nor is a copy made that could.
NoCopy == asked = "none" /\ \A payload \in holding : payload.event # "CHECKOUT_PAID"
RefundStays ==
    [][row = "REFUNDED" /\ NoCopy => (row' = "REFUNDED" /\ NoCopy') \/ row' = "ABSENT"]_vars

\* One payment buys one period: clamping days and paying late, invoice after invoice,
\* expires_at stays within three days before the next charge and within the delay of a
\* payment after it.
ExpiresNearTheCharge == kind = "subscription" /\ row \in {"PAID", "REFUNDED"} =>
    /\ ~Earlier(Plus(expires, 3), NextCharge)
    /\ ~Earlier(Plus(NextCharge, MaxDelay + 3), expires)

\* A checkout that is over, with no payment under way, does not stay pending.
CheckoutEnds ==
    <>[](kind = "checkout" /\ window = "over" /\ \A p \in Payment : remote[p] \notin Unsettled)
        => <>(row # "PENDING")

\* What these rest on.  Payloads are of payments that were approved; of a row that is
\* that of an invoice, none comes from a checkout.
PayloadsAreOfPayments == \A payload \in resolved \cup holding :
    /\ Approved
    /\ payload.event \in {"PAYMENT_REFUNDED", "PAYMENT_CHARGEBACK_REQUESTED",
                           IF kind = "checkout" THEN "CHECKOUT_PAID" ELSE "PAYMENT_RECEIVED"}

\* Once the window is over, all payments that were tried are listed.
OnlyCheckoutsExpire ==
    /\ row = "EXPIRED" \/ asked = "EXPIRED" => window = "over"
    /\ kind = "subscription" /\ holding # {} => row \in {"PAID", "REFUNDED"}
    /\ asked # "none" \/ window # "open" => kind = "checkout"
    /\ row = "ABSENT" => kind = "subscription"
    /\ window = "over" => \A p \in Payment : remote[p] # "none" => p \in listed

\* Charges are due on one day; an invoice is paid within the delay, and its date is what
\* is compared with that of the next.
Unpaid == row \in {"ABSENT", "PENDING"}
InvoiceDates ==
    /\ type \in SubscriptionType /\ anchor \in 1 .. 31
    /\ due = DayOf(due.month, anchor)
    /\ paidOn = NoDate \/ \E days \in 0 .. MaxDelay : paidOn = Plus(due, days)
    /\ kind = "subscription" =>
         /\ Approved => paidOn # NoDate
         /\ Unpaid => last = NoDate \/ (IsDate(last) /\ Earlier(last, due))
         /\ ~Unpaid => last = paidOn

\* What a subscription is paid for ends about when it is charged: in that month, or
\* early in the next.
Charged == IF Unpaid THEN due ELSE NextCharge
ExpiresAboutThen == kind = "subscription" =>
    /\ ~Earlier(Plus(expires, 3), Charged)
    /\ expires.month <= Charged.month + 1
    /\ expires.month = Charged.month => expires.day <= anchor + MaxDelay
    /\ expires.month > Charged.month =>
         expires.day <= MaxDelay /\ expires.day <= MaxDelay + anchor - 28
GatewayInvariant ==
    /\ RowIsTrue
    /\ PayloadsAreOfPayments
    /\ OnlyCheckoutsExpire /\ ExpiredIsOver
    /\ InvoiceDates /\ ExpiresAboutThen
=============================================================================
