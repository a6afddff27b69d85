---------------------------- MODULE BillingLedger ----------------------------
(***************************************************************************)
(* What processing webhooks promises: each gateway event takes effect at   *)
(* most once, all at once, on the rows as they are at that moment, as if   *)
(* there were a single worker and no crash.  WebhookBilling is shown to    *)
(* implement it for the events whose handlers lock the subscription row.   *)
(***************************************************************************)
EXTENDS BillingRules

CONSTANTS Event, InitialSubscriptions, InitialPayments

VARIABLES sub, payment, processed

vars == <<sub, payment, processed>>

Init == /\ sub \in InitialSubscriptions
        /\ payment \in InitialPayments
        /\ processed = {}

Process(e) ==
    LET effect == EffectOf(e, sub, payment) IN
    /\ e.id \notin processed
    /\ ~effect.rejected
    /\ processed' = processed \cup {e.id}
    /\ sub' = IF effect.savesSubscription THEN effect.subscription ELSE sub
    /\ payment' = IF effect.savesPayment
                  THEN Stored(payment, effect.key, e.invoice, effect.payment)
                  ELSE payment

Next == \E e \in Event : Process(e)

Spec == Init /\ [][Next]_vars
=============================================================================
