------------------------- MODULE MCWebhookPipeline -------------------------
(***************************************************************************)
(* A small instance of WebhookPipeline, with two stories.  At Mercado Pago *)
(* n1 and n2 are one notification of an invoice sent twice: when its job   *)
(* asks, the invoice is paid, or refunded already; n3 is that of the       *)
(* refunded payment.  The two refunds are two events with one dedupe_key,  *)
(* announced by the one that changes the payment.  At Asaas n4 and n5 are  *)
(* the confirmation and the settlement of a card payment, two events with  *)
(* one dedupe_key and both announced.  n1 and n2 may change places.        *)
(***************************************************************************)
EXTENDS WebhookPipeline, TLC

CONSTANTS n1, n2, n3, n4, n5

MCNotification == {n1, n2, n3, n4, n5}
MCStories == {{n1, n2, n3}, {n4, n5}}
MCBodyOf == [n \in {n1, n2} |-> "invoice"] @@ n3 :> "payment"
                @@ n4 :> "confirmation" @@ n5 :> "settlement"
MCStates == [invoice |-> <<"paid", "invoice_refunded">>, payment |-> <<"payment_refunded">>,
             confirmation |-> <<"confirmed">>, settlement |-> <<"settled">>]
MCBody == DOMAIN MCStates
MCKeyOf == [paid |-> "received", invoice_refunded |-> "refund", payment_refunded |-> "refund",
            confirmed |-> "settled card", settled |-> "settled card"]
MCEvent == DOMAIN MCKeyOf
Redelivered == Permutations({n1, n2})
=============================================================================
