------------------------- MODULE MCCheckoutPayments -------------------------
EXTENDS CheckoutPayments, TLC

\* A second session of one reference takes a third one to do harm at Asaas; at
\* Mercado Pago a reference has one session, and the synchronisers do the harm.
MCMaxRequests == ("asaas" :> 4) @@ ("mercadopago" :> 3)
MCOneProvider == ("mercadopago" :> 2)

\* The histories are read by Calm alone, and only grow: states that differ in nothing
\* else have the same future.
MCView == <<provider, row, clock, ops, world, requests, jobVars, inbox, held, sync, copy,
            told, lock, fixing, deliveries, Calm>>

Symmetric == Permutations(Job) \cup Permutations(Session) \cup Permutations(Sync)
=============================================================================
