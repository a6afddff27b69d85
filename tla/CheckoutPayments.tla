-------------------------- MODULE CheckoutPayments --------------------------
(***************************************************************************)
(* One payment of a client system, made through checkout sessions that the *)
(* gateway opens: CreateCheckout (first request and renewals), the webhook *)
(* branches for checkouts and standalone payments, the cron that asks for  *)
(* the state of pending checkouts (SyncCheckoutStatus, Mercado Pago only)  *)
(* and the create_checkout branch of the reconciliation cron.              *)
(*                                                                         *)
(* Four writers share the payment's row and none of them locks it.  Each   *)
(* reads it, and saves its copy later: all columns of the copy come back,  *)
(* also those that another writer has changed since.                       *)
(*                                                                         *)
(* updated_at is a stamp of its own for every write.  It is in the         *)
(* external_reference of a renewal and in the dedupe key of a delivery.    *)
(* The way of an event to its handler, and of a delivery to the client, is *)
(* WebhookPipeline's.                                                      *)
(***************************************************************************)
EXTENDS Integers, FiniteSets

CONSTANTS
    Providers,     \* gateways to start with: subset of {"asaas", "mercadopago"}
    Job,           \* create_checkout jobs that can run at once
    Session,       \* checkout ids the gateway gives out
    NoSession,
    Sync,          \* runs of the synchroniser that can overlap
    Nobody,
    MaxRequests,   \* bound: requests of the client for this payment, by provider
    MaxStamp       \* bound: writes of the payment's row

ASSUME ProviderAssumption == Providers \subseteq {"asaas", "mercadopago"}
ASSUME SessionAssumption == NoSession \notin Session
ASSUME SyncAssumption == Nobody \notin Sync
ASSUME BoundAssumption == MaxRequests \in [Providers -> Nat] /\ MaxStamp \in Nat

VARIABLES
    provider,      \* DEFAULT_GATEWAY_PROVIDER
    row,           \* the payment's row
    clock,         \* the last stamp
    ops,           \* gateway_operations: create_checkout, by external reference
    doubled,       \* history: operations resumed before another try of them was over, or
                   \* although the gateway had opened a session for them
    remote,        \* each session at the gateway
    refOf,         \* its external reference
    published,     \* history: sessions whose link the row has shown
    requests,
    job,           \* how far each create job got
    ref,           \* the external reference it uses
    got,           \* the session the gateway gave it
    inbox,         \* how far the handling of each notification got
    held,          \* the session in its copy of the row
    overtaken,     \* history: notifications whose copy was saved after a renewal
    sync,          \* how far each synchroniser got
    copy,          \* its copy of the row
    told,          \* what the gateway told it
    lock,          \* the run that holds billing_core:sync_checkouts_lock
    overlap,       \* history: runs whose lock went while they were at work
    fixing,        \* the reconciler, inside the transaction of one operation
    deliveries     \* dedupe keys of the deliveries: status and stamp

world == <<remote, refOf, published>>
jobVars == <<job, ref, got>>
notices == <<inbox, held, overtaken>>
syncVars == <<sync, copy, told, lock, overlap>>
vars == <<provider, row, clock, ops, doubled, world, requests, jobVars, notices, syncVars,
          fixing, deliveries>>

Ref == 0 .. MaxStamp     \* 0: the first checkout; s: the renewal of the row stamped s
Renewable == {"EXPIRED", "CANCELED"}
RowStatus == {"PENDING", "PAID", "REFUNDED"} \cup Renewable
Row == [status : RowStatus \cup {"ABSENT"}, session : Session \cup {NoSession},
        ref : Ref, stamp : Ref]
NoRow == [status |-> "ABSENT", session |-> NoSession, ref |-> 0, stamp |-> 0]

Operation == [status : {"ABSENT", "PENDING", "COMPLETED", "FAILED", "REQUIRES_RECONCILIATION"},
              session : Session \cup {NoSession}]

RemoteStatus == {"none", "open", "paid", "expired", "canceled", "refunded"}
CheckoutStatus == {"ACTIVE", "PAID", "EXPIRED", "CANCELED"}

\* Mutant: the date is looked at before the payments.
GetCheckoutByDate(s) == {status \in CheckoutStatus :
    \/ remote[s] = "open" /\ status = "ACTIVE"
    \/ remote[s] \in {"paid", "refunded"} /\ status \in {"PAID", "EXPIRED"}
    \/ remote[s] = "expired" /\ status = "EXPIRED"
    \/ remote[s] = "canceled" /\ status = "CANCELED"}

\* What get_checkout says of a session.  Mercado Pago derives it from the payments
\* and the date: a refund takes PAID back.
GetCheckout(s) == {status \in CheckoutStatus :
    \/ remote[s] = "open" /\ status = "ACTIVE"
    \/ remote[s] = "paid" /\ status = "PAID"
    \/ remote[s] = "expired" /\ status = "EXPIRED"
    \/ remote[s] = "canceled" /\ status = "CANCELED"
    \/ remote[s] = "refunded" /\ provider = "asaas" /\ status = "PAID"
    \/ remote[s] = "refunded" /\ provider = "mercadopago" /\ status \in {"ACTIVE", "EXPIRED"}}

\* Notifications of one session; Mercado Pago sends no end of a checkout.
Kind == {"CHECKOUT_PAID", "CHECKOUT_EXPIRED", "CHECKOUT_CANCELED", "PAYMENT_REFUNDED"}
RefundKind == "PAYMENT_REFUNDED"
TargetMixedUp(kind) == IF kind = RefundKind THEN "REFUNDED" ELSE "PAID"                  \* mutant
TargetOf(kind) ==
    IF kind = RefundKind THEN "REFUNDED"
    ELSE IF kind = "CHECKOUT_PAID" THEN "PAID"
    ELSE IF kind = "CHECKOUT_EXPIRED" THEN "EXPIRED" ELSE "CANCELED"

JobLabel == {"idle", "read", "call", "answered", "unsaved", "uncertain", "rejected"}
SyncLabel == {"idle", "listed", "asked"}

Fixing == [pc : {"idle", "read"}, ref : Ref, copy : Row, status : CheckoutStatus]
NotFixing == [pc |-> "idle", ref |-> 0, copy |-> NoRow, status |-> "ACTIVE"]

DataTypes ==
    /\ provider \in Providers
    /\ row \in Row
    /\ clock \in Ref
    /\ ops \in [Ref -> Operation]
    /\ doubled \subseteq Ref
    /\ remote \in [Session -> RemoteStatus]
    /\ refOf \in [Session -> Ref]
    /\ published \subseteq Session
    /\ requests \in 0 .. MaxRequests[provider]
    /\ deliveries \subseteq RowStatus \X Ref
ActorTypes ==
    /\ job \in [Job -> JobLabel]
    /\ ref \in [Job -> Ref]
    /\ got \in [Job -> Session \cup {NoSession}]
    /\ inbox \in [Kind \X Session -> {"none", "sent", "read", "done"}]
    /\ held \in [Kind \X Session -> Session \cup {NoSession}]
    /\ overtaken \subseteq Kind \X Session
    /\ sync \in [Sync -> SyncLabel]
    /\ copy \in [Sync -> Row]
    /\ told \in [Sync -> CheckoutStatus]
    /\ lock \in Sync \cup {Nobody}
    /\ overlap \subseteq Sync
    /\ fixing \in Fixing
TypeOK == DataTypes /\ ActorTypes

Init ==
    /\ provider \in Providers
    /\ row = NoRow
    /\ clock = 0
    /\ ops = [r \in Ref |-> [status |-> "ABSENT", session |-> NoSession]]
    /\ doubled = {}
    /\ remote = [s \in Session |-> "none"]
    /\ refOf = [s \in Session |-> 0]
    /\ published = {}
    /\ requests = 0
    /\ job = [j \in Job |-> "idle"]
    /\ ref = [j \in Job |-> 0]
    /\ got = [j \in Job |-> NoSession]
    /\ inbox = [e \in Kind \X Session |-> "none"]
    /\ held = [e \in Kind \X Session |-> NoSession]
    /\ overtaken = {}
    /\ sync = [c \in Sync |-> "idle"]
    /\ copy = [c \in Sync |-> NoRow]
    /\ told = [c \in Sync |-> "ACTIVE"]
    /\ lock = Nobody
    /\ overlap = {}
    /\ fixing = NotFixing
    /\ deliveries = {}

Tick == clock < MaxStamp /\ clock' = clock + 1
Write(r) == row' = r /\ published' = published \cup {r.session}
\* PaymentRepository.save reads the row once more and writes what the copy has
\* otherwise: all of the copy comes back.  Where the row changed between that
\* reading and the write, it keeps the columns the writer had left alone.
Saves(old, status, stamp) ==
    \E base \in {old, row} : Write([base EXCEPT !.status = status, !.stamp = stamp])
Goto(j, label) == job' = [job EXCEPT ![j] = label]
Leave(j) ==
    /\ Goto(j, "idle")
    /\ ref' = [ref EXCEPT ![j] = 0]
    /\ got' = [got EXCEPT ![j] = NoSession]
Deliver(status, stamp) == deliveries' = deliveries \cup {<<status, stamp>>}

(****************************** CreateCheckout *****************************)

\* Mutant: any payment is renewed.
BeginAnyway(j) ==
    /\ job[j] = "idle"
    /\ requests < MaxRequests[provider]
    /\ requests' = requests + 1
    /\ Goto(j, "read")
    /\ ref' = [ref EXCEPT ![j] = IF row.status = "ABSENT" THEN 0 ELSE row.stamp]
    /\ UNCHANGED <<provider, doubled, row, clock, ops, world, got, notices, syncVars, fixing,
                   deliveries>>

\* A payment that exists and is neither expired nor canceled is the answer.
Begin(j) ==
    /\ job[j] = "idle"
    /\ requests < MaxRequests[provider]
    /\ requests' = requests + 1
    /\ row.status \in Renewable \cup {"ABSENT"}
    /\ Goto(j, "read")
    /\ ref' = [ref EXCEPT ![j] = IF row.status = "ABSENT" THEN 0 ELSE row.stamp]
    /\ UNCHANGED <<provider, doubled, row, clock, ops, world, got, notices, syncVars, fixing,
                   deliveries>>

\* The reconciler holds the operation's row with FOR UPDATE.
Unlocked(r) == ~(fixing.pc = "read" /\ fixing.ref = r)

SessionsFor(r) == {s \in Session : remote[s] # "none" /\ refOf[s] = r}
UnderWay(r) == \E j \in Job : ref[j] = r /\ job[j] \notin {"idle", "read"}

\* Mutant: an operation in progress is taken up as well.
OpenAnyway(j) ==
    LET r == ref[j]
        resumed == ops[r].status = "FAILED" /\ ops[r].session = NoSession IN
    /\ job[j] = "read"
    /\ IF ops[r].status \in {"ABSENT", "PENDING"} \/ resumed
         THEN Goto(j, "call") /\ UNCHANGED <<ref, got>>
         ELSE Leave(j)
    /\ doubled' = IF resumed /\ (SessionsFor(r) # {} \/ UnderWay(r))
                  THEN doubled \cup {r} ELSE doubled
    /\ ops' = IF ops[r].status = "ABSENT"
              THEN [ops EXCEPT ![r] = [status |-> "PENDING", session |-> NoSession]] ELSE ops
    /\ UNCHANGED <<provider, row, clock, world, requests, notices, syncVars, fixing, deliveries>>

\* An operation that failed before the gateway knew it is taken up again; the
\* unique dedupe_key keeps out a second job that would insert a new one.
\* It stays FAILED meanwhile, so that another job may take it up as well.
Open(j) ==
    LET r == ref[j]
        resumed == ops[r].status = "FAILED" /\ ops[r].session = NoSession IN
    /\ job[j] = "read"
    /\ IF ops[r].status = "ABSENT" \/ resumed
         THEN Goto(j, "call") /\ UNCHANGED <<ref, got>>
         ELSE Leave(j)
    /\ doubled' = IF resumed /\ (SessionsFor(r) # {} \/ UnderWay(r))
                  THEN doubled \cup {r} ELSE doubled
    /\ ops' = IF ops[r].status = "ABSENT"
              THEN [ops EXCEPT ![r] = [status |-> "PENDING", session |-> NoSession]] ELSE ops
    /\ UNCHANGED <<provider, row, clock, world, requests, notices, syncVars, fixing, deliveries>>

\* The gateway opens a session; Mercado Pago takes the external reference as an
\* idempotency key.  The answer arrives, is lost (timeout, 5xx), or is of no use
\* (incomplete, no JSON), which passes for a rejection.
GatewayOpens(j) ==
    LET r == ref[j] IN
    /\ job[j] = "call"
    /\ \E s \in Session :
         /\ IF provider = "mercadopago" /\ SessionsFor(r) # {}
              THEN s \in SessionsFor(r) /\ UNCHANGED <<remote, refOf>>
              ELSE /\ remote[s] = "none"
                   /\ remote' = [remote EXCEPT ![s] = "open"]
                   /\ refOf' = [refOf EXCEPT ![s] = r]
         /\ \/ Goto(j, "answered") /\ got' = [got EXCEPT ![j] = s]
            \/ (\E label \in {"uncertain", "rejected"} : Goto(j, label)) /\ UNCHANGED got
    /\ UNCHANGED <<provider, doubled, row, clock, ops, published, requests, ref, notices,
                   syncVars, fixing, deliveries>>

\* It opens none: a request it rejects or never got, or an error of its own.
GatewayFails(j) ==
    /\ job[j] = "call"
    /\ \E label \in {"rejected", "uncertain"} : Goto(j, label)
    /\ UNCHANGED <<provider, doubled, row, clock, ops, world, requests, ref, got, notices,
                   syncVars, fixing, deliveries>>

\* The payment, new or renewed, and the operation in one commit.  A renewal
\* changes every column the model has.
SaveCheckout(j) ==
    LET r == ref[j]
        s == got[j] IN
    /\ job[j] = "answered"
    /\ Unlocked(r)
    /\ r = 0 => row.status = "ABSENT"
    /\ Tick
    /\ Write([status |-> "PENDING", session |-> s, ref |-> r, stamp |-> clock'])
    /\ ops' = [ops EXCEPT ![r] = [status |-> "COMPLETED", session |-> s]]
    /\ Leave(j)
    /\ UNCHANGED <<provider, doubled, remote, refOf, requests, notices, syncVars, fixing,
                   deliveries>>

\* The commit fails: another job inserted the payment first, or the database.
SaveFails(j) ==
    /\ job[j] = "answered"
    /\ Goto(j, "unsaved")
    /\ UNCHANGED <<provider, doubled, row, clock, ops, world, requests, ref, got, notices,
                   syncVars, fixing, deliveries>>

\* After a rollback the operation is written as this job knows it, whatever
\* another one made of it.
RecordFailure(j) ==
    LET r == ref[j] IN
    /\ job[j] \in {"unsaved", "uncertain", "rejected"}
    /\ Unlocked(r)
    /\ ops' = [ops EXCEPT ![r] =
                [status |-> IF job[j] = "rejected" THEN "FAILED" ELSE "REQUIRES_RECONCILIATION",
                 session |-> got[j]]]
    /\ Leave(j)
    /\ UNCHANGED <<provider, doubled, row, clock, world, requests, notices, syncVars, fixing,
                   deliveries>>

\* The worker dies; what it had not committed is gone.
Crash(j) ==
    /\ job[j] # "idle"
    /\ Leave(j)
    /\ UNCHANGED <<provider, doubled, row, clock, ops, world, requests, notices, syncVars,
                   fixing, deliveries>>

(******************************* The gateway *******************************)

Notify(kind, s) == inbox' = [inbox EXCEPT ![<<kind, s>>] = "sent"]

\* The buyer pays through the link the payment's row has shown.
Pay(s) ==
    /\ remote[s] = "open"
    /\ s \in published
    /\ remote' = [remote EXCEPT ![s] = "paid"]
    /\ Notify("CHECKOUT_PAID", s)
    /\ UNCHANGED <<provider, doubled, row, clock, ops, refOf, published, requests, jobVars, held,
                   overtaken, syncVars, fixing, deliveries>>

\* A session ends unpaid, for good.
End(s) ==
    /\ remote[s] = "open"
    /\ \/ /\ provider = "mercadopago"
          /\ remote' = [remote EXCEPT ![s] = "expired"]
          /\ UNCHANGED inbox
       \/ /\ provider = "asaas"
          /\ remote' = [remote EXCEPT ![s] = "expired"]
          /\ Notify("CHECKOUT_EXPIRED", s)
       \/ /\ provider = "asaas"
          /\ remote' = [remote EXCEPT ![s] = "canceled"]
          /\ Notify("CHECKOUT_CANCELED", s)
    /\ UNCHANGED <<provider, doubled, row, clock, ops, refOf, published, requests, jobVars, held,
                   overtaken, syncVars, fixing, deliveries>>

Refund(s) ==
    /\ remote[s] = "paid"
    /\ remote' = [remote EXCEPT ![s] = "refunded"]
    /\ Notify("PAYMENT_REFUNDED", s)
    /\ UNCHANGED <<provider, doubled, row, clock, ops, refOf, published, requests, jobVars, held,
                   overtaken, syncVars, fixing, deliveries>>

(***************************** ProcessWebhook ******************************)

\* By the checkout's id, then by its external reference.
Finds(s) == row.status # "ABSENT" /\ (row.session = s \/ row.ref = refOf[s])

\* Where the event changes nothing it is only marked as processed: no payment
\* is found, it has the status already, or a terminal one; a refund wants a
\* payment that was paid.
Applies(kind) == row.status = IF kind = RefundKind THEN "PAID" ELSE "PENDING"
ReadPayment(kind, s) ==
    LET applies == Finds(s) /\ Applies(kind) IN
    /\ inbox[<<kind, s>>] = "sent"
    /\ inbox' = [inbox EXCEPT ![<<kind, s>>] = IF applies THEN "read" ELSE "done"]
    /\ held' = IF applies THEN [held EXCEPT ![<<kind, s>>] = row.session] ELSE held
    /\ UNCHANGED <<provider, doubled, row, clock, ops, world, requests, jobVars, overtaken,
                   syncVars, fixing, deliveries>>

\* The copy names the session, and by its reference and link, the row had when it was
\* read.  (A refund also puts the gateway's payment id in place of the session's;
\* nothing reads it any more.)
SavePayment(kind, s) ==
    LET c == held[<<kind, s>>] IN
    /\ inbox[<<kind, s>>] = "read"
    /\ inbox' = [inbox EXCEPT ![<<kind, s>>] = "done"]
    /\ held' = [held EXCEPT ![<<kind, s>>] = NoSession]
    /\ overtaken' = IF row.session = c THEN overtaken ELSE overtaken \cup {<<kind, s>>}
    /\ Tick
    /\ Saves([row EXCEPT !.session = c, !.ref = refOf[c]], TargetOf(kind), clock')
    /\ Deliver(TargetOf(kind), clock')
    /\ UNCHANGED <<provider, doubled, ops, remote, refOf, requests, jobVars, syncVars, fixing>>

(****************************** SyncCheckoutStatus **************************)

\* list_pending_checkouts, in a session that ends before the payments are asked for.
SyncLists(c) ==
    /\ sync[c] = "idle"
    /\ lock = Nobody
    /\ row.status = "PENDING"
    /\ provider = "mercadopago"
    /\ lock' = c
    /\ sync' = [sync EXCEPT ![c] = "listed"]
    /\ copy' = [copy EXCEPT ![c] = row]
    /\ UNCHANGED <<provider, doubled, row, clock, ops, world, requests, jobVars, notices, told,
                   overlap, fixing, deliveries>>

\* The lock is deleted by its name, whoever holds it now.
SyncEnds(c) ==
    /\ sync' = [sync EXCEPT ![c] = "idle"]
    /\ copy' = [copy EXCEPT ![c] = NoRow]
    /\ told' = [told EXCEPT ![c] = "ACTIVE"]
    /\ overlap' = IF lock \in {c, Nobody} THEN overlap ELSE overlap \cup {lock}
    /\ lock' = Nobody

SyncAsks(c) ==
    /\ sync[c] = "listed"
    /\ \E status \in GetCheckout(copy[c].session) :
         IF status = "ACTIVE" THEN SyncEnds(c)
         ELSE /\ sync' = [sync EXCEPT ![c] = "asked"]
              /\ told' = [told EXCEPT ![c] = status]
              /\ UNCHANGED <<copy, lock, overlap>>
    /\ UNCHANGED <<provider, doubled, row, clock, ops, world, requests, jobVars, notices, fixing,
                   deliveries>>

SyncSaves(c) ==
    /\ sync[c] = "asked"
    /\ Tick
    /\ Saves(copy[c], told[c], clock')
    /\ Deliver(told[c], clock')
    /\ SyncEnds(c)
    /\ UNCHANGED <<provider, doubled, ops, remote, refOf, requests, jobVars, notices, fixing>>

\* The gateway or the database fails: logged, and left to the next run.
SyncFails(c) ==
    /\ sync[c] # "idle"
    /\ SyncEnds(c)
    /\ UNCHANGED <<provider, doubled, row, clock, ops, world, requests, jobVars, notices, fixing,
                   deliveries>>

\* 240 seconds, for a run of up to 100 payments; it also frees the lock of a
\* run that died.
LockExpires ==
    /\ lock # Nobody
    /\ lock' = Nobody
    /\ overlap' = IF sync[lock] = "idle" THEN overlap ELSE overlap \cup {lock}
    /\ UNCHANGED <<provider, doubled, row, clock, ops, world, requests, jobVars, notices, sync,
                   copy, told, fixing, deliveries>>

(************** reconcile_gateway_operations: create_checkout **************)

\* An operation without a session is left to a human.
ReconcileReads(r) ==
    /\ fixing.pc = "idle"
    /\ ops[r].status = "REQUIRES_RECONCILIATION" /\ ops[r].session # NoSession
    /\ \E status \in GetCheckout(ops[r].session) :
         fixing' = [pc |-> "read", ref |-> r, copy |-> row, status |-> status]
    /\ UNCHANGED <<provider, doubled, row, clock, ops, world, requests, jobVars, notices,
                   syncVars, deliveries>>

LocalStatus(status) == IF status = "ACTIVE" THEN "PENDING" ELSE status

\* The payment is created, or renewed, with the session of the operation ...
Adopts(f) ==
    \/ f.copy.status = "ABSENT"
    \/ f.copy.ref # f.ref /\ f.copy.status \in Renewable
\* ... and takes its status, where mark_as_paid, _expired or _canceled allows it.
Takes(f) == Adopts(f) \/ f.copy.status # LocalStatus(f.status)
Allowed(f) == Takes(f) => Adopts(f) \/ f.status = "ACTIVE" \/ f.copy.status = "PENDING"
Changes(f) == Adopts(f) \/ (Takes(f) /\ f.status # "ACTIVE")

\* A copy that takes nothing but its own status (the session is open) is saved too.
SavesCopy(f) ==
    \/ /\ Adopts(f)
       /\ Write([status |-> LocalStatus(f.status), session |-> ops[f.ref].session,
                 ref |-> f.ref, stamp |-> clock'])
    \/ /\ ~Adopts(f) /\ Takes(f)
       /\ IF Changes(f) THEN Saves(f.copy, LocalStatus(f.status), clock')
          ELSE \E base \in {f.copy, row} : Write(base)
    \/ /\ ~Takes(f)
       /\ UNCHANGED <<row, published>>

ReconcileSaves ==
    LET f == fixing IN
    /\ f.pc = "read"
    /\ Allowed(f)
    /\ f.copy.status = "ABSENT" => row.status = "ABSENT"
    /\ IF Changes(f) THEN Tick ELSE UNCHANGED clock
    /\ SavesCopy(f)
    /\ IF f.status = "ACTIVE" THEN UNCHANGED deliveries
       ELSE Deliver(LocalStatus(f.status), IF Takes(f) THEN clock' ELSE f.copy.stamp)
    /\ ops' = [ops EXCEPT ![f.ref] = [status |-> "COMPLETED", session |-> ops[f.ref].session]]
    /\ fixing' = NotFixing
    /\ UNCHANGED <<provider, doubled, remote, refOf, requests, jobVars, notices, syncVars>>

\* Refused (Allowed), failed or died: rolled back, and tried again by a later run.
ReconcileFails ==
    /\ fixing.pc = "read"
    /\ fixing' = NotFixing
    /\ UNCHANGED <<provider, doubled, row, clock, ops, world, requests, jobVars, notices,
                   syncVars, deliveries>>

(****************************** The next step ******************************)

JobStep(j) ==
    \/ Begin(j) \/ Open(j) \/ GatewayOpens(j) \/ GatewayFails(j)
    \/ SaveCheckout(j) \/ SaveFails(j) \/ RecordFailure(j) \/ Crash(j)
SyncStep(c) == SyncLists(c) \/ SyncAsks(c) \/ SyncSaves(c) \/ SyncFails(c)

Next ==
    \/ \E j \in Job : JobStep(j)
    \/ \E s \in Session : Pay(s) \/ End(s) \/ Refund(s)
    \/ \E kind \in Kind, s \in Session : ReadPayment(kind, s) \/ SavePayment(kind, s)
    \/ \E c \in Sync : SyncStep(c)
    \/ LockExpires
    \/ \E r \in Ref : ReconcileReads(r)
    \/ ReconcileSaves
    \/ ReconcileFails

Spec == Init /\ [][Next]_vars

(******************************** Properties *******************************)

Payable(s) == s \in published /\ remote[s] \in {"open", "paid"}
WasPaid(s) == remote[s] \in {"paid", "refunded"}
SomePaid == \E s \in Session : WasPaid(s)
Refunded == \E s \in Session : remote[s] = "refunded"

\* None of the three things happened that the writers do not survive: a failed operation
\* resumed twice, a synchroniser that outlives its lock, and a notification saving a
\* copy of the row that it read before the payment was refunded and renewed.
Calm == doubled = {} /\ overlap = {} /\ overtaken = {}

\* The row says paid or refunded, and the client is told so, only if a session of
\* this payment was paid, whichever writer wrote last and however old its
\* reading and its copy of the row were.
PaidWasPaid ==
    row.status \in {"PAID", "REFUNDED"} \/ (\E d \in deliveries : d[1] = "PAID")
        => SomePaid

\* What PaidWasPaid rests on: a payment that exists names a session, and so does
\* whatever carries a session on to the row; and every word that a payment was
\* made, on its way from the gateway to the row, is of a session that was paid.
SessionsNamed ==
    /\ row.status # "ABSENT" => row.session \in Session
    /\ \A j \in Job : job[j] \in {"answered", "unsaved"} => got[j] \in Session
    /\ \A c \in Sync : sync[c] # "idle" =>
         row.status # "ABSENT" /\ copy[c].session \in Session
    /\ fixing.pc = "read" =>
         ops[fixing.ref].status # "ABSENT" /\ ops[fixing.ref].session \in Session
    /\ fixing.copy.status # "ABSENT" => row.status # "ABSENT" /\ fixing.copy.session \in Session
ReadOfTheRow ==
    \A s \in Session, kind \in Kind : inbox[<<kind, s>>] = "read" =>
        row.status # "ABSENT" /\ held[<<kind, s>>] \in Session
WordOfPayment ==
    /\ \A s \in Session, kind \in {"CHECKOUT_PAID", RefundKind} :
         inbox[<<kind, s>>] # "none" => WasPaid(s)
    /\ \A c \in Sync : sync[c] = "asked" => told[c] # "ACTIVE" /\ (told[c] = "PAID" => SomePaid)
    /\ fixing.pc = "read" /\ (fixing.status = "PAID" \/ fixing.copy.status \in {"PAID", "REFUNDED"})
         => SomePaid
PaidInvariant == TypeOK /\ SessionsNamed /\ ReadOfTheRow /\ WordOfPayment /\ PaidWasPaid

\* The only session a buyer can pay, or has paid, is the one the payment's row
\* names: no payment can be made twice, and none for a session that a renewal
\* or a stale write has pushed out of the row.
OnePayable == Calm => \A s \in Session : Payable(s) => row.session = s

\* Once the notification of a payment has been handled, the row says so and goes
\* on saying so.
PaymentIsRecorded == Calm /\ ~Refunded =>
    \A s \in Session : inbox[<<"CHECKOUT_PAID", s>>] = "done" => row.status = "PAID"

\* No step takes PAID back before the money goes back.
PaidIsKept == [][Calm /\ ~Refunded /\ row.status = "PAID" => row'.status = "PAID"]_vars

(************* Why the writers do no harm as long as they are Calm **********)

\* A session that nobody can pay any more, and whose payment nobody keeps.
Dead(s) == remote[s] \in {"expired", "canceled", "refunded"}
Known(s) == remote[s] # "none"
Trying(j) == job[j] \notin {"idle", "read"}

\* Two tries of an operation are never under way at once, and one is only made if
\* the gateway has opened no session for it: a reference has one session.
OneTry ==
    /\ \A j \in Job : Trying(j) =>
         ops[ref[j]].status \in {"PENDING", "FAILED"} /\ ops[ref[j]].session = NoSession
    /\ \A i, j \in Job : Trying(i) /\ Trying(j) /\ ref[i] = ref[j] => i = j
    /\ \A j \in Job, s \in Session : job[j] = "call" /\ Known(s) => refOf[s] # ref[j]
    /\ \A s \in Session : Known(s) => ops[refOf[s]].status # "ABSENT"
    /\ \A s, t \in Session : Known(s) /\ Known(t) /\ refOf[s] = refOf[t] => s = t

\* The row, the jobs and the operations name sessions of their references.
SessionsMatch ==
    /\ row.status # "ABSENT" => Known(row.session) /\ refOf[row.session] = row.ref
    /\ \A j \in Job : IF job[j] \in {"answered", "unsaved"}
                      THEN Known(got[j]) /\ refOf[got[j]] = ref[j] ELSE got[j] = NoSession
    /\ \A r \in Ref : ops[r].session # NoSession =>
         Known(ops[r].session) /\ refOf[ops[r].session] = r
    /\ \A s \in Session : (WasPaid(s) => s \in published) /\ (s \in published => Known(s))

\* A reference is the stamp of a row that was there before.
StampsGrow ==
    /\ row.stamp <= clock
    /\ row.status # "ABSENT" => row.ref < row.stamp
    /\ \A j \in Job : ref[j] <= clock
    /\ \A r \in Ref : ops[r].status # "ABSENT" => r <= clock

\* An operation that may still bring a session to the row ...
ToReconcile(r) == ops[r].status = "REQUIRES_RECONCILIATION" /\ ops[r].session # NoSession
Startable(r) ==
    ops[r].status = "ABSENT" \/ (ops[r].status = "FAILED" /\ ops[r].session = NoSession)
Unfinished(r) ==
    \/ ToReconcile(r)
    \/ \E j \in Job : ref[j] = r /\ (Trying(j) \/ (job[j] = "read" /\ Startable(r)))

\* ... and a row that it may replace: none, or one whose session is dead.
Replaceable(p, r) ==
    IF r = 0 THEN p.status = "ABSENT"
    ELSE /\ p.status \in Renewable \cup {"PAID", "REFUNDED"}
         /\ p.status \in Renewable => p.stamp = r
         /\ provider = "asaas" => p.status \in Renewable
         /\ p.ref # r
         /\ Dead(p.session)

OneRenewal ==
    /\ \A r, q \in Ref : Unfinished(r) /\ Unfinished(q) => r = q
    /\ \A r \in Ref : Unfinished(r) => Replaceable(row, r)
    /\ row.status = "ABSENT" => published = {}
    /\ row.status \in Renewable => Dead(row.session)

\* What the reconciler has read is such an operation, and such a row; if it saves its
\* copy it brings back the session the row still names.
OneRepair == fixing.pc = "read" =>
    /\ ToReconcile(fixing.ref)
    /\ Replaceable(fixing.copy, fixing.ref)
    /\ fixing.copy.status # "ABSENT" =>
         /\ fixing.copy.session = row.session /\ fixing.copy.ref = row.ref
         /\ fixing.copy.ref < fixing.copy.stamp /\ fixing.copy.stamp <= clock
    /\ fixing.copy.status \in {"PAID", "REFUNDED"} => Refunded
    /\ fixing.status \in Renewable => Dead(ops[fixing.ref].session)
    /\ fixing.status = "PAID" => WasPaid(ops[fixing.ref].session)

\* A synchroniser is alone, and the row still names the session it asks for.
OneSync == \A c \in Sync : sync[c] # "idle" =>
    /\ lock = c
    /\ provider = "mercadopago"
    /\ row.session = copy[c].session /\ row.ref = copy[c].ref
    /\ row.status \in {"PENDING", "PAID", "REFUNDED"}
    /\ \A r \in Ref : ~Unfinished(r)
    /\ sync[c] = "asked" => IF told[c] = "PAID" THEN WasPaid(copy[c].session)
                                                ELSE Dead(copy[c].session)

\* What a notification says of its session, and, once it has been read, of the row.
\* (A refund at Mercado Pago lets a row be renewed that a notification has read.)
Notified == \A s \in Session :
    /\ inbox[<<"CHECKOUT_PAID", s>>] # "none" => WasPaid(s)
    /\ inbox[<<RefundKind, s>>] # "none" => remote[s] = "refunded"
    /\ inbox[<<"CHECKOUT_EXPIRED", s>>] # "none" => provider = "asaas" /\ remote[s] = "expired"
    /\ inbox[<<"CHECKOUT_CANCELED", s>>] # "none" => provider = "asaas" /\ remote[s] = "canceled"
NotifiedOfTheRow == \A s \in Session, kind \in Kind : inbox[<<kind, s>>] = "read" =>
    IF provider = "asaas"
    THEN row.session = s /\ row.status = IF kind = RefundKind THEN "PAID" ELSE "PENDING"
    ELSE Refunded \/ (row.session = s /\ row.status \in {"PENDING", "PAID"})

PaidIsTrue ==
    /\ row.status = "REFUNDED" => Refunded
    /\ row.status = "PAID" /\ ~Refunded => remote[row.session] = "paid"

CalmInvariant ==
    Calm => /\ OneTry /\ SessionsMatch /\ StampsGrow
            /\ OneRenewal /\ OneRepair /\ OneSync
            /\ Notified /\ NotifiedOfTheRow /\ PaidIsTrue
            /\ OnePayable /\ PaymentIsRecorded

\* All that is needed to know that nothing is paid twice, or lost.
PaymentInvariant == PaidInvariant /\ CalmInvariant

\* 2026-07-20-payments-asaas-checkout-design.md:190: a payment, the cancellation or
\* the expiration of a checkout produces at most one internal webhook.
PaidNotifiedOnce ==
    Cardinality({d \in deliveries : d[1] = "PAID"}) <= Cardinality({s \in Session : WasPaid(s)})
=============================================================================
