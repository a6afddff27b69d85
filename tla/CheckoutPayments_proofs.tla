----------------------- MODULE CheckoutPayments_proofs -----------------------
(***************************************************************************)
(* A payment is recorded, and announced to the client, as paid only if the *)
(* gateway was paid: for every number of jobs, sessions, synchronisers and *)
(* requests, whatever overlaps, crashes or is lost.                        *)
(*                                                                         *)
(* PaidInvariant is inductive.  PaidWasPaid alone is not: the word of a    *)
(* payment travels in notifications, in what a synchroniser was told and   *)
(* in what the reconciler read, and each of them may reach the row late    *)
(* (WordOfPayment); and asking the gateway says something of a session     *)
(* only where a session is named (SessionsNamed).                          *)
(*                                                                         *)
(* As long as the writers are Calm, no session can be paid but the one the *)
(* row names, and no payment is lost (CalmInvariant):                      *)
(*   - an operation is tried once at a time, and only if the gateway has   *)
(*     opened nothing for it, so that a reference has one session (OneTry);*)
(*   - one operation at most is on its way to the row, and the row it will *)
(*     replace names a dead session (OneRenewal), because the operation is *)
(*     the renewal of that very row: its reference is the row's stamp, and *)
(*     a stamp is never given twice (StampsGrow);                          *)
(*   - the copies that the reconciler (OneRepair), a synchroniser that has *)
(*     its lock (OneSync) and a notification (NothingOvertaken) save name  *)
(*     the session the row names; the reconciler may bring back an older   *)
(*     state of it, but only where money went back;                        *)
(*   - what a notification has read of the row is still so, unless money   *)
(*     went back (NotifiedOfTheRow).                                       *)
(***************************************************************************)
EXTENDS CheckoutPayments, TLAPS

USE DEF world, jobVars, notices, syncVars

\* The jobs and their operations have the types of TypeOK.
LEMMA JobTypes ==
    ASSUME TypeOK
    PROVE  /\ job \in [Job -> JobLabel] /\ ref \in [Job -> Ref]
           /\ got \in [Job -> Session \cup {NoSession}]
           /\ ops \in [Ref -> Operation]
BY DEF TypeOK, DataTypes, ActorTypes

\* The types of the row.
LEMMA RowTypes ==
    ASSUME TypeOK
    PROVE  /\ row \in Row /\ row.status \in RowStatus \cup {"ABSENT"}
           /\ row.session \in Session \cup {NoSession} /\ row.ref \in Ref /\ row.stamp \in Ref
           /\ clock \in Ref
BY DEF TypeOK, DataTypes, Row

\* The types of the gateway and its notifications.
LEMMA GatewayTypes ==
    ASSUME TypeOK
    PROVE  /\ remote \in [Session -> RemoteStatus] /\ refOf \in [Session -> Ref]
           /\ inbox \in [Kind \X Session -> {"none", "sent", "read", "done"}]
           /\ held \in [Kind \X Session -> Session \cup {NoSession}]
           /\ overtaken \subseteq Kind \X Session
           /\ published \subseteq Session /\ provider \in {"asaas", "mercadopago"}
BY ProviderAssumption DEF TypeOK, DataTypes, ActorTypes

\* The types of the synchronisers and the reconciler.
LEMMA WriterTypes ==
    ASSUME TypeOK
    PROVE  /\ sync \in [Sync -> SyncLabel] /\ copy \in [Sync -> Row]
           /\ told \in [Sync -> CheckoutStatus] /\ lock \in Sync \cup {Nobody}
           /\ fixing \in Fixing /\ fixing.ref \in Ref /\ fixing.copy \in Row
           /\ fixing.status \in CheckoutStatus
BY DEF TypeOK, ActorTypes, Fixing

\* A reference is a number: a stamp, or 0.
LEMMA RefIsNat == Ref \subseteq Nat /\ 0 \in Ref
BY BoundAssumption DEF Ref

(***************************** What a step does *****************************)

\* Only job j moves, only operation r is written, job j is over.
SameJobs(j) == \A i \in Job \ {j} : job'[i] = job[i] /\ ref'[i] = ref[i] /\ got'[i] = got[i]
SameOps(r) == \A q \in Ref \ {r} : ops'[q] = ops[q]
Left(j) == SameJobs(j) /\ job'[j] = "idle" /\ ref'[j] = 0 /\ got'[j] = NoSession

\* A job that is over holds nothing.
LEMMA LeaveDoes == ASSUME TypeOK, NEW j \in Job, Leave(j) PROVE Left(j)
BY JobTypes DEF Leave, Goto, Left, SameJobs

\* A job that goes on leaves the other jobs alone.
LEMMA GotoDoes ==
    ASSUME TypeOK, NEW j \in Job, NEW label, Goto(j, label)
    PROVE  job'[j] = label /\ \A i \in Job \ {j} : job'[i] = job[i]
BY JobTypes DEF Goto

\* A request makes a job of the row it has read.
LEMMA BeginDoes ==
    ASSUME TypeOK, NEW j \in Job, Begin(j)
    PROVE  /\ UNCHANGED <<provider, doubled, row, clock, ops, remote, refOf, published, inbox,
                          sync, copy, told, lock, overlap, fixing>>
           /\ SameJobs(j) /\ job[j] = "idle" /\ job'[j] = "read" /\ got'[j] = got[j]
           /\ row.status \in Renewable \cup {"ABSENT"}
           /\ ref'[j] = IF row.status = "ABSENT" THEN 0 ELSE row.stamp
BY JobTypes, GotoDoes DEF Begin, SameJobs

\* A job takes an operation up, new or failed, or leaves.
LEMMA OpenDoes ==
    ASSUME TypeOK, NEW j \in Job, Open(j)
    PROVE  /\ UNCHANGED <<provider, row, clock, remote, refOf, published, inbox, sync, copy, told,
                          lock, overlap, fixing>>
           /\ job[j] = "read" /\ SameOps(ref[j]) /\ doubled \subseteq doubled'
           /\ \/ /\ Left(j) /\ ops' = ops
              \/ /\ SameJobs(j) /\ job'[j] = "call" /\ ref'[j] = ref[j] /\ got'[j] = got[j]
                 /\ Startable(ref[j])
                 /\ \/ /\ ops[ref[j]].status = "ABSENT" /\ ops'[ref[j]].status = "PENDING"
                       /\ ops'[ref[j]].session = NoSession
                    \/ /\ ops[ref[j]].status # "ABSENT" /\ ops' = ops
                       /\ \/ doubled' # {}
                          \/ SessionsFor(ref[j]) = {} /\ ~UnderWay(ref[j])
<1>1. /\ UNCHANGED <<provider, row, clock, remote, refOf, published, inbox, sync, copy, told,
                     lock, overlap, fixing>>
      /\ job[j] = "read" /\ doubled \subseteq doubled'
  BY DEF Open
<1>2. /\ ref[j] \in Ref
      /\ ops[ref[j]].status = "ABSENT" =>
           ops' = [ops EXCEPT ![ref[j]] = [status |-> "PENDING", session |-> NoSession]]
      /\ ops[ref[j]].status # "ABSENT" => ops' = ops
  BY JobTypes DEF Open
<1>3. /\ SameOps(ref[j])
      /\ ops[ref[j]].status = "ABSENT" =>
           ops'[ref[j]].status = "PENDING" /\ ops'[ref[j]].session = NoSession
  BY <1>2, JobTypes DEF SameOps
<1>4. CASE Startable(ref[j])
  <2>1. Goto(j, "call") /\ UNCHANGED <<ref, got>>
    BY <1>4 DEF Open, Startable
  <2>2. SameJobs(j) /\ job'[j] = "call" /\ ref'[j] = ref[j] /\ got'[j] = got[j]
    BY <2>1, GotoDoes DEF SameJobs
  <2>3. ops[ref[j]].status # "ABSENT" =>
          doubled' # {} \/ (SessionsFor(ref[j]) = {} /\ ~UnderWay(ref[j]))
    BY <1>4 DEF Open, Startable
  <2> QED
    BY <1>1, <1>2, <1>3, <1>4, <2>2, <2>3
<1>5. CASE ~Startable(ref[j])
  <2>1. Leave(j) /\ ops[ref[j]].status # "ABSENT"
    BY <1>5 DEF Open, Startable
  <2> QED
    BY <1>1, <1>2, <1>3, <2>1, LeaveDoes
<1> QED
  BY <1>4, <1>5

\* A session is opened, or the one of this reference given again.
LEMMA GatewayOpensDoes ==
    ASSUME TypeOK, NEW j \in Job, GatewayOpens(j)
    PROVE  /\ UNCHANGED <<provider, doubled, row, clock, ops, published, inbox, sync, copy, told,
                          lock, overlap, fixing>>
           /\ job[j] = "call" /\ SameJobs(j) /\ ref'[j] = ref[j]
           /\ \E s \in Session :
                /\ \/ /\ SessionsFor(ref[j]) # {} /\ s \in SessionsFor(ref[j])
                      /\ UNCHANGED <<remote, refOf>>
                   \/ /\ remote[s] = "none" /\ remote'[s] = "open" /\ refOf'[s] = ref[j]
                      /\ \A t \in Session \ {s} : remote'[t] = remote[t] /\ refOf'[t] = refOf[t]
                /\ \/ job'[j] = "answered" /\ got'[j] = s
                   \/ job'[j] \in {"uncertain", "rejected"} /\ got'[j] = got[j]
<1>1. /\ UNCHANGED <<provider, doubled, row, clock, ops, published, inbox, sync, copy, told,
                          lock, overlap, fixing>>
      /\ job[j] = "call" /\ ref' = ref
  BY DEF GatewayOpens
<1>2. PICK s \in Session :
         /\ IF provider = "mercadopago" /\ SessionsFor(ref[j]) # {}
              THEN s \in SessionsFor(ref[j]) /\ UNCHANGED <<remote, refOf>>
              ELSE /\ remote[s] = "none"
                   /\ remote' = [remote EXCEPT ![s] = "open"]
                   /\ refOf' = [refOf EXCEPT ![s] = ref[j]]
         /\ \/ Goto(j, "answered") /\ got' = [got EXCEPT ![j] = s]
            \/ (\E label \in {"uncertain", "rejected"} : Goto(j, label)) /\ UNCHANGED got
  BY DEF GatewayOpens
<1>3. \/ SessionsFor(ref[j]) # {} /\ s \in SessionsFor(ref[j]) /\ UNCHANGED <<remote, refOf>>
      \/ /\ remote[s] = "none" /\ remote'[s] = "open" /\ refOf'[s] = ref[j]
         /\ \A t \in Session \ {s} : remote'[t] = remote[t] /\ refOf'[t] = refOf[t]
  BY <1>2, GatewayTypes
<1>4. /\ SameJobs(j)
      /\ \/ job'[j] = "answered" /\ got'[j] = s
         \/ job'[j] \in {"uncertain", "rejected"} /\ got'[j] = got[j]
  BY <1>1, <1>2, JobTypes, GotoDoes DEF SameJobs
<1> QED
  BY <1>1, <1>3, <1>4

\* The gateway opens no session, or the answer is not saved.
LEMMA JobMovesDoes ==
    ASSUME TypeOK, NEW j \in Job, GatewayFails(j) \/ SaveFails(j)
    PROVE  /\ UNCHANGED <<provider, doubled, row, clock, ops, remote, refOf, published, inbox,
                          sync, copy, told, lock, overlap, fixing>>
           /\ SameJobs(j) /\ ref'[j] = ref[j] /\ got'[j] = got[j]
           /\ \/ job[j] = "call" /\ job'[j] \in {"rejected", "uncertain"}
              \/ job[j] = "answered" /\ job'[j] = "unsaved"
BY JobTypes, GotoDoes DEF GatewayFails, SaveFails, SameJobs

\* A job that dies leaves everything else alone.
LEMMA CrashDoes ==
    ASSUME TypeOK, NEW j \in Job, Crash(j)
    PROVE  /\ UNCHANGED <<provider, doubled, row, clock, ops, remote, refOf, published, inbox,
                          sync, copy, told, lock, overlap, fixing>>
           /\ Left(j)
BY LeaveDoes DEF Crash

\* A job that failed writes its own operation.
LEMMA RecordFailureDoes ==
    ASSUME TypeOK, NEW j \in Job, RecordFailure(j)
    PROVE  /\ UNCHANGED <<provider, doubled, row, clock, remote, refOf, published, inbox, sync,
                          copy, told, lock, overlap, fixing>>
           /\ job[j] \in {"unsaved", "uncertain", "rejected"} /\ Unlocked(ref[j])
           /\ Left(j) /\ SameOps(ref[j])
           /\ ops'[ref[j]].status =
                IF job[j] = "rejected" THEN "FAILED" ELSE "REQUIRES_RECONCILIATION"
           /\ ops'[ref[j]].session = got[j]
<1>1. ref[j] \in Ref /\ Leave(j)
  BY JobTypes DEF RecordFailure
<1>2. ops' = [ops EXCEPT ![ref[j]] =
                [status |-> IF job[j] = "rejected" THEN "FAILED" ELSE "REQUIRES_RECONCILIATION",
                 session |-> got[j]]]
  BY DEF RecordFailure
<1>3. /\ SameOps(ref[j])
      /\ ops'[ref[j]].status = IF job[j] = "rejected" THEN "FAILED" ELSE "REQUIRES_RECONCILIATION"
      /\ ops'[ref[j]].session = got[j]
  BY <1>1, <1>2, JobTypes DEF SameOps
<1> QED
  BY <1>1, <1>3, LeaveDoes DEF RecordFailure

\* A job that was answered writes the row and its own operation.
LEMMA SaveCheckoutDoes ==
    ASSUME TypeOK, NEW j \in Job, SaveCheckout(j)
    PROVE  /\ UNCHANGED <<provider, doubled, remote, refOf, inbox, sync, copy, told, lock,
                          overlap, fixing>>
           /\ job[j] = "answered" /\ Unlocked(ref[j]) /\ (ref[j] = 0 => row.status = "ABSENT")
           /\ Left(j) /\ SameOps(ref[j])
           /\ ops'[ref[j]].status = "COMPLETED" /\ ops'[ref[j]].session = got[j]
           /\ clock' = clock + 1
           /\ row'.status = "PENDING" /\ row'.session = got[j] /\ row'.ref = ref[j]
           /\ row'.stamp = clock'
           /\ published' = published \cup {got[j]}
<1>1. ref[j] \in Ref /\ Leave(j)
  BY JobTypes DEF SaveCheckout
<1>2. /\ ops' = [ops EXCEPT ![ref[j]] = [status |-> "COMPLETED", session |-> got[j]]]
      /\ row' = [status |-> "PENDING", session |-> got[j], ref |-> ref[j], stamp |-> clock']
      /\ published' = published \cup {row'.session}
      /\ clock' = clock + 1
  BY DEF SaveCheckout, Write, Tick
<1>3. /\ SameOps(ref[j])
      /\ ops'[ref[j]].status = "COMPLETED" /\ ops'[ref[j]].session = got[j]
  BY <1>1, <1>2, JobTypes DEF SameOps
<1>4. /\ row'.status = "PENDING" /\ row'.session = got[j] /\ row'.ref = ref[j]
      /\ row'.stamp = clock'
      /\ published' = published \cup {got[j]}
  BY <1>2
<1> QED
  BY <1>1, <1>2, <1>3, <1>4, LeaveDoes DEF SaveCheckout

\* The gateway moves one session on and, at most, sends one notification that is true.
LEMMA GatewayDoes ==
    ASSUME TypeOK, NEW s \in Session, Pay(s) \/ End(s) \/ Refund(s)
    PROVE  /\ UNCHANGED <<provider, doubled, row, clock, ops, refOf, published, job, ref, got,
                          held, sync, copy, told, lock, overlap, fixing>>
           /\ \A t \in Session \ {s} : remote'[t] = remote[t]
           /\ \/ remote[s] = "open" /\ s \in published /\ remote'[s] = "paid"
              \/ remote[s] = "open" /\ remote'[s] \in {"expired", "canceled"}
              \/ remote[s] = "paid" /\ remote'[s] = "refunded"
           /\ \A t \in Session, kind \in Kind :
                inbox'[<<kind, t>>] # inbox[<<kind, t>>] =>
                  /\ t = s /\ inbox'[<<kind, t>>] = "sent"
                  /\ kind = "CHECKOUT_PAID" => remote'[s] = "paid"
                  /\ kind = RefundKind => remote'[s] = "refunded"
                  /\ kind = "CHECKOUT_EXPIRED" => provider = "asaas" /\ remote'[s] = "expired"
                  /\ kind = "CHECKOUT_CANCELED" => provider = "asaas" /\ remote'[s] = "canceled"
<1>1. UNCHANGED <<provider, doubled, row, clock, ops, refOf, published, job, ref, got, held,
                  sync, copy, told, lock, overlap, fixing>>
  BY DEF Pay, End, Refund
<1>2. PICK status \in RemoteStatus : remote' = [remote EXCEPT ![s] = status]
  BY DEF Pay, End, Refund, RemoteStatus
<1>3. remote'[s] = status /\ \A t \in Session \ {s} : remote'[t] = remote[t]
  BY <1>2, GatewayTypes
<1> DEFINE Sent(kind) == inbox' = [inbox EXCEPT ![<<kind, s>>] = "sent"]
<1>4. ASSUME NEW kind \in Kind, Sent(kind)
      PROVE  \A t \in Session, k \in Kind : inbox'[<<k, t>>] # inbox[<<k, t>>] =>
               t = s /\ k = kind /\ inbox'[<<k, t>>] = "sent"
  BY <1>4, GatewayTypes
<1>5. CASE Pay(s)
  <2>1. Sent("CHECKOUT_PAID") /\ remote[s] = "open" /\ s \in published /\ remote'[s] = "paid"
    BY <1>5, GatewayTypes DEF Pay, Notify
  <2>2. "CHECKOUT_PAID" \in Kind
    BY DEF Kind
  <2> QED
    BY <1>1, <1>3, <1>4, <2>1, <2>2 DEF RefundKind
<1>6. CASE End(s)
  <2>1. CASE UNCHANGED inbox
    <3>1. remote[s] = "open" /\ remote'[s] \in {"expired", "canceled"}
      BY <1>6, GatewayTypes DEF End
    <3> QED
      BY <1>1, <1>3, <2>1, <3>1
  <2>2. CASE /\ provider = "asaas" /\ Sent("CHECKOUT_EXPIRED")
             /\ remote' = [remote EXCEPT ![s] = "expired"]
    <3>1. "CHECKOUT_EXPIRED" \in Kind /\ remote'[s] = "expired" /\ remote[s] = "open"
      BY <1>6, <2>2, GatewayTypes DEF Kind, End
    <3> QED
      BY <1>1, <1>3, <1>4, <2>2, <3>1 DEF RefundKind
  <2>3. CASE /\ provider = "asaas" /\ Sent("CHECKOUT_CANCELED")
             /\ remote' = [remote EXCEPT ![s] = "canceled"]
    <3>1. "CHECKOUT_CANCELED" \in Kind /\ remote'[s] = "canceled" /\ remote[s] = "open"
      BY <1>6, <2>3, GatewayTypes DEF Kind, End
    <3> QED
      BY <1>1, <1>3, <1>4, <2>3, <3>1 DEF RefundKind
  <2> QED
    BY <1>6, <2>1, <2>2, <2>3 DEF End, Notify
<1>7. CASE Refund(s)
  <2>1. Sent("PAYMENT_REFUNDED") /\ remote[s] = "paid" /\ remote'[s] = "refunded"
    BY <1>7, GatewayTypes DEF Refund, Notify
  <2>2. "PAYMENT_REFUNDED" \in Kind
    BY DEF Kind
  <2> QED
    BY <1>1, <1>3, <1>4, <2>1, <2>2 DEF RefundKind
<1> QED
  BY <1>5, <1>6, <1>7

\* Of the notifications only this one moves.
OthersStay(kind, s) == \A t \in Session, k \in Kind : k # kind \/ t # s =>
    inbox'[<<k, t>>] = inbox[<<k, t>>] /\ held'[<<k, t>>] = held[<<k, t>>]

\* A notification finds the payment as it should be, or is over.
LEMMA ReadPaymentDoes ==
    ASSUME TypeOK, NEW kind \in Kind, NEW s \in Session, ReadPayment(kind, s)
    PROVE  /\ UNCHANGED <<provider, doubled, row, clock, ops, remote, refOf, published, job, ref,
                          got, sync, copy, told, lock, overlap, fixing>>
           /\ inbox[<<kind, s>>] = "sent"
           /\ inbox'[<<kind, s>>] = IF Finds(s) /\ Applies(kind) THEN "read" ELSE "done"
           /\ Finds(s) /\ Applies(kind) => held'[<<kind, s>>] = row.session
           /\ OthersStay(kind, s)
<1>1. /\ UNCHANGED <<provider, doubled, row, clock, ops, remote, refOf, published, job, ref,
                     got, sync, copy, told, lock, overlap, fixing>>
      /\ inbox[<<kind, s>>] = "sent"
      /\ inbox' = [inbox EXCEPT ![<<kind, s>>] =
                     IF Finds(s) /\ Applies(kind) THEN "read" ELSE "done"]
      /\ held' = IF Finds(s) /\ Applies(kind)
                 THEN [held EXCEPT ![<<kind, s>>] = row.session] ELSE held
  BY DEF ReadPayment
<1>2. inbox'[<<kind, s>>] = IF Finds(s) /\ Applies(kind) THEN "read" ELSE "done"
  BY <1>1, GatewayTypes
<1>3. Finds(s) /\ Applies(kind) => held'[<<kind, s>>] = row.session
  BY <1>1, GatewayTypes
<1>4. OthersStay(kind, s)
  BY <1>1, GatewayTypes DEF OthersStay
<1> QED
  BY <1>1, <1>2, <1>3, <1>4

\* A notification changes the status of the row; the session the row names then is the
\* one of the copy, or the one it named before.
LEMMA SavePaymentDoes ==
    ASSUME TypeOK, NEW kind \in Kind, NEW s \in Session, SavePayment(kind, s)
    PROVE  /\ UNCHANGED <<provider, doubled, ops, remote, refOf, job, ref, got, sync, copy, told,
                          lock, overlap, fixing>>
           /\ inbox[<<kind, s>>] = "read" /\ inbox'[<<kind, s>>] = "done"
           /\ OthersStay(kind, s)
           /\ clock' = clock + 1
           /\ row'.status = TargetOf(kind) /\ row'.stamp = clock'
           /\ \/ row'.session = row.session /\ row'.ref = row.ref
              \/ row'.session = held[<<kind, s>>] /\ row'.ref = refOf[held[<<kind, s>>]]
           /\ row.session = held[<<kind, s>>] \/ overtaken' # {}
           /\ overtaken \subseteq overtaken'
           /\ published' = published \cup {row'.session}
<1> DEFINE c == held[<<kind, s>>]
<1>1. PICK base \in {[row EXCEPT !.session = c, !.ref = refOf[c]], row} :
        /\ row' = [base EXCEPT !.status = TargetOf(kind), !.stamp = clock']
        /\ published' = published \cup {row'.session}
  BY DEF SavePayment, Saves, Write
<1>2. /\ row'.status = TargetOf(kind) /\ row'.stamp = clock'
      /\ \/ row'.session = row.session /\ row'.ref = row.ref
         \/ row'.session = c /\ row'.ref = refOf[c]
  <2>1. CASE base = row
    BY <1>1, <2>1, RowTypes DEF Row
  <2>2. CASE base = [row EXCEPT !.session = c, !.ref = refOf[c]]
    BY <1>1, <2>2, RowTypes DEF Row
  <2> QED
    BY <1>1, <2>1, <2>2
<1>3. /\ UNCHANGED <<provider, doubled, ops, remote, refOf, job, ref, got, sync, copy, told,
                     lock, overlap, fixing>>
      /\ clock' = clock + 1
      /\ inbox[<<kind, s>>] = "read"
      /\ inbox' = [inbox EXCEPT ![<<kind, s>>] = "done"]
      /\ held' = [held EXCEPT ![<<kind, s>>] = NoSession]
      /\ overtaken' = IF row.session = c THEN overtaken ELSE overtaken \cup {<<kind, s>>}
  BY DEF SavePayment, Tick
<1>4. inbox'[<<kind, s>>] = "done" /\ OthersStay(kind, s)
  BY <1>3, GatewayTypes DEF OthersStay
<1>5. (row.session = c \/ overtaken' # {}) /\ overtaken \subseteq overtaken'
  BY <1>3
<1> QED
  BY <1>1, <1>2, <1>3, <1>4, <1>5

\* The synchroniser c has let go.
LetGo(c) ==
    /\ sync'[c] = "idle"
    /\ \A b \in Sync \ {c} : sync'[b] = sync[b] /\ copy'[b] = copy[b] /\ told'[b] = told[b]
    /\ lock' = Nobody /\ overlap \subseteq overlap'

\* A run that ends deletes the lock.
LEMMA SyncEndsDoes == ASSUME TypeOK, NEW c \in Sync, SyncEnds(c) PROVE LetGo(c)
BY WriterTypes DEF SyncEnds, LetGo

\* A run takes the lock and copies the row.
LEMMA SyncListsDoes ==
    ASSUME TypeOK, NEW c \in Sync, SyncLists(c)
    PROVE  /\ UNCHANGED <<provider, doubled, row, clock, ops, remote, refOf, published, job, ref,
                          got, inbox, overlap, fixing>>
           /\ lock = Nobody /\ row.status = "PENDING" /\ provider = "mercadopago" /\ lock' = c
           /\ sync'[c] = "listed" /\ copy'[c] = row
           /\ \A b \in Sync \ {c} : sync'[b] = sync[b] /\ copy'[b] = copy[b] /\ told'[b] = told[b]
BY WriterTypes DEF SyncLists

\* A run asks the gateway, and is over if the session is still open.
LEMMA SyncAsksDoes ==
    ASSUME TypeOK, NEW c \in Sync, SyncAsks(c)
    PROVE  /\ UNCHANGED <<provider, doubled, row, clock, ops, remote, refOf, published, job, ref,
                          got, inbox, fixing>>
           /\ sync[c] = "listed"
           /\ \/ LetGo(c)
              \/ /\ sync'[c] = "asked" /\ told'[c] # "ACTIVE"
                 /\ told'[c] \in GetCheckout(copy[c].session)
                 /\ UNCHANGED <<copy, lock, overlap>>
                 /\ \A b \in Sync \ {c} : sync'[b] = sync[b] /\ told'[b] = told[b]
<1>1. UNCHANGED <<provider, doubled, row, clock, ops, remote, refOf, published, job, ref, got,
                  inbox, fixing>> /\ sync[c] = "listed"
  BY DEF SyncAsks
<1>2. PICK status \in GetCheckout(copy[c].session) :
         IF status = "ACTIVE" THEN SyncEnds(c)
         ELSE /\ sync' = [sync EXCEPT ![c] = "asked"]
              /\ told' = [told EXCEPT ![c] = status]
              /\ UNCHANGED <<copy, lock, overlap>>
  BY DEF SyncAsks
<1>3. CASE status = "ACTIVE"
  BY <1>1, <1>2, <1>3, SyncEndsDoes
<1>4. CASE status # "ACTIVE"
  BY <1>1, <1>2, <1>4, WriterTypes
<1> QED
  BY <1>3, <1>4

\* A run writes its copy of the row, or the row, with the status it was told.
LEMMA SyncSavesDoes ==
    ASSUME TypeOK, NEW c \in Sync, SyncSaves(c)
    PROVE  /\ UNCHANGED <<provider, doubled, ops, remote, refOf, job, ref, got, inbox, fixing>>
           /\ sync[c] = "asked" /\ LetGo(c)
           /\ clock' = clock + 1
           /\ row'.status = told[c] /\ row'.stamp = clock'
           /\ OneSync => row'.session = copy[c].session /\ row'.ref = copy[c].ref
           /\ published' = published \cup {row'.session}
<1>1. PICK base \in {copy[c], row} :
        /\ row' = [base EXCEPT !.status = told[c], !.stamp = clock']
        /\ published' = published \cup {row'.session}
  BY DEF SyncSaves, Saves, Write
<1>2. base \in Row
  BY <1>1, RowTypes, WriterTypes
<1>3. row'.status = told[c] /\ row'.stamp = clock'
      /\ row'.session = base.session /\ row'.ref = base.ref
  BY <1>1, <1>2 DEF Row
<1>4. /\ UNCHANGED <<provider, doubled, ops, remote, refOf, job, ref, got, inbox, fixing>>
      /\ sync[c] = "asked" /\ SyncEnds(c) /\ clock' = clock + 1
  BY DEF SyncSaves, Tick
<1>5. OneSync => base.session = copy[c].session /\ base.ref = copy[c].ref
  <2>1. OneSync => row.session = copy[c].session /\ row.ref = copy[c].ref
    BY <1>4 DEF OneSync
  <2> QED
    BY <1>1, <2>1
<1> QED
  BY <1>1, <1>3, <1>4, <1>5, SyncEndsDoes

\* A run that fails leaves the row alone.
LEMMA SyncFailsDoes ==
    ASSUME TypeOK, NEW c \in Sync, SyncFails(c)
    PROVE  /\ UNCHANGED <<provider, doubled, row, clock, ops, remote, refOf, published, job, ref,
                          got, inbox, fixing>>
           /\ sync[c] # "idle" /\ LetGo(c)
BY SyncEndsDoes DEF SyncFails

\* A lock that expires while its run is at work is remembered.
LEMMA ExpiryDoes ==
    ASSUME TypeOK, LockExpires
    PROVE  /\ UNCHANGED <<provider, doubled, row, clock, ops, remote, refOf, published, job, ref,
                          got, inbox, sync, copy, told, fixing>>
           /\ lock # Nobody /\ overlap \subseteq overlap'
           /\ sync[lock] # "idle" => overlap' # {}
BY DEF LockExpires

\* The reconciler reads an operation to reconcile, and the row.
LEMMA ReconcileReadsDoes ==
    ASSUME TypeOK, NEW r \in Ref, ReconcileReads(r)
    PROVE  /\ UNCHANGED <<provider, doubled, row, clock, ops, remote, refOf, published, job, ref,
                          got, inbox, sync, copy, told, lock, overlap>>
           /\ ToReconcile(r)
           /\ fixing'.pc = "read" /\ fixing'.ref = r /\ fixing'.copy = row
           /\ fixing'.status \in GetCheckout(ops[r].session)
BY DEF ReconcileReads, ToReconcile

\* The reconciler gives up, and nothing else changes.
LEMMA ReconcileFailsDoes ==
    ASSUME TypeOK, ReconcileFails
    PROVE  /\ UNCHANGED <<provider, doubled, row, clock, ops, remote, refOf, published, job, ref,
                          got, inbox, sync, copy, told, lock, overlap>>
           /\ fixing.pc = "read" /\ fixing'.pc = "idle"
BY DEF ReconcileFails, NotFixing

\* A reconciler that finds the row replaceable replaces it, leaves it alone, or brings
\* back an older state of it, of the same session.
LEMMA ReconcileSavesDoes ==
    ASSUME TypeOK, ReconcileSaves, OneRepair
    PROVE  /\ UNCHANGED <<provider, doubled, remote, refOf, job, ref, got, inbox, sync, copy,
                          told, lock, overlap>>
           /\ fixing.pc = "read" /\ fixing'.pc = "idle"
           /\ SameOps(fixing.ref) /\ ops'[fixing.ref].status = "COMPLETED"
           /\ ops'[fixing.ref].session = ops[fixing.ref].session
           /\ \/ /\ clock' = clock + 1
                 /\ row'.status = LocalStatus(fixing.status)
                 /\ row'.session = ops[fixing.ref].session
                 /\ row'.ref = fixing.ref /\ row'.stamp = clock'
                 /\ published' = published \cup {ops[fixing.ref].session}
              \/ /\ clock' = clock /\ fixing.copy.status # "ABSENT"
                 /\ row'.session = row.session /\ row'.ref = row.ref
                 /\ published' \in {published, published \cup {row.session}}
                 /\ \/ row' = row
                    \/ /\ Refunded /\ row'.status \in {"PAID", "REFUNDED"}
                       /\ row'.ref < row'.stamp /\ row'.stamp <= clock
<1>1. /\ UNCHANGED <<provider, doubled, remote, refOf, job, ref, got, inbox, sync, copy, told,
                     lock, overlap>>
      /\ fixing.pc = "read" /\ fixing'.pc = "idle"
  BY DEF ReconcileSaves, NotFixing
<1>2. /\ SameOps(fixing.ref) /\ ops'[fixing.ref].status = "COMPLETED"
      /\ ops'[fixing.ref].session = ops[fixing.ref].session
  BY JobTypes, WriterTypes DEF ReconcileSaves, SameOps
<1>3. CASE Adopts(fixing)
  <2>1. clock' = clock + 1
    BY <1>3 DEF ReconcileSaves, Changes, Tick
  <2>2. /\ row' = [status |-> LocalStatus(fixing.status), session |-> ops[fixing.ref].session,
                   ref |-> fixing.ref, stamp |-> clock']
        /\ published' = published \cup {row'.session}
    BY <1>3 DEF ReconcileSaves, SavesCopy, Takes, Write
  <2> QED
    BY <1>1, <1>2, <2>1, <2>2
<1>4. CASE ~Adopts(fixing)
  <2>1. /\ fixing.ref # 0 /\ fixing.copy.status \in {"PAID", "REFUNDED"}
        /\ fixing.copy.session = row.session /\ fixing.copy.ref = row.ref
        /\ fixing.copy.ref < fixing.copy.stamp /\ fixing.copy.stamp <= clock
        /\ Refunded
    BY <1>1, <1>4 DEF OneRepair, Adopts, Replaceable
  <2>2. ~Changes(fixing)
    BY <1>4, <2>1 DEF ReconcileSaves, Allowed, Changes
  <2>3. /\ clock' = clock
        /\ UNCHANGED <<row, published>> \/ \E base \in {fixing.copy, row} : Write(base)
    BY <1>4, <2>2 DEF ReconcileSaves, SavesCopy
  <2>4. \/ row' = row /\ published' \in {published, published \cup {row.session}}
        \/ row' = fixing.copy /\ published' = published \cup {fixing.copy.session}
    BY <2>3 DEF Write
  <2> QED
    BY <1>1, <1>2, <2>1, <2>3, <2>4
<1> QED
  BY <1>3, <1>4

(******************************** Steps in common ***************************)

\* What happened to a session stays so: it is known, dead, paid, refunded.
Grows == \A s \in Session :
    /\ Known(s) => Known(s)' /\ refOf'[s] = refOf[s]
    /\ Dead(s) => Dead(s)'
    /\ WasPaid(s) => WasPaid(s)'
    /\ remote[s] \in {"expired", "canceled", "refunded"} => remote'[s] = remote[s]
    /\ remote[s] = "paid" => remote'[s] \in {"paid", "refunded"}

\* No step undoes what happened to a session.
LEMMA RemoteGrows == ASSUME TypeOK, [Next]_vars PROVE provider' = provider /\ Grows
<1> USE DEF Grows, Known, Dead, WasPaid
<1>1. CASE UNCHANGED <<provider, remote, refOf>>
  BY <1>1
<1>2. ASSUME NEW j \in Job, GatewayOpens(j) PROVE provider' = provider /\ Grows
  BY <1>2, GatewayOpensDoes
<1>3. ASSUME NEW s \in Session, Pay(s) \/ End(s) \/ Refund(s) PROVE provider' = provider /\ Grows
  BY <1>3, GatewayDoes
<1>4. ASSUME NEW j \in Job, JobStep(j), ~GatewayOpens(j)
      PROVE  UNCHANGED <<provider, remote, refOf>>
  BY <1>4 DEF JobStep, Begin, Open, GatewayFails, SaveCheckout, SaveFails, RecordFailure, Crash
<1>5. ASSUME NEW kind \in Kind, NEW s \in Session, ReadPayment(kind, s) \/ SavePayment(kind, s)
      PROVE  UNCHANGED <<provider, remote, refOf>>
  BY <1>5 DEF ReadPayment, SavePayment
<1>6. ASSUME NEW c \in Sync, SyncStep(c) PROVE UNCHANGED <<provider, remote, refOf>>
  BY <1>6 DEF SyncStep, SyncLists, SyncAsks, SyncSaves, SyncFails
<1>7. ASSUME LockExpires \/ (\E r \in Ref : ReconcileReads(r)) \/ ReconcileSaves \/ ReconcileFails
      PROVE  UNCHANGED <<provider, remote, refOf>>
  BY <1>7 DEF LockExpires, ReconcileReads, ReconcileSaves, ReconcileFails
<1> QED
  BY <1>1, <1>2, <1>3, <1>4, <1>5, <1>6, <1>7 DEF Next, vars

\* What disturbs the calm is remembered.
LEMMA StillCalm == ASSUME TypeOK, [Next]_vars, Calm' PROVE Calm
<1> DEFINE Remembers == /\ doubled \subseteq doubled' /\ overlap \subseteq overlap'
                        /\ overtaken \subseteq overtaken'
<1> SUFFICES Remembers
  BY DEF Calm
<1>1. ASSUME NEW j \in Job, JobStep(j) PROVE Remembers
  <2>1. doubled \subseteq doubled'
    <3>1. CASE Open(j)
      BY <3>1, OpenDoes
    <3> QED
      BY <1>1, <3>1
         DEF JobStep, Begin, GatewayOpens, GatewayFails, SaveCheckout, SaveFails, RecordFailure,
             Crash
  <2>2. UNCHANGED <<overlap, overtaken>>
    BY <1>1 DEF JobStep, Begin, Open, GatewayOpens, GatewayFails, SaveCheckout, SaveFails,
                RecordFailure, Crash
  <2> QED
    BY <2>1, <2>2
<1>2. ASSUME NEW c \in Sync, SyncStep(c) PROVE Remembers
  <2>1. UNCHANGED <<doubled, overtaken>>
    BY <1>2 DEF SyncStep, SyncLists, SyncAsks, SyncSaves, SyncFails
  <2>2. overlap \subseteq overlap'
    BY <1>2, SyncListsDoes, SyncAsksDoes, SyncSavesDoes, SyncFailsDoes DEF SyncStep, LetGo
  <2> QED
    BY <2>1, <2>2
<1>3. ASSUME NEW s \in Session, Pay(s) \/ End(s) \/ Refund(s) PROVE Remembers
  BY <1>3 DEF Pay, End, Refund
<1>4. ASSUME NEW kind \in Kind, NEW s \in Session, ReadPayment(kind, s) PROVE Remembers
  BY <1>4 DEF ReadPayment
<1>5. ASSUME NEW kind \in Kind, NEW s \in Session, SavePayment(kind, s) PROVE Remembers
  BY <1>5, SavePaymentDoes
<1>6. ASSUME LockExpires PROVE Remembers
  <2>1. UNCHANGED <<doubled, overtaken>>
    BY <1>6 DEF LockExpires
  <2> QED
    BY <1>6, <2>1, ExpiryDoes
<1>7. ASSUME (\E r \in Ref : ReconcileReads(r)) \/ ReconcileSaves \/ ReconcileFails
      PROVE  Remembers
  BY <1>7 DEF ReconcileReads, ReconcileSaves, ReconcileFails
<1>8. CASE UNCHANGED vars
  BY <1>8 DEF vars
<1> QED
  BY <1>1, <1>2, <1>3, <1>4, <1>5, <1>6, <1>7, <1>8 DEF Next

\* A notification leaves the row the session it named.
NothingOvertaken == \A kind \in Kind, s \in Session :
    SavePayment(kind, s) => row'.session = row.session /\ row'.ref = row.ref

\* So it is as long as no notification saves a copy that a renewal has overtaken.
LEMMA CopiesAreCurrent ==
    ASSUME TypeOK, ReadOfTheRow, SessionsMatch, Calm'
    PROVE  NothingOvertaken
<1> SUFFICES ASSUME NEW kind \in Kind, NEW s \in Session, SavePayment(kind, s)
             PROVE  row'.session = row.session /\ row'.ref = row.ref
  BY DEF NothingOvertaken
<1>1. inbox[<<kind, s>>] = "read"
  BY SavePaymentDoes
<1>2. row.status # "ABSENT" /\ row.session = held[<<kind, s>>]
  BY <1>1, SavePaymentDoes DEF ReadOfTheRow, Calm
<1>3. refOf[row.session] = row.ref
  BY <1>2 DEF SessionsMatch
<1> QED
  BY <1>2, <1>3, SavePaymentDoes

\* Only a request of the client starts something.
LEMMA NothingStarts ==
    ASSUME TypeOK, OneRepair, [Next]_vars, \A j \in Job : ~Begin(j), NEW r \in Ref, Unfinished(r)'
    PROVE  Unfinished(r)
<1> USE DEF Unfinished, ToReconcile, Startable, Trying, SameJobs, SameOps, Left
<1>1. CASE UNCHANGED <<ops, job, ref>>
  BY <1>1
<1>2. ASSUME NEW j \in Job, Open(j) PROVE Unfinished(r)
  BY <1>2, OpenDoes, JobTypes
<1>3. ASSUME NEW j \in Job, GatewayOpens(j) \/ GatewayFails(j) \/ SaveFails(j) PROVE Unfinished(r)
  <2>1. /\ ops' = ops /\ ref'[j] = ref[j] /\ SameJobs(j) /\ job[j] \notin {"idle", "read"}
    BY <1>3, GatewayOpensDoes, JobMovesDoes
  <2> QED
    BY <2>1
<1>4. ASSUME NEW j \in Job, SaveCheckout(j) \/ RecordFailure(j) \/ Crash(j) PROVE Unfinished(r)
  <2>1. CASE Crash(j)
    BY <2>1, CrashDoes
  <2>2. CASE SaveCheckout(j) \/ RecordFailure(j)
    <3>1. Left(j) /\ SameOps(ref[j]) /\ job[j] \notin {"idle", "read"} /\ ref[j] \in Ref
      BY <2>2, SaveCheckoutDoes, RecordFailureDoes, JobTypes
    <3>2. CASE r = ref[j]
      BY <3>1, <3>2
    <3>3. CASE r # ref[j]
      BY <3>1, <3>3
    <3> QED
      BY <3>2, <3>3
  <2> QED
    BY <1>4, <2>1, <2>2
<1>5. CASE ReconcileSaves
  <2>1. /\ SameOps(fixing.ref) /\ ops'[fixing.ref].status = "COMPLETED"
        /\ UNCHANGED <<job, ref>>
    BY <1>5, ReconcileSavesDoes
  <2> QED
    BY <2>1
<1>6. ASSUME NEW s \in Session, Pay(s) \/ End(s) \/ Refund(s) PROVE UNCHANGED <<ops, job, ref>>
  BY <1>6 DEF Pay, End, Refund
<1>7. ASSUME NEW kind \in Kind, NEW s \in Session, ReadPayment(kind, s) \/ SavePayment(kind, s)
      PROVE  UNCHANGED <<ops, job, ref>>
  BY <1>7 DEF ReadPayment, SavePayment
<1>8. ASSUME NEW c \in Sync, SyncStep(c) PROVE UNCHANGED <<ops, job, ref>>
  BY <1>8 DEF SyncStep, SyncLists, SyncAsks, SyncSaves, SyncFails
<1>9. ASSUME LockExpires \/ (\E q \in Ref : ReconcileReads(q)) \/ ReconcileFails
      PROVE  UNCHANGED <<ops, job, ref>>
  BY <1>9 DEF LockExpires, ReconcileReads, ReconcileFails
<1> QED
  <2> HIDE DEF Unfinished
  <2> QED
    BY <1>1, <1>2, <1>3, <1>4, <1>5, <1>6, <1>7, <1>8, <1>9 DEF Next, vars, JobStep

\* Whoever brings a session to the row leaves nothing unfinished.
LEMMA NothingLeft ==
    ASSUME TypeOK, OneTry, OneRenewal, OneRepair, Next,
           (\E j \in Job : SaveCheckout(j)) \/ ReconcileSaves
    PROVE  \A r \in Ref : ~Unfinished(r)'
<1> SUFFICES ASSUME NEW r \in Ref, Unfinished(r)' PROVE FALSE
  OBVIOUS
<1>1. \A j \in Job : ~Begin(j)
  <2>1. clock \in Nat
    BY RowTypes, RefIsNat
  <2>2. ASSUME NEW j \in Job, SaveCheckout(j) PROVE clock' # clock
    <3>1. clock' = clock + 1
      BY <2>2, SaveCheckoutDoes
    <3> QED
      BY <2>1, <3>1
  <2>3. \A j \in Job : Begin(j) => clock' = clock /\ fixing' = fixing
    BY BeginDoes
  <2>4. ReconcileSaves => fixing.pc = "read" /\ fixing'.pc # "read"
    BY DEF ReconcileSaves, NotFixing
  <2> QED
    BY <2>2, <2>3, <2>4
<1>2. Unfinished(r)
  BY <1>1, NothingStarts
<1>3. ASSUME NEW j \in Job, SaveCheckout(j) PROVE FALSE
  <2>1. Left(j) /\ ops'[ref[j]].status = "COMPLETED" /\ Trying(j) /\ ref[j] \in Ref
    BY <1>3, SaveCheckoutDoes, JobTypes DEF Trying
  <2>2. Unfinished(ref[j])
    BY <2>1 DEF Unfinished
  <2>3. r = ref[j]
    BY <1>2, <2>1, <2>2 DEF OneRenewal
  <2>4. ~ToReconcile(r)' /\ ~Startable(r)'
    BY <2>1, <2>3 DEF ToReconcile, Startable
  <2>5. PICK i \in Job : ref'[i] = r /\ Trying(i)'
    BY <2>4 DEF Unfinished
  <2>6. i # j /\ Trying(i) /\ ref[i] = ref[j]
    BY <2>1, <2>3, <2>5 DEF Left, SameJobs, Trying
  <2> QED
    BY <2>1, <2>6 DEF OneTry
<1>4. CASE ReconcileSaves
  <2>1. ToReconcile(fixing.ref) /\ fixing.ref \in Ref
    BY <1>4, WriterTypes DEF ReconcileSaves, OneRepair
  <2>2. UNCHANGED <<job, ref>> /\ ops'[fixing.ref].status = "COMPLETED"
    BY <1>4, ReconcileSavesDoes
  <2>3. Unfinished(fixing.ref)
    BY <2>1 DEF Unfinished
  <2>4. r = fixing.ref
    BY <1>2, <2>1, <2>3 DEF OneRenewal
  <2>5. ~ToReconcile(r)' /\ ~Startable(r)'
    BY <2>2, <2>4 DEF ToReconcile, Startable
  <2>6. PICK i \in Job : ref'[i] = r /\ Trying(i)'
    BY <2>5 DEF Unfinished
  <2>7. Trying(i) /\ ref[i] = fixing.ref
    BY <2>2, <2>4, <2>6 DEF Trying
  <2> QED
    BY <2>1, <2>7 DEF OneTry, ToReconcile
<1> QED
  BY <1>3, <1>4

(******************************* One try at a time **************************)

\* A step that starts no try, opens no session and writes no operation that a job tries.
LEMMA TryFrame ==
    ASSUME TypeOK, OneTry,
           \A i \in Job : Trying(i)' =>
             Trying(i) /\ ref'[i] = ref[i] /\ (job'[i] = "call" => job[i] = "call"),
           \A s \in Session : Known(s)' = Known(s), refOf' = refOf,
           \A q \in Ref : \/ ops'[q] = ops[q]
                          \/ ops'[q].status # "ABSENT" /\ \A i \in Job : Trying(i)' => ref[i] # q
    PROVE  OneTry'
<1>2. ASSUME NEW j \in Job, Trying(j)'
      PROVE  ops'[ref'[j]].status \in {"PENDING", "FAILED"} /\ ops'[ref'[j]].session = NoSession
  <2>1. Trying(j) /\ ref'[j] = ref[j] /\ ref[j] \in Ref
    BY <1>2, JobTypes
  <2>2. ops'[ref[j]] = ops[ref[j]]
    BY <1>2, <2>1
  <2> QED
    BY <2>1, <2>2 DEF OneTry
<1>3. \A i, j \in Job : Trying(i)' /\ Trying(j)' /\ ref'[i] = ref'[j] => i = j
  BY DEF OneTry
<1>4. \A j \in Job, s \in Session : job'[j] = "call" /\ Known(s)' => refOf'[s] # ref'[j]
  <2> SUFFICES ASSUME NEW j \in Job, NEW s \in Session, job'[j] = "call", Known(s)'
               PROVE  refOf'[s] # ref'[j]
    OBVIOUS
  <2>1. Trying(j)'
    BY DEF Trying
  <2>2. job[j] = "call" /\ ref'[j] = ref[j] /\ Known(s)
    BY <2>1
  <2> QED
    BY <2>2 DEF OneTry
<1>5. \A s \in Session : Known(s)' => ops'[refOf'[s]].status # "ABSENT"
  BY GatewayTypes DEF OneTry
<1>6. \A s, t \in Session : Known(s)' /\ Known(t)' /\ refOf'[s] = refOf'[t] => s = t
  BY DEF OneTry
<1> QED
  BY <1>2, <1>3, <1>4, <1>5, <1>6 DEF OneTry

\* Taking up an operation starts the only try of it, as long as it is Calm.
LEMMA OpenTries ==
    ASSUME TypeOK, OneTry, Calm', NEW j \in Job, Open(j)
    PROVE  OneTry'
<1>1. /\ job[j] = "read" /\ remote' = remote /\ refOf' = refOf /\ ref[j] \in Ref
      /\ SameOps(ref[j])
  BY OpenDoes, JobTypes
<1>2. CASE Left(j) /\ ops' = ops
  BY <1>1, <1>2, TryFrame DEF Left, SameJobs, Trying, Known
<1>3. CASE ~(Left(j) /\ ops' = ops)
  <2>1. /\ SameJobs(j) /\ job'[j] = "call" /\ ref'[j] = ref[j] /\ Startable(ref[j])
        /\ \/ /\ ops[ref[j]].status = "ABSENT" /\ ops'[ref[j]].status = "PENDING"
              /\ ops'[ref[j]].session = NoSession
           \/ /\ ops[ref[j]].status # "ABSENT" /\ ops' = ops
              /\ SessionsFor(ref[j]) = {} /\ ~UnderWay(ref[j])
    BY <1>3, OpenDoes DEF Calm
  <2>3. \A i \in Job : Trying(i) => ref[i] # ref[j]
    <3>1. CASE ops[ref[j]].status = "ABSENT"
      BY <3>1 DEF OneTry
    <3>2. CASE ~UnderWay(ref[j])
      BY <3>2 DEF UnderWay, Trying
    <3> QED
      BY <2>1, <3>1, <3>2
  <2>4. \A s \in Session : Known(s) => refOf[s] # ref[j]
    BY <1>1, <2>1 DEF OneTry, SessionsFor, Known
  <2>5. \A i \in Job : Trying(i)' => i = j \/ (Trying(i) /\ ref'[i] = ref[i] /\ job'[i] = job[i])
    BY <2>1 DEF Trying, SameJobs
  <2>6. ASSUME NEW i \in Job, Trying(i)'
        PROVE  ops'[ref'[i]].status \in {"PENDING", "FAILED"} /\ ops'[ref'[i]].session = NoSession
    <3>1. CASE i = j
      BY <2>1, <3>1 DEF Startable
    <3>2. CASE i # j
      <4>1. Trying(i) /\ ref'[i] = ref[i] /\ ref[i] # ref[j] /\ ref[i] \in Ref
        BY <1>1, <2>3, <2>5, <2>6, <3>2, JobTypes
      <4>2. ops'[ref[i]] = ops[ref[i]]
        BY <1>1, <4>1 DEF SameOps
      <4> QED
        BY <4>1, <4>2 DEF OneTry
    <3> QED
      BY <3>1, <3>2
  <2>7. \A i, k \in Job : Trying(i)' /\ Trying(k)' /\ ref'[i] = ref'[k] => i = k
    BY <2>1, <2>3, <2>5 DEF OneTry
  <2>8. \A i \in Job, s \in Session : job'[i] = "call" /\ Known(s)' => refOf'[s] # ref'[i]
    <3> SUFFICES ASSUME NEW i \in Job, NEW s \in Session, job'[i] = "call", Known(s)'
                 PROVE  refOf'[s] # ref'[i]
      OBVIOUS
    <3>1. Trying(i)' /\ Known(s) /\ refOf'[s] = refOf[s]
      BY <1>1 DEF Trying, Known
    <3>2. CASE i = j
      BY <2>1, <2>4, <3>1, <3>2
    <3>3. CASE i # j
      <4>1. job[i] = "call" /\ ref'[i] = ref[i]
        BY <2>5, <3>1, <3>3
      <4> QED
        BY <3>1, <4>1 DEF OneTry
    <3> QED
      BY <3>2, <3>3
  <2>9. ASSUME NEW s \in Session, Known(s)' PROVE ops'[refOf'[s]].status # "ABSENT"
    <3>1. Known(s) /\ refOf'[s] = refOf[s] /\ refOf[s] \in Ref
      BY <1>1, <2>9, GatewayTypes DEF Known
    <3>2. refOf[s] # ref[j]
      BY <2>4, <3>1
    <3>3. ops'[refOf[s]] = ops[refOf[s]]
      BY <1>1, <3>1, <3>2 DEF SameOps
    <3> QED
      BY <3>1, <3>3 DEF OneTry
  <2>10. \A s, t \in Session : Known(s)' /\ Known(t)' /\ refOf'[s] = refOf'[t] => s = t
    BY <1>1 DEF OneTry, Known
  <2> QED
    BY <2>6, <2>7, <2>8, <2>9, <2>10 DEF OneTry
<1> QED
  BY <1>2, <1>3

\* The gateway opens the first session of a reference.
LEMMA GatewayOpensTries ==
    ASSUME TypeOK, OneTry, NEW j \in Job, GatewayOpens(j)
    PROVE  OneTry'
<1>1. /\ job[j] = "call" /\ SameJobs(j) /\ ref'[j] = ref[j] /\ ref[j] \in Ref
      /\ ops' = ops /\ Trying(j)
  BY GatewayOpensDoes, JobTypes DEF Trying
<1>2. /\ SessionsFor(ref[j]) = {}
      /\ \A t \in Session : Known(t) => refOf[t] # ref[j]
  BY <1>1 DEF OneTry, SessionsFor, Known
<1>3. PICK s \in Session :
        /\ remote[s] = "none" /\ remote'[s] = "open" /\ refOf'[s] = ref[j]
        /\ \A t \in Session \ {s} : remote'[t] = remote[t] /\ refOf'[t] = refOf[t]
        /\ job'[j] # "call"
  BY <1>2, GatewayOpensDoes
<1>4. \A i \in Job : Trying(i)' =>
        Trying(i) /\ ref'[i] = ref[i] /\ (job'[i] = "call" => i # j /\ job[i] = "call")
  BY <1>1, <1>3 DEF SameJobs, Trying
<1>5. \A t \in Session : Known(t)' => t = s \/ (Known(t) /\ refOf'[t] = refOf[t])
  BY <1>3 DEF Known
<1>6. ASSUME NEW i \in Job, Trying(i)'
      PROVE  ops'[ref'[i]].status \in {"PENDING", "FAILED"} /\ ops'[ref'[i]].session = NoSession
  BY <1>1, <1>4, <1>6 DEF OneTry
<1>7. \A i, k \in Job : Trying(i)' /\ Trying(k)' /\ ref'[i] = ref'[k] => i = k
  BY <1>4 DEF OneTry
<1>8. \A i \in Job, t \in Session : job'[i] = "call" /\ Known(t)' => refOf'[t] # ref'[i]
  <2> SUFFICES ASSUME NEW i \in Job, NEW t \in Session, job'[i] = "call", Known(t)'
               PROVE  refOf'[t] # ref'[i]
    OBVIOUS
  <2>1. Trying(i)'
    BY DEF Trying
  <2>2. Trying(i) /\ ref'[i] = ref[i] /\ i # j /\ job[i] = "call"
    BY <1>4, <2>1
  <2>3. ref[i] # ref[j]
    BY <1>1, <2>2 DEF OneTry
  <2> QED
    BY <1>3, <1>5, <2>2, <2>3 DEF OneTry
<1>9. \A t \in Session : Known(t)' => ops'[refOf'[t]].status # "ABSENT"
  BY <1>1, <1>3, <1>5 DEF OneTry
<1>10. \A t, u \in Session : Known(t)' /\ Known(u)' /\ refOf'[t] = refOf'[u] => t = u
  BY <1>2, <1>3, <1>5 DEF OneTry
<1> QED
  BY <1>6, <1>7, <1>8, <1>9, <1>10 DEF OneTry

\* Two tries of an operation are never under way at once.
LEMMA OneTryHolds ==
    ASSUME TypeOK, OneTry, OneRepair, Calm', [Next]_vars
    PROVE  OneTry'
<1>1. ASSUME UNCHANGED <<ops, job, ref, refOf>>, \A s \in Session : Known(s)' = Known(s)
      PROVE  OneTry'
  BY <1>1, TryFrame DEF Trying
<1>2. ASSUME NEW j \in Job, JobStep(j) PROVE OneTry'
  <2>1. CASE Begin(j)
    BY <2>1, BeginDoes, TryFrame DEF SameJobs, Trying, Known
  <2>2. CASE GatewayFails(j) \/ SaveFails(j)
    BY <2>2, JobMovesDoes, TryFrame DEF SameJobs, Trying, Known
  <2>3. CASE Crash(j)
    BY <2>3, CrashDoes, TryFrame DEF Left, SameJobs, Trying, Known
  <2>4. CASE SaveCheckout(j) \/ RecordFailure(j)
    <3>1. /\ Left(j) /\ SameOps(ref[j]) /\ ops'[ref[j]].status # "ABSENT" /\ Trying(j)
          /\ UNCHANGED <<remote, refOf>>
      BY <2>4, SaveCheckoutDoes, RecordFailureDoes DEF Trying
    <3>2. \A i \in Job : Trying(i)' => /\ i # j /\ Trying(i) /\ ref'[i] = ref[i] /\ job'[i] = job[i]
      BY <3>1 DEF Left, SameJobs, Trying
    <3>3. \A i \in Job : Trying(i)' => ref[i] # ref[j]
      BY <3>1, <3>2 DEF OneTry
    <3>4. \A q \in Ref : \/ ops'[q] = ops[q]
                         \/ ops'[q].status # "ABSENT" /\ \A i \in Job : Trying(i)' => ref[i] # q
      BY <3>1, <3>3 DEF SameOps
    <3>5. \A s \in Session : Known(s)' = Known(s)
      BY <3>1 DEF Known
    <3> QED
      BY <3>1, <3>2, <3>4, <3>5, TryFrame
  <2> QED
    BY <1>2, <2>1, <2>2, <2>3, <2>4, OpenTries, GatewayOpensTries DEF JobStep
<1>3. CASE ReconcileSaves
  <2>1. ToReconcile(fixing.ref) /\ fixing.ref \in Ref /\ Replaceable(fixing.copy, fixing.ref)
    BY <1>3, WriterTypes DEF ReconcileSaves, OneRepair
  <2>2. /\ UNCHANGED <<remote, refOf, job, ref>> /\ SameOps(fixing.ref)
        /\ ops'[fixing.ref].status = "COMPLETED"
    BY <1>3, ReconcileSavesDoes
  <2>3. \A i \in Job : Trying(i) => ref[i] # fixing.ref
    BY <2>1 DEF OneTry, ToReconcile
  <2>4. \A q \in Ref : \/ ops'[q] = ops[q]
                       \/ ops'[q].status # "ABSENT" /\ \A i \in Job : Trying(i)' => ref[i] # q
    BY <2>2, <2>3 DEF SameOps, Trying
  <2> QED
    BY <2>2, <2>4, TryFrame DEF Trying, Known
<1>4. ASSUME NEW s \in Session, Pay(s) \/ End(s) \/ Refund(s) PROVE OneTry'
  <2>1. UNCHANGED <<ops, job, ref, refOf>> /\ \A t \in Session : Known(t)' = Known(t)
    BY <1>4, GatewayDoes DEF Known
  <2> QED
    BY <1>1, <2>1
<1>5. ASSUME NEW kind \in Kind, NEW s \in Session, ReadPayment(kind, s) \/ SavePayment(kind, s)
      PROVE  UNCHANGED <<ops, job, ref, refOf, remote>>
  BY <1>5 DEF ReadPayment, SavePayment
<1>6. ASSUME NEW c \in Sync, SyncStep(c) PROVE UNCHANGED <<ops, job, ref, refOf, remote>>
  BY <1>6 DEF SyncStep, SyncLists, SyncAsks, SyncSaves, SyncFails
<1>7. ASSUME LockExpires \/ (\E q \in Ref : ReconcileReads(q)) \/ ReconcileFails
      PROVE  UNCHANGED <<ops, job, ref, refOf, remote>>
  BY <1>7 DEF LockExpires, ReconcileReads, ReconcileFails
<1>8. ASSUME UNCHANGED <<ops, job, ref, refOf, remote>> PROVE OneTry'
  BY <1>1, <1>8 DEF Known
<1> QED
  BY <1>2, <1>3, <1>4, <1>5, <1>6, <1>7, <1>8 DEF Next, vars

(************************* Stamps, references, sessions *********************)

\* A step that writes the row stamps it, or brings back a stamp it had, and takes no
\* reference from the future.
LEMMA StampFrame ==
    ASSUME TypeOK, TypeOK', StampsGrow,
           \/ row' = row /\ clock' = clock
           \/ row'.stamp = clock' /\ clock' = clock + 1 /\ row'.ref <= clock
           \/ row'.ref < row'.stamp /\ row'.stamp <= clock /\ clock' = clock,
           \A j \in Job : ref'[j] = ref[j] \/ ref'[j] <= clock,
           \A q \in Ref : ops'[q] = ops[q] \/ q <= clock
    PROVE  StampsGrow'
<1>1. clock \in Nat /\ clock' \in Nat /\ clock <= clock'
  <2>1. clock \in Ref /\ clock' \in Ref
    BY DEF TypeOK, DataTypes
  <2>2. clock \in Nat /\ clock' \in Nat
    BY <2>1, RefIsNat
  <2> QED
    BY <2>2
<1>2. row.stamp \in Nat /\ row.ref \in Nat /\ row'.stamp \in Nat /\ row'.ref \in Nat
  <2>1. row.stamp \in Ref /\ row.ref \in Ref
    BY RowTypes
  <2>2. row'.stamp \in Ref /\ row'.ref \in Ref
    BY DEF TypeOK, DataTypes, Row
  <2> QED
    BY <2>1, <2>2, RefIsNat
<1>3. row'.stamp <= clock' /\ (row'.status # "ABSENT" => row'.ref < row'.stamp)
  BY <1>1, <1>2 DEF StampsGrow
<1>4. ASSUME NEW j \in Job PROVE ref'[j] <= clock'
  <2>1. ref'[j] \in Nat
    <3>1. ref'[j] \in Ref
      BY DEF TypeOK, ActorTypes
    <3> QED
      BY <3>1, RefIsNat
  <2>2. ref'[j] <= clock
    BY DEF StampsGrow
  <2> QED
    BY <1>1, <2>1, <2>2
<1>5. ASSUME NEW q \in Ref, ops'[q].status # "ABSENT" PROVE q <= clock'
  <2>1. q \in Nat /\ q <= clock
    BY <1>5, RefIsNat DEF StampsGrow
  <2> QED
    BY <1>1, <2>1
<1> QED
  BY <1>3, <1>4, <1>5 DEF StampsGrow

\* A reference is older than the row that carries it.
LEMMA StampsHold ==
    ASSUME TypeOK, TypeOK', StampsGrow, OneSync, OneRepair, ReadOfTheRow, NothingOvertaken,
           [Next]_vars
    PROVE  StampsGrow'
<1>1. ASSUME UNCHANGED <<row, clock, ref, ops>> PROVE StampsGrow'
  BY <1>1, StampFrame
<1>2. ASSUME NEW j \in Job, JobStep(j) PROVE StampsGrow'
  <2>1. ref[j] <= clock /\ 0 <= clock
    <3>1. clock \in Nat
      BY RowTypes, RefIsNat
    <3> QED
      BY <3>1 DEF StampsGrow
  <2>2. CASE Begin(j)
    BY <2>1, <2>2, BeginDoes, StampFrame DEF SameJobs, StampsGrow
  <2>3. CASE Open(j)
    BY <2>1, <2>3, OpenDoes, StampFrame DEF SameJobs, SameOps, Left
  <2>4. CASE GatewayOpens(j) \/ GatewayFails(j) \/ SaveFails(j)
    BY <2>4, GatewayOpensDoes, JobMovesDoes, StampFrame DEF SameJobs
  <2>5. CASE Crash(j)
    BY <2>1, <2>5, CrashDoes, StampFrame DEF SameJobs, Left
  <2>6. CASE RecordFailure(j)
    BY <2>1, <2>6, RecordFailureDoes, StampFrame DEF SameJobs, SameOps, Left
  <2>7. CASE SaveCheckout(j)
    BY <2>1, <2>7, SaveCheckoutDoes, StampFrame DEF SameJobs, SameOps, Left
  <2> QED
    BY <1>2, <2>2, <2>3, <2>4, <2>5, <2>6, <2>7 DEF JobStep
<1>3. row.status # "ABSENT" => row.ref <= clock
  <2>1. row.ref \in Nat /\ row.stamp \in Nat /\ clock \in Nat
    BY RowTypes, RefIsNat
  <2> QED
    BY <2>1 DEF StampsGrow
<1>4. ASSUME NEW kind \in Kind, NEW s \in Session, SavePayment(kind, s) PROVE StampsGrow'
  <2>1. row.status # "ABSENT"
    BY <1>4, SavePaymentDoes DEF ReadOfTheRow
  <2>2. row'.ref = row.ref
    BY <1>4 DEF NothingOvertaken
  <2>3. /\ row'.stamp = clock' /\ clock' = clock + 1 /\ row'.ref <= clock
        /\ UNCHANGED <<ref, ops>>
    BY <1>3, <1>4, <2>1, <2>2, SavePaymentDoes
  <2> QED
    BY <2>3, StampFrame
<1>5. ASSUME NEW c \in Sync, SyncSaves(c) PROVE StampsGrow'
  <2>1. row.ref = copy[c].ref /\ row.status # "ABSENT"
    BY <1>5, SyncSavesDoes DEF OneSync
  <2>2. /\ row'.stamp = clock' /\ clock' = clock + 1 /\ row'.ref <= clock
        /\ UNCHANGED <<ref, ops>>
    BY <1>3, <1>5, <2>1, SyncSavesDoes
  <2> QED
    BY <2>2, StampFrame
<1>6. CASE ReconcileSaves
  <2>1. ToReconcile(fixing.ref) /\ fixing.ref \in Ref /\ Replaceable(fixing.copy, fixing.ref)
    BY <1>6, WriterTypes DEF ReconcileSaves, OneRepair
  <2>2. fixing.ref <= clock
    BY <2>1 DEF StampsGrow, ToReconcile
  <2>3. ref' = ref /\ \A q \in Ref : ops'[q] = ops[q] \/ q <= clock
    BY <1>6, <2>2, ReconcileSavesDoes DEF SameOps
  <2>4. \/ row' = row /\ clock' = clock
        \/ row'.stamp = clock' /\ clock' = clock + 1 /\ row'.ref <= clock
        \/ row'.ref < row'.stamp /\ row'.stamp <= clock /\ clock' = clock
    BY <1>6, <2>2, ReconcileSavesDoes
  <2> QED
    BY <2>3, <2>4, StampFrame
<1>7. ASSUME NEW s \in Session, Pay(s) \/ End(s) \/ Refund(s)
      PROVE  UNCHANGED <<row, clock, ref, ops>>
  BY <1>7 DEF Pay, End, Refund
<1>8. ASSUME NEW kind \in Kind, NEW s \in Session, ReadPayment(kind, s)
      PROVE  UNCHANGED <<row, clock, ref, ops>>
  BY <1>8 DEF ReadPayment
<1>9. ASSUME NEW c \in Sync, SyncLists(c) \/ SyncAsks(c) \/ SyncFails(c)
      PROVE  UNCHANGED <<row, clock, ref, ops>>
  BY <1>9 DEF SyncLists, SyncAsks, SyncFails
<1>10. ASSUME LockExpires \/ (\E q \in Ref : ReconcileReads(q)) \/ ReconcileFails
      PROVE  UNCHANGED <<row, clock, ref, ops>>
  BY <1>10 DEF LockExpires, ReconcileReads, ReconcileFails
<1> QED
  BY <1>1, <1>2, <1>4, <1>5, <1>6, <1>7, <1>8, <1>9, <1>10 DEF Next, vars, SyncStep


\* Who writes the row.
LEMMA RowWriters ==
    ASSUME [Next]_vars
    PROVE  \/ UNCHANGED <<row, clock, published>>
           \/ \E j \in Job : SaveCheckout(j)
           \/ \E kind \in Kind, s \in Session : SavePayment(kind, s)
           \/ \E c \in Sync : SyncSaves(c)
           \/ ReconcileSaves
<1>1. ASSUME NEW j \in Job, JobStep(j), ~SaveCheckout(j) PROVE UNCHANGED <<row, clock, published>>
  BY <1>1 DEF JobStep, Begin, Open, GatewayOpens, GatewayFails, SaveFails, RecordFailure, Crash
<1>2. ASSUME NEW s \in Session, Pay(s) \/ End(s) \/ Refund(s) PROVE UNCHANGED <<row, clock, published>>
  BY <1>2 DEF Pay, End, Refund
<1>3. ASSUME NEW kind \in Kind, NEW s \in Session, ReadPayment(kind, s)
      PROVE  UNCHANGED <<row, clock, published>>
  BY <1>3 DEF ReadPayment
<1>4. ASSUME NEW c \in Sync, SyncLists(c) \/ SyncAsks(c) \/ SyncFails(c)
      PROVE  UNCHANGED <<row, clock, published>>
  BY <1>4 DEF SyncLists, SyncAsks, SyncFails
<1>5. ASSUME LockExpires \/ (\E q \in Ref : ReconcileReads(q)) \/ ReconcileFails
      PROVE  UNCHANGED <<row, clock, published>>
  BY <1>5 DEF LockExpires, ReconcileReads, ReconcileFails
<1> QED
  BY <1>1, <1>2, <1>3, <1>4, <1>5 DEF Next, vars, SyncStep

\* Who moves the jobs and their operations.
LEMMA OpsWriters ==
    ASSUME [Next]_vars
    PROVE  \/ UNCHANGED <<job, ref, got, ops>>
           \/ \E j \in Job : JobStep(j)
           \/ ReconcileSaves
<1>2. ASSUME NEW s \in Session, Pay(s) \/ End(s) \/ Refund(s)
      PROVE  UNCHANGED <<job, ref, got, ops>>
  BY <1>2 DEF Pay, End, Refund
<1>3. ASSUME NEW kind \in Kind, NEW s \in Session, ReadPayment(kind, s) \/ SavePayment(kind, s)
      PROVE  UNCHANGED <<job, ref, got, ops>>
  BY <1>3 DEF ReadPayment, SavePayment
<1>4. ASSUME NEW c \in Sync, SyncStep(c) PROVE UNCHANGED <<job, ref, got, ops>>
  BY <1>4 DEF SyncStep, SyncLists, SyncAsks, SyncSaves, SyncFails
<1>5. ASSUME LockExpires \/ (\E q \in Ref : ReconcileReads(q)) \/ ReconcileFails
      PROVE  UNCHANGED <<job, ref, got, ops>>
  BY <1>5 DEF LockExpires, ReconcileReads, ReconcileFails
<1> QED
  BY <1>2, <1>3, <1>4, <1>5 DEF Next, vars

\* The row names a session of its reference.
LEMMA RowMatches ==
    ASSUME TypeOK, SessionsNamed, ReadOfTheRow, SessionsMatch, OneSync, OneRepair, Grows,
           NothingOvertaken, [Next]_vars
    PROVE  row'.status # "ABSENT" => Known(row.session)' /\ refOf'[row'.session] = row'.ref
<1>1. ASSUME row'.session = row.session, row'.ref = row.ref, row.status # "ABSENT"
      PROVE  Known(row.session)' /\ refOf'[row'.session] = row'.ref
  <2>1. row.session \in Session /\ Known(row.session) /\ refOf[row.session] = row.ref
    BY <1>1 DEF SessionsNamed, SessionsMatch
  <2> QED
    BY <1>1, <2>1 DEF Grows, Known
<1>2. CASE UNCHANGED <<row, published>>
  BY <1>1, <1>2
<1>3. ASSUME NEW j \in Job, SaveCheckout(j)
      PROVE  Known(row.session)' /\ refOf'[row'.session] = row'.ref
  BY <1>3, SaveCheckoutDoes DEF SessionsMatch, Known
<1>4. ASSUME NEW kind \in Kind, NEW s \in Session, SavePayment(kind, s)
      PROVE  Known(row.session)' /\ refOf'[row'.session] = row'.ref
  <2>1. row.status # "ABSENT"
    BY <1>4, SavePaymentDoes DEF ReadOfTheRow
  <2> QED
    BY <1>1, <1>4, <2>1 DEF NothingOvertaken
<1>5. ASSUME NEW c \in Sync, SyncSaves(c)
      PROVE  Known(row.session)' /\ refOf'[row'.session] = row'.ref
  BY <1>1, <1>5, SyncSavesDoes DEF OneSync
<1>6. ASSUME ReconcileSaves, row'.status # "ABSENT"
      PROVE  Known(row.session)' /\ refOf'[row'.session] = row'.ref
  <2>1. ToReconcile(fixing.ref) /\ fixing.ref \in Ref /\ Replaceable(fixing.copy, fixing.ref)
    BY <1>6, WriterTypes DEF ReconcileSaves, OneRepair
  <2>2. CASE row'.session = row.session /\ row'.ref = row.ref /\ fixing.copy.status # "ABSENT"
    BY <1>1, <2>2 DEF SessionsNamed
  <2>3. CASE row'.session = ops[fixing.ref].session /\ row'.ref = fixing.ref
    <3>1. Known(ops[fixing.ref].session) /\ refOf[ops[fixing.ref].session] = fixing.ref
      BY <2>1 DEF SessionsMatch, ToReconcile
    <3>2. UNCHANGED <<remote, refOf>>
      BY <1>6, ReconcileSavesDoes
    <3> QED
      BY <2>3, <3>1, <3>2 DEF Known
  <2> QED
    BY <1>6, <2>2, <2>3, ReconcileSavesDoes
<1> QED
  BY <1>2, <1>3, <1>4, <1>5, <1>6, RowWriters

\* So does a job that was answered, and an operation.
LEMMA JobsMatch ==
    ASSUME TypeOK, SessionsNamed, SessionsMatch, OneRepair, Grows, [Next]_vars
    PROVE  /\ \A j \in Job : IF job'[j] \in {"answered", "unsaved"}
                             THEN Known(got[j])' /\ refOf'[got'[j]] = ref'[j]
                             ELSE got'[j] = NoSession
           /\ \A r \in Ref : ops'[r].session # NoSession =>
                Known(ops[r].session)' /\ refOf'[ops'[r].session] = r
<1> DEFINE Good(j) == IF job'[j] \in {"answered", "unsaved"}
                      THEN Known(got[j])' /\ refOf'[got'[j]] = ref'[j] ELSE got'[j] = NoSession
           Fine(r) == ops'[r].session # NoSession =>
                        Known(ops[r].session)' /\ refOf'[ops'[r].session] = r
<1>1. ASSUME NEW j \in Job, ref'[j] = ref[j], got'[j] = got[j],
             job'[j] \in {"answered", "unsaved"} <=> job[j] \in {"answered", "unsaved"}
      PROVE  Good(j)
  BY <1>1 DEF SessionsMatch, SessionsNamed, Grows, Known
<1>2. ASSUME NEW r \in Ref, ops'[r].session \in {NoSession, ops[r].session}
      PROVE  Fine(r)
  <2> SUFFICES ASSUME ops'[r].session # NoSession
               PROVE  Known(ops[r].session)' /\ refOf'[ops'[r].session] = r
    OBVIOUS
  <2>1. ops[r].session \in Session /\ Known(ops[r].session) /\ refOf[ops[r].session] = r
    BY <1>2, JobTypes DEF SessionsMatch, Operation
  <2> QED
    BY <1>2, <2>1 DEF Grows, Known
<1>3. CASE UNCHANGED <<job, ref, got, ops>>
  <2>1. \A j \in Job : Good(j)
    BY <1>1, <1>3
  <2>2. \A r \in Ref : Fine(r)
    BY <1>2, <1>3
  <2> QED
    BY <2>1, <2>2
<1>4. ASSUME NEW j \in Job, JobStep(j)
      PROVE  (\A i \in Job : Good(i)) /\ \A r \in Ref : Fine(r)
  <2>1. SameJobs(j)
    BY <1>4, BeginDoes, OpenDoes, GatewayOpensDoes, JobMovesDoes, SaveCheckoutDoes,
       RecordFailureDoes, CrashDoes DEF JobStep, Left
  <2>2. \A i \in Job \ {j} : Good(i)
    BY <1>1, <2>1 DEF SameJobs
  <2>3. CASE Begin(j)
    <3>1. Good(j)
      BY <2>3, BeginDoes DEF SessionsMatch
    <3>2. \A r \in Ref : Fine(r)
      BY <1>2, <2>3, BeginDoes
    <3> QED
      BY <2>2, <3>1, <3>2
  <2>4. CASE Open(j)
    <3>1. Good(j)
      BY <2>4, OpenDoes DEF SessionsMatch, Left
    <3>2. \A r \in Ref : Fine(r)
      BY <1>2, <2>4, OpenDoes DEF SameOps
    <3> QED
      BY <2>2, <3>1, <3>2
  <2>5. CASE GatewayOpens(j)
    <3>1. Good(j)
      <4>1. got[j] = NoSession
        BY <2>5, GatewayOpensDoes DEF SessionsMatch
      <4> QED
        BY <2>5, <4>1, GatewayOpensDoes DEF SessionsFor, Known
    <3>2. \A r \in Ref : Fine(r)
      BY <1>2, <2>5, GatewayOpensDoes
    <3> QED
      BY <2>2, <3>1, <3>2
  <2>6. CASE GatewayFails(j) \/ SaveFails(j)
    <3>1. Good(j)
      BY <1>1, <2>6, JobMovesDoes
    <3>2. \A r \in Ref : Fine(r)
      BY <1>2, <2>6, JobMovesDoes
    <3> QED
      BY <2>2, <3>1, <3>2
  <2>7. CASE SaveCheckout(j) \/ RecordFailure(j)
    <3>1. /\ Left(j) /\ SameOps(ref[j]) /\ ops'[ref[j]].session = got[j]
          /\ UNCHANGED <<remote, refOf>>
      BY <2>7, SaveCheckoutDoes, RecordFailureDoes
    <3>2. Good(j)
      BY <3>1 DEF Left
    <3>3. got[j] # NoSession => Known(got[j]) /\ refOf[got[j]] = ref[j]
      BY DEF SessionsMatch
    <3>4. \A r \in Ref : r = ref[j] => Fine(r)
      BY <3>1, <3>3 DEF Known
    <3>5. \A r \in Ref : r # ref[j] => Fine(r)
      BY <1>2, <3>1 DEF SameOps
    <3> QED
      BY <2>2, <3>2, <3>4, <3>5
  <2>8. CASE Crash(j)
    <3>1. Good(j)
      BY <2>8, CrashDoes DEF Left
    <3>2. \A r \in Ref : Fine(r)
      BY <1>2, <2>8, CrashDoes
    <3> QED
      BY <2>2, <3>1, <3>2
  <2> QED
    BY <1>4, <2>3, <2>4, <2>5, <2>6, <2>7, <2>8 DEF JobStep
<1>5. CASE ReconcileSaves
  <2>1. ToReconcile(fixing.ref) /\ fixing.ref \in Ref /\ Replaceable(fixing.copy, fixing.ref)
    BY <1>5, WriterTypes DEF ReconcileSaves, OneRepair
  <2>2. /\ UNCHANGED <<job, ref, got>> /\ SameOps(fixing.ref)
        /\ ops'[fixing.ref].session = ops[fixing.ref].session
    BY <1>5, ReconcileSavesDoes
  <2>3. \A j \in Job : Good(j)
    BY <1>1, <2>2
  <2>4. \A r \in Ref : Fine(r)
    BY <1>2, <2>2 DEF SameOps
  <2> QED
    BY <2>3, <2>4
<1> QED
  BY <1>3, <1>4, <1>5, OpsWriters

\* What was paid was published, and what is published is known.
LEMMA PublishedMatch ==
    ASSUME TypeOK, TypeOK', SessionsNamed, ReadOfTheRow, SessionsMatch, OneSync, OneRepair, Grows,
           NothingOvertaken, [Next]_vars
    PROVE  \A s \in Session : (WasPaid(s)' => s \in published') /\ (s \in published' => Known(s)')
<1>1. \A s \in Session : WasPaid(s)' => WasPaid(s) \/ s \in published
  <2>1. ASSUME NEW j \in Job, GatewayOpens(j), NEW s \in Session, WasPaid(s)' PROVE WasPaid(s)
    BY <2>1, GatewayOpensDoes DEF WasPaid
  <2>2. ASSUME NEW t \in Session, Pay(t) \/ End(t) \/ Refund(t), NEW s \in Session, WasPaid(s)'
        PROVE  WasPaid(s) \/ s \in published
    BY <2>2, GatewayDoes DEF WasPaid
  <2>3. ASSUME NEW j \in Job, JobStep(j), ~GatewayOpens(j) PROVE remote' = remote
    BY <2>3 DEF JobStep, Begin, Open, GatewayFails, SaveCheckout, SaveFails, RecordFailure, Crash
  <2>4. ASSUME NEW kind \in Kind, NEW s \in Session, ReadPayment(kind, s) \/ SavePayment(kind, s)
        PROVE  remote' = remote
    BY <2>4 DEF ReadPayment, SavePayment
  <2>5. ASSUME NEW c \in Sync, SyncStep(c) PROVE remote' = remote
    BY <2>5 DEF SyncStep, SyncLists, SyncAsks, SyncSaves, SyncFails
  <2>6. ASSUME LockExpires \/ (\E q \in Ref : ReconcileReads(q)) \/ ReconcileSaves \/ ReconcileFails
        PROVE  remote' = remote
    BY <2>6 DEF LockExpires, ReconcileReads, ReconcileSaves, ReconcileFails
  <2>7. CASE remote' = remote
    BY <2>7 DEF WasPaid
  <2> QED
    BY <2>1, <2>2, <2>3, <2>4, <2>5, <2>6, <2>7 DEF Next, vars
<1>2. \/ published' = published
      \/ published' = published \cup {row'.session} /\ row'.status # "ABSENT"
  <2>1. ASSUME NEW j \in Job, SaveCheckout(j)
        PROVE  published' = published \cup {row'.session} /\ row'.status # "ABSENT"
    BY <2>1, SaveCheckoutDoes
  <2>2. ASSUME NEW kind \in Kind, NEW s \in Session, SavePayment(kind, s)
        PROVE  published' = published \cup {row'.session} /\ row'.status # "ABSENT"
    BY <2>2, SavePaymentDoes DEF TargetOf
  <2>3. ASSUME NEW c \in Sync, SyncSaves(c)
        PROVE  published' = published \cup {row'.session} /\ row'.status # "ABSENT"
    <3>1. told[c] # "ABSENT"
      BY WriterTypes DEF CheckoutStatus
    <3> QED
      BY <2>3, <3>1, SyncSavesDoes
  <2>4. CASE ReconcileSaves
    <3>1. LocalStatus(fixing.status) # "ABSENT"
      BY WriterTypes DEF LocalStatus, CheckoutStatus
    <3>2. fixing.copy.status # "ABSENT" => row.status # "ABSENT"
      BY DEF SessionsNamed
    <3> QED
      BY <2>4, <3>1, <3>2, ReconcileSavesDoes
  <2> QED
    BY <2>1, <2>2, <2>3, <2>4, RowWriters
<1>3. row'.status # "ABSENT" => Known(row.session)'
  BY RowMatches
<1> QED
  BY <1>1, <1>2, <1>3 DEF SessionsMatch, Grows, Known

\* The row, the jobs and the operations name sessions of their references.
LEMMA SessionsStillMatch ==
    ASSUME TypeOK, TypeOK', SessionsNamed, ReadOfTheRow, SessionsMatch, OneSync, OneRepair, Grows,
           NothingOvertaken, [Next]_vars
    PROVE  SessionsMatch'
BY RowMatches, JobsMatch, PublishedMatch DEF SessionsMatch

(****************************** Replacing the row ***************************)

\* What a pending, or any, payment says of the operations that are not finished.
LEMMA NothingUnfinished ==
    ASSUME OneRenewal, NEW r \in Ref, Unfinished(r)
    PROVE  /\ row.status # "PENDING"
           /\ provider = "asaas" => row.status \in Renewable \cup {"ABSENT"}
           /\ row.status # "ABSENT" => r # 0 /\ row.ref # r /\ Dead(row.session)
           /\ row.status \in Renewable => row.stamp = r
           /\ row.status = "ABSENT" => r = 0
<1>1. Replaceable(row, r)
  BY DEF OneRenewal
<1>2. "ABSENT" \notin Renewable \cup {"PAID", "REFUNDED"} /\ "PENDING" \notin Renewable
  BY DEF Renewable
<1> QED
  BY <1>1, <1>2 DEF Replaceable

\* A notification changes a payment that no operation replaces, or tells of money.
LEMMA NotifiedRow ==
    ASSUME TypeOK, ReadOfTheRow, OneRenewal, Notified, NotifiedOfTheRow,
           NEW kind \in Kind, NEW s \in Session, SavePayment(kind, s)
    PROVE  /\ row.status # "ABSENT"
           /\ provider = "asaas" => /\ row.session = s /\ \A r \in Ref : ~Unfinished(r)
                                    /\ row.status = IF kind = RefundKind THEN "PAID" ELSE "PENDING"
           /\ provider # "asaas" => kind \in {"CHECKOUT_PAID", RefundKind}
           /\ TargetOf(kind) \in Renewable => provider = "asaas" /\ Dead(s)
           /\ TargetOf(kind) \notin {"PENDING", "ABSENT"}
           /\ TargetOf(kind) = "PAID" <=> kind = "CHECKOUT_PAID"
           /\ TargetOf(kind) = "REFUNDED" <=> kind = RefundKind
<1>1. inbox[<<kind, s>>] = "read"
  BY SavePaymentDoes
<1>2. kind \in {"CHECKOUT_PAID", "CHECKOUT_EXPIRED", "CHECKOUT_CANCELED", RefundKind}
  BY DEF Kind, RefundKind
<1>3. row.status # "ABSENT"
  BY <1>1 DEF ReadOfTheRow
<1>4. provider = "asaas" =>
        row.session = s /\ row.status = IF kind = RefundKind THEN "PAID" ELSE "PENDING"
  BY <1>1 DEF NotifiedOfTheRow
<1>5. provider = "asaas" => \A r \in Ref : ~Unfinished(r)
  <2>1. "PAID" \notin Renewable \cup {"ABSENT"}
    BY DEF Renewable
  <2> QED
    BY <1>4, <2>1, NothingUnfinished
<1>6. kind \in {"CHECKOUT_EXPIRED", "CHECKOUT_CANCELED"} => provider = "asaas" /\ Dead(s)
  BY <1>1 DEF Notified, Dead
<1>7. /\ TargetOf(kind) \in Renewable => kind \in {"CHECKOUT_EXPIRED", "CHECKOUT_CANCELED"}
      /\ TargetOf(kind) \notin {"PENDING", "ABSENT"}
      /\ TargetOf(kind) = "PAID" <=> kind = "CHECKOUT_PAID"
      /\ TargetOf(kind) = "REFUNDED" <=> kind = RefundKind
  BY <1>2 DEF TargetOf, RefundKind, Renewable
<1> QED
  BY <1>2, <1>3, <1>4, <1>5, <1>6, <1>7

\* The row of a step that leaves it, or only turns it to PAID or REFUNDED.
LEMMA StillReplaceable ==
    ASSUME TypeOK, SessionsNamed, Grows, provider' = provider,
           NEW r \in Ref, Replaceable(row, r),
           \/ row' = row
           \/ /\ row.status # "ABSENT" /\ provider # "asaas"
              /\ row'.status \in {"PAID", "REFUNDED"}
              /\ row'.session = row.session /\ row'.ref = row.ref
    PROVE  Replaceable(row, r)'
<1>1. row.status # "ABSENT" => row.session \in Session
  BY DEF SessionsNamed
<1>2. Renewable = {"EXPIRED", "CANCELED"}
  BY DEF Renewable
<1>3. CASE r = 0
  BY <1>3, <1>2 DEF Replaceable
<1>4. CASE r # 0
  <2>1. row.status # "ABSENT" /\ Dead(row.session) /\ row.ref # r
    BY <1>2, <1>4 DEF Replaceable
  <2>2. Dead(row.session)' /\ row'.ref # r /\ row'.session = row.session
    BY <1>1, <2>1 DEF Grows, Dead
  <2>3. CASE row' = row
    BY <1>2, <1>4, <2>2, <2>3 DEF Replaceable
  <2>4. CASE row'.status \in {"PAID", "REFUNDED"} /\ provider # "asaas"
    BY <1>2, <1>4, <2>2, <2>4 DEF Replaceable
  <2> QED
    BY <2>3, <2>4
<1> QED
  BY <1>3, <1>4

\* A request finds no operation unfinished: its own is the only one.
LEMMA BeginRenews ==
    ASSUME TypeOK, TypeOK', SessionsNamed, StampsGrow, OneRenewal, Grows, provider' = provider,
           NEW j \in Job, Begin(j)
    PROVE  OneRenewal'
<1>1. /\ UNCHANGED <<row, ops, published, remote>> /\ SameJobs(j) /\ job'[j] = "read"
      /\ row.status \in Renewable \cup {"ABSENT"}
      /\ ref'[j] = IF row.status = "ABSENT" THEN 0 ELSE row.stamp
  BY BeginDoes
<1>2. ASSUME NEW r \in Ref, Unfinished(r)' PROVE r = ref'[j] /\ Replaceable(row, r)'
  <2>1. Unfinished(r) \/ r = ref'[j]
    BY <1>1, <1>2 DEF Unfinished, ToReconcile, Startable, Trying, SameJobs
  <2>2. r = ref'[j]
    <3>1. Unfinished(r) => r = ref'[j]
      BY <1>1, NothingUnfinished
    <3> QED
      BY <2>1, <3>1
  <2>3. Replaceable(row, r)
    <3>1. CASE row.status = "ABSENT"
      BY <1>1, <2>2, <3>1 DEF Replaceable
    <3>2. CASE row.status # "ABSENT"
      <4>1. row.status \in Renewable /\ r = row.stamp /\ Dead(row.session)
        BY <1>1, <2>2, <3>2 DEF OneRenewal
      <4>2. row.ref # r /\ r # 0
        <5>1. row.ref \in Nat /\ row.stamp \in Nat /\ row.ref < row.stamp
          BY <3>2, RowTypes, RefIsNat DEF StampsGrow
        <5> QED
          BY <4>1, <5>1
      <4> QED
        BY <4>1, <4>2 DEF Replaceable
    <3> QED
      BY <3>1, <3>2
  <2> QED
    BY <1>1, <2>2, <2>3, StillReplaceable
<1>3. \A r, q \in Ref : Unfinished(r)' /\ Unfinished(q)' => r = q
  BY <1>2
<1> QED
  BY <1>1, <1>2, <1>3 DEF OneRenewal, Dead

\* At most one operation is on its way to the row, and the row waits for it.
LEMMA OneRenewalHolds ==
    ASSUME TypeOK, TypeOK', SessionsNamed, ReadOfTheRow, OneTry, StampsGrow, OneRenewal, OneRepair,
           OneSync, Notified, NotifiedOfTheRow, Grows, NothingOvertaken, provider' = provider,
           [Next]_vars
    PROVE  OneRenewal'
<1>1. CASE \E j \in Job : Begin(j)
  BY <1>1, BeginRenews
<1>2. CASE \A j \in Job : ~Begin(j)
  <2>1. \A r \in Ref : Unfinished(r)' => Unfinished(r)
    BY <1>2, NothingStarts
  <2>2. \A r, q \in Ref : Unfinished(r)' /\ Unfinished(q)' => r = q
    BY <2>1 DEF OneRenewal
  <2>3. Renewable = {"EXPIRED", "CANCELED"}
    BY DEF Renewable
  <2>4. CASE UNCHANGED <<row, published>>
    <3>1. \A r \in Ref : Unfinished(r)' => Replaceable(row, r)'
      BY <2>1, <2>4, StillReplaceable DEF OneRenewal
    <3>2. row'.status \in Renewable => Dead(row.session)'
      BY <2>3, <2>4 DEF OneRenewal, SessionsNamed, Grows, Dead
    <3> QED
      BY <2>2, <2>4, <3>1, <3>2 DEF OneRenewal
  <2>5. ASSUME NEW j \in Job, SaveCheckout(j) PROVE OneRenewal'
    <3>1. Next
      BY <2>5 DEF Next, JobStep
    <3>2. \A r \in Ref : ~Unfinished(r)'
      BY <2>5, <3>1, NothingLeft
    <3>3. row'.status = "PENDING"
      BY <2>5, SaveCheckoutDoes
    <3> QED
      BY <2>3, <3>2, <3>3 DEF OneRenewal
  <2>6. CASE ReconcileSaves
    <3>1. ToReconcile(fixing.ref) /\ fixing.ref \in Ref /\ Replaceable(fixing.copy, fixing.ref)
          /\ (fixing.status \in Renewable => Dead(ops[fixing.ref].session))
      BY <2>6, WriterTypes DEF ReconcileSaves, OneRepair
    <3>2. Next
      BY <2>6 DEF Next
    <3>3. \A r \in Ref : ~Unfinished(r)'
      BY <2>6, <3>2, NothingLeft
    <3>4. row'.status # "ABSENT"
      <4>1. LocalStatus(fixing.status) # "ABSENT"
        BY WriterTypes DEF LocalStatus, CheckoutStatus
      <4>2. fixing.copy.status # "ABSENT" => row.status # "ABSENT"
        BY DEF SessionsNamed
      <4> QED
        BY <2>6, <4>1, <4>2, ReconcileSavesDoes
    <3>5. row'.status \in Renewable => Dead(row.session)'
      <4>1. CASE row' = row
        BY <2>3, <4>1 DEF OneRenewal, SessionsNamed, Grows, Dead
      <4>2. CASE row'.status \in {"PAID", "REFUNDED"}
        BY <2>3, <4>2
      <4>3. CASE row'.status = LocalStatus(fixing.status) /\ row'.session = ops[fixing.ref].session
        <5>1. remote' = remote
          BY <2>6, ReconcileSavesDoes
        <5>2. row'.status \in Renewable => fixing.status \in Renewable
          BY <2>3, <4>3 DEF LocalStatus
        <5> QED
          BY <3>1, <4>3, <5>1, <5>2 DEF Dead
      <4> QED
        BY <2>6, <4>1, <4>2, <4>3, ReconcileSavesDoes
    <3> QED
      BY <3>3, <3>4, <3>5 DEF OneRenewal
  <2>7. ASSUME NEW kind \in Kind, NEW s \in Session, SavePayment(kind, s) PROVE OneRenewal'
    <3>1. /\ row'.status = TargetOf(kind) /\ row'.session = row.session /\ row'.ref = row.ref
          /\ remote' = remote
      BY <2>7, SavePaymentDoes DEF NothingOvertaken
    <3>2. row'.status # "ABSENT"
      BY <2>7, <3>1, NotifiedRow
    <3>3. row'.status \in Renewable => Dead(row.session)'
      BY <2>7, <3>1, NotifiedRow DEF Dead
    <3>4. \A r \in Ref : Unfinished(r)' => Replaceable(row, r)'
      <4>1. CASE provider = "asaas"
        BY <2>1, <2>7, <4>1, NotifiedRow
      <4>2. CASE provider # "asaas"
        <5>1. row.status # "ABSENT" /\ row'.status \in {"PAID", "REFUNDED"}
          BY <2>7, <3>1, <4>2, NotifiedRow
        <5> QED
          BY <2>1, <3>1, <4>2, <5>1, StillReplaceable DEF OneRenewal
      <4> QED
        BY <4>1, <4>2
    <3> QED
      BY <2>2, <3>2, <3>3, <3>4 DEF OneRenewal
  <2>8. ASSUME NEW c \in Sync, SyncSaves(c) PROVE OneRenewal'
    <3>1. /\ row'.status = told[c] /\ row'.session = copy[c].session /\ sync[c] = "asked"
          /\ remote' = remote
      BY <2>8, SyncSavesDoes
    <3>2. \A r \in Ref : ~Unfinished(r)'
      BY <2>1, <3>1 DEF OneSync
    <3>3. row'.status # "ABSENT"
      BY <3>1, WriterTypes DEF CheckoutStatus
    <3>4. row'.status \in Renewable => Dead(row.session)'
      BY <2>3, <3>1 DEF OneSync, Dead
    <3> QED
      BY <3>2, <3>3, <3>4 DEF OneRenewal
  <2> QED
    BY <2>4, <2>5, <2>6, <2>7, <2>8, RowWriters
<1> QED
  BY <1>1, <1>2

\* What GetCheckout says is true of the session.
LEMMA Answers ==
    ASSUME NEW s \in Session, NEW status \in GetCheckout(s)
    PROVE  /\ status \in CheckoutStatus
           /\ status = "PAID" => WasPaid(s)
           /\ status \in Renewable => Dead(s)
BY DEF GetCheckout, WasPaid, Dead, Renewable, CheckoutStatus

\* While an operation is to be reconciled the row keeps its session.
LEMMA RowWaits ==
    ASSUME TypeOK, OneRenewal, OneRepair, OneSync, NothingOvertaken, [Next]_vars,
           fixing.pc = "read", fixing'.pc = "read"
    PROVE  /\ row'.session = row.session /\ row'.ref = row.ref
           /\ clock' \in {clock, clock + 1}
<1>1. Unfinished(fixing.ref) /\ fixing.ref \in Ref
  BY WriterTypes DEF OneRepair, Unfinished
<1>2. ASSUME NEW j \in Job, SaveCheckout(j) PROVE FALSE
  <2>1. Trying(j) /\ ref[j] \in Ref /\ ref[j] # fixing.ref
    BY <1>2, SaveCheckoutDoes, JobTypes DEF Trying, Unlocked
  <2>2. Unfinished(ref[j])
    BY <2>1 DEF Unfinished
  <2> QED
    BY <1>1, <2>1, <2>2 DEF OneRenewal
<1>3. ASSUME NEW kind \in Kind, NEW s \in Session, SavePayment(kind, s)
      PROVE  row'.session = row.session /\ row'.ref = row.ref /\ clock' = clock + 1
  BY <1>3, SavePaymentDoes DEF NothingOvertaken
<1>4. ASSUME NEW c \in Sync, SyncSaves(c) PROVE FALSE
  BY <1>1, <1>4, SyncSavesDoes DEF OneSync
<1>5. ~ReconcileSaves
  BY DEF ReconcileSaves, NotFixing
<1> QED
  BY <1>2, <1>3, <1>4, <1>5, RowWriters

\* The operation and the row that the reconciler has read stay as they were.
LEMMA OneRepairHolds ==
    ASSUME TypeOK, SessionsNamed, StampsGrow, OneRenewal, OneRepair, OneSync, PaidIsTrue, Grows,
           NothingOvertaken, provider' = provider, [Next]_vars
    PROVE  OneRepair'
<1> SUFFICES ASSUME fixing'.pc = "read" PROVE OneRepair'
  BY DEF OneRepair
<1>1. ASSUME fixing' = fixing, ops'[fixing.ref] = ops[fixing.ref] PROVE OneRepair'
  <2>1. /\ ToReconcile(fixing.ref) /\ Replaceable(fixing.copy, fixing.ref)
        /\ fixing.copy.status # "ABSENT" =>
             /\ fixing.copy.session = row.session /\ fixing.copy.ref = row.ref
             /\ fixing.copy.ref < fixing.copy.stamp /\ fixing.copy.stamp <= clock
        /\ fixing.copy.status \in {"PAID", "REFUNDED"} => Refunded
        /\ fixing.status \in Renewable => Dead(ops[fixing.ref].session)
        /\ fixing.status = "PAID" => WasPaid(ops[fixing.ref].session)
    BY <1>1 DEF OneRepair
  <2>2. ops[fixing.ref].session \in Session
    BY <2>1, JobTypes, WriterTypes DEF ToReconcile, Operation
  <2>3. Replaceable(fixing.copy, fixing.ref)'
    <3>1. CASE fixing.ref = 0
      BY <1>1, <2>1, <3>1 DEF Replaceable
    <3>2. CASE fixing.ref # 0
      <4>1. fixing.copy.status # "ABSENT" /\ Dead(fixing.copy.session)
        BY <2>1, <3>2 DEF Replaceable, Renewable
      <4>2. Dead(fixing.copy.session)'
        BY <1>1, <4>1 DEF Grows, Dead, SessionsNamed
      <4> QED
        BY <1>1, <2>1, <3>2, <4>2 DEF Replaceable
    <3> QED
      BY <3>1, <3>2
  <2>4. ToReconcile(fixing.ref)'
    BY <1>1, <2>1 DEF ToReconcile
  <2>5. /\ fixing'.status \in Renewable => Dead(ops[fixing.ref].session)'
        /\ fixing'.status = "PAID" => WasPaid(ops[fixing.ref].session)'
    BY <1>1, <2>1, <2>2 DEF Grows, Dead, WasPaid
  <2>6. fixing'.copy.status # "ABSENT" =>
          /\ fixing'.copy.session = row'.session /\ fixing'.copy.ref = row'.ref
          /\ fixing'.copy.ref < fixing'.copy.stamp /\ fixing'.copy.stamp <= clock'
    <3>1. fixing.pc = "read"
      BY <1>1
    <3>2. row'.session = row.session /\ row'.ref = row.ref /\ clock' \in {clock, clock + 1}
      BY <3>1, RowWaits
    <3>3. clock \in Nat /\ fixing.copy.stamp \in Nat
      BY RowTypes, WriterTypes, RefIsNat DEF Row
    <3> QED
      BY <1>1, <2>1, <3>2, <3>3
  <2>7. fixing'.copy.status \in {"PAID", "REFUNDED"} => Refunded'
    BY <1>1, <2>1 DEF Grows, Refunded
  <2> QED
    BY <1>1, <2>3, <2>4, <2>5, <2>6, <2>7 DEF OneRepair
<1>2. ASSUME NEW j \in Job, JobStep(j) PROVE OneRepair'
  <2>1. fixing' = fixing
    BY <1>2 DEF JobStep, Begin, Open, GatewayOpens, GatewayFails, SaveCheckout, SaveFails,
                RecordFailure, Crash
  <2>2. ToReconcile(fixing.ref) /\ fixing.ref \in Ref
    BY <2>1, WriterTypes DEF OneRepair
  <2>3. ops' = ops \/ (SameOps(ref[j]) /\ ref[j] # fixing.ref)
    <3>1. CASE Open(j)
      BY <2>2, <3>1, OpenDoes DEF Startable, ToReconcile
    <3>2. CASE SaveCheckout(j) \/ RecordFailure(j)
      BY <2>1, <3>2, SaveCheckoutDoes, RecordFailureDoes DEF Unlocked
    <3> QED
      BY <1>2, <3>1, <3>2, BeginDoes, GatewayOpensDoes, JobMovesDoes, CrashDoes DEF JobStep
  <2>4. ops'[fixing.ref] = ops[fixing.ref]
    BY <2>2, <2>3 DEF SameOps
  <2> QED
    BY <1>1, <2>1, <2>4
<1>3. ASSUME NEW r \in Ref, ReconcileReads(r) PROVE OneRepair'
  <2>1. /\ UNCHANGED <<ops, remote, row, clock>>
        /\ ToReconcile(r)
        /\ fixing'.pc = "read" /\ fixing'.ref = r /\ fixing'.copy = row
        /\ fixing'.status \in GetCheckout(ops[r].session)
    BY <1>3, ReconcileReadsDoes
  <2>2. ops[r].session \in Session
    BY <2>1, JobTypes DEF ToReconcile, Operation
  <2>3. /\ fixing'.status = "PAID" => WasPaid(ops[r].session)
        /\ fixing'.status \in Renewable => Dead(ops[r].session)
    BY <2>1, <2>2, Answers
  <2>4. Replaceable(row, r)
    BY <2>1 DEF OneRenewal, Unfinished
  <2>5. Replaceable(fixing.copy, fixing.ref)'
    BY <2>1, <2>4 DEF Replaceable, Dead
  <2>6. row.status # "ABSENT" => row.ref < row.stamp /\ row.stamp <= clock
    BY DEF StampsGrow
  <2>7. row.status \in {"PAID", "REFUNDED"} => Refunded'
    <3>1. row.status = "PAID" => Dead(row.session)
      BY <2>4 DEF Replaceable
    <3>2. row.status \in {"PAID", "REFUNDED"} => Refunded
      BY <3>1 DEF PaidIsTrue, Dead
    <3> QED
      BY <3>2 DEF Grows, Refunded
  <2>8. /\ ToReconcile(fixing.ref)'
        /\ fixing'.status \in Renewable => Dead(ops[fixing.ref].session)'
        /\ fixing'.status = "PAID" => WasPaid(ops[fixing.ref].session)'
    BY <2>1, <2>3 DEF ToReconcile, Dead, WasPaid
  <2>9. fixing'.copy.status # "ABSENT" =>
          /\ fixing'.copy.session = row'.session /\ fixing'.copy.ref = row'.ref
          /\ fixing'.copy.ref < fixing'.copy.stamp /\ fixing'.copy.stamp <= clock'
    BY <2>1, <2>6
  <2>10. fixing'.copy.status \in {"PAID", "REFUNDED"} => Refunded'
    BY <2>1, <2>7
  <2> QED
    BY <2>1, <2>5, <2>8, <2>9, <2>10 DEF OneRepair
<1>4. ASSUME ReconcileSaves \/ ReconcileFails PROVE FALSE
  BY <1>4 DEF ReconcileSaves, ReconcileFails, NotFixing
<1>5. ASSUME NEW s \in Session, Pay(s) \/ End(s) \/ Refund(s) PROVE UNCHANGED <<fixing, ops>>
  BY <1>5 DEF Pay, End, Refund
<1>6. ASSUME NEW kind \in Kind, NEW s \in Session, ReadPayment(kind, s) \/ SavePayment(kind, s)
      PROVE  UNCHANGED <<fixing, ops>>
  BY <1>6 DEF ReadPayment, SavePayment
<1>7. ASSUME NEW c \in Sync, SyncStep(c) PROVE UNCHANGED <<fixing, ops>>
  BY <1>7 DEF SyncStep, SyncLists, SyncAsks, SyncSaves, SyncFails
<1>8. ASSUME LockExpires PROVE UNCHANGED <<fixing, ops>>
  BY <1>8 DEF LockExpires
<1> QED
  BY <1>1, <1>2, <1>3, <1>4, <1>5, <1>6, <1>7, <1>8 DEF Next, vars

(****************************** The synchroniser ****************************)

\* Who moves the synchronisers.
LEMMA SyncWriters ==
    ASSUME [Next]_vars
    PROVE  UNCHANGED <<sync, copy, told, lock>> \/ (\E c \in Sync : SyncStep(c)) \/ LockExpires
<1>1. ASSUME NEW j \in Job, JobStep(j) PROVE UNCHANGED <<sync, copy, told, lock>>
  BY <1>1 DEF JobStep, Begin, Open, GatewayOpens, GatewayFails, SaveCheckout, SaveFails,
              RecordFailure, Crash
<1>2. ASSUME NEW s \in Session, Pay(s) \/ End(s) \/ Refund(s)
      PROVE  UNCHANGED <<sync, copy, told, lock>>
  BY <1>2 DEF Pay, End, Refund
<1>3. ASSUME NEW kind \in Kind, NEW s \in Session, ReadPayment(kind, s) \/ SavePayment(kind, s)
      PROVE  UNCHANGED <<sync, copy, told, lock>>
  BY <1>3 DEF ReadPayment, SavePayment
<1>4. ASSUME (\E r \in Ref : ReconcileReads(r)) \/ ReconcileSaves \/ ReconcileFails
      PROVE  UNCHANGED <<sync, copy, told, lock>>
  BY <1>4 DEF ReconcileReads, ReconcileSaves, ReconcileFails
<1> QED
  BY <1>1, <1>2, <1>3, <1>4 DEF Next, vars

\* Who moves the notifications.
LEMMA InboxWriters ==
    ASSUME [Next]_vars
    PROVE  \/ UNCHANGED <<inbox, held>>
           \/ \E s \in Session : Pay(s) \/ End(s) \/ Refund(s)
           \/ \E kind \in Kind, s \in Session : ReadPayment(kind, s) \/ SavePayment(kind, s)
<1>1. ASSUME NEW j \in Job, JobStep(j) PROVE UNCHANGED <<inbox, held>>
  BY <1>1 DEF JobStep, Begin, Open, GatewayOpens, GatewayFails, SaveCheckout, SaveFails,
              RecordFailure, Crash
<1>2. ASSUME NEW c \in Sync, SyncStep(c) PROVE UNCHANGED <<inbox, held>>
  BY <1>2 DEF SyncStep, SyncLists, SyncAsks, SyncSaves, SyncFails
<1>3. ASSUME LockExpires \/ (\E r \in Ref : ReconcileReads(r)) \/ ReconcileSaves \/ ReconcileFails
      PROVE  UNCHANGED <<inbox, held>>
  BY <1>3 DEF LockExpires, ReconcileReads, ReconcileSaves, ReconcileFails
<1> QED
  BY <1>1, <1>2, <1>3 DEF Next, vars

\* Handling a notification moves no other.
LEMMA OthersWait ==
    ASSUME TypeOK, NEW k \in Kind, NEW t \in Session, ReadPayment(k, t) \/ SavePayment(k, t),
           NEW kind \in Kind, NEW s \in Session, kind # k \/ s # t
    PROVE  inbox'[<<kind, s>>] = inbox[<<kind, s>>] /\ held'[<<kind, s>>] = held[<<kind, s>>]
<1>1. OthersStay(k, t)
  BY ReadPaymentDoes, SavePaymentDoes
<1> QED
  BY <1>1 DEF OthersStay

\* Whoever brings a session to the row was unfinished, and found a dead row.
LEMMA Replacing ==
    ASSUME TypeOK, OneRenewal, OneRepair,
           (\E j \in Job : SaveCheckout(j)) \/ ReconcileSaves
    PROVE  /\ \E r \in Ref : Unfinished(r)
           /\ row.status # "PENDING"
           /\ provider = "asaas" => row.status \in Renewable \cup {"ABSENT"}
           /\ row.status # "ABSENT" => Dead(row.session)
<1>1. ASSUME NEW j \in Job, SaveCheckout(j) PROVE \E r \in Ref : Unfinished(r)
  BY <1>1, SaveCheckoutDoes, JobTypes DEF Unfinished, Trying
<1>2. ASSUME ReconcileSaves PROVE \E r \in Ref : Unfinished(r)
  BY <1>2, WriterTypes DEF ReconcileSaves, OneRepair, Unfinished
<1> QED
  BY <1>1, <1>2, NothingUnfinished

\* A synchroniser at work keeps its lock, and the row the session it asks for.
LEMMA OneSyncHolds ==
    ASSUME TypeOK, SessionsNamed, ReadOfTheRow, OneRenewal, OneRepair, OneSync, Notified,
           NotifiedOfTheRow, Grows, NothingOvertaken, provider' = provider, Calm', [Next]_vars
    PROVE  OneSync'
<1> SUFFICES ASSUME NEW c \in Sync, sync'[c] # "idle"
             PROVE  /\ lock' = c
                    /\ provider' = "mercadopago"
                    /\ row'.session = copy'[c].session /\ row'.ref = copy'[c].ref
                    /\ row'.status \in {"PENDING", "PAID", "REFUNDED"}
                    /\ \A r \in Ref : ~Unfinished(r)'
                    /\ sync'[c] = "asked" => IF told'[c] = "PAID" THEN WasPaid(copy[c].session)'
                                             ELSE Dead(copy[c].session)'
  BY DEF OneSync
<1>0. \A b \in Sync : sync[b] # "idle" => lock = b /\ b # Nobody
  BY SyncAssumption DEF OneSync
<1>1. CASE sync[c] = "idle"
  <2>1. PICK b \in Sync : SyncStep(b)
    BY <1>1, SyncWriters, ExpiryDoes
  <2>2. SyncLists(c)
    <3>1. sync'[b] # "idle" \/ LetGo(b)
      BY <2>1, SyncListsDoes, SyncAsksDoes, SyncSavesDoes, SyncFailsDoes DEF SyncStep
    <3>2. b = c
      BY <1>1, <2>1, SyncListsDoes, SyncAsksDoes, SyncSavesDoes, SyncFailsDoes DEF SyncStep, LetGo
    <3> QED
      BY <1>1, <2>1, <3>2, SyncAsksDoes, SyncSavesDoes, SyncFailsDoes DEF SyncStep
  <2>3. /\ UNCHANGED <<row, ops, job, ref>>
        /\ row.status = "PENDING" /\ provider = "mercadopago" /\ lock' = c
        /\ sync'[c] = "listed" /\ copy'[c] = row
    BY <2>2, SyncListsDoes
  <2>4. \A r \in Ref : ~Unfinished(r)
    BY <2>3, NothingUnfinished
  <2>5. \A r \in Ref : ~Unfinished(r)'
    BY <2>3, <2>4 DEF Unfinished, ToReconcile, Startable, Trying
  <2> QED
    BY <2>3, <2>5
<1>2. CASE sync[c] # "idle"
  <2>1. /\ lock = c /\ provider = "mercadopago"
        /\ row.session = copy[c].session /\ row.ref = copy[c].ref
        /\ row.status \in {"PENDING", "PAID", "REFUNDED"}
        /\ \A r \in Ref : ~Unfinished(r)
        /\ sync[c] = "asked" => IF told[c] = "PAID" THEN WasPaid(copy[c].session)
                                ELSE Dead(copy[c].session)
    BY <1>2 DEF OneSync
  <2>2. \A r \in Ref : ~Unfinished(r)'
    <3>1. \A j \in Job : ~Begin(j)
      BY <2>1, BeginDoes DEF Renewable
    <3> QED
      BY <2>1, <3>1, NothingStarts
  <2>3. \/ UNCHANGED <<sync, copy, told, lock>>
        \/ SyncAsks(c) /\ sync'[c] = "asked"
    <3>1. ~LockExpires
      BY <1>2, <2>1, ExpiryDoes DEF Calm
    <3>2. ASSUME NEW b \in Sync, SyncStep(b) PROVE SyncAsks(c) /\ sync'[c] = "asked"
      <4>1. b = c
        <5>1. ~SyncLists(b)
          BY <1>0, <1>2, <2>1, SyncListsDoes
        <5>2. sync[b] # "idle"
          BY <3>2, <5>1, SyncAsksDoes, SyncSavesDoes, SyncFailsDoes DEF SyncStep
        <5> QED
          BY <1>0, <2>1, <5>2
      <4>2. ~SyncLists(c) /\ ~SyncSaves(c) /\ ~SyncFails(c)
        BY <1>0, <1>2, <2>1, SyncListsDoes, SyncSavesDoes, SyncFailsDoes DEF LetGo
      <4> QED
        BY <3>2, <4>1, <4>2, SyncAsksDoes DEF SyncStep, LetGo
    <3> QED
      BY <3>1, <3>2, SyncWriters
  <2>4. /\ lock' = lock /\ copy'[c] = copy[c]
        /\ sync'[c] = "asked" => IF told'[c] = "PAID" THEN WasPaid(copy[c].session)
                                 ELSE Dead(copy[c].session)
    <3>1. CASE UNCHANGED <<sync, copy, told, lock>>
      BY <2>1, <3>1
    <3>2. CASE SyncAsks(c) /\ sync'[c] = "asked"
      <4>1. /\ told'[c] # "ACTIVE" /\ told'[c] \in GetCheckout(copy[c].session)
            /\ UNCHANGED <<copy, lock>>
        BY <3>2, SyncAsksDoes DEF LetGo
      <4>2. copy[c].session \in Session
        BY <1>2 DEF SessionsNamed
      <4>3. /\ told'[c] \in CheckoutStatus
            /\ told'[c] = "PAID" => WasPaid(copy[c].session)
            /\ told'[c] \in Renewable => Dead(copy[c].session)
        BY <4>1, <4>2, Answers
      <4> QED
        BY <4>1, <4>3 DEF CheckoutStatus, Renewable
    <3> QED
      BY <2>3, <3>1, <3>2
  <2>5. sync'[c] = "asked" => IF told'[c] = "PAID" THEN WasPaid(copy[c].session)'
                              ELSE Dead(copy[c].session)'
    <3>1. copy[c].session \in Session
      BY <1>2 DEF SessionsNamed
    <3> QED
      BY <2>4, <3>1 DEF Grows, WasPaid, Dead
  <2>6. /\ row'.session = row.session /\ row'.ref = row.ref
        /\ row'.status \in {"PENDING", "PAID", "REFUNDED"}
    <3>1. ~((\E j \in Job : SaveCheckout(j)) \/ ReconcileSaves)
      BY <2>1, Replacing
    <3>2. ASSUME NEW b \in Sync, SyncSaves(b) PROVE FALSE
      BY <1>0, <2>1, <3>2, SyncSavesDoes DEF LetGo
    <3>3. ASSUME NEW kind \in Kind, NEW s \in Session, SavePayment(kind, s)
          PROVE  /\ row'.session = row.session /\ row'.ref = row.ref
                 /\ row'.status \in {"PENDING", "PAID", "REFUNDED"}
      <4>1. kind \in {"CHECKOUT_PAID", RefundKind}
        BY <2>1, <3>3, NotifiedRow
      <4> QED
        BY <3>3, <4>1, SavePaymentDoes DEF TargetOf, NothingOvertaken
    <3> QED
      BY <2>1, <3>1, <3>2, <3>3, RowWriters
  <2> QED
    BY <2>1, <2>2, <2>4, <2>5, <2>6
<1> QED
  BY <1>1, <1>2

(******************************* Notifications ******************************)

\* A notification on its way is of a session that the gateway knows.
LEMMA NotifiedKnown ==
    ASSUME Notified, NEW kind \in Kind, NEW s \in Session, inbox[<<kind, s>>] # "none"
    PROVE  Known(s)
BY DEF Notified, Known, WasPaid, Kind, RefundKind

\* What a notification says stays true.
LEMMA NotifiedHolds ==
    ASSUME TypeOK, Notified, Grows, provider' = provider, [Next]_vars
    PROVE  Notified'
<1>1. \A t \in Session, kind \in Kind :
        \/ inbox'[<<kind, t>>] = inbox[<<kind, t>>]
        \/ inbox[<<kind, t>>] # "none"
        \/ /\ kind = "CHECKOUT_PAID" => remote'[t] = "paid"
           /\ kind = RefundKind => remote'[t] = "refunded"
           /\ kind = "CHECKOUT_EXPIRED" => provider = "asaas" /\ remote'[t] = "expired"
           /\ kind = "CHECKOUT_CANCELED" => provider = "asaas" /\ remote'[t] = "canceled"
  <2>1. CASE inbox' = inbox
    BY <2>1
  <2>2. ASSUME NEW s \in Session, Pay(s) \/ End(s) \/ Refund(s),
               NEW t \in Session, NEW kind \in Kind, inbox'[<<kind, t>>] # inbox[<<kind, t>>]
        PROVE  /\ kind = "CHECKOUT_PAID" => remote'[t] = "paid"
               /\ kind = RefundKind => remote'[t] = "refunded"
               /\ kind = "CHECKOUT_EXPIRED" => provider = "asaas" /\ remote'[t] = "expired"
               /\ kind = "CHECKOUT_CANCELED" => provider = "asaas" /\ remote'[t] = "canceled"
    <3>1. /\ t = s
          /\ kind = "CHECKOUT_PAID" => remote'[s] = "paid"
          /\ kind = RefundKind => remote'[s] = "refunded"
          /\ kind = "CHECKOUT_EXPIRED" => provider = "asaas" /\ remote'[s] = "expired"
          /\ kind = "CHECKOUT_CANCELED" => provider = "asaas" /\ remote'[s] = "canceled"
      <4>1. \A u \in Session, k \in Kind :
              inbox'[<<k, u>>] # inbox[<<k, u>>] =>
                /\ u = s /\ inbox'[<<k, u>>] = "sent"
                /\ k = "CHECKOUT_PAID" => remote'[s] = "paid"
                /\ k = RefundKind => remote'[s] = "refunded"
                /\ k = "CHECKOUT_EXPIRED" => provider = "asaas" /\ remote'[s] = "expired"
                /\ k = "CHECKOUT_CANCELED" => provider = "asaas" /\ remote'[s] = "canceled"
        BY <2>2, GatewayDoes
      <4> QED
        BY <2>2, <4>1
    <3> QED
      BY <3>1
  <2>3. ASSUME NEW k \in Kind, NEW s \in Session, ReadPayment(k, s) \/ SavePayment(k, s),
               NEW t \in Session, NEW kind \in Kind
        PROVE  inbox'[<<kind, t>>] = inbox[<<kind, t>>] \/ inbox[<<kind, t>>] # "none"
    <3>1. inbox[<<k, s>>] # "none"
      BY <2>3, ReadPaymentDoes, SavePaymentDoes
    <3>2. CASE kind = k /\ t = s
      BY <3>1, <3>2
    <3>3. CASE kind # k \/ t # s
      BY <2>3, <3>3, OthersWait
    <3> QED
      BY <3>2, <3>3
  <2> QED
    BY <2>1, <2>2, <2>3, InboxWriters
<1>2. {"CHECKOUT_PAID", "CHECKOUT_EXPIRED", "CHECKOUT_CANCELED", RefundKind} \subseteq Kind
  BY DEF Kind, RefundKind
<1> SUFFICES ASSUME NEW s \in Session
             PROVE  /\ inbox'[<<"CHECKOUT_PAID", s>>] # "none" => WasPaid(s)'
                    /\ inbox'[<<RefundKind, s>>] # "none" => remote'[s] = "refunded"
                    /\ inbox'[<<"CHECKOUT_EXPIRED", s>>] # "none" =>
                         provider' = "asaas" /\ remote'[s] = "expired"
                    /\ inbox'[<<"CHECKOUT_CANCELED", s>>] # "none" =>
                         provider' = "asaas" /\ remote'[s] = "canceled"
  BY DEF Notified
<1>3. inbox'[<<"CHECKOUT_PAID", s>>] # "none" => WasPaid(s)'
  <2>1. inbox[<<"CHECKOUT_PAID", s>>] # "none" => WasPaid(s)'
    BY DEF Notified, Grows
  <2> QED
    BY <1>1, <1>2, <2>1 DEF WasPaid
<1>4. inbox'[<<RefundKind, s>>] # "none" => remote'[s] = "refunded"
  <2>1. inbox[<<RefundKind, s>>] # "none" => remote'[s] = "refunded"
    BY DEF Notified, Grows
  <2> QED
    BY <1>1, <1>2, <2>1
<1>5. inbox'[<<"CHECKOUT_EXPIRED", s>>] # "none" => provider' = "asaas" /\ remote'[s] = "expired"
  <2>1. inbox[<<"CHECKOUT_EXPIRED", s>>] # "none" => provider' = "asaas" /\ remote'[s] = "expired"
    BY DEF Notified, Grows
  <2> QED
    BY <1>1, <1>2, <2>1
<1>6. inbox'[<<"CHECKOUT_CANCELED", s>>] # "none" => provider' = "asaas" /\ remote'[s] = "canceled"
  <2>1. inbox[<<"CHECKOUT_CANCELED", s>>] # "none" => provider' = "asaas" /\ remote'[s] = "canceled"
    BY DEF Notified, Grows
  <2> QED
    BY <1>1, <1>2, <2>1
<1> QED
  BY <1>3, <1>4, <1>5, <1>6

\* A refund is not undone.
LEMMA StillRefunded == ASSUME Grows, Refunded PROVE Refunded'
BY DEF Grows, Refunded

\* A row that says PAID is not replaced before the money goes back.
LEMMA PaidIsNotReplaced ==
    ASSUME TypeOK, OneRenewal, OneRepair, PaidIsTrue, ~Refunded, row.status = "PAID"
    PROVE  ~((\E j \in Job : SaveCheckout(j)) \/ ReconcileSaves)
BY Replacing DEF PaidIsTrue, Dead

\* A notification is of the row's session, once it has found the row.
LEMMA FindsItsSession ==
    ASSUME TypeOK, SessionsNamed, SessionsMatch, OneTry, NEW s \in Session, Known(s), Finds(s)
    PROVE  row.session = s
BY DEF Finds, SessionsNamed, SessionsMatch, OneTry

\* Two notifications that can both be handled are the same, at Asaas.
LEMMA OneReadAtAsaas ==
    ASSUME Notified, NotifiedOfTheRow, provider = "asaas",
           NEW kind \in Kind, NEW s \in Session, inbox[<<kind, s>>] = "read",
           NEW k \in Kind, NEW t \in Session, inbox[<<k, t>>] = "read"
    PROVE  k = kind /\ t = s
<1>1. /\ row.session = s /\ row.status = IF kind = RefundKind THEN "PAID" ELSE "PENDING"
      /\ row.session = t /\ row.status = IF k = RefundKind THEN "PAID" ELSE "PENDING"
  BY DEF NotifiedOfTheRow
<1>2. s = t /\ (kind = RefundKind <=> k = RefundKind)
  BY <1>1
<1>3. /\ kind \in {"CHECKOUT_PAID", "CHECKOUT_EXPIRED", "CHECKOUT_CANCELED", RefundKind}
      /\ k \in {"CHECKOUT_PAID", "CHECKOUT_EXPIRED", "CHECKOUT_CANCELED", RefundKind}
  BY DEF Kind, RefundKind
<1>4. /\ kind = "CHECKOUT_PAID" => WasPaid(s)
      /\ kind = "CHECKOUT_EXPIRED" => remote[s] = "expired"
      /\ kind = "CHECKOUT_CANCELED" => remote[s] = "canceled"
  BY DEF Notified
<1>5. /\ k = "CHECKOUT_PAID" => WasPaid(s)
      /\ k = "CHECKOUT_EXPIRED" => remote[s] = "expired"
      /\ k = "CHECKOUT_CANCELED" => remote[s] = "canceled"
  BY <1>2 DEF Notified
<1> QED
  BY <1>2, <1>3, <1>4, <1>5 DEF WasPaid

\* What a notification has read of the row still is so.
LEMMA NotifiedOfTheRowHolds ==
    ASSUME TypeOK, SessionsNamed, ReadOfTheRow, SessionsMatch, OneTry, OneRenewal, OneRepair,
           OneSync, Notified, NotifiedOfTheRow, PaidIsTrue, Grows, NothingOvertaken,
           provider' = provider, [Next]_vars
    PROVE  NotifiedOfTheRow'
<1> SUFFICES ASSUME NEW s \in Session, NEW kind \in Kind, inbox'[<<kind, s>>] = "read"
             PROVE  IF provider' = "asaas"
                    THEN /\ row'.session = s
                         /\ row'.status = IF kind = RefundKind THEN "PAID" ELSE "PENDING"
                    ELSE Refunded' \/ (row'.session = s /\ row'.status \in {"PENDING", "PAID"})
  BY DEF NotifiedOfTheRow
<1>1. CASE inbox[<<kind, s>>] # "read"
  <2>1. ReadPayment(kind, s)
    <3>1. ASSUME NEW t \in Session, Pay(t) \/ End(t) \/ Refund(t) PROVE FALSE
      BY <1>1, <3>1, GatewayDoes
    <3>2. ASSUME NEW k \in Kind, NEW t \in Session, SavePayment(k, t) PROVE FALSE
      <4>1. inbox'[<<k, t>>] = "done"
        BY <3>2, SavePaymentDoes
      <4>2. CASE kind # k \/ s # t
        <5>1. inbox'[<<kind, s>>] = inbox[<<kind, s>>]
          BY <3>2, <4>2, OthersWait
        <5> QED
          BY <1>1, <5>1
      <4> QED
        BY <4>1, <4>2
    <3>3. ASSUME NEW k \in Kind, NEW t \in Session, ReadPayment(k, t) PROVE k = kind /\ t = s
      <4>1. ASSUME kind # k \/ s # t PROVE FALSE
        <5>1. inbox'[<<kind, s>>] = inbox[<<kind, s>>]
          BY <3>3, <4>1, OthersWait
        <5> QED
          BY <1>1, <5>1
      <4> QED
        BY <4>1
    <3>4. inbox' # inbox
      BY <1>1
    <3> QED
      BY <3>1, <3>2, <3>3, <3>4, InboxWriters
  <2>2. inbox[<<kind, s>>] = "sent" /\ Finds(s) /\ Applies(kind) /\ row' = row
    BY <2>1, ReadPaymentDoes
  <2>3. Known(s)
    BY <2>2, NotifiedKnown
  <2>4. row.session = s
    BY <2>2, <2>3, FindsItsSession
  <2> QED
    BY <2>2, <2>4 DEF Applies
<1>2. CASE inbox[<<kind, s>>] = "read"
  <2>1. IF provider = "asaas"
        THEN row.session = s /\ row.status = IF kind = RefundKind THEN "PAID" ELSE "PENDING"
        ELSE Refunded \/ (row.session = s /\ row.status \in {"PENDING", "PAID"})
    BY <1>2 DEF NotifiedOfTheRow
  <2>2. CASE UNCHANGED <<row, published>>
    BY <2>1, <2>2, StillRefunded
  <2>3. CASE (\E j \in Job : SaveCheckout(j)) \/ ReconcileSaves
    <3>1. row.status # "PENDING" /\ (provider = "asaas" => row.status # "PAID")
      BY <2>3, Replacing DEF Renewable
    <3>2. row.status = "PAID" => Refunded
      BY <2>3, PaidIsNotReplaced
    <3> QED
      BY <2>1, <3>1, <3>2, StillRefunded
  <2>4. ASSUME NEW k \in Kind, NEW t \in Session, SavePayment(k, t)
        PROVE  IF provider' = "asaas" THEN FALSE
               ELSE Refunded' \/ (row'.session = s /\ row'.status \in {"PENDING", "PAID"})
    <3>1. inbox[<<k, t>>] = "read" /\ inbox'[<<k, t>>] = "done"
      BY <2>4, SavePaymentDoes
    <3>2. CASE provider = "asaas"
      <4>1. k = kind /\ t = s
        BY <1>2, <3>1, <3>2, OneReadAtAsaas
      <4> QED
        BY <3>1, <4>1
    <3>3. CASE provider # "asaas"
      <4>1. k \in {"CHECKOUT_PAID", RefundKind}
        BY <2>4, <3>3, NotifiedRow
      <4>2. k = RefundKind => Refunded
        BY <3>1 DEF Notified, Refunded
      <4>3. k = "CHECKOUT_PAID" => row'.session = row.session /\ row'.status = "PAID"
        BY <2>4, SavePaymentDoes DEF TargetOf, RefundKind, NothingOvertaken
      <4> QED
        BY <2>1, <3>3, <4>1, <4>2, <4>3, StillRefunded
    <3> QED
      BY <3>2, <3>3
  <2>5. ASSUME NEW c \in Sync, SyncSaves(c)
        PROVE  /\ provider # "asaas"
               /\ Refunded \/ (row'.session = s /\ row'.status \in {"PENDING", "PAID"})
    <3>1. /\ provider = "mercadopago" /\ row.session = copy[c].session
          /\ IF told[c] = "PAID" THEN WasPaid(copy[c].session) ELSE Dead(copy[c].session)
          /\ row'.status = told[c] /\ row'.session = copy[c].session
      BY <2>5, SyncSavesDoes DEF OneSync
    <3>2. WasPaid(s)
      <4>1. kind \notin {"CHECKOUT_EXPIRED", "CHECKOUT_CANCELED"}
        BY <1>2, <3>1 DEF Notified
      <4> QED
        BY <1>2, <4>1 DEF Notified, Kind, RefundKind, WasPaid
    <3>3. row.session = s /\ Dead(s) => Refunded
      BY <3>2 DEF WasPaid, Dead, Refunded
    <3> QED
      BY <2>1, <3>1, <3>3
  <2> QED
    BY <2>2, <2>3, <2>4, <2>5, StillRefunded, RowWriters
<1> QED
  BY <1>1, <1>2

(************************** What the row says is true ***********************)

\* PAID and REFUNDED are true of the session that the row names.
LEMMA PaidIsTrueHolds ==
    ASSUME TypeOK, SessionsNamed, ReadOfTheRow, OneRenewal, OneRepair, OneSync, Notified,
           NotifiedOfTheRow, PaidIsTrue, Grows, NothingOvertaken, provider' = provider, [Next]_vars
    PROVE  PaidIsTrue'
<1>1. Refunded => Refunded'
  BY StillRefunded
<1>2. ASSUME NEW s \in Session, WasPaid(s), ~Refunded' PROVE remote'[s] = "paid"
  BY <1>2 DEF Grows, WasPaid, Refunded
<1>3. ASSUME row'.status = "REFUNDED" => Refunded,
             row'.status = "PAID" /\ ~Refunded =>
               \E s \in Session : row'.session = s /\ WasPaid(s)
      PROVE  PaidIsTrue'
  BY <1>1, <1>2, <1>3 DEF PaidIsTrue
<1>4. CASE UNCHANGED <<row, published>>
  BY <1>3, <1>4 DEF PaidIsTrue, SessionsNamed, WasPaid
<1>5. ASSUME NEW j \in Job, SaveCheckout(j) PROVE PaidIsTrue'
  BY <1>3, <1>5, SaveCheckoutDoes
<1>6. ASSUME NEW kind \in Kind, NEW s \in Session, SavePayment(kind, s) PROVE PaidIsTrue'
  <2>1. inbox[<<kind, s>>] = "read" /\ row'.status = TargetOf(kind) /\ row'.session = row.session
    BY <1>6, SavePaymentDoes DEF NothingOvertaken
  <2>2. row'.status = "REFUNDED" => Refunded
    <3>1. row'.status = "REFUNDED" => kind = RefundKind
      BY <1>6, <2>1, NotifiedRow
    <3> QED
      BY <2>1, <3>1 DEF Notified, Refunded
  <2>3. row'.status = "PAID" => kind = "CHECKOUT_PAID" /\ WasPaid(s)
    <3>1. row'.status = "PAID" => kind = "CHECKOUT_PAID"
      BY <1>6, <2>1, NotifiedRow
    <3> QED
      BY <2>1, <3>1 DEF Notified
  <2>4. ~Refunded => row.session = s
    BY <2>1 DEF NotifiedOfTheRow
  <2> QED
    BY <1>3, <2>1, <2>2, <2>3, <2>4
<1>7. ASSUME NEW c \in Sync, SyncSaves(c) PROVE PaidIsTrue'
  <2>1. /\ sync[c] = "asked" /\ row'.status = told[c] /\ row'.session = copy[c].session
        /\ told[c] # "REFUNDED"
    BY <1>7, SyncSavesDoes, WriterTypes DEF CheckoutStatus
  <2>2. copy[c].session \in Session /\ (told[c] = "PAID" => WasPaid(copy[c].session))
    BY <2>1 DEF OneSync, SessionsNamed
  <2> QED
    BY <1>3, <2>1, <2>2
<1>8. CASE ReconcileSaves
  <2>1. /\ ToReconcile(fixing.ref) /\ Replaceable(fixing.copy, fixing.ref)
        /\ fixing.status = "PAID" => WasPaid(ops[fixing.ref].session)
    BY <1>8 DEF ReconcileSaves, OneRepair
  <2>2. CASE row' = row
    BY <1>3, <2>2 DEF PaidIsTrue, SessionsNamed, WasPaid
  <2>3. CASE Refunded
    BY <1>3, <2>3
  <2>4. CASE row'.status = LocalStatus(fixing.status) /\ row'.session = ops[fixing.ref].session
    <3>1. row'.status # "REFUNDED" /\ (row'.status = "PAID" => fixing.status = "PAID")
      BY <2>4, WriterTypes DEF LocalStatus, CheckoutStatus
    <3>2. ops[fixing.ref].session \in Session
      BY <2>1, JobTypes, WriterTypes DEF ToReconcile, Operation
    <3> QED
      BY <1>3, <2>1, <2>4, <3>1, <3>2
  <2> QED
    BY <1>8, <2>2, <2>3, <2>4, ReconcileSavesDoes
<1> QED
  BY <1>4, <1>5, <1>6, <1>7, <1>8, RowWriters

\* A new session can only be paid after the old one is dead.
LEMMA OnePayableHolds ==
    ASSUME TypeOK, SessionsNamed, SessionsMatch, OneRenewal, OneRepair, OneSync, Grows,
           NothingOvertaken, [Next]_vars,
           \A s \in Session : Payable(s) => row.session = s
    PROVE  \A s \in Session : Payable(s)' => row'.session = s
<1> SUFFICES ASSUME NEW s \in Session, Payable(s)' PROVE row'.session = s
  OBVIOUS
<1>1. ASSUME s \in published PROVE row.session = s /\ ~Dead(s) /\ row.status # "ABSENT"
  <2>1. Known(s) /\ ~Dead(s)
    BY <1>1 DEF SessionsMatch, Grows, Dead, Payable
  <2>2. remote[s] \in {"open", "paid"}
    BY <2>1, GatewayTypes DEF Known, Dead, RemoteStatus
  <2> QED
    BY <1>1, <2>1, <2>2 DEF Payable, OneRenewal
<1>2. s \in published'
  BY DEF Payable
<1>3. CASE UNCHANGED <<row, published>>
  BY <1>1, <1>2, <1>3
<1>4. ASSUME row'.session = row.session, published' = published \cup {row.session}
      PROVE  row'.session = s
  BY <1>1, <1>2, <1>4
<1>5. ASSUME (\E j \in Job : SaveCheckout(j)) \/ ReconcileSaves PROVE row'.session = s
  <2>1. s \notin published
    BY <1>1, <1>5, Replacing
  <2>2. ASSUME NEW j \in Job, SaveCheckout(j) PROVE row'.session = s
    BY <1>2, <2>1, <2>2, SaveCheckoutDoes
  <2>3. CASE ReconcileSaves
    BY <1>2, <2>1, <2>3, ReconcileSavesDoes
  <2> QED
    BY <1>5, <2>2, <2>3
<1>6. ASSUME NEW kind \in Kind, NEW t \in Session, SavePayment(kind, t) PROVE row'.session = s
  BY <1>4, <1>6, SavePaymentDoes DEF NothingOvertaken
<1>7. ASSUME NEW c \in Sync, SyncSaves(c) PROVE row'.session = s
  BY <1>4, <1>7, SyncSavesDoes DEF OneSync
<1> QED
  BY <1>3, <1>5, <1>6, <1>7, RowWriters

\* Nobody takes PAID back before the money goes back.
LEMMA PaidStays ==
    ASSUME TypeOK, SessionsNamed, ReadOfTheRow, OneRenewal, OneRepair, OneSync, Notified,
           NotifiedOfTheRow, PaidIsTrue, ~Refunded, row.status = "PAID", [Next]_vars
    PROVE  row'.status = "PAID"
<1>1. remote[row.session] = "paid"
  BY DEF PaidIsTrue
<1>2. ASSUME NEW kind \in Kind, NEW s \in Session, SavePayment(kind, s) PROVE row'.status = "PAID"
  <2>1. inbox[<<kind, s>>] = "read" /\ row'.status = TargetOf(kind)
    BY <1>2, SavePaymentDoes
  <2>2. kind # RefundKind
    BY <2>1 DEF Notified, Refunded
  <2>3. provider # "asaas"
    BY <1>2, <2>2, NotifiedRow
  <2> QED
    BY <1>2, <2>1, <2>2, <2>3, NotifiedRow
<1>3. ASSUME NEW c \in Sync, SyncSaves(c) PROVE row'.status = "PAID"
  <2>1. /\ row.session = copy[c].session /\ row'.status = told[c]
        /\ IF told[c] = "PAID" THEN WasPaid(copy[c].session) ELSE Dead(copy[c].session)
    BY <1>3, SyncSavesDoes DEF OneSync
  <2> QED
    BY <1>1, <2>1 DEF Dead
<1> QED
  BY <1>2, <1>3, PaidIsNotReplaced, RowWriters

\* A notification of a payment that has been handled has turned the row to PAID.
LEMMA RecordedHolds ==
    ASSUME TypeOK, SessionsNamed, ReadOfTheRow, SessionsMatch, OneRenewal, OneRepair, OneSync,
           Notified, NotifiedOfTheRow, PaidIsTrue, Grows, [Next]_vars,
           \A s \in Session : Payable(s) => row.session = s,
           ~Refunded =>
             \A s \in Session : inbox[<<"CHECKOUT_PAID", s>>] = "done" => row.status = "PAID"
    PROVE  ~Refunded' =>
             \A s \in Session : inbox'[<<"CHECKOUT_PAID", s>>] = "done" => row'.status = "PAID"
<1> SUFFICES ASSUME ~Refunded', NEW s \in Session, inbox'[<<"CHECKOUT_PAID", s>>] = "done"
             PROVE  row'.status = "PAID"
  OBVIOUS
<1>1. ~Refunded
  BY StillRefunded
<1>2. CASE inbox[<<"CHECKOUT_PAID", s>>] = "done"
  BY <1>1, <1>2, PaidStays
<1>3. CASE inbox[<<"CHECKOUT_PAID", s>>] # "done"
  <2>1. "CHECKOUT_PAID" \in Kind
    BY DEF Kind
  <2>2. ReadPayment("CHECKOUT_PAID", s) \/ SavePayment("CHECKOUT_PAID", s)
    <3>1. ASSUME NEW t \in Session, Pay(t) \/ End(t) \/ Refund(t) PROVE FALSE
      BY <1>3, <2>1, <3>1, GatewayDoes
    <3>2. ASSUME NEW k \in Kind, NEW t \in Session, ReadPayment(k, t) \/ SavePayment(k, t)
          PROVE  k = "CHECKOUT_PAID" /\ t = s
      <4>1. CASE k # "CHECKOUT_PAID" \/ t # s
        BY <1>3, <2>1, <3>2, <4>1, OthersWait
      <4> QED
        BY <4>1
    <3> QED
      BY <1>3, <3>1, <3>2, InboxWriters
  <2>3. CASE SavePayment("CHECKOUT_PAID", s)
    BY <2>1, <2>3, SavePaymentDoes DEF TargetOf, RefundKind
  <2>4. CASE ReadPayment("CHECKOUT_PAID", s)
    <3>1. /\ inbox[<<"CHECKOUT_PAID", s>>] = "sent" /\ row' = row
          /\ ~(Finds(s) /\ Applies("CHECKOUT_PAID"))
      BY <2>1, <2>4, ReadPaymentDoes
    <3>2. remote[s] = "paid" /\ WasPaid(s)
      BY <1>1, <3>1 DEF Notified, WasPaid, Refunded
    <3>3. row.session = s /\ row.status # "ABSENT"
      BY <3>2 DEF SessionsMatch, Payable, OneRenewal
    <3>4. row.status # "PENDING"
      BY <3>1, <3>3 DEF Finds, Applies, RefundKind
    <3>5. row.status # "REFUNDED"
      BY <1>1 DEF PaidIsTrue
    <3>6. row.status \notin Renewable
      BY <3>2, <3>3 DEF OneRenewal, Dead
    <3> QED
      BY <3>1, <3>3, <3>4, <3>5, <3>6, RowTypes DEF RowStatus
  <2> QED
    BY <2>2, <2>3, <2>4
<1> QED
  BY <1>2, <1>3

(****************************** The invariant *******************************)

\* Nothing has happened yet.
LEMMA CalmInit == ASSUME Init PROVE CalmInvariant
<1>1. /\ \A j \in Job : job[j] = "idle" /\ ref[j] = 0 /\ got[j] = NoSession
      /\ \A r \in Ref : ops[r].status = "ABSENT" /\ ops[r].session = NoSession
      /\ \A s \in Session : remote[s] = "none"
      /\ \A s \in Session, kind \in Kind : inbox[<<kind, s>>] = "none"
      /\ \A c \in Sync : sync[c] = "idle"
      /\ row.status = "ABSENT" /\ row.stamp = 0 /\ clock = 0 /\ published = {}
      /\ fixing.pc = "idle"
  BY DEF Init, NoRow, NotFixing
<1>2. \A r \in Ref : ~Unfinished(r)
  BY <1>1 DEF Unfinished, ToReconcile, Trying
<1>3. OneTry /\ SessionsMatch /\ OneSync /\ OneRepair
  BY <1>1 DEF OneTry, SessionsMatch, OneSync, OneRepair, Trying, Known, WasPaid
<1>4. OneRenewal /\ PaidIsTrue
  BY <1>1, <1>2 DEF OneRenewal, PaidIsTrue, Renewable
<1>5. StampsGrow
  BY <1>1 DEF StampsGrow
<1>6. Notified /\ NotifiedOfTheRow
  BY <1>1 DEF Notified, NotifiedOfTheRow, Kind, RefundKind
<1>7. OnePayable /\ PaymentIsRecorded
  BY <1>1 DEF OnePayable, PaymentIsRecorded, Payable, Kind
<1> QED
  BY <1>3, <1>4, <1>5, <1>6, <1>7 DEF CalmInvariant

\* CalmInvariant is inductive, given PaidInvariant.
LEMMA CalmStep ==
    ASSUME PaidInvariant, TypeOK', CalmInvariant, [Next]_vars
    PROVE  CalmInvariant'
<1> SUFFICES ASSUME Calm'
             PROVE  /\ OneTry' /\ SessionsMatch' /\ StampsGrow'
                    /\ OneRenewal' /\ OneRepair' /\ OneSync'
                    /\ Notified' /\ NotifiedOfTheRow' /\ PaidIsTrue'
                    /\ OnePayable' /\ PaymentIsRecorded'
  BY DEF CalmInvariant
<1>1. TypeOK /\ SessionsNamed /\ ReadOfTheRow
  BY DEF PaidInvariant
<1>2. provider' = provider /\ Grows
  BY <1>1, RemoteGrows
<1>3. Calm
  BY <1>1, StillCalm
<1>4. /\ OneTry /\ SessionsMatch /\ StampsGrow /\ OneRenewal /\ OneRepair /\ OneSync
      /\ Notified /\ NotifiedOfTheRow /\ PaidIsTrue
      /\ OnePayable /\ PaymentIsRecorded
  BY <1>3 DEF CalmInvariant
<1>5. NothingOvertaken
  BY <1>1, <1>4, CopiesAreCurrent
<1>6. OneTry'
  BY <1>1, <1>4, OneTryHolds
<1>7. SessionsMatch'
  BY <1>1, <1>2, <1>4, <1>5, SessionsStillMatch
<1>8. StampsGrow'
  BY <1>1, <1>4, <1>5, StampsHold
<1>9. OneRenewal'
  BY <1>1, <1>2, <1>4, <1>5, OneRenewalHolds
<1>10. OneRepair'
  BY <1>1, <1>2, <1>4, <1>5, OneRepairHolds
<1>11. OneSync'
  BY <1>1, <1>2, <1>4, <1>5, OneSyncHolds
<1>12. Notified'
  BY <1>1, <1>2, <1>4, NotifiedHolds
<1>13. NotifiedOfTheRow'
  BY <1>1, <1>2, <1>4, <1>5, NotifiedOfTheRowHolds
<1>14. PaidIsTrue'
  BY <1>1, <1>2, <1>4, <1>5, PaidIsTrueHolds
<1>15. OnePayable'
  <2>1. \A s \in Session : Payable(s) => row.session = s
    BY <1>3, <1>4 DEF OnePayable
  <2>2. \A s \in Session : Payable(s)' => row'.session = s
    BY <1>1, <1>2, <1>4, <2>1, <1>5, OnePayableHolds
  <2> QED
    BY <2>2 DEF OnePayable
<1>16. PaymentIsRecorded'
  <2>1. \A s \in Session : Payable(s) => row.session = s
    BY <1>3, <1>4 DEF OnePayable
  <2>2. ~Refunded =>
          \A s \in Session : inbox[<<"CHECKOUT_PAID", s>>] = "done" => row.status = "PAID"
    BY <1>3, <1>4 DEF PaymentIsRecorded
  <2>3. ~Refunded' =>
          \A s \in Session : inbox'[<<"CHECKOUT_PAID", s>>] = "done" => row'.status = "PAID"
    BY <1>1, <1>2, <1>4, <2>1, <2>2, RecordedHolds
  <2> QED
    BY <2>3 DEF PaymentIsRecorded
<1> QED
  BY <1>6, <1>7, <1>8, <1>9, <1>10, <1>11, <1>12, <1>13, <1>14, <1>15, <1>16

(******************* Nothing is paid that was not paid *******************)

\* All of PaidInvariant but ReadOfTheRow, which has a lemma of its own (ReadsHold).
Kept == TypeOK /\ SessionsNamed /\ WordOfPayment /\ PaidWasPaid

\* A step that moves jobs and operations only: it is enough that who carries a session
\* has one, and that the reconciler's operation still has its own.
LEMMA JobsMove ==
    ASSUME Kept,
           UNCHANGED <<provider, row, clock, remote, refOf, published, notices, sync, copy, told,
                       lock, overlap, fixing, deliveries>>,
           requests' \in 0 .. MaxRequests[provider], doubled' \subseteq Ref,
           ops' \in [Ref -> Operation],
           fixing.pc = "read" =>
             ops'[fixing.ref].status # "ABSENT" /\ ops'[fixing.ref].session \in Session,
           job' \in [Job -> JobLabel], ref' \in [Job -> Ref],
           got' \in [Job -> Session \cup {NoSession}],
           \A i \in Job : job'[i] \in {"answered", "unsaved"} => got'[i] \in Session
    PROVE  Kept'
<1>1. DataTypes'
  BY DEF Kept, TypeOK, DataTypes
<1>2. ActorTypes'
  BY DEF Kept, TypeOK, ActorTypes
<1>3. SessionsNamed'
  BY DEF Kept, SessionsNamed
<1>4. SomePaid' <=> SomePaid
  BY DEF SomePaid, WasPaid
<1>5. WordOfPayment'
  BY <1>4 DEF Kept, WordOfPayment, WasPaid
<1>6. PaidWasPaid'
  BY <1>4 DEF Kept, PaidWasPaid
<1> QED
  BY <1>1, <1>2, <1>3, <1>5, <1>6 DEF Kept, TypeOK

\* A step that moves the synchronisers and the reconciler only: it is enough that what
\* they hold is a session, and what they were told is so.
LEMMA WritersMove ==
    ASSUME Kept,
           UNCHANGED <<provider, row, clock, ops, doubled, remote, refOf, published, requests,
                       job, ref, got, notices, deliveries>>,
           sync' \in [Sync -> SyncLabel], copy' \in [Sync -> Row],
           told' \in [Sync -> CheckoutStatus], lock' \in Sync \cup {Nobody},
           overlap' \subseteq Sync, fixing' \in Fixing,
           \A b \in Sync : sync'[b] # "idle" =>
                      row.status # "ABSENT" /\ copy'[b].session \in Session,
           \A b \in Sync : sync'[b] = "asked" => told'[b] # "ACTIVE" /\ (told'[b] = "PAID" => SomePaid),
           fixing'.pc = "read" =>
             ops[fixing'.ref].status # "ABSENT" /\ ops[fixing'.ref].session \in Session,
           fixing'.copy.status # "ABSENT" =>
             row.status # "ABSENT" /\ fixing'.copy.session \in Session,
           fixing'.pc = "read" /\ (fixing'.status = "PAID" \/ fixing'.copy.status \in {"PAID", "REFUNDED"})
             => SomePaid
    PROVE  Kept'
<1>1. DataTypes'
  BY DEF Kept, TypeOK, DataTypes
<1>2. ActorTypes'
  BY DEF Kept, TypeOK, ActorTypes
<1>3. SessionsNamed'
  BY DEF Kept, SessionsNamed
<1>4. SomePaid' <=> SomePaid
  BY DEF SomePaid, WasPaid
<1>5. WordOfPayment'
  BY <1>4 DEF Kept, WordOfPayment, WasPaid
<1>6. PaidWasPaid'
  BY <1>4 DEF Kept, PaidWasPaid
<1> QED
  BY <1>1, <1>2, <1>3, <1>5, <1>6 DEF Kept, TypeOK

\* A step that writes the row and tells the client: it is enough that the row names a
\* session, and that what it says and what the client is told is so.
LEMMA RowMoves ==
    ASSUME Kept,
           UNCHANGED <<provider, doubled, remote, refOf, requests>>,
           clock' \in Ref, row' \in Row, row'.status # "ABSENT", row'.session \in Session,
           row'.status \in {"PAID", "REFUNDED"} => SomePaid,
           published' \subseteq Session, ops' \in [Ref -> Operation],
           NEW status \in RowStatus, NEW stamp \in Ref, status = "PAID" => SomePaid,
           deliveries' \subseteq deliveries \cup {<<status, stamp>>}
    PROVE  DataTypes' /\ PaidWasPaid' /\ (SomePaid' <=> SomePaid)
<1>1. SomePaid' <=> SomePaid
  BY DEF SomePaid, WasPaid
<1>2. deliveries' \subseteq RowStatus \X Ref
  <2>1. deliveries \subseteq RowStatus \X Ref
    BY DEF Kept, TypeOK, DataTypes
  <2>2. <<status, stamp>> \in RowStatus \X Ref
    OBVIOUS
  <2> QED
    BY <2>1, <2>2
<1>3. DataTypes'
  <2>1. /\ provider \in Providers /\ doubled \subseteq Ref
        /\ remote \in [Session -> RemoteStatus] /\ refOf \in [Session -> Ref]
        /\ requests \in 0 .. MaxRequests[provider]
    BY DEF Kept, TypeOK, DataTypes
  <2> QED
    BY <1>2, <2>1 DEF DataTypes
<1>4. PaidWasPaid'
  <2>1. ASSUME NEW d \in deliveries', d[1] = "PAID" PROVE SomePaid
    <3>1. CASE d \in deliveries
      BY <2>1, <3>1 DEF Kept, PaidWasPaid
    <3>2. CASE d = <<status, stamp>>
      BY <2>1, <3>2
    <3> QED
      BY <3>1, <3>2
  <2> QED
    BY <1>1, <2>1 DEF PaidWasPaid
<1> QED
  BY <1>1, <1>3, <1>4

\* What a job carries, and what the reconciler holds, in a row of its own.
LEMMA KeptTypes ==
    ASSUME Kept
    PROVE  /\ TypeOK
           /\ \A i \in Job : job[i] \in {"answered", "unsaved"} => got[i] \in Session
           /\ fixing.pc = "read" =>
                ops[fixing.ref].status # "ABSENT" /\ ops[fixing.ref].session \in Session
           /\ requests \in 0 .. MaxRequests[provider] /\ doubled \subseteq Ref
BY DEF Kept, SessionsNamed, TypeOK, DataTypes

\* Nothing was opened, paid or told.
LEMMA InitHolds == ASSUME Init PROVE PaidInvariant
<1>1. DataTypes
  <2>1. NoRow \in Row /\ 0 \in Ref
    BY RefIsNat DEF NoRow, Row
  <2>2. [status |-> "ABSENT", session |-> NoSession] \in Operation
    BY DEF Operation
  <2>3. 0 \in 0 .. MaxRequests[provider]
    BY BoundAssumption DEF Init
  <2> QED
    BY <2>1, <2>2, <2>3 DEF Init, DataTypes, RemoteStatus
<1>2. ActorTypes
  <2>1. NoRow \in Row /\ 0 \in Ref
    BY RefIsNat DEF NoRow, Row
  <2>2. NotFixing \in Fixing
    BY <2>1 DEF NotFixing, Fixing, CheckoutStatus
  <2> QED
    BY <2>1, <2>2 DEF Init, ActorTypes, JobLabel, SyncLabel, CheckoutStatus
<1>3. SessionsNamed
  BY DEF Init, SessionsNamed, NoRow, NotFixing
<1>4. ReadOfTheRow
  BY DEF Init, ReadOfTheRow
<1>5. WordOfPayment
  BY DEF Init, WordOfPayment, NotFixing, Kind, RefundKind
<1>6. PaidWasPaid
  BY DEF Init, PaidWasPaid, NoRow
<1> QED
  BY <1>1, <1>2, <1>3, <1>4, <1>5, <1>6 DEF PaidInvariant, TypeOK

\* What a create job writes is pending.
LEMMA BeginHolds ==
    ASSUME Kept, NEW j \in Job, Begin(j)
    PROVE  Kept'
<1>0. TypeOK
  BY KeptTypes
<1>1. UNCHANGED <<provider, row, clock, ops, doubled, remote, refOf, published, notices, sync, copy,
                  told, lock, overlap, fixing, deliveries, got>>
  BY DEF Begin
<1>2. requests' \in 0 .. MaxRequests[provider]
  <2>1. MaxRequests[provider] \in Nat
    BY <1>0, BoundAssumption DEF TypeOK, DataTypes
  <2>2. requests' = requests + 1 /\ requests < MaxRequests[provider]
    BY DEF Begin
  <2> QED
    BY <2>1, <2>2, KeptTypes
<1>3. job' \in [Job -> JobLabel]
  BY <1>0, JobTypes DEF Begin, Goto, JobLabel
<1>4. ref' \in [Job -> Ref]
  BY <1>0, JobTypes, RowTypes, RefIsNat DEF Begin
<1>5. \A i \in Job : job'[i] \in {"answered", "unsaved"} => got'[i] \in Session
  <2>1. \A i \in Job : i # j => job'[i] = job[i]
    BY <1>0, BeginDoes DEF SameJobs
  <2>2. job'[j] = "read"
    BY <1>0, BeginDoes
  <2> QED
    BY <1>1, <2>1, <2>2, KeptTypes
<1>6. ops \in [Ref -> Operation] /\ got \in [Job -> Session \cup {NoSession}]
  BY <1>0, JobTypes
<1> QED
  BY <1>1, <1>2, <1>3, <1>4, <1>5, <1>6, KeptTypes, JobsMove

\* A job that is over holds nothing.
LEMMA LeavingTypes ==
    ASSUME Kept, NEW j \in Job, Leave(j)
    PROVE  /\ job' \in [Job -> JobLabel] /\ ref' \in [Job -> Ref]
           /\ got' \in [Job -> Session \cup {NoSession}]
           /\ \A i \in Job : job'[i] \in {"answered", "unsaved"} => got'[i] \in Session
<1>0. TypeOK
  BY KeptTypes
<1>1. job' \in [Job -> JobLabel]
  BY <1>0, JobTypes DEF Leave, Goto, JobLabel
<1>2. ref' \in [Job -> Ref]
  BY <1>0, JobTypes, RefIsNat DEF Leave
<1>3. got' \in [Job -> Session \cup {NoSession}]
  BY <1>0, JobTypes DEF Leave
<1>4. \A i \in Job : i # j => job'[i] = job[i] /\ got'[i] = got[i]
  BY <1>0, LeaveDoes DEF Left, SameJobs
<1>5. job'[j] = "idle"
  BY <1>0, LeaveDoes DEF Left
<1> QED
  BY <1>1, <1>2, <1>3, <1>4, <1>5, KeptTypes

\* A job that goes on without a session of its own.
LEMMA GoingOnTypes ==
    ASSUME Kept, NEW j \in Job, NEW label \in JobLabel \ {"answered", "unsaved"},
           Goto(j, label), UNCHANGED <<ref, got>>
    PROVE  /\ job' \in [Job -> JobLabel] /\ ref' \in [Job -> Ref]
           /\ got' \in [Job -> Session \cup {NoSession}]
           /\ \A i \in Job : job'[i] \in {"answered", "unsaved"} => got'[i] \in Session
<1>0. TypeOK
  BY KeptTypes
<1>1. job' \in [Job -> JobLabel] /\ ref' \in [Job -> Ref]
      /\ got' \in [Job -> Session \cup {NoSession}]
  BY <1>0, JobTypes DEF Goto
<1>2. job'[j] = label /\ \A i \in Job : i # j => job'[i] = job[i]
  BY <1>0, JobTypes DEF Goto
<1> QED
  BY <1>1, <1>2, KeptTypes

\* Reserving an operation, or taking up a failed one, tells nobody anything.
LEMMA OpenHolds ==
    ASSUME Kept, NEW j \in Job, Open(j)
    PROVE  Kept'
<1>0. TypeOK /\ ref[j] \in Ref
  BY KeptTypes, JobTypes
<1>1. UNCHANGED <<provider, row, clock, remote, refOf, published, requests, notices, sync, copy,
                  told, lock, overlap, fixing, deliveries>>
  BY DEF Open
<1>2. doubled' \subseteq Ref
  <2>1. doubled' = doubled \/ doubled' = doubled \cup {ref[j]}
    BY DEF Open
  <2> QED
    BY <1>0, <2>1, KeptTypes
<1>3. ops' = ops \/ ops' = [ops EXCEPT ![ref[j]] = [status |-> "PENDING", session |-> NoSession]]
  BY DEF Open
<1>4. [status |-> "PENDING", session |-> NoSession] \in Operation
  BY DEF Operation
<1>5. ops' \in [Ref -> Operation]
  BY <1>0, <1>3, <1>4, JobTypes
<1>6. \A r \in Ref : ops[r].status # "ABSENT" => ops'[r] = ops[r]
  <2>1. ops[ref[j]].status # "ABSENT" => ops' = ops
    BY DEF Open
  <2> QED
    BY <1>0, <1>3, <2>1, JobTypes
<1>7. fixing.pc = "read" =>
        ops'[fixing.ref].status # "ABSENT" /\ ops'[fixing.ref].session \in Session
  <2>1. fixing.ref \in Ref
    BY <1>0, WriterTypes
  <2> QED
    BY <1>6, <2>1, KeptTypes
<1>8. /\ job' \in [Job -> JobLabel] /\ ref' \in [Job -> Ref]
      /\ got' \in [Job -> Session \cup {NoSession}]
      /\ \A i \in Job : job'[i] \in {"answered", "unsaved"} => got'[i] \in Session
  <2>1. (Goto(j, "call") /\ UNCHANGED <<ref, got>>) \/ Leave(j)
    BY DEF Open
  <2>2. CASE Goto(j, "call") /\ UNCHANGED <<ref, got>>
    <3>1. "call" \in JobLabel \ {"answered", "unsaved"}
      BY DEF JobLabel
    <3> QED
      BY <2>2, <3>1, GoingOnTypes
  <2>3. CASE Leave(j)
    BY <2>3, LeavingTypes
  <2> QED
    BY <2>1, <2>2, <2>3
<1>9. requests' \in 0 .. MaxRequests[provider]
  BY <1>1, KeptTypes
<1> QED
  BY <1>1, <1>2, <1>5, <1>7, <1>8, <1>9, JobsMove

\* Neither does a job that fails or dies; what it carries is a session or nothing.
LEMMA JobFailureHolds ==
    ASSUME Kept, NEW j \in Job,
           GatewayFails(j) \/ SaveFails(j) \/ RecordFailure(j) \/ Crash(j)
    PROVE  Kept'
<1>0. TypeOK /\ ref[j] \in Ref
  BY KeptTypes, JobTypes
<1>1. UNCHANGED <<provider, row, clock, remote, refOf, published, requests, doubled, notices, sync,
                  copy, told, lock, overlap, fixing, deliveries>>
  BY DEF GatewayFails, SaveFails, RecordFailure, Crash
<1>2. /\ job' \in [Job -> JobLabel] /\ ref' \in [Job -> Ref]
      /\ got' \in [Job -> Session \cup {NoSession}]
      /\ \A i \in Job : job'[i] \in {"answered", "unsaved"} => got'[i] \in Session
  <2>1. CASE GatewayFails(j)
    <3>1. PICK label \in {"rejected", "uncertain"} : Goto(j, label)
      BY <2>1 DEF GatewayFails
    <3>2. label \in JobLabel \ {"answered", "unsaved"}
      BY <3>1 DEF JobLabel
    <3>3. UNCHANGED <<ref, got>>
      BY <2>1 DEF GatewayFails
    <3> QED
      BY <3>1, <3>2, <3>3, GoingOnTypes
  <2>2. CASE SaveFails(j)
    <3>1. job[j] = "answered" /\ Goto(j, "unsaved") /\ UNCHANGED <<ref, got>>
      BY <2>2 DEF SaveFails
    <3>2. job' \in [Job -> JobLabel] /\ \A i \in Job : i # j => job'[i] = job[i]
      BY <1>0, <3>1, JobTypes DEF Goto, JobLabel
    <3>3. \A i \in Job : job'[i] \in {"answered", "unsaved"} => job[i] \in {"answered", "unsaved"}
      BY <3>1, <3>2
    <3> QED
      BY <1>0, <3>1, <3>2, <3>3, KeptTypes, JobTypes
  <2>3. CASE RecordFailure(j) \/ Crash(j)
    <3>1. Leave(j)
      BY <2>3 DEF RecordFailure, Crash
    <3> QED
      BY <3>1, LeavingTypes
  <2> QED
    BY <2>1, <2>2, <2>3
<1>3. /\ ops' \in [Ref -> Operation]
      /\ fixing.pc = "read" => ops'[fixing.ref] = ops[fixing.ref]
  <2>1. CASE GatewayFails(j) \/ SaveFails(j) \/ Crash(j)
    <3>1. ops' = ops
      BY <2>1 DEF GatewayFails, SaveFails, Crash
    <3> QED
      BY <1>0, <3>1, JobTypes
  <2>2. CASE RecordFailure(j)
    <3>1. PICK status \in {"FAILED", "REQUIRES_RECONCILIATION"} :
            ops' = [ops EXCEPT ![ref[j]] = [status |-> status, session |-> got[j]]]
      BY <2>2 DEF RecordFailure
    <3>2. [status |-> status, session |-> got[j]] \in Operation
      BY <1>0, JobTypes DEF Operation
    <3>3. Unlocked(ref[j]) /\ fixing.ref \in Ref
      BY <1>0, <2>2, WriterTypes DEF RecordFailure
    <3>4. fixing.pc = "read" => fixing.ref # ref[j]
      BY <3>3 DEF Unlocked
    <3> QED
      BY <1>0, <3>1, <3>2, <3>3, <3>4, JobTypes
  <2> QED
    BY <2>1, <2>2
<1>4. requests' \in 0 .. MaxRequests[provider] /\ doubled' \subseteq Ref
  BY <1>1, KeptTypes
<1>5. fixing.pc = "read" =>
        ops'[fixing.ref].status # "ABSENT" /\ ops'[fixing.ref].session \in Session
  BY <1>3, KeptTypes
<1> QED
  BY <1>1, <1>2, <1>3, <1>4, <1>5, JobsMove

\* A session that is opened was not paid before.
LEMMA OpeningHolds ==
    ASSUME Kept, NEW j \in Job, GatewayOpens(j)
    PROVE  Kept'
<1>0. TypeOK /\ ref[j] \in Ref
  BY KeptTypes, JobTypes
<1>1. UNCHANGED <<provider, row, clock, ops, doubled, published, requests, ref, notices, sync, copy,
                  told, lock, overlap, fixing, deliveries>>
  BY DEF GatewayOpens
<1>2. PICK s \in Session :
        /\ \/ UNCHANGED <<remote, refOf>>
           \/ /\ remote[s] = "none"
              /\ remote' = [remote EXCEPT ![s] = "open"]
              /\ refOf' = [refOf EXCEPT ![s] = ref[j]]
        /\ \/ Goto(j, "answered") /\ got' = [got EXCEPT ![j] = s]
           \/ (\E label \in {"uncertain", "rejected"} : Goto(j, label)) /\ UNCHANGED got
  BY DEF GatewayOpens
<1>3. /\ remote' \in [Session -> RemoteStatus] /\ refOf' \in [Session -> Ref]
      /\ \A t \in Session : remote'[t] = remote[t] \/ remote[t] = "none"
  BY <1>0, <1>2, GatewayTypes DEF RemoteStatus
<1>4. \A t \in Session : WasPaid(t) => WasPaid(t)'
  BY <1>3 DEF WasPaid
<1>5. job' \in [Job -> JobLabel] /\ got' \in [Job -> Session \cup {NoSession}]
  BY <1>0, <1>2, JobTypes DEF Goto, JobLabel
<1>6. \A i \in Job : job'[i] \in {"answered", "unsaved"} => got'[i] \in Session
  <2>1. CASE Goto(j, "answered") /\ got' = [got EXCEPT ![j] = s]
    <3>1. \A i \in Job : i # j => job'[i] = job[i] /\ got'[i] = got[i]
      BY <1>0, <2>1, JobTypes DEF Goto
    <3>2. got'[j] = s
      BY <1>0, <2>1, JobTypes
    <3> QED
      BY <3>1, <3>2, KeptTypes
  <2>2. CASE (\E label \in {"uncertain", "rejected"} : Goto(j, label)) /\ UNCHANGED got
    <3>1. job'[j] \in {"uncertain", "rejected"} /\ \A i \in Job : i # j => job'[i] = job[i]
      BY <1>0, <2>2, JobTypes DEF Goto
    <3> QED
      BY <2>2, <3>1, KeptTypes
  <2> QED
    BY <1>2, <2>1, <2>2
<1>7. DataTypes'
  BY <1>1, <1>3 DEF Kept, TypeOK, DataTypes
<1>8. ActorTypes'
  BY <1>1, <1>5 DEF Kept, TypeOK, ActorTypes
<1>9. SessionsNamed'
  BY <1>1, <1>6 DEF Kept, SessionsNamed
<1>10. SomePaid => SomePaid'
  BY <1>4 DEF SomePaid
<1>11. WordOfPayment'
  BY <1>1, <1>4, <1>10 DEF Kept, WordOfPayment
<1>12. PaidWasPaid'
  BY <1>1, <1>10 DEF Kept, PaidWasPaid
<1> QED
  BY <1>7, <1>8, <1>9, <1>11, <1>12 DEF Kept, TypeOK

\* A checkout is saved with the session the gateway gave, and pending.
LEMMA SaveCheckoutHolds ==
    ASSUME Kept, NEW j \in Job, SaveCheckout(j)
    PROVE  Kept'
<1>0. TypeOK /\ ref[j] \in Ref /\ got[j] \in Session
  BY KeptTypes, JobTypes DEF SaveCheckout
<1>1. /\ UNCHANGED <<provider, doubled, remote, refOf, requests, notices, sync, copy, told, lock,
                     overlap, fixing, deliveries>>
      /\ Leave(j) /\ Unlocked(ref[j])
  BY DEF SaveCheckout
<1>2. clock' \in Ref
  BY <1>0, RowTypes, BoundAssumption DEF SaveCheckout, Tick, Ref
<1>3. /\ row' = [status |-> "PENDING", session |-> got[j], ref |-> ref[j], stamp |-> clock']
      /\ published' = published \cup {got[j]}
      /\ ops' = [ops EXCEPT ![ref[j]] = [status |-> "COMPLETED", session |-> got[j]]]
  BY DEF SaveCheckout, Write
<1>4. row' \in Row /\ row'.status = "PENDING" /\ row'.session \in Session
  BY <1>0, <1>2, <1>3 DEF Row, RowStatus
<1>5. [status |-> "COMPLETED", session |-> got[j]] \in Operation
  BY <1>0 DEF Operation
<1>6. ops' \in [Ref -> Operation] /\ \A r \in Ref : r # ref[j] => ops'[r] = ops[r]
  BY <1>0, <1>3, <1>5, JobTypes
<1>7. published' \subseteq Session
  BY <1>0, <1>3, GatewayTypes
<1>8. DataTypes' /\ PaidWasPaid' /\ (SomePaid' <=> SomePaid)
  <2>1. "EXPIRED" \in RowStatus /\ "EXPIRED" # "PAID"
    BY DEF RowStatus, Renewable
  <2>2. deliveries' \subseteq deliveries \cup {<<"EXPIRED", clock'>>}
    BY <1>1
  <2>3. row'.status # "ABSENT" /\ (row'.status \in {"PAID", "REFUNDED"} => SomePaid)
    BY <1>4
  <2> QED
    BY <1>1, <1>2, <1>4, <1>6, <1>7, <2>1, <2>2, <2>3, RowMoves
<1>9. ActorTypes'
  BY <1>1, LeavingTypes DEF Kept, TypeOK, ActorTypes
<1>10. SessionsNamed'
  <2>1. fixing.pc = "read" => ops'[fixing.ref] = ops[fixing.ref]
    <3>1. fixing.ref \in Ref
      BY <1>0, WriterTypes
    <3> QED
      BY <1>1, <1>6, <3>1 DEF Unlocked
  <2>2. \A i \in Job : job'[i] \in {"answered", "unsaved"} => got'[i] \in Session
    BY <1>1, LeavingTypes
  <2> QED
    BY <1>1, <1>4, <2>1, <2>2 DEF Kept, SessionsNamed
<1>11. WordOfPayment'
  BY <1>1, <1>8 DEF Kept, WordOfPayment, WasPaid
<1> QED
  BY <1>8, <1>9, <1>10, <1>11 DEF Kept, TypeOK

\* The gateway: what was paid stays paid, or is refunded.
LEMMA GatewayHolds ==
    ASSUME Kept, NEW s \in Session, Pay(s) \/ End(s) \/ Refund(s)
    PROVE  Kept'
<1>0. TypeOK
  BY KeptTypes
<1>1. UNCHANGED <<provider, row, clock, ops, doubled, refOf, published, requests, job, ref, got,
                  sync, copy, told, lock, overlap, fixing, deliveries>>
  BY DEF Pay, End, Refund
<1>12. UNCHANGED <<held, overtaken>>
  BY DEF Pay, End, Refund
<1>2. PICK status \in RemoteStatus :
        remote' = [remote EXCEPT ![s] = status] /\ (WasPaid(s) => status = "refunded")
  BY DEF Pay, End, Refund, RemoteStatus, WasPaid
<1>3. remote' \in [Session -> RemoteStatus] /\ \A t \in Session : WasPaid(t) => WasPaid(t)'
  BY <1>0, <1>2, GatewayTypes DEF WasPaid
<1>4. inbox' \in [Kind \X Session -> {"none", "sent", "read", "done"}]
  <2>1. inbox' = inbox \/ \E kind \in Kind : inbox' = [inbox EXCEPT ![<<kind, s>>] = "sent"]
    BY DEF Pay, End, Refund, Notify, Kind
  <2> QED
    BY <1>0, <2>1, GatewayTypes
<1>5. ASSUME NEW t \in Session, NEW kind \in {"CHECKOUT_PAID", RefundKind},
             inbox'[<<kind, t>>] # "none"
      PROVE  WasPaid(t)'
  <2>1. kind \in Kind
    BY DEF Kind, RefundKind
  <2>2. CASE inbox[<<kind, t>>] # "none"
    BY <1>3, <2>2 DEF Kept, WordOfPayment
  <2>3. CASE inbox[<<kind, t>>] = "none"
    <3>1. \A u \in Session, k \in Kind : inbox'[<<k, u>>] # inbox[<<k, u>>] =>
            /\ u = s
            /\ k = "CHECKOUT_PAID" => remote'[s] = "paid"
            /\ k = RefundKind => remote'[s] = "refunded"
      BY <1>0, GatewayDoes
    <3>2. inbox'[<<kind, t>>] # inbox[<<kind, t>>]
      BY <1>5, <2>3
    <3>3. t = s /\ remote'[s] \in {"paid", "refunded"}
      BY <2>1, <3>1, <3>2
    <3> QED
      BY <3>3 DEF WasPaid
  <2> QED
    BY <2>2, <2>3
<1>6. SomePaid => SomePaid'
  BY <1>3 DEF SomePaid
<1>7. DataTypes'
  BY <1>1, <1>3 DEF Kept, TypeOK, DataTypes
<1>8. ActorTypes'
  BY <1>1, <1>4, <1>12 DEF Kept, TypeOK, ActorTypes
<1>9. SessionsNamed'
  BY <1>1 DEF Kept, SessionsNamed
<1>10. WordOfPayment'
  BY <1>1, <1>5, <1>6 DEF Kept, WordOfPayment
<1>11. PaidWasPaid'
  BY <1>1, <1>6 DEF Kept, PaidWasPaid
<1> QED
  BY <1>7, <1>8, <1>9, <1>10, <1>11 DEF Kept, TypeOK

\* A notification of a payment or a refund is of a session that was paid.
LEMMA WebhookHolds ==
    ASSUME Kept, ReadOfTheRow, NEW kind \in Kind, NEW s \in Session,
           ReadPayment(kind, s) \/ SavePayment(kind, s)
    PROVE  Kept'
<1>0. TypeOK
  BY KeptTypes
<1>1. /\ UNCHANGED <<provider, doubled, ops, remote, refOf, requests, job, ref, got, sync, copy,
                     told, lock, overlap, fixing>>
      /\ inbox[<<kind, s>>] # "none"
  BY DEF ReadPayment, SavePayment
<1>2. /\ \E how \in {"read", "done"} : inbox' = [inbox EXCEPT ![<<kind, s>>] = how]
      /\ held' = held \/ \E c \in {row.session, NoSession} :
                          held' = [held EXCEPT ![<<kind, s>>] = c]
      /\ overtaken' \subseteq overtaken \cup {<<kind, s>>}
  BY DEF ReadPayment, SavePayment
<1>3. /\ inbox' \in [Kind \X Session -> {"none", "sent", "read", "done"}]
      /\ held' \in [Kind \X Session -> Session \cup {NoSession}]
      /\ overtaken' \subseteq Kind \X Session
  <2>1. inbox' \in [Kind \X Session -> {"none", "sent", "read", "done"}]
    BY <1>0, <1>2, GatewayTypes
  <2>2. held' \in [Kind \X Session -> Session \cup {NoSession}]
    BY <1>0, <1>2, GatewayTypes, RowTypes
  <2>3. overtaken' \subseteq Kind \X Session
    BY <1>0, <1>2, GatewayTypes
  <2> QED
    BY <2>1, <2>2, <2>3
<1>4. SomePaid' <=> SomePaid
  BY <1>1 DEF SomePaid, WasPaid
<1>5. WordOfPayment'
  <2>1. ASSUME NEW t \in Session, NEW k \in {"CHECKOUT_PAID", RefundKind},
               inbox'[<<k, t>>] # "none"
        PROVE  WasPaid(t)'
    <3>1. k \in Kind
      BY DEF Kind, RefundKind
    <3>2. inbox[<<k, t>>] # "none"
      <4>1. CASE k = kind /\ t = s
        BY <1>1, <4>1
      <4>2. CASE k # kind \/ t # s
        <5>1. inbox'[<<k, t>>] = inbox[<<k, t>>]
          BY <1>0, <3>1, <4>2, OthersWait
        <5> QED
          BY <2>1, <5>1
      <4> QED
        BY <4>1, <4>2
    <3>3. WasPaid(t)
      BY <3>2 DEF Kept, WordOfPayment
    <3> QED
      BY <1>1, <3>3 DEF WasPaid
  <2> QED
    BY <1>1, <1>4, <2>1 DEF Kept, WordOfPayment
<1>6. ActorTypes'
  BY <1>1, <1>3 DEF Kept, TypeOK, ActorTypes
<1>7. CASE ReadPayment(kind, s)
  <2>1. UNCHANGED <<row, clock, published, deliveries>>
    BY <1>7 DEF ReadPayment
  <2>2. DataTypes'
    BY <1>1, <2>1 DEF Kept, TypeOK, DataTypes
  <2>3. SessionsNamed'
    BY <1>1, <2>1 DEF Kept, SessionsNamed
  <2>4. PaidWasPaid'
    BY <1>4, <2>1 DEF Kept, PaidWasPaid
  <2> QED
    BY <1>5, <1>6, <2>2, <2>3, <2>4 DEF Kept, TypeOK
<1>8. CASE SavePayment(kind, s)
  <2> DEFINE c == held[<<kind, s>>]
  <2>1. row.session \in Session /\ c \in Session
    BY <1>8 DEF SavePayment, ReadOfTheRow, Kept, SessionsNamed
  <2>2. TargetOf(kind) \in RowStatus /\ TargetOf(kind) # "ABSENT"
    BY DEF TargetOf, RowStatus, Renewable
  <2>3. TargetOf(kind) \in {"PAID", "REFUNDED"} => SomePaid
    <3>1. TargetOf(kind) \in {"PAID", "REFUNDED"} => kind \in {"CHECKOUT_PAID", RefundKind}
      BY DEF TargetOf
    <3> QED
      BY <1>1, <3>1 DEF Kept, WordOfPayment, SomePaid
  <2>4. clock' \in Ref
    BY <1>0, <1>8, RowTypes, BoundAssumption DEF SavePayment, Tick, Ref
  <2>5. PICK base \in {[row EXCEPT !.session = c, !.ref = refOf[c]], row} :
          /\ row' = [base EXCEPT !.status = TargetOf(kind), !.stamp = clock']
          /\ published' = published \cup {row'.session}
    BY <1>8 DEF SavePayment, Saves, Write
  <2>6. row' \in Row /\ row'.status = TargetOf(kind) /\ row'.session \in Session
    <3>1. base \in Row /\ base.session \in Session
      <4>1. refOf[c] \in Ref
        BY <1>0, <2>1, GatewayTypes
      <4> QED
        BY <1>0, <2>1, <2>5, <4>1, RowTypes DEF Row
    <3> QED
      BY <2>2, <2>4, <2>5, <3>1 DEF Row
  <2>7. deliveries' = deliveries \cup {<<TargetOf(kind), clock'>>}
    BY <1>8 DEF SavePayment, Deliver
  <2>8. published' \subseteq Session
    BY <1>0, <2>5, <2>6, GatewayTypes
  <2>9. ops' \in [Ref -> Operation]
    BY <1>0, <1>1, JobTypes
  <2>10. DataTypes' /\ PaidWasPaid'
    BY <1>1, <2>1, <2>2, <2>3, <2>4, <2>6, <2>7, <2>8, <2>9, RowMoves
  <2>11. SessionsNamed'
    BY <1>1, <2>1, <2>2, <2>6 DEF Kept, SessionsNamed
  <2> QED
    BY <1>5, <1>6, <2>10, <2>11 DEF Kept, TypeOK
<1> QED
  BY <1>7, <1>8

\* What the synchronisers and the reconciler hold and were told.
LEMMA KeptWriters ==
    ASSUME Kept
    PROVE  /\ \A b \in Sync : sync[b] # "idle" =>
                row.status # "ABSENT" /\ copy[b].session \in Session
           /\ \A b \in Sync : sync[b] = "asked" => told[b] # "ACTIVE" /\ (told[b] = "PAID" => SomePaid)
           /\ fixing.pc = "read" =>
                ops[fixing.ref].status # "ABSENT" /\ ops[fixing.ref].session \in Session
           /\ fixing.copy.status # "ABSENT" =>
                row.status # "ABSENT" /\ fixing.copy.session \in Session
           /\ fixing.pc = "read" /\ (fixing.status = "PAID" \/ fixing.copy.status \in {"PAID", "REFUNDED"})
                => SomePaid
BY DEF Kept, SessionsNamed, WordOfPayment

\* A synchroniser that lets go leaves the others what they have.
LEMMA SyncEndsTypes ==
    ASSUME Kept, NEW c \in Sync, SyncEnds(c)
    PROVE  /\ sync' \in [Sync -> SyncLabel] /\ copy' \in [Sync -> Row]
           /\ told' \in [Sync -> CheckoutStatus] /\ lock' \in Sync \cup {Nobody}
           /\ overlap' \subseteq Sync
           /\ \A b \in Sync : sync'[b] # "idle" =>
                      row.status # "ABSENT" /\ copy'[b].session \in Session
           /\ \A b \in Sync :
                sync'[b] = "asked" => told'[b] # "ACTIVE" /\ (told'[b] = "PAID" => SomePaid)
<1>0. TypeOK
  BY KeptTypes
<1>1. sync' \in [Sync -> SyncLabel] /\ lock' \in Sync \cup {Nobody}
  BY <1>0, WriterTypes DEF SyncEnds, SyncLabel
<1>2. copy' \in [Sync -> Row]
  <2>1. NoRow \in Row
    BY RefIsNat DEF NoRow, Row
  <2> QED
    BY <1>0, <2>1, WriterTypes DEF SyncEnds
<1>3. told' \in [Sync -> CheckoutStatus]
  BY <1>0, WriterTypes DEF SyncEnds, CheckoutStatus
<1>4. overlap' \subseteq Sync
  <2>1. overlap \subseteq Sync
    BY <1>0 DEF TypeOK, ActorTypes
  <2>2. overlap' = overlap \/ (lock # Nobody /\ overlap' = overlap \cup {lock})
    BY DEF SyncEnds
  <2> QED
    BY <1>0, <2>1, <2>2, WriterTypes
<1>5. \A b \in Sync : sync'[b] # "idle" =>
        sync'[b] = sync[b] /\ copy'[b] = copy[b] /\ told'[b] = told[b]
  <2>1. /\ sync'[c] = "idle"
        /\ \A b \in Sync : b # c => sync'[b] = sync[b] /\ copy'[b] = copy[b] /\ told'[b] = told[b]
    BY <1>0, SyncEndsDoes DEF LetGo
  <2> QED
    BY <2>1
<1> QED
  BY <1>1, <1>2, <1>3, <1>4, <1>5, KeptWriters

\* What the gateway says of a session that was not paid is not that it was.
LEMMA PaidAnswer ==
    ASSUME NEW s \in Session, NEW status \in GetCheckout(s), status = "PAID"
    PROVE  SomePaid
BY DEF GetCheckout, SomePaid, WasPaid

\* The synchroniser copies the row and asks the gateway; what it saves is its copy, with
\* what it was told.
LEMMA SyncHolds ==
    ASSUME Kept, NEW c \in Sync, SyncStep(c)
    PROVE  Kept'
<1>0. TypeOK
  BY KeptTypes
<1>1. CASE SyncLists(c)
  <2>1. UNCHANGED <<provider, row, clock, ops, doubled, remote, refOf, published, requests, job,
                    ref, got, notices, told, overlap, fixing, deliveries>>
    BY <1>1 DEF SyncLists
  <2>2. /\ row.status = "PENDING" /\ lock' = c
        /\ sync' = [sync EXCEPT ![c] = "listed"] /\ copy' = [copy EXCEPT ![c] = row]
    BY <1>1 DEF SyncLists
  <2>3. row.status # "ABSENT" /\ row.session \in Session
    BY <2>2 DEF Kept, SessionsNamed
  <2>4. /\ sync' \in [Sync -> SyncLabel] /\ copy' \in [Sync -> Row]
        /\ lock' \in Sync \cup {Nobody}
    BY <1>0, <2>2, WriterTypes, RowTypes DEF SyncLabel
  <2>5. overlap' \subseteq Sync /\ told' \in [Sync -> CheckoutStatus] /\ fixing' \in Fixing
    BY <1>0, <2>1 DEF TypeOK, ActorTypes
  <2>6. sync'[c] = "listed" /\ copy'[c] = row
    BY <1>0, <2>2, WriterTypes
  <2>7. \A b \in Sync : b # c => sync'[b] = sync[b] /\ copy'[b] = copy[b]
    BY <1>0, <2>2, WriterTypes
  <2>8. \A b \in Sync : sync'[b] # "idle" =>
                      row.status # "ABSENT" /\ copy'[b].session \in Session
    BY <2>3, <2>6, <2>7, KeptWriters
  <2>9. \A b \in Sync : sync'[b] = "asked" => told'[b] # "ACTIVE" /\ (told'[b] = "PAID" => SomePaid)
    BY <2>1, <2>6, <2>7, KeptWriters
  <2> QED
    BY <2>1, <2>4, <2>5, <2>8, <2>9, KeptWriters, WritersMove
<1>2. CASE SyncAsks(c)
  <2>1. UNCHANGED <<provider, row, clock, ops, doubled, remote, refOf, published, requests, job,
                    ref, got, notices, fixing, deliveries>>
    BY <1>2 DEF SyncAsks
  <2>2. fixing' \in Fixing
    BY <1>0, <2>1, WriterTypes
  <2>3. CASE SyncEnds(c)
    BY <2>1, <2>2, <2>3, SyncEndsTypes, KeptWriters, WritersMove
  <2>4. CASE ~SyncEnds(c)
    <3>1. sync[c] = "listed"
      BY <1>2 DEF SyncAsks
    <3>2. PICK status \in GetCheckout(copy[c].session) :
            /\ status # "ACTIVE"
            /\ sync' = [sync EXCEPT ![c] = "asked"]
            /\ told' = [told EXCEPT ![c] = status]
            /\ UNCHANGED <<copy, lock, overlap>>
      BY <1>2, <2>4 DEF SyncAsks
    <3>3. status \in CheckoutStatus
      BY <3>2 DEF GetCheckout
    <3>4. row.status # "ABSENT" /\ copy[c].session \in Session
      BY <3>1, KeptWriters
    <3>5. status = "PAID" => SomePaid
      BY <3>2, <3>4, PaidAnswer
    <3>6. /\ sync' \in [Sync -> SyncLabel] /\ told' \in [Sync -> CheckoutStatus]
          /\ copy' \in [Sync -> Row] /\ lock' \in Sync \cup {Nobody} /\ overlap' \subseteq Sync
      BY <1>0, <3>2, <3>3, WriterTypes DEF SyncLabel, TypeOK, ActorTypes
    <3>7. /\ \A b \in Sync : b # c => sync'[b] = sync[b] /\ told'[b] = told[b]
          /\ sync'[c] = "asked" /\ told'[c] = status
      BY <1>0, <3>2, WriterTypes
    <3>8. \A b \in Sync : sync'[b] # "idle" =>
                      row.status # "ABSENT" /\ copy'[b].session \in Session
      BY <3>2, <3>4, <3>7, KeptWriters
    <3>9. \A b \in Sync :
            sync'[b] = "asked" => told'[b] # "ACTIVE" /\ (told'[b] = "PAID" => SomePaid)
      BY <3>2, <3>5, <3>7, KeptWriters
    <3> QED
      BY <2>1, <2>2, <3>6, <3>8, <3>9, KeptWriters, WritersMove
  <2> QED
    BY <2>3, <2>4
<1>3. CASE SyncSaves(c)
  <2>1. /\ UNCHANGED <<provider, ops, doubled, remote, refOf, requests, job, ref, got, notices,
                       fixing>>
        /\ sync[c] = "asked" /\ SyncEnds(c)
    BY <1>3 DEF SyncSaves
  <2>2. clock' \in Ref
    BY <1>0, <1>3, RowTypes, BoundAssumption DEF SyncSaves, Tick, Ref
  <2>3. copy[c] \in Row /\ told[c] \in CheckoutStatus
    BY <1>0, WriterTypes
  <2>4. /\ row.status # "ABSENT" /\ copy[c].session \in Session
        /\ told[c] # "ACTIVE" /\ (told[c] = "PAID" => SomePaid)
    BY <2>1, KeptWriters
  <2>5. told[c] \in RowStatus /\ told[c] # "ABSENT" /\ told[c] # "REFUNDED"
    BY <2>3, <2>4 DEF CheckoutStatus, RowStatus, Renewable
  <2>6. PICK base \in {copy[c], row} :
          /\ row' = [base EXCEPT !.status = told[c], !.stamp = clock']
          /\ published' = published \cup {row'.session}
    BY <1>3 DEF SyncSaves, Saves, Write
  <2>7. row' \in Row /\ row'.session \in Session /\ row'.status = told[c]
    <3>1. row \in Row /\ row.session \in Session
      BY <1>0, <2>4, RowTypes DEF Kept, SessionsNamed
    <3>2. base \in Row /\ base.session \in Session
      BY <2>3, <2>4, <2>6, <3>1
    <3> QED
      BY <2>2, <2>5, <2>6, <3>2 DEF Row
  <2>8. deliveries' = deliveries \cup {<<told[c], clock'>>}
    BY <1>3 DEF SyncSaves, Deliver
  <2>9. published' \subseteq Session
    BY <1>0, <2>6, <2>7, GatewayTypes
  <2>10. ops' \in [Ref -> Operation]
    BY <1>0, <2>1, JobTypes
  <2>11. DataTypes' /\ PaidWasPaid' /\ (SomePaid' <=> SomePaid)
    BY <2>1, <2>2, <2>4, <2>5, <2>7, <2>8, <2>9, <2>10, RowMoves
  <2>12. ActorTypes'
    BY <2>1, SyncEndsTypes DEF Kept, TypeOK, ActorTypes
  <2>13. SessionsNamed'
    <3>1. \A b \in Sync : sync'[b] # "idle" => copy'[b].session \in Session
      BY <2>1, SyncEndsTypes
    <3>2. row'.status # "ABSENT" /\ row'.session \in Session
      BY <2>5, <2>7
    <3> QED
      BY <2>1, <3>1, <3>2 DEF Kept, SessionsNamed
  <2>14. WordOfPayment'
    <3>1. \A b \in Sync :
            sync'[b] = "asked" => told'[b] # "ACTIVE" /\ (told'[b] = "PAID" => SomePaid)
      BY <2>1, SyncEndsTypes
    <3> QED
      BY <2>1, <2>11, <3>1 DEF Kept, WordOfPayment, WasPaid
  <2> QED
    BY <2>11, <2>12, <2>13, <2>14 DEF Kept, TypeOK
<1>4. CASE SyncFails(c)
  <2>1. UNCHANGED <<provider, row, clock, ops, doubled, remote, refOf, published, requests, job,
                    ref, got, notices, fixing, deliveries>> /\ SyncEnds(c)
    BY <1>4 DEF SyncFails
  <2>2. fixing' \in Fixing
    BY <1>0, <2>1, WriterTypes
  <2> QED
    BY <2>1, <2>2, SyncEndsTypes, KeptWriters, WritersMove
<1> QED
  BY <1>1, <1>2, <1>3, <1>4 DEF SyncStep

\* The lock's expiry changes nothing but who may run.
LEMMA ExpiryHolds == ASSUME Kept, LockExpires PROVE Kept'
<1>0. TypeOK
  BY KeptTypes
<1>1. UNCHANGED <<provider, row, clock, ops, doubled, remote, refOf, published, requests, job, ref,
                  got, notices, sync, copy, told, fixing, deliveries>>
  BY DEF LockExpires
<1>2. lock' \in Sync \cup {Nobody} /\ overlap' \subseteq Sync
  <2>1. overlap \subseteq Sync
    BY <1>0 DEF TypeOK, ActorTypes
  <2>2. lock' = Nobody /\ lock # Nobody /\ (overlap' = overlap \/ overlap' = overlap \cup {lock})
    BY DEF LockExpires
  <2> QED
    BY <1>0, <2>1, <2>2, WriterTypes
<1>3. /\ sync' \in [Sync -> SyncLabel] /\ copy' \in [Sync -> Row]
      /\ told' \in [Sync -> CheckoutStatus] /\ fixing' \in Fixing
  BY <1>0, <1>1, WriterTypes
<1> QED
  BY <1>1, <1>2, <1>3, KeptWriters, WritersMove

\* What the reconciler saves: the operation's session, or a state of the row that was
\* there before, with the answer of the gateway or as it was.
LEMMA ReconciledRow ==
    ASSUME Kept, ReconcileSaves
    PROVE  /\ row' \in Row /\ row'.status # "ABSENT" /\ row'.session \in Session
           /\ row'.status \in {"PAID", "REFUNDED"} => SomePaid
           /\ published' \subseteq Session
<1>0. TypeOK
  BY KeptTypes
<1> DEFINE wanted == LocalStatus(fixing.status)
<1>1. fixing.pc = "read"
  BY DEF ReconcileSaves
<1>2. clock' \in Ref
  BY <1>0, RowTypes, BoundAssumption DEF ReconcileSaves, Tick, Ref
<1>3. /\ fixing.ref \in Ref /\ fixing.copy \in Row /\ fixing.status \in CheckoutStatus
      /\ ops[fixing.ref].session \in Session
  BY <1>0, <1>1, WriterTypes, KeptWriters
<1>4. wanted \in RowStatus /\ wanted # "ABSENT" /\ (wanted \in {"PAID", "REFUNDED"} => SomePaid)
  <2>1. wanted \in RowStatus /\ wanted # "ABSENT" /\ wanted # "REFUNDED"
        /\ (wanted = "PAID" => fixing.status = "PAID")
    BY <1>3 DEF LocalStatus, CheckoutStatus, RowStatus, Renewable
  <2> QED
    BY <1>1, <2>1, KeptWriters
<1>5. \/ /\ row' = [status |-> wanted, session |-> ops[fixing.ref].session,
                   ref |-> fixing.ref, stamp |-> clock']
         /\ published' = published \cup {row'.session}
      \/ /\ ~Adopts(fixing)
         /\ \E base \in {fixing.copy, row} :
              /\ row' = base \/ row' = [base EXCEPT !.status = wanted, !.stamp = clock']
              /\ published' \in {published, published \cup {row'.session}}
  <2>1. CASE Adopts(fixing)
    BY <2>1 DEF ReconcileSaves, SavesCopy, Takes, Write
  <2>2. CASE ~Adopts(fixing) /\ Takes(fixing)
    <3>1. CASE Changes(fixing)
      BY <2>2, <3>1 DEF ReconcileSaves, SavesCopy, Saves, Write
    <3>2. CASE ~Changes(fixing)
      BY <2>2, <3>2 DEF ReconcileSaves, SavesCopy, Write
    <3> QED
      BY <3>1, <3>2
  <2>3. CASE ~Adopts(fixing) /\ ~Takes(fixing)
    BY <2>3 DEF ReconcileSaves, SavesCopy
  <2> QED
    BY <2>1, <2>2, <2>3
<1> HIDE DEF wanted
<1>6. row' \in Row /\ row'.status # "ABSENT" /\ row'.session \in Session
      /\ (row'.status \in {"PAID", "REFUNDED"} => SomePaid)
  <2>1. CASE row' = [status |-> wanted, session |-> ops[fixing.ref].session,
                     ref |-> fixing.ref, stamp |-> clock']
    BY <1>2, <1>3, <1>4, <2>1 DEF Row
  <2>2. ASSUME ~Adopts(fixing), NEW base \in {fixing.copy, row},
               row' = base \/ row' = [base EXCEPT !.status = wanted, !.stamp = clock']
        PROVE  row' \in Row /\ row'.status # "ABSENT" /\ row'.session \in Session
               /\ (row'.status \in {"PAID", "REFUNDED"} => SomePaid)
    <3>1. base \in Row /\ base.status # "ABSENT" /\ base.session \in Session
      BY <1>0, <1>3, <2>2, RowTypes, KeptWriters DEF Adopts, Kept, SessionsNamed
    <3>2. base.status \in {"PAID", "REFUNDED"} => SomePaid
      BY <1>1, <2>2, KeptWriters DEF Kept, PaidWasPaid
    <3>3. CASE row' = base
      BY <3>1, <3>2, <3>3
    <3>4. CASE row' = [base EXCEPT !.status = wanted, !.stamp = clock']
      BY <1>2, <1>4, <3>1, <3>4 DEF Row
    <3> QED
      BY <2>2, <3>3, <3>4
  <2> QED
    BY <1>5, <2>1, <2>2
<1>7. published' \subseteq Session
  BY <1>0, <1>5, <1>6, GatewayTypes
<1> QED
  BY <1>6, <1>7

\* The reconciler asks the gateway of the operation's session; what it saves is the row
\* it makes of the answer, and what it tells the client is that answer.
LEMMA ReconcileHolds ==
    ASSUME Kept, (\E r \in Ref : ReconcileReads(r)) \/ ReconcileSaves \/ ReconcileFails
    PROVE  Kept'
<1>0. TypeOK
  BY KeptTypes
<1>1. ASSUME NEW r \in Ref, ReconcileReads(r)
      PROVE  Kept'
  <2>1. UNCHANGED <<provider, row, clock, ops, doubled, remote, refOf, published, requests, job,
                    ref, got, notices, sync, copy, told, lock, overlap, deliveries>>
    BY <1>1 DEF ReconcileReads
  <2>2. ops[r].status = "REQUIRES_RECONCILIATION" /\ ops[r].session # NoSession
    BY <1>1 DEF ReconcileReads
  <2>3. ops[r].session \in Session
    BY <1>0, <2>2, JobTypes DEF Operation
  <2>4. PICK status \in GetCheckout(ops[r].session) :
          fixing' = [pc |-> "read", ref |-> r, copy |-> row, status |-> status]
    BY <1>1 DEF ReconcileReads
  <2>5. status \in CheckoutStatus /\ (status = "PAID" => SomePaid)
    <3>1. status \in CheckoutStatus
      BY <2>4 DEF GetCheckout
    <3> QED
      BY <2>3, <2>4, <3>1, PaidAnswer
  <2>6. fixing' \in Fixing
    BY <1>0, <2>4, <2>5, RowTypes DEF Fixing
  <2>7. fixing'.ref = r /\ fixing'.copy = row /\ fixing'.status = status
    BY <2>4
  <2>8. fixing'.status = "PAID" \/ fixing'.copy.status \in {"PAID", "REFUNDED"} => SomePaid
    BY <2>5, <2>7 DEF Kept, PaidWasPaid
  <2>9. ops[fixing'.ref].status # "ABSENT" /\ ops[fixing'.ref].session \in Session
    BY <2>2, <2>3, <2>7
  <2>10. fixing'.copy.status # "ABSENT" =>
           row.status # "ABSENT" /\ fixing'.copy.session \in Session
    BY <2>7 DEF Kept, SessionsNamed
  <2>11. /\ sync' \in [Sync -> SyncLabel] /\ copy' \in [Sync -> Row]
         /\ told' \in [Sync -> CheckoutStatus] /\ lock' \in Sync \cup {Nobody}
         /\ overlap' \subseteq Sync
    BY <1>0, <2>1 DEF TypeOK, ActorTypes
  <2> QED
    BY <2>1, <2>6, <2>8, <2>9, <2>10, <2>11, KeptWriters, WritersMove
<1>2. CASE ReconcileSaves
  <2> DEFINE wanted == LocalStatus(fixing.status)
  <2>1. /\ UNCHANGED <<provider, doubled, remote, refOf, requests, job, ref, got, notices, sync, copy,
                       told, lock, overlap>>
        /\ fixing.pc = "read" /\ fixing' = NotFixing
    BY <1>2 DEF ReconcileSaves
  <2>2. clock' \in Ref
    BY <1>0, <1>2, RowTypes, BoundAssumption DEF ReconcileSaves, Tick, Ref
  <2>3. /\ fixing.ref \in Ref /\ fixing.copy \in Row /\ fixing.status \in CheckoutStatus
        /\ ops[fixing.ref].session \in Session
    BY <1>0, <2>1, WriterTypes, KeptWriters
  <2>4. wanted \in RowStatus /\ wanted # "ABSENT" /\ (wanted \in {"PAID", "REFUNDED"} => SomePaid)
    <3>1. wanted \in RowStatus /\ wanted # "ABSENT" /\ wanted # "REFUNDED"
          /\ (wanted = "PAID" => fixing.status = "PAID")
      BY <2>3 DEF LocalStatus, CheckoutStatus, RowStatus, Renewable
    <3> QED
      BY <2>1, <3>1, KeptWriters
  <2> HIDE DEF wanted
  <2>5. /\ row' \in Row /\ row'.status # "ABSENT" /\ row'.session \in Session
        /\ row'.status \in {"PAID", "REFUNDED"} => SomePaid
        /\ published' \subseteq Session
    BY <1>2, ReconciledRow
  <2>6. ops' = [ops EXCEPT ![fixing.ref] = [status |-> "COMPLETED", session |-> ops[fixing.ref].session]]
    BY <1>2 DEF ReconcileSaves
  <2>7. ops' \in [Ref -> Operation]
    <3>1. [status |-> "COMPLETED", session |-> ops[fixing.ref].session] \in Operation
      BY <2>3 DEF Operation
    <3> QED
      BY <1>0, <2>3, <2>6, <3>1, JobTypes
  <2>8. PICK stamp \in Ref : deliveries' \subseteq deliveries \cup {<<wanted, stamp>>}
    <3>1. fixing.copy.stamp \in Ref
      BY <2>3 DEF Row
    <3>2. \/ deliveries' = deliveries \cup {<<wanted, clock'>>}
          \/ deliveries' = deliveries \cup {<<wanted, fixing.copy.stamp>>}
          \/ deliveries' = deliveries
      BY <1>2 DEF ReconcileSaves, Deliver, wanted
    <3> QED
      BY <2>2, <3>1, <3>2
  <2>9. DataTypes' /\ PaidWasPaid' /\ (SomePaid' <=> SomePaid)
    BY <2>1, <2>2, <2>4, <2>5, <2>7, <2>8, RowMoves
  <2>10. ActorTypes'
    <3>1. NotFixing \in Fixing
      BY RefIsNat DEF NotFixing, Fixing, NoRow, Row, CheckoutStatus
    <3> QED
      BY <2>1, <3>1 DEF Kept, TypeOK, ActorTypes
  <2>11. fixing'.pc = "idle" /\ fixing'.copy.status = "ABSENT"
    BY <2>1 DEF NotFixing, NoRow
  <2>12. SessionsNamed'
    BY <2>1, <2>5, <2>11 DEF Kept, SessionsNamed
  <2>13. WordOfPayment'
    BY <2>1, <2>9, <2>11 DEF Kept, WordOfPayment, WasPaid
  <2> QED
    BY <2>9, <2>10, <2>12, <2>13 DEF Kept, TypeOK
<1>3. CASE ReconcileFails
  <2>1. UNCHANGED <<provider, row, clock, ops, doubled, remote, refOf, published, requests, job,
                    ref, got, notices, sync, copy, told, lock, overlap, deliveries>>
        /\ fixing' = NotFixing
    BY <1>3 DEF ReconcileFails
  <2>2. NotFixing \in Fixing
    BY RefIsNat DEF NotFixing, Fixing, NoRow, Row, CheckoutStatus
  <2>3. fixing'.pc = "idle" /\ fixing'.copy.status = "ABSENT"
    BY <2>1 DEF NotFixing, NoRow
  <2>4. /\ sync' \in [Sync -> SyncLabel] /\ copy' \in [Sync -> Row]
        /\ told' \in [Sync -> CheckoutStatus] /\ lock' \in Sync \cup {Nobody}
        /\ overlap' \subseteq Sync
    BY <1>0, <2>1 DEF TypeOK, ActorTypes
  <2> QED
    BY <2>1, <2>2, <2>3, <2>4, KeptWriters, WritersMove
<1> QED
  BY <1>1, <1>2, <1>3

\* A payment that was read exists: no step deletes a row.
LEMMA ReadsStay ==
    ASSUME ReadOfTheRow, row.status # "ABSENT" => row'.status # "ABSENT",
           \A s \in Session, kind \in Kind : inbox'[<<kind, s>>] = "read" =>
             \/ inbox[<<kind, s>>] = "read" /\ held'[<<kind, s>>] = held[<<kind, s>>]
             \/ row.status # "ABSENT" /\ held'[<<kind, s>>] \in Session
    PROVE  ReadOfTheRow'
BY DEF ReadOfTheRow

\* So a notification that has read the payment's row still finds one.
LEMMA ReadsHold ==
    ASSUME Kept, Kept', ReadOfTheRow, [Next]_vars
    PROVE  ReadOfTheRow'
<1>0. TypeOK
  BY KeptTypes
<1>1. row.status # "ABSENT" => row'.status # "ABSENT"
  <2>1. CASE row' = row
    BY <2>1
  <2>2. ASSUME NEW j \in Job, SaveCheckout(j) PROVE row'.status # "ABSENT"
    BY <1>0, <2>2, SaveCheckoutDoes
  <2>3. ASSUME NEW kind \in Kind, NEW s \in Session, SavePayment(kind, s)
        PROVE  row'.status # "ABSENT"
    BY <1>0, <2>3, SavePaymentDoes DEF TargetOf
  <2>4. ASSUME NEW c \in Sync, SyncSaves(c) PROVE row'.status # "ABSENT"
    <3>1. row'.status = told[c] /\ told[c] \in CheckoutStatus
      BY <1>0, <2>4, SyncSavesDoes, WriterTypes
    <3> QED
      BY <3>1 DEF CheckoutStatus
  <2>5. ReconcileSaves => row'.status # "ABSENT" \/ row' = row
    BY <1>0, ReconciledRow
  <2> QED
    BY <2>1, <2>2, <2>3, <2>4, <2>5, RowWriters
<1>2. ASSUME NEW s \in Session, NEW kind \in Kind, inbox'[<<kind, s>>] = "read"
      PROVE  \/ inbox[<<kind, s>>] = "read" /\ held'[<<kind, s>>] = held[<<kind, s>>]
             \/ row.status # "ABSENT" /\ held'[<<kind, s>>] \in Session
  <2>1. CASE UNCHANGED <<inbox, held>>
    BY <1>2, <2>1
  <2>2. ASSUME NEW t \in Session, Pay(t) \/ End(t) \/ Refund(t)
        PROVE  inbox[<<kind, s>>] = "read" /\ held'[<<kind, s>>] = held[<<kind, s>>]
    <3>1. held' = held /\ \A u \in Session, k \in Kind :
            inbox'[<<k, u>>] # inbox[<<k, u>>] => inbox'[<<k, u>>] = "sent"
      BY <1>0, <2>2, GatewayDoes
    <3> QED
      BY <1>2, <3>1
  <2>3. ASSUME NEW k \in Kind, NEW t \in Session, ReadPayment(k, t) \/ SavePayment(k, t)
        PROVE  \/ inbox[<<kind, s>>] = "read" /\ held'[<<kind, s>>] = held[<<kind, s>>]
               \/ row.status # "ABSENT" /\ held'[<<kind, s>>] \in Session
    <3>1. CASE k # kind \/ s # t
      <4>1. /\ inbox'[<<kind, s>>] = inbox[<<kind, s>>]
            /\ held'[<<kind, s>>] = held[<<kind, s>>]
        BY <1>0, <2>3, <3>1, OthersWait
      <4> QED
        BY <1>2, <4>1
    <3>2. CASE k = kind /\ s = t
      <4>1. CASE ReadPayment(kind, s)
        <5>1. Finds(s) /\ held'[<<kind, s>>] = row.session
          BY <1>0, <1>2, <4>1, ReadPaymentDoes
        <5> QED
          BY <5>1 DEF Finds, Kept, SessionsNamed
      <4>2. CASE SavePayment(kind, s)
        BY <1>0, <1>2, <4>2, SavePaymentDoes
      <4> QED
        BY <2>3, <3>2, <4>1, <4>2
    <3> QED
      BY <3>1, <3>2
  <2> QED
    BY <2>1, <2>2, <2>3, InboxWriters
<1> QED
  BY <1>1, <1>2, ReadsStay

\* Type correctness and PaidWasPaid, from the inductive invariant.
THEOREM PaidHolds == Spec => []PaidInvariant
<1>1. Kept /\ ReadOfTheRow /\ [Next]_vars => Kept' /\ ReadOfTheRow'
  <2> SUFFICES ASSUME Kept, ReadOfTheRow, [Next]_vars
               PROVE  Kept'
    BY ReadsHold, KeptTypes
  <2>1. CASE UNCHANGED vars
    <3>1. UNCHANGED <<provider, row, clock, ops, doubled, remote, refOf, published, requests, job,
                      ref, got, notices, sync, copy, told, lock, overlap, fixing, deliveries>>
      BY <2>1 DEF vars
    <3>2. /\ sync' \in [Sync -> SyncLabel] /\ copy' \in [Sync -> Row]
          /\ told' \in [Sync -> CheckoutStatus] /\ lock' \in Sync \cup {Nobody}
          /\ overlap' \subseteq Sync /\ fixing' \in Fixing
      BY <3>1, KeptTypes DEF TypeOK, ActorTypes
    <3> QED
      BY <3>1, <3>2, KeptWriters, WritersMove
  <2>2. ASSUME NEW j \in Job, JobStep(j) PROVE Kept'
    BY <2>2, BeginHolds, OpenHolds, JobFailureHolds, OpeningHolds, SaveCheckoutHolds DEF JobStep
  <2> QED
    BY <2>1, <2>2, GatewayHolds, WebhookHolds, SyncHolds, ExpiryHolds, ReconcileHolds DEF Next
<1>2. PaidInvariant <=> Kept /\ ReadOfTheRow
  BY DEF PaidInvariant, Kept
<1>3. Init => PaidInvariant
  BY InitHolds
<1> QED
  BY <1>1, <1>2, <1>3, PTL DEF Spec

\* Nobody is told of a payment that was not made.
THEOREM PaymentsAreReal == Spec => []PaidWasPaid
<1>1. PaidInvariant => PaidWasPaid
  BY DEF PaidInvariant
<1> QED
  BY PaidHolds, <1>1, PTL

(********************* Nothing is paid twice, or lost **********************)

\* What nobody pays twice, and nobody loses, rests on: the inductive invariant.
THEOREM PaymentHolds == Spec => []PaymentInvariant
<1>1. PaidInvariant /\ PaidInvariant' /\ CalmInvariant /\ [Next]_vars => CalmInvariant'
  BY CalmStep DEF PaidInvariant
<1>2. Init => CalmInvariant
  BY CalmInit
<1> QED
  BY PaidHolds, <1>1, <1>2, PTL DEF Spec, PaymentInvariant

\* The only session a buyer can pay, or has paid, is the one the payment's row names.
THEOREM NothingIsPaidTwice == Spec => []OnePayable
<1>1. PaymentInvariant => OnePayable
  BY DEF PaymentInvariant, CalmInvariant, OnePayable
<1> QED
  BY PaymentHolds, <1>1, PTL

\* Once the notification of a payment has been handled, the row says so.
THEOREM PaymentsAreRecorded == Spec => []PaymentIsRecorded
<1>1. PaymentInvariant => PaymentIsRecorded
  BY DEF PaymentInvariant, CalmInvariant, PaymentIsRecorded
<1> QED
  BY PaymentHolds, <1>1, PTL

\* No step takes PAID back before the money goes back.
THEOREM PaidIsNotTakenBack == Spec => PaidIsKept
<1>1. PaymentInvariant /\ [Next]_vars =>
        [Calm /\ ~Refunded /\ row.status = "PAID" => row'.status = "PAID"]_vars
  BY PaidStays DEF PaymentInvariant, PaidInvariant, CalmInvariant
<1> QED
  BY PaymentHolds, <1>1, PTL DEF Spec, PaidIsKept
=============================================================================
