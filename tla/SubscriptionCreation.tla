------------------------ MODULE SubscriptionCreation ------------------------
(***************************************************************************)
(* The creation of one subscription (one system_sub_id of one system) at   *)
(* the gateway and in the database: jobs that run                          *)
(* create_subscription_worker and the cron that reconciles their           *)
(* operation.  The origin system may send the request again, with other    *)
(* terms, under another Idempotency-Key: that is another job.              *)
(*                                                                         *)
(* Steps are the reads, calls and commits another actor can tell apart; an *)
(* INSERT that waits for a uniqueness conflict is part of the commit.  The *)
(* status the gateway reports, and the payments webhooks add later, are    *)
(* left out.                                                               *)
(***************************************************************************)
EXTENDS Naturals, Sequences

CONSTANTS
    Job,            \* create_subscription_worker jobs, each with its own terms
    Cron,
    Nobody,
    MaxTries,       \* WORKER_MAX_TRIES
    MaxOutages      \* bound: how often a reconciliation may fail

ASSUME NameAssumption == Cron # Nobody /\ Cron \notin Job /\ Nobody \notin Job
ASSUME LimitAssumption == MaxTries \in Nat \ {0} /\ MaxOutages \in Nat

VARIABLES
    asked,          \* whose terms each subscription at the gateway was made with
    mirror,         \* the row of subscriptions
    payment,        \* it has a payment
    op,             \* the row of gateway_operations
    opLock,         \* the cron holds it FOR UPDATE
    pc, cron,
    tries,          \* job_try of each job
    mine,           \* the gateway's answer to each job
    want,           \* the status each job is about to save
    loaded,         \* the operation row as save loaded it
    outages,
    failed          \* history: an attempt was recorded as failed

rows == <<mirror, payment, op>>
jobVars == <<pc, tries, mine, want, loaded>>
cronVars == <<cron, opLock, outages>>
vars == <<asked, rows, jobVars, cronVars, failed>>

NoReference == 0
\* A subscription at the gateway is known by its place in asked.
Reference == Nat
OperationStatus == {"ABSENT", "PENDING", "COMPLETED", "FAILED", "REQUIRES_RECONCILIATION"}
\* terms: whose request_payload the row carries.
Operation == [status : OperationStatus, ref : Reference, terms : Job \cup {Nobody}]
Mirror == [ref : Reference, terms : Job \cup {Nobody}]
NoMirror == [ref |-> NoReference, terms |-> Nobody]

JobLabel == {"reserve", "insert", "create", "settle", "save", "write"}
Calling == {"create", "settle", "save", "write"}
Ended == {"done", "rejected", "failed"}

TypeOK ==
    /\ asked \in Seq(Job)
    /\ mirror \in Mirror
    /\ payment \in BOOLEAN
    /\ op \in Operation
    /\ opLock \in {Cron, Nobody}
    /\ pc \in [Job -> {"idle"} \cup JobLabel \cup Ended]
    /\ cron \in {"idle", "listed", "reconcile"}
    /\ tries \in [Job -> 1 .. MaxTries]
    /\ mine \in [Job -> Reference]
    /\ want \in [Job -> OperationStatus]
    /\ loaded \in [Job -> Operation]
    /\ outages \in 0 .. MaxOutages
    /\ failed \in BOOLEAN

Init ==
    /\ asked = <<>>
    /\ mirror = NoMirror
    /\ payment = FALSE
    /\ op = [status |-> "ABSENT", ref |-> NoReference, terms |-> Nobody]
    /\ opLock = Nobody
    /\ pc = [j \in Job |-> "idle"]
    /\ cron = "idle"
    /\ tries = [j \in Job |-> 1]
    /\ mine = [j \in Job |-> NoReference]
    /\ want = [j \in Job |-> "PENDING"]
    /\ loaded = [j \in Job |-> op]
    /\ outages = 0
    /\ failed = FALSE

Goto(j, label) == pc' = [pc EXCEPT ![j] = label]

\* An exception ends the job: it runs again, or is given up (a gateway error of
\* the 4xx kind, the last try).
EndsByException(j) ==
    \/ /\ tries[j] < MaxTries
       /\ tries' = [tries EXCEPT ![j] = @ + 1]
       /\ Goto(j, "idle")
    \/ Goto(j, "failed") /\ UNCHANGED tries

(******************************** A job ************************************)

\* repo.get_by_system_ref: a subscription that exists is the answer, if it has
\* a payment.
ReadMirror(j) ==
    /\ pc[j] = "idle"
    /\ Goto(j, IF mirror = NoMirror THEN "reserve"
               ELSE IF payment THEN "done" ELSE "rejected")
    /\ UNCHANGED <<asked, rows, tries, mine, want, loaded, cronVars, failed>>

\* Mutant: so may an operation that is under way.
TriedWhileUnderWay == op.status \in {"FAILED", "PENDING"} /\ op.ref = NoReference

\* Only an operation that failed without a reference may be tried again.
MayTryAgain == op.status = "FAILED" /\ op.ref = NoReference

ReadOperation(j) ==
    /\ pc[j] = "reserve"
    /\ mine' = [mine EXCEPT ![j] = NoReference]
    /\ Goto(j, IF op.status = "ABSENT" THEN "insert"
               ELSE IF MayTryAgain THEN "create" ELSE "rejected")
    /\ UNCHANGED <<asked, rows, tries, want, loaded, cronVars, failed>>

InsertOperation(j) ==
    /\ pc[j] = "insert"
    /\ op.status = "ABSENT"
    /\ op' = [status |-> "PENDING", ref |-> NoReference, terms |-> j]
    /\ Goto(j, "create")
    /\ UNCHANGED <<asked, mirror, payment, tries, mine, want, loaded, cronVars, failed>>

\* dedupe_key is unique.
DuplicateOperation(j) ==
    /\ pc[j] = "insert"
    /\ op.status # "ABSENT"
    /\ EndsByException(j)
    /\ UNCHANGED <<asked, rows, mine, want, loaded, cronVars, failed>>

\* Mutant: the answer is remembered only once the subscription is saved.
CreateForgettingAnswer(j) ==
    /\ pc[j] = "create"
    /\ asked' = Append(asked, j)
    /\ Goto(j, "settle")
    /\ UNCHANGED <<rows, tries, mine, want, loaded, cronVars, failed>>

\* The gateway makes a subscription of its own for every call.
CreateAtGateway(j) ==
    /\ pc[j] = "create"
    /\ asked' = Append(asked, j)
    /\ mine' = [mine EXCEPT ![j] = Len(asked')]
    /\ Goto(j, "settle")
    /\ UNCHANGED <<rows, tries, want, loaded, cronVars, failed>>

\* It makes one and the answer is lost, or it makes none.
GatewayFails(j) ==
    /\ pc[j] = "create"
    /\ asked' = Append(asked, j) \/ UNCHANGED asked
    /\ want' = [want EXCEPT ![j] = "FAILED"]
    /\ Goto(j, "save")
    /\ UNCHANGED <<rows, tries, mine, loaded, cronVars, failed>>

\* get_subscription_payment found the payment to mirror.
Settle(j) ==
    /\ pc[j] = "settle"
    /\ want' = [want EXCEPT ![j] = "COMPLETED"]
    /\ Goto(j, "save")
    /\ UNCHANGED <<asked, rows, tries, mine, loaded, cronVars, failed>>

\* Inside the try, with the gateway's answer.
Settling(j) == pc[j] = "settle" \/ (pc[j] \in {"save", "write"} /\ want[j] = "COMPLETED")

\* The gateway returns no payment, or something raises before the commit.
SettleFails(j) ==
    /\ Settling(j)
    /\ want' = [want EXCEPT ![j] = "REQUIRES_RECONCILIATION"]
    /\ Goto(j, "save")
    /\ UNCHANGED <<asked, rows, tries, mine, loaded, cronVars, failed>>

\* gateway_operation_repo.save loads the row ...
LoadOperation(j) ==
    /\ pc[j] = "save"
    /\ loaded' = [loaded EXCEPT ![j] = op]
    /\ Goto(j, "write")
    /\ UNCHANGED <<asked, rows, tries, mine, want, cronVars, failed>>

Column(current, old, new) == IF new # old THEN new ELSE current

\* ... and updates the columns that differ; request_payload is not among them.
Saved(j) ==
    [status |-> Column(op.status, loaded[j].status, want[j]),
     ref    |-> Column(op.ref, loaded[j].ref, mine[j]),
     terms  |-> op.terms]

\* Subscription, payment and operation are committed together.
Complete(j) ==
    /\ pc[j] = "write"
    /\ want[j] = "COMPLETED"
    /\ opLock = Nobody
    /\ mirror = NoMirror
    /\ mirror' = [ref |-> mine[j], terms |-> j]
    /\ payment' = TRUE
    /\ op' = Saved(j)
    /\ Goto(j, "done")
    /\ UNCHANGED <<asked, tries, mine, want, loaded, cronVars, failed>>

\* uq_subscriptions_system_ref: another subscription is there already.
DuplicateMirror(j) ==
    /\ pc[j] = "write"
    /\ want[j] = "COMPLETED"
    /\ mirror # NoMirror
    /\ want' = [want EXCEPT ![j] = "REQUIRES_RECONCILIATION"]
    /\ Goto(j, "save")
    /\ UNCHANGED <<asked, rows, tries, mine, loaded, cronVars, failed>>

\* The UPDATE waits for the cron; the DomainError that follows is not retried.
MarkForReconciliation(j) ==
    /\ pc[j] = "write"
    /\ want[j] = "REQUIRES_RECONCILIATION"
    /\ opLock = Nobody
    /\ op' = Saved(j)
    /\ Goto(j, "rejected")
    /\ UNCHANGED <<asked, mirror, payment, tries, mine, want, loaded, cronVars, failed>>

MarkFailed(j) ==
    /\ pc[j] = "write"
    /\ want[j] = "FAILED"
    /\ opLock = Nobody
    /\ op' = Saved(j)
    /\ failed' = TRUE
    /\ EndsByException(j)
    /\ UNCHANGED <<asked, mirror, payment, mine, want, loaded, cronVars>>

\* The worker dies or cancels the job; what was not committed is rolled back.
Crash(j) ==
    /\ pc[j] \in JobLabel
    /\ EndsByException(j)
    /\ UNCHANGED <<asked, rows, mine, want, loaded, cronVars, failed>>

(****************************** The cron ***********************************)

ListOperations ==
    /\ cron = "idle"
    /\ op.status = "REQUIRES_RECONCILIATION"
    /\ cron' = "listed"
    /\ UNCHANGED <<asked, rows, jobVars, opLock, outages, failed>>

\* SELECT ... FOR UPDATE; the status is checked again.
LockOperation ==
    /\ cron = "listed"
    /\ IF op.status = "REQUIRES_RECONCILIATION"
       THEN cron' = "reconcile" /\ opLock' = Cron
       ELSE cron' = "idle" /\ UNCHANGED opLock
    /\ UNCHANGED <<asked, rows, jobVars, outages, failed>>

\* uq_subscriptions_system_ref again.
CanBeMirrored == op.ref # NoReference /\ (mirror = NoMirror \/ mirror.ref = op.ref)

\* Mutant: the operation is not saved.
ReconcileForgetting ==
    /\ cron = "reconcile"
    /\ CanBeMirrored
    /\ mirror' = IF mirror = NoMirror THEN [ref |-> op.ref, terms |-> op.terms] ELSE mirror
    /\ cron' = "idle"
    /\ opLock' = Nobody
    /\ UNCHANGED <<asked, op, payment, jobVars, outages, failed>>

\* Mutant: the subscription is looked up by system_sub_id and overwritten.
ReconcileOverwriting ==
    /\ cron = "reconcile"
    /\ op.ref # NoReference
    /\ mirror' = [ref |-> op.ref, terms |-> op.terms]
    /\ op' = [op EXCEPT !.status = "COMPLETED"]
    /\ cron' = "idle"
    /\ opLock' = Nobody
    /\ UNCHANGED <<asked, payment, jobVars, outages, failed>>

\* The subscription is mirrored with the payload of the operation, unless it is
\* there.  Its payments are not: the loop that would add them expects an
\* exception from get_by_provider_id, which returns None.
Reconcile ==
    /\ cron = "reconcile"
    /\ CanBeMirrored
    /\ mirror' = IF mirror = NoMirror THEN [ref |-> op.ref, terms |-> op.terms] ELSE mirror
    /\ op' = [op EXCEPT !.status = "COMPLETED"]
    /\ cron' = "idle"
    /\ opLock' = Nobody
    /\ UNCHANGED <<asked, payment, jobVars, outages, failed>>

\* Nothing is kept, and the next tick finds the operation as it was.
CannotReconcile ==
    /\ cron = "reconcile"
    /\ ~CanBeMirrored
    /\ cron' = "idle"
    /\ opLock' = Nobody
    /\ UNCHANGED <<asked, rows, jobVars, outages, failed>>

ReconcileFails ==
    /\ cron # "idle"
    /\ outages < MaxOutages
    /\ outages' = outages + 1
    /\ cron' = "idle"
    /\ opLock' = Nobody
    /\ UNCHANGED <<asked, rows, jobVars, failed>>

-----------------------------------------------------------------------------

JobStep(j) ==
    \/ ReadMirror(j) \/ ReadOperation(j) \/ InsertOperation(j) \/ DuplicateOperation(j)
    \/ CreateAtGateway(j) \/ GatewayFails(j) \/ Settle(j) \/ LoadOperation(j)
    \/ Complete(j) \/ DuplicateMirror(j) \/ MarkForReconciliation(j) \/ MarkFailed(j)

CronStep == ListOperations \/ LockOperation \/ Reconcile \/ CannotReconcile

AllEnded ==
    /\ \A j \in Job : pc[j] \in Ended
    /\ cron = "idle"
    /\ op.status # "REQUIRES_RECONCILIATION"
    /\ UNCHANGED vars

Next ==
    \/ \E j \in Job : JobStep(j) \/ SettleFails(j) \/ Crash(j)
    \/ CronStep
    \/ ReconcileFails
    \/ AllEnded

Spec == Init /\ [][Next]_vars

\* The worker runs its jobs and its cron, and a commit that waits for a row the
\* cron keeps coming back to is served at last.
FairSpec ==
    /\ Spec
    /\ \A j \in Job : WF_vars(JobStep(j)) /\ SF_vars(pc[j] = "write" /\ JobStep(j))
    /\ WF_vars(CronStep)

-----------------------------------------------------------------------------
(****************************** Properties *********************************)

\* What the reference of a row or of an answer names exists at the gateway.
ReferencesExist ==
    /\ mirror.ref \in 0 .. Len(asked)
    /\ op.ref \in 0 .. Len(asked)
    /\ \A j \in Job : mine[j] \in 0 .. Len(asked) /\ loaded[j].ref \in 0 .. Len(asked)

\* A job that has the gateway's answer remembers it, and so does the row of the
\* subscription: nothing local stands for a subscription the gateway never made.
AnswerKept ==
    /\ \A j \in Job : Settling(j) => mine[j] # NoReference
    /\ mirror # NoMirror => mirror.ref # NoReference

\* As long as no attempt was recorded as failed, one job at most has passed the
\* guard of the operation and it has made at most one subscription, however many
\* requests arrive at once and wherever jobs crash and run again.
OneCreationUntilFailure ==
    ~failed =>
        /\ Len(asked) <= 1
        /\ \A j \in Job : pc[j] = "create" => asked = <<>>
        /\ \A i, j \in Job : pc[i] \in Calling /\ pc[j] \in Calling => i = j
        /\ asked # <<>> \/ (\E j \in Job : pc[j] \in Calling) => op.status # "ABSENT"
        /\ op.status # "FAILED"

\* A completed operation ends every later attempt with the subscription it made:
\* the row is there.
CompletedIsMirrored == op.status = "COMPLETED" => mirror # NoMirror

\* The inductive invariant.
CreationInvariant ==
    /\ TypeOK
    /\ ReferencesExist
    /\ AnswerKept
    /\ OneCreationUntilFailure
    /\ CompletedIsMirrored

\* The mirror is never replaced: the first subscription that was committed stays
\* the answer to every later request.
MirrorStays == [][mirror # NoMirror => mirror' = mirror]_vars

\* The cron completes every operation that is left to it and that
\* uq_subscriptions_system_ref lets it mirror.
MarkedIsCompleted ==
    (op.status = "REQUIRES_RECONCILIATION" /\ CanBeMirrored /\ \A j \in Job : pc[j] \in Ended)
        ~> op.status = "COMPLETED"
=============================================================================
