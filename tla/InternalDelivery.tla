--------------------------- MODULE InternalDelivery ---------------------------
(***************************************************************************)
(* send_internal_webhook: the job that posts one row of                    *)
(* internal_webhook_deliveries to the origin system.  It starts where      *)
(* WebhookPipeline, the cancellation or a cron has committed the row and   *)
(* enqueued the job.  A try commits the attempt, posts, and commits the    *)
(* outcome; it may fail or die at each of these points, the consumer may   *)
(* take a post whose answer is lost, and the queue runs the job again or   *)
(* gives it up.                                                            *)
(***************************************************************************)
EXTENDS Naturals

CONSTANT MaxSends   \* INTERNAL_WEBHOOK_MAX_TRIES

ASSUME MaxSendsAssumption == MaxSends \in Nat \ {0}

VARIABLES
    status,         \* internal_webhook_deliveries.status
    attempts,       \* internal_webhook_deliveries.attempt_count
    pc,
    try,            \* job_try
    received,       \* times the consumer took the post
    cut             \* history: the tries cut off with FAILED written

sendingVars == <<status, attempts, pc, try, received, cut>>

Sending == {"queued", "post", "settle", "finish"}
Rejecting == {"unreadable", "report"}
Ended == {"done", "rejected", "failed", "abandoned"}

SendingTypeOK ==
    /\ status \in {"PENDING", "RETRYING", "DELIVERED", "FAILED"}
    /\ attempts \in Nat
    /\ pc \in Sending \cup Rejecting \cup {"broken"} \cup Ended
    /\ try \in 1 .. MaxSends
    /\ received \in Nat
    /\ cut \subseteq 1 .. MaxSends

SendingInit ==
    /\ status = "PENDING"
    /\ attempts = 0
    /\ pc = "queued"
    /\ try = 1
    /\ received = 0
    /\ cut = {}

LastTry == try = MaxSends

\* Mutant: the attempt is counted once the consumer has answered.
AttemptUncounted ==
    /\ pc = "queued"
    /\ pc' = "post"
    /\ UNCHANGED <<status, attempts, try, received, cut>>

\* register_attempt is committed before anything is posted.
RegisterAttempt ==
    /\ pc = "queued"
    /\ attempts' = attempts + 1
    /\ pc' = "post"
    /\ UNCHANGED <<status, try, received, cut>>

\* Mutant: the outcome of a post is not written.
TakenUnmarked ==
    /\ pc = "post"
    /\ received' = received + 1
    /\ pc' = "finish"
    /\ UNCHANGED <<status, attempts, try, cut>>

Taken ==
    /\ pc = "post"
    /\ received' = received + 1
    /\ pc' = "settle"
    /\ UNCHANGED <<status, attempts, try, cut>>

\* A 2xx whose body is no JSON: resp.json() raises a ValueError, although the
\* consumer took the post.
TakenUnreadable ==
    /\ pc = "post"
    /\ received' = received + 1
    /\ pc' = "unreadable"
    /\ UNCHANGED <<status, attempts, try, cut>>

\* That is a failure for good.  The status is written by a session of its own,
\* whose failure is swallowed ...
WriteRejection ==
    /\ pc = "unreadable"
    /\ status' \in {status, "FAILED"}
    /\ pc' = "report"
    /\ UNCHANGED <<attempts, try, received, cut>>

\* ... and Redis is told before the job ends.
ReportRejection ==
    /\ pc = "report"
    /\ pc' = "rejected"
    /\ UNCHANGED <<status, attempts, try, received, cut>>

MarkDelivered ==
    /\ pc = "settle"
    /\ status' = "DELIVERED"
    /\ pc' = "finish"
    /\ UNCHANGED <<attempts, try, received, cut>>

ReportSent ==
    /\ pc = "finish"
    /\ pc' = "done"
    /\ UNCHANGED <<status, attempts, try, received, cut>>

\* Where the post was under way the consumer may have taken it.
MaybeReceived == received' \in {received, IF pc = "post" THEN received + 1 ELSE received}

\* Mutant: mark_failed at every failure, and another try nevertheless.
FailEarly ==
    /\ pc \in Sending
    /\ pc' \in IF LastTry THEN {"failed", "broken"} ELSE {"broken"}
    /\ status' \in {status, "FAILED"}
    /\ MaybeReceived
    /\ UNCHANGED <<attempts, try, cut>>

\* Any other exception: no answer, an error status, the database, or Redis when
\* the row is DELIVERED already, which it then ceases to be.  The process may die
\* once that is written.
SendingFails ==
    /\ pc \in Sending
    /\ pc' \in IF LastTry THEN {"failed", "broken"} ELSE {"broken"}
    /\ status' \in {status, IF LastTry THEN "FAILED" ELSE "RETRYING"}
    /\ MaybeReceived
    /\ UNCHANGED <<attempts, try, cut>>

\* The worker's process dies, or Redis fails in an except clause, which no other
\* clause catches.
SenderDies ==
    /\ pc \in Sending \cup Rejecting
    /\ pc' = "broken"
    /\ MaybeReceived
    /\ cut' = IF pc = "report" /\ status = "FAILED" THEN cut \cup {try} ELSE cut
    /\ UNCHANGED <<status, attempts, try>>

\* The delivery is posted again without a look at its status.
SendAgain ==
    /\ pc = "broken"
    /\ ~LastTry
    /\ pc' = "queued"
    /\ try' = try + 1
    /\ UNCHANGED <<status, attempts, received, cut>>

SendingAbandoned ==
    /\ pc = "broken"
    /\ pc' = "abandoned"
    /\ UNCHANGED <<status, attempts, try, received, cut>>

SendingStep ==
    \/ RegisterAttempt \/ Taken \/ TakenUnreadable \/ WriteRejection
    \/ ReportRejection \/ MarkDelivered \/ ReportSent
    \/ SendingFails \/ SenderDies \/ SendAgain \/ SendingAbandoned

SendingOver == pc \in Ended /\ UNCHANGED sendingVars

SendingNext == SendingStep \/ SendingOver

SendingSpec == SendingInit /\ [][SendingNext]_sendingVars

\* The workers run what is queued, and a try is cut off by its timeout.
FairSendingSpec == SendingSpec /\ WF_sendingVars(SendingStep)

(******************************** Properties *******************************)

\* attempt_count, committed before each post, never understates what the
\* consumer got, whatever was lost after the post.
AttemptsCoverPosts == received <= attempts /\ attempts <= try

\* A row that says DELIVERED was taken by its consumer.
DeliveredWasReceived == status = "DELIVERED" => received > 0

\* What the row says of the consumer is so: of its posts and of their end.
RecordAgrees == SendingTypeOK /\ AttemptsCoverPosts /\ DeliveredWasReceived

\* FAILED is the end of a delivery: no try posts anything from then on, unless
\* the one that wrote it was cut off before its job had ended.
FailedIsFinal ==
    status = "FAILED" /\ cut = {} =>
        pc \in {"report", "rejected", "failed"} \/ (LastTry /\ pc \in {"broken", "abandoned"})

\* A consumer that got nothing was tried as often as INTERNAL_WEBHOOK_MAX_TRIES
\* allows before its delivery is FAILED.
FailedUnheardIsExhausted == status = "FAILED" /\ received = 0 => try = MaxSends

\* The job ends, and ends well only with a delivery that is closed.
SendingEnds == <>[](pc \in Ended /\ (pc = "done" => status = "DELIVERED"))
=============================================================================
