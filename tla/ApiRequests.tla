---------------------------- MODULE ApiRequests ----------------------------
(***************************************************************************)
(* The requests of one client system that carry one Idempotency-Key: the   *)
(* rate limit, the record of the key in Redis, the job they enqueue, and   *)
(* the status of that job as GET /v1/jobs shows it.  Creation of payments, *)
(* creation and cancellation of subscriptions go the same way.             *)
(*                                                                         *)
(* Every step is one call to Redis; between two of them other requests     *)
(* and the worker move, and the process may die.  A request enqueues at    *)
(* most one job, which goes by the name of the request.                    *)
(***************************************************************************)
EXTENDS Naturals

CONSTANTS
    Request,       \* requests with this key
    Payload,       \* what they ask for (hashes of the body)
    NoPayload,
    NoJob,
    Limit,         \* INTERNAL_RATE_LIMIT_REQUESTS
    MaxFaults      \* bound: deaths, failed and lost calls, records that expire

ASSUME NamesAssumption == NoJob \notin Request /\ NoPayload \notin Payload
ASSUME LimitAssumption == Limit \in Nat \ {0} /\ MaxFaults \in Nat

VARIABLES
    counter,       \* billing_core:rate_limit:internal:<system>
    window,        \* whether the counter has a TTL
    pc,            \* how far each request got
    payload,       \* its body
    answer,        \* the job id it was answered with
    record,        \* billing_core:idempotency:...: hash of a body, and a job or none yet
    lost,          \* history: how a record went away, if one did
    work,          \* each job in the queue and in the worker
    shown,         \* "status" in its metadata
    owner,         \* billing_core:job_owner:<job>
    late,          \* history: jobs whose route wrote "queued" over the worker's word
    cut,           \* history: jobs whose try was cut off with their end reported
    faults

limiter == <<counter, window>>
jobVars == <<work, shown, owner, late, cut>>
vars == <<limiter, pc, payload, answer, record, lost, jobVars, faults>>

Label == {"idle", "first", "admitted", "refused", "looking", "claimed", "clearing", "enqueued",
          "saved", "owned", "answered", "conflict", "failed", "stranded", "dead"}
NoRecord == [hash |-> NoPayload, job |-> NoJob]
Trying == {"taken", "running", "completing", "failing", "retrying"}
Work == {"none", "queued", "completed", "failed", "abandoned"} \cup Trying
Status == {"none", "queued", "processing", "retrying", "completed", "failed"}

TypeOK ==
    /\ counter \in Nat /\ window \in {"none", "open"}
    /\ pc \in [Request -> Label]
    /\ payload \in [Request -> Payload]
    /\ answer \in [Request -> Request \cup {NoJob}]
    /\ record \in [hash : Payload \cup {NoPayload}, job : Request \cup {NoJob}]
    /\ lost \subseteq {"cleared", "expired"}
    /\ work \in [Request -> Work]
    /\ shown \in [Request -> Status]
    /\ owner \in [Request -> {"none", "set"}]
    /\ late \subseteq Request
    /\ cut \subseteq Request
    /\ faults \in 0 .. MaxFaults

Init ==
    /\ counter = 0 /\ window = "none"
    /\ pc = [r \in Request |-> "idle"]
    /\ payload \in [Request -> Payload]
    /\ answer = [r \in Request |-> NoJob]
    /\ record = NoRecord
    /\ lost = {}
    /\ work = [r \in Request |-> "none"]
    /\ shown = [r \in Request |-> "none"]
    /\ owner = [r \in Request |-> "none"]
    /\ late = {}
    /\ cut = {}
    /\ faults = 0

Goto(r, label) == pc' = [pc EXCEPT ![r] = label]
Fault == faults < MaxFaults /\ faults' = faults + 1

(******************************* The rate limit ****************************)

\* Mutant: the second request sets the TTL.
CountTwice(r) ==
    /\ pc[r] = "idle"
    /\ counter' = counter + 1
    /\ Goto(r, IF counter' = 2 THEN "first" ELSE IF counter' > Limit THEN "refused" ELSE "admitted")
    /\ UNCHANGED <<window, payload, answer, record, lost, jobVars, faults>>

\* INCR; whoever finds 1 has to set the TTL.
Count(r) ==
    /\ pc[r] = "idle"
    /\ counter' = counter + 1
    /\ Goto(r, IF counter' = 1 THEN "first" ELSE IF counter' > Limit THEN "refused" ELSE "admitted")
    /\ UNCHANGED <<window, payload, answer, record, lost, jobVars, faults>>

SetExpiry(r) ==
    /\ pc[r] = "first"
    /\ window' = "open"
    /\ Goto(r, "admitted")
    /\ UNCHANGED <<counter, payload, answer, record, lost, jobVars, faults>>

WindowEnds ==
    /\ window = "open"
    /\ counter' = 0 /\ window' = "none"
    /\ UNCHANGED <<pc, payload, answer, record, lost, jobVars, faults>>

(*************************** start_idempotent_job **************************)

\* Mutant: SET without NX.
ClaimAnyway(r) ==
    /\ pc[r] = "admitted"
    /\ record' = [hash |-> payload[r], job |-> NoJob]
    /\ Goto(r, "claimed")
    /\ UNCHANGED <<limiter, payload, answer, lost, jobVars, faults>>

\* SET NX: the placeholder of a key that is not in use.
Claim(r) ==
    /\ pc[r] = "admitted"
    /\ IF record = NoRecord
         THEN record' = [hash |-> payload[r], job |-> NoJob] /\ Goto(r, "claimed")
         ELSE Goto(r, "looking") /\ UNCHANGED record
    /\ UNCHANGED <<limiter, payload, answer, lost, jobVars, faults>>

\* Mutant: the bodies are not compared.
LookAtTheJob(r) ==
    /\ pc[r] = "looking"
    /\ \/ /\ record = NoRecord
          /\ Goto(r, "claimed") /\ UNCHANGED answer
       \/ /\ record # NoRecord /\ record.job = NoJob
          /\ Goto(r, "conflict") /\ UNCHANGED answer
       \/ /\ record.job # NoJob
          /\ Goto(r, "answered") /\ answer' = [answer EXCEPT ![r] = record.job]
    /\ UNCHANGED <<limiter, payload, record, lost, jobVars, faults>>

\* GET.  The record may have gone since: the request goes on, and leaves no
\* placeholder.  409 for another body, and while there is no job yet.
Look(r) ==
    /\ pc[r] = "looking"
    /\ \/ /\ record = NoRecord
          /\ Goto(r, "claimed") /\ UNCHANGED answer
       \/ /\ record # NoRecord
          /\ record.hash # payload[r] \/ record.job = NoJob
          /\ Goto(r, "conflict") /\ UNCHANGED answer
       \/ /\ record.hash = payload[r] /\ record.job # NoJob
          /\ Goto(r, "answered") /\ answer' = [answer EXCEPT ![r] = record.job]
    /\ UNCHANGED <<limiter, payload, record, lost, jobVars, faults>>

\* The TTL of the record.
RecordExpires ==
    /\ Fault
    /\ record # NoRecord
    /\ record' = NoRecord
    /\ lost' = lost \cup {"expired"}
    /\ UNCHANGED <<limiter, pc, payload, answer, jobVars>>

(***************************** The route goes on ***************************)

\* The answer of Redis may be lost after the job was queued.
Enqueue(r) ==
    /\ pc[r] = "claimed"
    /\ \/ work' = [work EXCEPT ![r] = "queued"] /\ Goto(r, "enqueued") /\ UNCHANGED faults
       \/ work' = [work EXCEPT ![r] = "queued"] /\ Goto(r, "clearing") /\ Fault
       \/ Goto(r, "clearing") /\ Fault /\ UNCHANGED work
    /\ UNCHANGED <<limiter, payload, answer, record, lost, shown, owner, late, cut>>

\* DEL by the name of the key, whosever record it holds now.
Clear(r) ==
    /\ pc[r] = "clearing"
    /\ record' = NoRecord
    /\ lost' = IF record = NoRecord THEN lost ELSE lost \cup {"cleared"}
    /\ Goto(r, "failed")
    /\ UNCHANGED <<limiter, payload, answer, jobVars, faults>>

\* SETEX, over whatever the key holds.
Save(r) ==
    /\ pc[r] = "enqueued"
    /\ record' = [hash |-> payload[r], job |-> r]
    /\ Goto(r, "saved")
    /\ UNCHANGED <<limiter, payload, answer, lost, jobVars, faults>>

\* Mutant: the answer comes before the owner is written.
AnswerEarly(r) ==
    /\ pc[r] = "saved"
    /\ answer' = [answer EXCEPT ![r] = r]
    /\ Goto(r, "answered")
    /\ UNCHANGED <<limiter, payload, record, lost, jobVars, faults>>

SetOwner(r) ==
    /\ pc[r] = "saved"
    /\ owner' = [owner EXCEPT ![r] = "set"]
    /\ Goto(r, "owned")
    /\ UNCHANGED <<limiter, payload, answer, record, lost, work, shown, late, cut, faults>>

\* "queued", attempt 0: after the job may have been taken, or done.
WriteQueued(r) ==
    /\ pc[r] = "owned"
    /\ shown' = [shown EXCEPT ![r] = "queued"]
    /\ late' = IF work[r] \in {"queued", "taken"} THEN late ELSE late \cup {r}
    /\ answer' = [answer EXCEPT ![r] = r]
    /\ Goto(r, "answered")
    /\ UNCHANGED <<limiter, payload, record, lost, work, owner, cut, faults>>

\* The process dies, or a call that no handler expects to fail does.
Crash(r) ==
    /\ Fault
    /\ pc[r] \notin {"idle", "refused", "answered", "conflict", "failed", "stranded", "dead"}
    /\ Goto(r, IF pc[r] = "first" THEN "stranded" ELSE "dead")
    /\ UNCHANGED <<limiter, payload, answer, record, lost, jobVars>>

(******************************** The worker *******************************)

Report(j, status) ==
    /\ shown' = [shown EXCEPT ![j] = status]
    /\ late' = late \ {j}
    /\ cut' = cut \ {j}
Leaves(j, label) == work' = [work EXCEPT ![j] = label]

\* ARQ takes the job from its queue; nothing is reported yet.
WorkerTakes(j) ==
    /\ work[j] = "queued"
    /\ Leaves(j, "taken")
    /\ UNCHANGED <<limiter, pc, payload, answer, record, lost, shown, owner, late, cut, faults>>

WorkerStarts(j) ==
    /\ work[j] = "taken"
    /\ Leaves(j, "running")
    /\ Report(j, "processing")
    /\ UNCHANGED <<limiter, pc, payload, answer, record, lost, owner, faults>>

\* Done, or rejected for good (DomainError, NotFoundError, ValueError).
WorkerEnds(j) ==
    /\ work[j] = "running"
    /\ \/ Leaves(j, "completing") /\ Report(j, "completed")
       \/ Leaves(j, "failing") /\ Report(j, "failed")
    /\ UNCHANGED <<limiter, pc, payload, answer, record, lost, owner, faults>>

\* Mutant: the last try is reported like the others.
ErrAlike(j) ==
    /\ Fault
    /\ work[j] \in {"taken", "running", "completing"}
    /\ \E label \in {"failing", "retrying"} : Leaves(j, label)
    /\ Report(j, "retrying")
    /\ UNCHANGED <<limiter, pc, payload, answer, record, lost, owner>>

\* Any other error, on the last try or before: also one of the calls to Redis
\* that report "processing" or "completed".
WorkerErrs(j) ==
    /\ Fault
    /\ work[j] \in {"taken", "running", "completing"}
    /\ \/ Leaves(j, "failing") /\ Report(j, "failed")
       \/ Leaves(j, "retrying") /\ Report(j, "retrying")
    /\ UNCHANGED <<limiter, pc, payload, answer, record, lost, owner>>

\* The job returns or raises.  Whether it then runs again is the queue's to say.
WorkerLeaves(j) ==
    /\ \/ work[j] = "completing" /\ Leaves(j, "completed")
       \/ work[j] = "failing" /\ Leaves(j, "failed")
       \/ work[j] = "retrying" /\ \E label \in {"queued", "abandoned"} : Leaves(j, label)
    /\ UNCHANGED <<limiter, pc, payload, answer, record, lost, shown, owner, late, cut, faults>>

\* The worker's process dies, or Redis fails in an except clause, which no other
\* clause catches: nothing more is reported of this try.
WorkerDies(j) ==
    /\ Fault
    /\ work[j] \in Trying
    /\ \E label \in {"queued", "abandoned"} : Leaves(j, label)
    /\ cut' = IF work[j] \in {"completing", "failing"} THEN cut \cup {j} ELSE cut
    /\ UNCHANGED <<limiter, pc, payload, answer, record, lost, shown, owner, late>>

(****************************** The next step ******************************)

RouteStep(r) ==
    \/ Count(r) \/ SetExpiry(r) \/ Claim(r) \/ Look(r) \/ Enqueue(r) \/ Clear(r) \/ Save(r)
    \/ SetOwner(r) \/ WriteQueued(r) \/ Crash(r)
WorkerStep(j) ==
    \/ WorkerTakes(j) \/ WorkerStarts(j) \/ WorkerEnds(j) \/ WorkerErrs(j)
    \/ WorkerLeaves(j) \/ WorkerDies(j)

Next == WindowEnds \/ RecordExpires \/ \E r \in Request : RouteStep(r) \/ WorkerStep(r)

Spec == Init /\ [][Next]_vars

(******************************** Properties *******************************)

\* get_job_status, for the system the job belongs to.  A job that was taken
\* stays in ARQ's queue until it leaves the worker.
JobStatus(j) ==
    IF owner[j] = "none" THEN "404"
    ELSE IF shown[j] # "none" THEN shown[j]
    ELSE IF work[j] = "completed" THEN "completed"
    ELSE IF work[j] \in {"queued"} \cup Trying THEN "queued"
    ELSE "processing"

\* docs/API.md:276 "A mesma Idempotency-Key com o mesmo payload retorna o mesmo
\* job_id": while the key's record stays, one job is all that a key enqueues.
OneJob == lost = {} => \A j, k \in Request : work[j] # "none" /\ work[k] # "none" => j = k

\* What OneJob rests on: one request has the key, and has left its record.
HasKey(r) == pc[r] \in {"claimed", "enqueued", "saved", "owned", "clearing"} \/ work[r] # "none"
KeyIsHeld == lost = {} =>
    /\ \A r, q \in Request : HasKey(r) /\ HasKey(q) => r = q
    /\ record = NoRecord => \A r \in Request : ~HasKey(r) /\ pc[r] # "looking"

\* docs/API.md:276 "com payload distinto retorna 409": nobody is answered with the
\* job of another body, whatever became of the record in between.
JobOfThePayload == \A r \in Request : answer[r] # NoJob => payload[answer[r]] = payload[r]

\* What JobOfThePayload rests on.
RecordIsTrue == record.job # NoJob => record.hash = payload[record.job]

RequestsInvariant == TypeOK /\ OneJob /\ KeyIsHeld /\ JobOfThePayload /\ RecordIsTrue

\* A job id that was given out can be asked for, unless the route that enqueued the
\* job has not written the owner yet, or died before it did.
AnswersAreVisible == \A r \in Request :
    pc[r] = "answered" =>
        JobStatus(answer[r]) # "404" \/ pc[answer[r]] \in {"saved", "dead"}

\* What is shown of a job is so, except where the route's "queued" came after the
\* worker's word: "queued" until a try reports (or the job is dropped before one
\* did), an end only when the worker reached it, and from then on; unless the try
\* that reported it was cut off, and the queue ran the job again or dropped it.
Reached == [completed |-> {"completing", "completed"}, failed |-> {"failing", "failed"}]
StatusIsTrue == \A j \in Request \ late :
    owner[j] = "set" =>
        /\ JobStatus(j) = "queued" => work[j] \in {"queued", "taken", "abandoned"}
        /\ \A end \in DOMAIN Reached :
             /\ work[j] = end => JobStatus(j) = end
             /\ JobStatus(j) = end => work[j] \in Reached[end] \/ j \in cut

\* A counter that has no TTL gets one, unless the one request that was to set it died:
\* then every request of the system is refused, once the limit is reached, for good.
CounterRunsOut ==
    counter > 0 /\ window = "none" => \E r \in Request : pc[r] \in {"first", "stranded"}

\* What these three rest on: a job gets into a record, and from there into answers,
\* when its owner is the next thing to be written; and the worker reports all it does.
Visible(j) == owner[j] = "set" \/ pc[j] \in {"saved", "dead"}
GivenOut ==
    /\ record.job # NoJob => Visible(record.job)
    /\ \A r \in Request : /\ answer[r] # NoJob => Visible(answer[r])
                          /\ pc[r] = "answered" => answer[r] # NoJob
                          /\ pc[r] = "owned" => owner[r] = "set"
Reported == \A j \in Request \ late :
    /\ shown[j] = "none" => work[j] \in {"none", "queued", "taken", "abandoned"}
    /\ shown[j] = "queued" => work[j] \in {"queued", "taken", "abandoned"}
    /\ \A end \in DOMAIN Reached :
         /\ work[j] \in Reached[end] => shown[j] = end
         /\ shown[j] = end => work[j] \in Reached[end] \/ j \in cut
NotSent == \A r \in Request :
    pc[r] \in {"idle", "first", "admitted", "looking", "claimed"} => work[r] = "none" /\ shown[r] = "none"
ShownInvariant == TypeOK /\ GivenOut /\ NotSent /\ Reported /\ CounterRunsOut
=============================================================================
