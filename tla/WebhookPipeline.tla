--------------------------- MODULE WebhookPipeline ---------------------------
(***************************************************************************)
(* The way of a gateway notification: the HTTP edge that drops replays and *)
(* queues a job, and the job that finds the event, takes the event's lock  *)
(* in Redis, applies it, writes the delivery for the origin system and     *)
(* queues its sending (InternalDelivery).  What an event does to payments  *)
(* and subscriptions is WebhookBilling's and CheckoutPayments' matter;     *)
(* here it takes effect or is refused.                                     *)
(*                                                                         *)
(* Jobs run concurrently.  One may fail at any step (an exception, handled *)
(* by the worker's except clauses) or die there (nothing is handled); then *)
(* the queue runs it again or gives it up.  The lock has a time to live    *)
(* longer than one try of a job and shorter than all of its tries.         *)
(***************************************************************************)
EXTENDS Integers, Sequences

CONSTANTS
    Notification,   \* HTTP deliveries by the gateways, redeliveries included;
                    \* one names its job too
    Body,           \* request bodies, told apart by their hash
    BodyOf,         \* [Notification -> Body]
    States,         \* what the resource a body names goes through at the
                    \* gateway: the event to see at each state, or Ignored.
                    \* A body of Asaas carries its event: one state only; a
                    \* body that cannot be read has none.
    Event,          \* values of event_id_for
    Ignored,
    Key,            \* dedupe keys of internal_webhook_deliveries
    NoKey,          \* of an event nobody is told about
    KeyOf,          \* [Event -> Key \cup {NoKey}]
    OnChange,       \* keys announced only by the event that made the change
    Nobody,
    MaxTries,       \* WORKER_MAX_TRIES
    MaxFaults,      \* bound: exceptions and deaths, conflicts apart
    Stories         \* bound: the sets of notifications sent together

ASSUME MappingAssumption ==
    /\ BodyOf \in [Notification -> Body]
    /\ States \in [Body -> Seq(Event \cup {Ignored})]
    /\ KeyOf \in [Event -> Key \cup {NoKey}]
    /\ OnChange \subseteq Key
ASSUME DistinctAssumption ==
    Ignored \notin Event /\ NoKey \notin Key /\ Nobody \notin Notification
ASSUME TriesAssumption == MaxTries \in Nat \ {0} /\ MaxFaults \in Nat

VARIABLES
    edge,           \* how far the request of each notification got
    replay,         \* the bodies whose replay key is set
    remote,         \* the state of each resource at the gateway
    job,            \* how far the job of each notification got
    tries,          \* its job_try
    event,          \* the event it found
    lock,           \* the job named by each event's lock
    aged,           \* locks set in a try that is over
    applied,        \* commits of each event as processed
    changed,        \* the keys of OnChange whose change an event made
    delivery,       \* the rows of internal_webhook_deliveries
    enqueued,       \* times the sending job of a delivery was enqueued
    faults,
    dropped,        \* history: locks that went before their holder let go
    gap,            \* history: events whose job broke between the commits
    moved,          \* history: events whose holder found another one later
    lapsed          \* history: events whose lock expired after its own job
                    \* was refused it and before it asked who holds it

edgeVars == <<edge, replay>>
jobVars == <<job, tries, event>>
lockVars == <<lock, aged>>
history == <<dropped, gap, moved, lapsed>>
vars == <<edgeVars, remote, jobVars, lockVars, applied, changed, delivery, enqueued,
          faults, history>>

Running == {"queued", "lock", "ask", "check", "commit", "deliver", "insert", "enqueue",
            "finish"}
JobEnded == {"done", "duplicate", "ignored", "rejected", "failed", "abandoned"}

TypeOK ==
    /\ edge \in [Notification -> {"never", "unsent", "checked", "enqueued", "answered"}]
    /\ replay \subseteq Body
    /\ remote \in [Body -> Nat]
    /\ job \in [Notification -> {"none", "broken"} \cup Running \cup JobEnded]
    /\ tries \in [Notification -> 1 .. MaxTries]
    /\ event \in [Notification -> Event \cup {Ignored}]
    /\ lock \in [Event -> Notification \cup {Nobody}]
    /\ aged \subseteq Event
    /\ applied \in [Event -> Nat]
    /\ changed \subseteq OnChange
    /\ delivery \subseteq Key
    /\ enqueued \in [Key -> Nat]
    /\ faults \in 0 .. MaxFaults
    /\ dropped \subseteq Event
    /\ gap \subseteq Event
    /\ moved \subseteq Event
    /\ lapsed \subseteq Event

Init ==
    /\ \E sent \in Stories :
         edge = [n \in Notification |-> IF n \in sent THEN "unsent" ELSE "never"]
    /\ replay = {}
    /\ remote = [b \in Body |-> 1]
    /\ job = [n \in Notification |-> "none"]
    /\ tries = [n \in Notification |-> 1]
    /\ event = [n \in Notification |-> Ignored]
    /\ lock = [e \in Event |-> Nobody]
    /\ aged = {}
    /\ applied = [e \in Event |-> 0]
    /\ changed = {}
    /\ delivery = {}
    /\ enqueued = [k \in Key |-> 0]
    /\ faults = 0
    /\ dropped = {}
    /\ gap = {}
    /\ moved = {}
    /\ lapsed = {}

Last(n) == tries[n] = MaxTries
Goto(n, label) == job' = [job EXCEPT ![n] = label]

Fault == faults < MaxFaults /\ faults' = faults + 1

(****************************** The HTTP edge ******************************)

\* _read_webhook_body looks the body's hash up: a known one is answered 200, one
\* that is no JSON or that the gateway's adapter cannot normalise 400.
Receive(n) ==
    LET closed == BodyOf[n] \in replay \/ States[BodyOf[n]] = <<>> IN
    /\ edge[n] = "unsent"
    /\ edge' = [edge EXCEPT ![n] = IF closed THEN "answered" ELSE "checked"]
    /\ UNCHANGED <<replay, remote, jobVars, lockVars, applied, changed, delivery, enqueued, faults, history>>

EnqueueJob(n) ==
    /\ edge[n] = "checked"
    /\ edge' = [edge EXCEPT ![n] = "enqueued"]
    /\ Goto(n, "queued")
    /\ UNCHANGED <<replay, remote, tries, event, lockVars, applied, changed, delivery, enqueued, faults, history>>

\* The replay key is set last: after the job, and after its metadata.
Remember(n) ==
    /\ edge[n] = "enqueued"
    /\ edge' = [edge EXCEPT ![n] = "answered"]
    /\ replay' = replay \cup {BodyOf[n]}
    /\ UNCHANGED <<remote, jobVars, lockVars, applied, changed, delivery, enqueued, faults, history>>

\* Redis or the process fails once the job is queued: the gateway gets no 200 and
\* will send the notification again.  (Before that, nothing has happened.)
EdgeFails(n) ==
    /\ Fault
    /\ edge[n] = "enqueued"
    /\ edge' = [edge EXCEPT ![n] = "answered"]
    /\ UNCHANGED <<replay, remote, jobVars, lockVars, applied, changed, delivery, enqueued, history>>

\* Of no consequence, and left out, when no request with the body is to come.
ReplayExpires(b) ==
    /\ b \in replay
    /\ \E n \in Notification : edge[n] = "unsent" /\ BodyOf[n] = b
    /\ replay' = replay \ {b}
    /\ UNCHANGED <<edge, remote, jobVars, lockVars, applied, changed, delivery, enqueued, faults, history>>

RemoteMoves(b) ==
    /\ remote[b] < Len(States[b])
    /\ remote' = [remote EXCEPT ![b] = @ + 1]
    /\ UNCHANGED <<edgeVars, jobVars, lockVars, applied, changed, delivery, enqueued, faults, history>>

(************************** The job of an event ****************************)

\* resolve_webhook asks for the resource as it is now, not as it was when the
\* notification was sent: another try may find another event.
Resolve(n) ==
    LET found == States[BodyOf[n]][remote[BodyOf[n]]] IN
    /\ job[n] = "queued"
    /\ event' = [event EXCEPT ![n] = found]
    /\ moved' = IF event[n] \in Event \ {found} THEN moved \cup {event[n]} ELSE moved
    /\ Goto(n, IF found = Ignored THEN "ignored" ELSE "lock")
    /\ UNCHANGED <<edgeVars, remote, tries, lockVars, applied, changed, delivery, enqueued,
                   faults, dropped, gap, lapsed>>

\* SET NX EX: whoever finds the lock free has it.
TakeLock(n) ==
    LET e == event[n] IN
    /\ job[n] = "lock"
    /\ \/ /\ lock[e] = Nobody
          /\ lock' = [lock EXCEPT ![e] = n]
          /\ aged' = aged \ {e}
          /\ Goto(n, "check")
       \/ /\ lock[e] # Nobody
          /\ Goto(n, "ask")
          /\ UNCHANGED lockVars
    /\ UNCHANGED <<edgeVars, remote, tries, event, applied, changed, delivery, enqueued, faults, history>>

\* Mutant: the lock of an earlier try of this job is not recognised.
AskForeignHolder(n) ==
    /\ job[n] = "ask"
    /\ Goto(n, "duplicate")
    /\ UNCHANGED <<edgeVars, remote, tries, event, lockVars, applied, changed, delivery, enqueued, faults, history>>

\* GET, a call of its own: a retry that finds its own job_id there goes on, with
\* what is left of the time to live.  Any other job ends as a duplicate,
\* completed; so does the retry whose lock expired since it was refused it.
AskHolder(n) ==
    /\ job[n] = "ask"
    /\ Goto(n, IF lock[event[n]] = n THEN "check" ELSE "duplicate")
    /\ UNCHANGED <<edgeVars, remote, tries, event, lockVars, applied, changed, delivery, enqueued, faults, history>>

\* An event known as processed gives no result, and so no delivery either.
CheckEvent(n) ==
    /\ job[n] = "check"
    /\ Goto(n, IF applied[event[n]] > 0 THEN "finish" ELSE "commit")
    /\ UNCHANGED <<edgeVars, remote, tries, event, lockVars, applied, changed, delivery, enqueued, faults, history>>

\* Mutant: no unique index over webhook_events.event_id.
CommitTwice(n) ==
    LET e == event[n]
        k == KeyOf[e]
    IN
    /\ job[n] = "commit"
    /\ applied' = [applied EXCEPT ![e] = @ + 1]
    /\ \/ /\ k \in Key \ changed
          /\ changed' = changed \cup (OnChange \cap {k})
          /\ Goto(n, "deliver")
       \/ /\ k \in OnChange \cup {NoKey}
          /\ Goto(n, "finish")
          /\ UNCHANGED changed
    /\ UNCHANGED <<edgeVars, remote, tries, event, lockVars, delivery, enqueued, faults, history>>

\* Mutant: a retry does not announce what it applied.
CommitQuietly(n) ==
    LET e == event[n]
        k == KeyOf[e]
    IN
    /\ job[n] = "commit"
    /\ applied[e] = 0
    /\ applied' = [applied EXCEPT ![e] = @ + 1]
    /\ \/ /\ k \in Key \ changed
          /\ changed' = changed \cup (OnChange \cap {k})
          /\ Goto(n, IF tries[n] > 1 THEN "finish" ELSE "deliver")
       \/ /\ k \in OnChange \cup {NoKey}
          /\ Goto(n, "finish")
          /\ UNCHANGED changed
    /\ UNCHANGED <<edgeVars, remote, tries, event, lockVars, delivery, enqueued, faults, history>>

\* One transaction: the event's effect and its row.  Where another job was
\* faster the unique event_id makes the commit fail: see Conflict.  Some
\* handlers return None when they changed nothing (the payment is unknown, is
\* not to change so, or changed at another event before): nobody is told.
CommitEvent(n) ==
    LET e == event[n]
        k == KeyOf[e]
    IN
    /\ job[n] = "commit"
    /\ applied[e] = 0
    /\ applied' = [applied EXCEPT ![e] = @ + 1]
    /\ \/ /\ k \in Key \ changed
          /\ changed' = changed \cup (OnChange \cap {k})
          /\ Goto(n, "deliver")
       \/ /\ k \in OnChange \cup {NoKey}
          /\ Goto(n, "finish")
          /\ UNCHANGED changed
    /\ UNCHANGED <<edgeVars, remote, tries, event, lockVars, delivery, enqueued, faults, history>>

CheckDelivery(n) ==
    /\ job[n] = "deliver"
    /\ Goto(n, IF KeyOf[event[n]] \in delivery THEN "finish" ELSE "insert")
    /\ UNCHANGED <<edgeVars, remote, tries, event, lockVars, applied, changed, delivery, enqueued, faults, history>>

\* Mutant: no unique index over dedupe_key.
InsertTwice(n) ==
    LET k == KeyOf[event[n]] IN
    /\ job[n] = "insert"
    /\ delivery' = delivery \cup {k}
    /\ Goto(n, "enqueue")
    /\ UNCHANGED <<edgeVars, remote, tries, event, lockVars, applied, changed, enqueued, faults, history>>

\* The second transaction; two events with one dedupe_key meet here.
InsertDelivery(n) ==
    LET k == KeyOf[event[n]] IN
    /\ job[n] = "insert"
    /\ k \notin delivery
    /\ delivery' = delivery \cup {k}
    /\ Goto(n, "enqueue")
    /\ UNCHANGED <<edgeVars, remote, tries, event, lockVars, applied, changed, enqueued, faults, history>>

EnqueueDelivery(n) ==
    LET k == KeyOf[event[n]] IN
    /\ job[n] = "enqueue"
    /\ enqueued' = [enqueued EXCEPT ![k] = @ + 1]
    /\ Goto(n, "finish")
    /\ UNCHANGED <<edgeVars, remote, tries, event, lockVars, applied, changed, delivery, faults, history>>

\* The lock is deleted by its name, whoever holds it now.
DropLock(n) ==
    LET e == event[n] IN
    /\ lock' = [lock EXCEPT ![e] = Nobody]
    /\ aged' = aged \ {e}
    /\ dropped' = IF lock[e] \in {n, Nobody} THEN dropped ELSE dropped \cup {e}

Finish(n) ==
    /\ job[n] = "finish"
    /\ Goto(n, "done")
    /\ DropLock(n)
    /\ UNCHANGED <<edgeVars, remote, tries, event, applied, changed, delivery, enqueued, faults, gap, moved, lapsed>>

\* DomainError, NotFoundError, ValueError: no retry.  Only process_webhook
\* lets go of the lock; a notification that cannot be resolved never got there.
Reject(n) ==
    /\ job[n] \in {"queued", "commit"}
    /\ Goto(n, "rejected")
    /\ IF job[n] = "queued" THEN UNCHANGED <<lockVars, dropped>> ELSE DropLock(n)
    /\ UNCHANGED <<edgeVars, remote, tries, event, applied, changed, delivery, enqueued, faults, gap, moved, lapsed>>

\* An event that took effect and whose delivery was not written and queued yet.
Unannounced(n) == job[n] \in {"deliver", "insert", "enqueue"}

\* The lock stays with the job, and grows older than one try.
KeepLock(n) ==
    /\ aged' = aged \cup {e \in Event : lock[e] = n}
    /\ UNCHANGED <<lock, dropped>>

\* Any other exception: the last try ends as failed and lets go of the lock
\* (if it knows the event), an earlier one keeps it.
Break(n) ==
    /\ Goto(n, IF Last(n) THEN "failed" ELSE "broken")
    /\ IF Last(n) /\ job[n] # "queued" THEN DropLock(n) ELSE KeepLock(n)
    /\ gap' = IF Unannounced(n) THEN gap \cup {event[n]} ELSE gap
    /\ UNCHANGED <<edgeVars, remote, tries, event, applied, changed, delivery, enqueued, moved, lapsed>>

Fail(n) == job[n] \in Running /\ Fault /\ Break(n)

\* A unique index rejects the event or the delivery another job inserted since
\* this one looked.
Conflict(n) ==
    /\ \/ job[n] = "commit" /\ applied[event[n]] > 0
       \/ job[n] = "insert" /\ KeyOf[event[n]] \in delivery
    /\ Break(n)
    /\ UNCHANGED faults

\* The worker's process dies.
Die(n) ==
    /\ job[n] \in Running
    /\ Fault
    /\ Goto(n, "broken")
    /\ KeepLock(n)
    /\ gap' = IF Unannounced(n) THEN gap \cup {event[n]} ELSE gap
    /\ UNCHANGED <<edgeVars, remote, tries, event, applied, changed, delivery, enqueued, moved, lapsed>>

\* Mutant: the tries are not counted.
RunForever(n) ==
    /\ job[n] = "broken"
    /\ Goto(n, "queued")
    /\ UNCHANGED <<edgeVars, remote, tries, event, lockVars, applied, changed, delivery, enqueued, faults, history>>

RunAgain(n) ==
    /\ job[n] = "broken"
    /\ ~Last(n)
    /\ Goto(n, "queued")
    /\ tries' = [tries EXCEPT ![n] = @ + 1]
    /\ UNCHANGED <<edgeVars, remote, event, lockVars, applied, changed, delivery, enqueued, faults, history>>

GiveUp(n) ==
    /\ job[n] = "broken"
    /\ Goto(n, "abandoned")
    /\ UNCHANGED <<edgeVars, remote, tries, event, lockVars, applied, changed, delivery, enqueued, faults, history>>

\* WEBHOOK_PROCESSING_LOCK_TTL_SECONDS is more than WORKER_JOB_TIMEOUT_SECONDS:
\* a lock cannot expire in the try that set it.
LockExpires(e) ==
    /\ lock[e] # Nobody
    /\ e \in aged
    /\ lock' = [lock EXCEPT ![e] = Nobody]
    /\ aged' = aged \ {e}
    /\ dropped' = dropped \cup {e}
    /\ lapsed' = IF job[lock[e]] = "ask" /\ event[lock[e]] = e THEN lapsed \cup {e} ELSE lapsed
    /\ UNCHANGED <<edgeVars, remote, jobVars, applied, changed, delivery, enqueued, faults, gap, moved>>

(****************************** The next step ******************************)

EdgeStep(n) == EnqueueJob(n) \/ Remember(n) \/ EdgeFails(n)
JobStep(n) ==
    \/ Resolve(n) \/ TakeLock(n) \/ AskHolder(n) \/ CheckEvent(n) \/ CommitEvent(n)
    \/ CheckDelivery(n) \/ InsertDelivery(n) \/ EnqueueDelivery(n) \/ Finish(n)
    \/ Reject(n) \/ Fail(n) \/ Conflict(n) \/ Die(n) \/ RunAgain(n) \/ GiveUp(n)

\* Nothing is left to do.
AllEnded ==
    /\ \A n \in Notification : edge[n] \in {"never", "answered"} /\ job[n] \in JobEnded \cup {"none"}
    /\ UNCHANGED vars

Next ==
    \/ AllEnded
    \/ \E n \in Notification : Receive(n) \/ EdgeStep(n) \/ JobStep(n)
    \/ \E b \in Body : ReplayExpires(b) \/ RemoteMoves(b)
    \/ \E e \in Event : LockExpires(e)

Spec == Init /\ [][Next]_vars

(******************************** Properties *******************************)

\* The lock in Redis may expire and may be deleted by another job, so that two
\* jobs process one event at once; the unique event_id alone keeps its effect
\* single.
AppliedOnce == \A e \in Event : applied[e] <= 1

\* Two jobs are beyond the lock of one event only after its lock went away
\* under its holder.
BeyondLock == Running \ {"queued", "lock", "ask"}
LockProtects ==
    \A e \in Event : \A m, n \in Notification :
        /\ m # n
        /\ event[m] = e /\ job[m] \in BeyondLock
        /\ event[n] = e /\ job[n] \in BeyondLock
        => e \in dropped

\* process_webhook answers a notification as a duplicate only where another
\* job found the same event: one that applied it, is still at it, failed, or
\* turned to a later event of the resource.  The one exception is a retry
\* whose own lock expired between the SET that refused it and the GET: it
\* takes itself for a duplicate, and nobody need have the event.
InHand == Running \cup {"broken", "rejected", "failed", "abandoned"}
SwallowedIsInHand ==
    \A n \in Notification : job[n] = "duplicate" =>
        \/ applied[event[n]] > 0
        \/ event[n] \in moved \cup lapsed
        \/ \E m \in Notification \ {n} : event[m] = event[n] /\ job[m] \in InHand

\* What an event had to announce has its delivery, or the event's job is about
\* to write it, or broke right there: the gap between the two commits is the
\* only place where an announcement is lost.  Of a key that is announced by who
\* made the change, an event that made none cannot make good the loss.
InGap(e) == e \in gap \/ \E n \in Notification : event[n] = e /\ job[n] \in {"deliver", "insert"}
LostOnlyInTheGap ==
    /\ \A e \in Event : applied[e] > 0 /\ KeyOf[e] \in Key \ OnChange =>
           KeyOf[e] \in delivery \/ InGap(e)
    /\ \A k \in changed : k \in delivery \/ \E e \in Event : KeyOf[e] = k /\ InGap(e)

\* A delivery has one sending job, whatever number of jobs and events wanted it.
Enqueuing(n, k) == job[n] = "enqueue" /\ KeyOf[event[n]] = k
SentByOneJob == \A k \in Key :
    /\ enqueued[k] <= 1
    /\ \A n \in Notification : Enqueuing(n, k) => k \in delivery /\ enqueued[k] = 0
    /\ \A m, n \in Notification : Enqueuing(m, k) /\ Enqueuing(n, k) => m = n
    /\ k \notin delivery => enqueued[k] = 0

\* Every job the queue accepted comes to an end: each of its steps, a failure and
\* a new try too, leaves it less to do, and (no deadlock but AllEnded) it can
\* always take one until it has ended.
Rank == [queued |-> 10, lock |-> 9, ask |-> 8, check |-> 7, commit |-> 6, deliver |-> 5,
         insert |-> 4, enqueue |-> 3, finish |-> 2, broken |-> 1]
Work(n) == 11 * (MaxTries - tries[n]) + (IF job[n] \in DOMAIN Rank THEN Rank[job[n]] ELSE 0)
JobsEnd == [][\A n \in Notification :
                 job[n] # "none" /\ job[n]' # job[n] => Work(n)' < Work(n)]_vars

\* What the properties rest on.  A job is of a body that could be read, and one
\* that has an event knows it; beyond the commit the event is applied; a lock
\* names a job that has its event in hand, or has turned to another; and a job
\* beyond the lock holds it, or lost it.
EventKnown == \A n \in Notification :
    /\ job[n] \in BeyondLock \cup {"lock", "ask", "duplicate", "done"} => event[n] \in Event
    /\ Unannounced(n) => KeyOf[event[n]] \in Key
StateKnown ==
    /\ \A b \in Body : remote[b] \in 1 .. Len(States[b]) \/ States[b] = <<>>
    /\ \A n \in Notification :
         edge[n] = "checked" \/ job[n] # "none" => States[BodyOf[n]] # <<>>
JobFollowsEdge == \A n \in Notification : edge[n] \in {"never", "unsent", "checked"} => job[n] = "none"
AppliedBeyondCommit == \A n \in Notification :
    Unannounced(n) \/ job[n] \in {"finish", "done"} => applied[event[n]] > 0
HolderHasEvent == \A e \in Event : lock[e] # Nobody /\ e \notin moved =>
    event[lock[e]] = e /\ job[lock[e]] \in InHand
HeldOrDropped == \A n \in Notification :
    job[n] \in BeyondLock => lock[event[n]] = n \/ event[n] \in dropped

EffectInvariant ==
    /\ TypeOK
    /\ AppliedOnce
    /\ JobFollowsEdge
    /\ EventKnown
    /\ AppliedBeyondCommit
    /\ HolderHasEvent
    /\ HeldOrDropped
    /\ SentByOneJob

\* Who was refused the lock of an event leaves it to a job that goes on with
\* it: not to one that will be refused it too.
GoesOn(m, e) ==
    /\ event[m] = e
    /\ job[m] \in InHand
    /\ job[m] = "ask" => lock[e] = m
Settled(e) == applied[e] > 0 \/ e \in moved \cup lapsed
RefusedForAnother == \A n \in Notification : job[n] \in {"ask", "duplicate"} =>
    Settled(event[n]) \/ \E m \in Notification : GoesOn(m, event[n])

PipelineInvariant ==
    /\ StateKnown
    /\ EffectInvariant
    /\ RefusedForAnother
    /\ SwallowedIsInHand
    /\ LostOnlyInTheGap

\* The pipeline keeps the promise of its abstract specification.
Promise == INSTANCE Outbox WITH announced <- delivery
KeepsPromise == Promise!Spec
=============================================================================
