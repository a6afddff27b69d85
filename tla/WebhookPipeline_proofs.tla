----------------------- MODULE WebhookPipeline_proofs -----------------------
(***************************************************************************)
(* The pipeline applies an event once and announces it once, whatever      *)
(* expires, fails or dies, for every number of notifications, events,      *)
(* tries and faults; every job ends; and the pipeline implements Outbox.   *)
(*                                                                         *)
(* PipelineInvariant is inductive.  It is carried by the two unique        *)
(* indexes (AppliedOnce, SentByOneJob) and by what a lock says of the job  *)
(* it names (HolderHasEvent, HeldOrDropped): that the lock is gone is      *)
(* allowed everywhere, but only its holder, or the record of the loss in   *)
(* dropped, lets two jobs be beyond it.                                    *)
(*                                                                         *)
(* The last part is about the job that sends a delivery (InternalDelivery),*)
(* where Recorded is inductive: the row is true of what the consumer got.  *)
(***************************************************************************)
EXTENDS WebhookPipeline, InternalDelivery, TLAPS

USE DistinctAssumption, TriesAssumption
USE DEF edgeVars, jobVars, lockVars, history, Running, JobEnded, BeyondLock, InHand,
        Unannounced, Enqueuing, Last, Goto
USE DEF EffectInvariant, TypeOK, AppliedOnce, JobFollowsEdge, EventKnown, AppliedBeyondCommit,
        HolderHasEvent, HeldOrDropped, SentByOneJob

\* What the constants map to.
LEMMA BodyKnown ==
    /\ \A n \in Notification : BodyOf[n] \in Body
    /\ \A b \in Body : States[b] \in Seq(Event \cup {Ignored})
    /\ \A e \in Event : KeyOf[e] \in Key \cup {NoKey}
    /\ OnChange \subseteq Key
  BY MappingAssumption

\* Nothing has been sent: nothing is held, applied or announced.
LEMMA InitHolds == Init => PipelineInvariant
<1> SUFFICES ASSUME Init
             PROVE  PipelineInvariant
  OBVIOUS
<1>1. TypeOK
  <2>1. edge \in [Notification -> {"never", "unsent", "checked", "enqueued", "answered"}]
    BY DEF Init
  <2>2. job \in [Notification -> {"none", "broken"} \cup Running \cup JobEnded]
    BY DEF Init
  <2>3. /\ tries \in [Notification -> 1 .. MaxTries]
        /\ event \in [Notification -> Event \cup {Ignored}]
        /\ lock \in [Event -> Notification \cup {Nobody}]
    BY DEF Init
  <2>4. remote \in [Body -> Nat] /\ applied \in [Event -> Nat] /\ enqueued \in [Key -> Nat]
    BY DEF Init
  <2> QED
    BY <2>1, <2>2, <2>3, <2>4 DEF Init
<1>2. \A n \in Notification : job[n] = "none" /\ edge[n] \in {"never", "unsent"}
  BY DEF Init
<1>4. StateKnown
  <2> SUFFICES ASSUME NEW b \in Body, States[b] # <<>>
               PROVE  remote[b] \in 1 .. Len(States[b])
    BY <1>2 DEF StateKnown
  <2>1. States[b] \in Seq(Event \cup {Ignored})
    BY BodyKnown
  <2>2. Len(States[b]) \in Nat /\ Len(States[b]) # 0
    BY <2>1
  <2> QED
    BY <2>2 DEF Init
<1>3. /\ \A e \in Event : applied[e] = 0 /\ lock[e] = Nobody
      /\ \A k \in Key : enqueued[k] = 0
  BY DEF Init
<1> QED
  BY <1>1, <1>2, <1>3, <1>4
     DEF PipelineInvariant, RefusedForAnother, SwallowedIsInHand, LostOnlyInTheGap, Init

\* The edge and the gateway: they touch neither locks nor what was applied.
LEMMA EdgeHolds ==
    ASSUME EffectInvariant, NEW n \in Notification,
           Receive(n) \/ EnqueueJob(n) \/ Remember(n) \/ EdgeFails(n)
    PROVE  EffectInvariant'
<1>1. CASE Receive(n)
  BY <1>1 DEF Receive
<1>2. CASE EnqueueJob(n)
  BY <1>2 DEF EnqueueJob
<1>3. CASE Remember(n)
  BY <1>3, BodyKnown DEF Remember
<1>4. CASE EdgeFails(n)
  BY <1>4 DEF EdgeFails, Fault
<1> QED
  BY <1>1, <1>2, <1>3, <1>4

\* What the gateway and time do of their own touches no job.
LEMMA EnvironmentHolds ==
    ASSUME EffectInvariant, NEW b \in Body, ReplayExpires(b) \/ RemoteMoves(b)
    PROVE  EffectInvariant'
<1>1. CASE ReplayExpires(b)
  BY <1>1 DEF ReplayExpires
<1>2. CASE RemoteMoves(b)
  BY <1>2 DEF RemoteMoves
<1> QED
  BY <1>1, <1>2

\* The lock of an event that somebody holds may go: the loss is recorded.
LEMMA ExpiryHolds ==
    ASSUME EffectInvariant, NEW e \in Event, LockExpires(e)
    PROVE  EffectInvariant'
  BY DEF LockExpires

\* A job that finds another event than before is recorded in moved.
LEMMA ResolveHolds ==
    ASSUME StateKnown, EffectInvariant, NEW n \in Notification, Resolve(n)
    PROVE  EffectInvariant'
<1> DEFINE found == States[BodyOf[n]][remote[BodyOf[n]]]
<1>1. found \in Event \cup {Ignored}
  <2>1. /\ States[BodyOf[n]] \in Seq(Event \cup {Ignored})
        /\ remote[BodyOf[n]] \in 1 .. Len(States[BodyOf[n]])
    BY BodyKnown DEF Resolve, StateKnown
  <2> QED
    BY <2>1
<1> HIDE DEF found
<1>2. /\ job[n] = "queued"
      /\ event' = [event EXCEPT ![n] = found]
      /\ moved' = IF event[n] \in Event \ {found} THEN moved \cup {event[n]} ELSE moved
      /\ job' = [job EXCEPT ![n] = IF found = Ignored THEN "ignored" ELSE "lock"]
      /\ UNCHANGED <<edge, replay, remote, tries, lock, aged, applied, changed, delivery,
                     enqueued, faults, dropped, gap, lapsed>>
  BY DEF Resolve, found
<1>3. TypeOK'
  BY <1>1, <1>2
<1> QED
  BY <1>1, <1>2, <1>3

\* The lock is taken by who sees it free, or finds it its own.
LEMMA TakeLockHolds ==
    ASSUME EffectInvariant, NEW n \in Notification, TakeLock(n) \/ AskHolder(n)
    PROVE  EffectInvariant'
<1> DEFINE e == event[n]
<1>1. CASE TakeLock(n)
  <2>1. e \in Event /\ job[n] = "lock"
    BY <1>1 DEF TakeLock
  <2>2. CASE lock[e] = Nobody
    BY <1>1, <2>1, <2>2 DEF TakeLock
  <2>3. CASE lock[e] # Nobody
    BY <1>1, <2>1, <2>3 DEF TakeLock
  <2> QED
    BY <2>2, <2>3
<1>2. CASE AskHolder(n)
  BY <1>2 DEF AskHolder
<1> QED
  BY <1>1, <1>2

\* From the lock to the queued delivery: what the pipeline writes, it writes once.
LEMMA EffectHolds ==
    ASSUME EffectInvariant, NEW n \in Notification,
           CheckEvent(n) \/ CommitEvent(n) \/ CheckDelivery(n)
             \/ InsertDelivery(n) \/ EnqueueDelivery(n)
    PROVE  EffectInvariant'
<1>1. CASE CheckEvent(n)
  BY <1>1 DEF CheckEvent
<1>2. CASE CommitEvent(n)
  <2> DEFINE e == event[n]
  <2>1. /\ job[n] = "commit" /\ e \in Event /\ applied[e] = 0
        /\ applied' = [applied EXCEPT ![e] = @ + 1]
        /\ \/ job' = [job EXCEPT ![n] = "deliver"] /\ KeyOf[e] \in Key
           \/ job' = [job EXCEPT ![n] = "finish"]
        /\ UNCHANGED <<edge, replay, remote, tries, event, lock, aged, delivery, enqueued,
                       faults, dropped, gap, moved, lapsed>>
    BY <1>2 DEF CommitEvent
  <2>2. changed' \subseteq OnChange
    BY <1>2 DEF CommitEvent
  <2> HIDE DEF e
  <2>3. CASE job' = [job EXCEPT ![n] = "deliver"] /\ KeyOf[e] \in Key
    BY <2>1, <2>2, <2>3 DEF e
  <2>4. CASE job' = [job EXCEPT ![n] = "finish"]
    BY <2>1, <2>2, <2>4 DEF e
  <2> QED
    BY <2>1, <2>3, <2>4
<1>3. CASE CheckDelivery(n)
  BY <1>3 DEF CheckDelivery
<1>4. CASE InsertDelivery(n)
  BY <1>4 DEF InsertDelivery
<1>5. CASE EnqueueDelivery(n)
  BY <1>5 DEF EnqueueDelivery
<1> QED
  BY <1>1, <1>2, <1>3, <1>4, <1>5

\* The ends of a job, and its new try.
LEMMA EndHolds ==
    ASSUME EffectInvariant, NEW n \in Notification,
           Finish(n) \/ Reject(n) \/ RunAgain(n) \/ GiveUp(n)
    PROVE  EffectInvariant'
<1>1. CASE Finish(n)
  BY <1>1 DEF Finish, DropLock
<1>2. CASE Reject(n) /\ job[n] = "queued"
  BY <1>2 DEF Reject
<1>5. CASE Reject(n) /\ job[n] = "commit"
  BY <1>5 DEF Reject, DropLock
<1>3. CASE RunAgain(n)
  <2>1. tries[n] + 1 \in 1 .. MaxTries
    <3>1. tries[n] \in 1 .. MaxTries
      OBVIOUS
    <3>2. tries[n] # MaxTries
      BY <1>3 DEF RunAgain, Last
    <3> HIDE DEF EffectInvariant
    <3> QED
      BY <3>1, <3>2, TriesAssumption
  <2>2. /\ job[n] = "broken" /\ job' = [job EXCEPT ![n] = "queued"]
        /\ UNCHANGED <<edge, replay, remote, event, lock, aged, applied, changed, delivery,
                       enqueued, faults, dropped, gap, moved, lapsed>>
    BY <1>3 DEF RunAgain
  <2>3. TypeOK'
    <3>1. tries' \in [Notification -> 1 .. MaxTries]
      BY <1>3, <2>1 DEF RunAgain
    <3> QED
      BY <2>2, <3>1
  <2> QED
    BY <2>2, <2>3
<1>4. CASE GiveUp(n)
  BY <1>4 DEF GiveUp
<1> QED
  BY <1>1, <1>2, <1>3, <1>4, <1>5 DEF Reject

\* A job that breaks between the commit and its delivery leaves the gap behind.
LEMMA FailureHolds ==
    ASSUME EffectInvariant, NEW n \in Notification, Fail(n) \/ Conflict(n) \/ Die(n)
    PROVE  EffectInvariant'
<1>1. job[n] \in Running /\ faults' \in 0 .. MaxFaults
  BY DEF Fail, Conflict, Die, Fault
<1>2. CASE Break(n)
  BY <1>1, <1>2 DEF Break, DropLock, KeepLock
<1>3. CASE Die(n)
  BY <1>1, <1>3 DEF Die, KeepLock
<1> QED
  BY <1>2, <1>3 DEF Fail, Conflict

\* A body that cannot be read is turned down at the edge.
LEMMA StatesStayKnown ==
    ASSUME StateKnown, EffectInvariant, [Next]_vars
    PROVE  StateKnown'
<1>1. CASE UNCHANGED vars \/ AllEnded
  BY <1>1 DEF StateKnown, AllEnded, vars
<1>2. ASSUME NEW n \in Notification, Receive(n) \/ EdgeStep(n)
      PROVE  StateKnown'
  <2>1. CASE Receive(n)
    BY <2>1 DEF Receive, StateKnown
  <2>2. CASE EnqueueJob(n)
    BY <2>2 DEF EnqueueJob, StateKnown
  <2>3. CASE Remember(n) \/ EdgeFails(n)
    BY <2>3 DEF Remember, EdgeFails, StateKnown
  <2> QED
    BY <1>2, <2>1, <2>2, <2>3 DEF EdgeStep
<1>3. ASSUME NEW n \in Notification, JobStep(n)
      PROVE  StateKnown'
  <2>1. /\ UNCHANGED <<edge, remote>>
        /\ job[n] # "none"
        /\ \A m \in Notification \ {n} : job'[m] = job[m]
    <3>1. CASE Resolve(n) \/ TakeLock(n) \/ AskHolder(n) \/ CheckEvent(n) \/ CommitEvent(n)
      BY <3>1 DEF Resolve, TakeLock, AskHolder, CheckEvent, CommitEvent
    <3>2. CASE CheckDelivery(n) \/ InsertDelivery(n) \/ EnqueueDelivery(n)
      BY <3>2 DEF CheckDelivery, InsertDelivery, EnqueueDelivery
    <3>3. CASE Fail(n) \/ Conflict(n) \/ Die(n)
      BY <3>3 DEF Fail, Conflict, Break, Die
    <3>4. CASE Finish(n) \/ Reject(n) \/ RunAgain(n) \/ GiveUp(n)
      BY <3>4 DEF Finish, Reject, RunAgain, GiveUp
    <3> QED
      BY <1>3, <3>1, <3>2, <3>3, <3>4 DEF JobStep
  <2> QED
    BY <2>1 DEF StateKnown
<1>4. ASSUME NEW b \in Body, ReplayExpires(b) \/ RemoteMoves(b)
      PROVE  StateKnown'
  <2>1. CASE ReplayExpires(b)
    BY <2>1 DEF ReplayExpires, StateKnown
  <2>2. CASE RemoteMoves(b)
    <3>1. Len(States[b]) \in Nat
      BY BodyKnown
    <3> QED
      BY <2>2, <3>1 DEF RemoteMoves, StateKnown
  <2> QED
    BY <1>4, <2>1, <2>2
<1>5. ASSUME NEW e \in Event, LockExpires(e)
      PROVE  StateKnown'
  BY <1>5 DEF LockExpires, StateKnown
<1> QED
  BY <1>1, <1>2, <1>3, <1>4, <1>5 DEF Next

\* What happens to a job is its own doing; what is settled stays so.
LEMMA OtherJobsStay ==
    ASSUME EffectInvariant, NEW n \in Notification, JobStep(n), NEW m \in Notification \ {n}
    PROVE  job'[m] = job[m] /\ event'[m] = event[m]
<1>1. CASE Resolve(n) \/ TakeLock(n) \/ AskHolder(n) \/ CheckEvent(n) \/ CommitEvent(n)
  BY <1>1 DEF Resolve, TakeLock, AskHolder, CheckEvent, CommitEvent
<1>2. CASE CheckDelivery(n) \/ InsertDelivery(n) \/ EnqueueDelivery(n) \/ Finish(n) \/ Reject(n)
  BY <1>2 DEF CheckDelivery, InsertDelivery, EnqueueDelivery, Finish, Reject
<1>3. CASE Fail(n) \/ Conflict(n) \/ Die(n) \/ RunAgain(n) \/ GiveUp(n)
  BY <1>3 DEF Fail, Conflict, Break, Die, RunAgain, GiveUp
<1> QED
  BY <1>1, <1>2, <1>3 DEF JobStep

LEMMA SettledStays ==
    ASSUME EffectInvariant, [Next]_vars, NEW e \in Event, Settled(e)
    PROVE  Settled(e)'
<1>1. CASE UNCHANGED vars \/ AllEnded
  BY <1>1 DEF vars, AllEnded, Settled
<1>2. ASSUME NEW n \in Notification, Receive(n) \/ EdgeStep(n)
      PROVE  Settled(e)'
  BY <1>2 DEF Receive, EdgeStep, EnqueueJob, Remember, EdgeFails, Settled
<1>3. ASSUME NEW n \in Notification, JobStep(n)
      PROVE  Settled(e)'
  <2>1. CASE Resolve(n)
    BY <2>1 DEF Resolve, Settled
  <2>2. CASE CommitEvent(n)
    BY <2>2 DEF CommitEvent, Settled
  <2>3. CASE TakeLock(n) \/ AskHolder(n) \/ CheckEvent(n) \/ CheckDelivery(n)
               \/ InsertDelivery(n) \/ EnqueueDelivery(n)
    BY <2>3 DEF TakeLock, AskHolder, CheckEvent, CheckDelivery, InsertDelivery,
                EnqueueDelivery, Settled
  <2>4. CASE Finish(n) \/ Reject(n) \/ RunAgain(n) \/ GiveUp(n)
    BY <2>4 DEF Finish, Reject, RunAgain, GiveUp, Settled
  <2>5. CASE Fail(n) \/ Conflict(n) \/ Die(n)
    BY <2>5 DEF Fail, Conflict, Break, Die, Settled
  <2> QED
    BY <1>3, <2>1, <2>2, <2>3, <2>4, <2>5 DEF JobStep
<1>4. ASSUME NEW b \in Body, ReplayExpires(b) \/ RemoteMoves(b)
      PROVE  Settled(e)'
  BY <1>4 DEF ReplayExpires, RemoteMoves, Settled
<1>5. ASSUME NEW f \in Event, LockExpires(f)
      PROVE  Settled(e)'
  BY <1>5 DEF LockExpires, Settled
<1> QED
  BY <1>1, <1>2, <1>3, <1>4, <1>5 DEF Next

\* A job that goes on with an event settles it, turns from it for the record,
\* goes on, or loses its lock to one that had gone on beside it.
LEMMA EventStaysInHand ==
    ASSUME EffectInvariant, [Next]_vars,
           NEW e \in Event, NEW m \in Notification, GoesOn(m, e)
    PROVE  Settled(e)' \/ \E k \in Notification : GoesOn(k, e)'
<1> USE DEF GoesOn
<1>1. CASE UNCHANGED vars \/ AllEnded
  BY <1>1 DEF vars, AllEnded
<1>2. ASSUME NEW n \in Notification, Receive(n) \/ EdgeStep(n)
      PROVE  GoesOn(m, e)'
  <2>1. UNCHANGED <<event, lock>> /\ job'[m] = job[m]
    BY <1>2 DEF Receive, EdgeStep, EnqueueJob, Remember, EdgeFails
  <2> QED
    BY <2>1
<1>3. ASSUME JobStep(m)
      PROVE  Settled(e)' \/ \E k \in Notification : GoesOn(k, e)'
  <2>1. CASE Resolve(m)
    <3>1. /\ job[m] = "queued" /\ job'[m] \in {"ignored", "lock"}
          /\ event'[m] # e => e \in moved'
          /\ event'[m] = e => job'[m] = "lock"
      BY <2>1, DistinctAssumption DEF Resolve
    <3> QED
      BY <3>1 DEF Settled
  <2>2. CASE TakeLock(m)
    <3>1. CASE lock[e] = Nobody \/ lock[e] = m
      BY <2>2, <3>1 DEF TakeLock
    <3>2. CASE lock[e] \notin {Nobody, m} /\ e \in moved
      BY <2>2, <3>2 DEF TakeLock, Settled
    <3>3. CASE lock[e] \notin {Nobody, m} /\ e \notin moved
      <4>1. /\ lock[e] \in Notification \ {m}
            /\ event[lock[e]] = e /\ job[lock[e]] \in InHand
        BY <3>3
      <4>2. UNCHANGED <<event, lock>> /\ job'[lock[e]] = job[lock[e]]
        BY <2>2, <3>3, <4>1 DEF TakeLock
      <4> QED
        BY <4>1, <4>2
    <3> QED
      BY <3>1, <3>2, <3>3
  <2>3. CASE AskHolder(m)
    BY <2>3 DEF AskHolder
  <2>4. CASE CheckEvent(m) \/ CheckDelivery(m) \/ InsertDelivery(m) \/ EnqueueDelivery(m)
    BY <2>4 DEF CheckEvent, CheckDelivery, InsertDelivery, EnqueueDelivery
  <2>5. CASE CommitEvent(m)
    BY <2>5 DEF CommitEvent
  <2>6. CASE Finish(m)
    BY <2>6 DEF Finish, Settled
  <2>7. CASE Reject(m) \/ RunAgain(m) \/ GiveUp(m)
    BY <2>7 DEF Reject, RunAgain, GiveUp
  <2>8. CASE Fail(m) \/ Conflict(m) \/ Die(m)
    BY <2>8 DEF Fail, Conflict, Break, Die
  <2> QED
    BY <1>3, <2>1, <2>2, <2>3, <2>4, <2>5, <2>6, <2>7, <2>8 DEF JobStep
<1>4. ASSUME NEW n \in Notification \ {m}, JobStep(n)
      PROVE  Settled(e)' \/ \E k \in Notification : GoesOn(k, e)'
  <2>1. job'[m] = job[m] /\ event'[m] = event[m]
    BY <1>4, OtherJobsStay
  <2>2. CASE job[m] # "ask" \/ lock'[e] = lock[e]
    BY <2>1, <2>2
  <2>3. CASE job[m] = "ask" /\ lock'[e] # lock[e]
    <3>1. lock[e] = m
      BY <2>3
    <3>2. DropLock(n) /\ event[n] = e /\ event'[n] = e /\ (Finish(n) \/ job'[n] \in {"rejected", "failed"})
      <4>1. ~ (Resolve(n) \/ AskHolder(n) \/ CheckEvent(n) \/ CommitEvent(n) \/ CheckDelivery(n)
                \/ InsertDelivery(n) \/ EnqueueDelivery(n))
        BY <2>3 DEF Resolve, AskHolder, CheckEvent, CommitEvent, CheckDelivery, InsertDelivery,
                    EnqueueDelivery
      <4>2. ~ (TakeLock(n) \/ Die(n) \/ RunAgain(n) \/ GiveUp(n))
        BY <2>3, <3>1 DEF TakeLock, Die, KeepLock, RunAgain, GiveUp
      <4>3. CASE Finish(n)
        BY <2>3, <4>3 DEF Finish, DropLock
      <4>4. CASE Reject(n)
        BY <2>3, <4>4 DEF Reject, DropLock
      <4>5. CASE Break(n) /\ job[n] \in Running
        BY <2>3, <4>5 DEF Break, DropLock, KeepLock
      <4> QED
        BY <1>4, <4>1, <4>2, <4>3, <4>4, <4>5 DEF JobStep, Fail, Conflict
    <3>3. CASE Finish(n)
      BY <3>2, <3>3 DEF Finish, Settled
    <3>4. CASE job'[n] \in {"rejected", "failed"}
      BY <3>2, <3>4
    <3> QED
      BY <3>2, <3>3, <3>4
  <2> QED
    BY <2>2, <2>3
<1>5. ASSUME NEW b \in Body, ReplayExpires(b) \/ RemoteMoves(b)
      PROVE  GoesOn(m, e)'
  BY <1>5 DEF ReplayExpires, RemoteMoves
<1>6. ASSUME NEW f \in Event, LockExpires(f)
      PROVE  Settled(e)' \/ GoesOn(m, e)'
  <2>1. CASE job[m] # "ask" \/ f # e
    BY <1>6, <2>1 DEF LockExpires
  <2>2. CASE job[m] = "ask" /\ f = e
    BY <1>6, <2>2 DEF LockExpires, Settled
  <2> QED
    BY <2>1, <2>2
<1> QED
  BY <1>1, <1>2, <1>3, <1>4, <1>5, <1>6 DEF Next

\* Who is refused an event's lock, and who was, leaves it in hand.
LEMMA RefusalsStay ==
    ASSUME EffectInvariant, RefusedForAnother, [Next]_vars
    PROVE  RefusedForAnother'
<1> SUFFICES ASSUME NEW n \in Notification, job'[n] \in {"ask", "duplicate"}
             PROVE  Settled(event[n])' \/ \E m \in Notification : GoesOn(m, event[n])'
  BY DEF RefusedForAnother
<1>1. event'[n] = event[n] /\ (job[n] \in {"ask", "duplicate"} \/ TakeLock(n))
  <2>1. CASE UNCHANGED vars \/ AllEnded
    BY <2>1 DEF vars, AllEnded
  <2>2. ASSUME NEW m \in Notification, Receive(m) \/ EdgeStep(m)
        PROVE  event' = event /\ job'[n] \in {job[n], "queued"}
    BY <2>2 DEF Receive, EdgeStep, EnqueueJob, Remember, EdgeFails
  <2>3. CASE JobStep(n)
    <3>1. CASE TakeLock(n) \/ AskHolder(n)
      BY <3>1 DEF TakeLock, AskHolder
    <3>2. CASE Resolve(n) \/ CheckEvent(n) \/ CommitEvent(n) \/ CheckDelivery(n)
      BY <3>2 DEF Resolve, CheckEvent, CommitEvent, CheckDelivery
    <3>3. CASE InsertDelivery(n) \/ EnqueueDelivery(n) \/ Finish(n) \/ Reject(n)
      BY <3>3 DEF InsertDelivery, EnqueueDelivery, Finish, Reject
    <3>4. CASE Fail(n) \/ Conflict(n) \/ Die(n) \/ RunAgain(n) \/ GiveUp(n)
      BY <3>4 DEF Fail, Conflict, Break, Die, RunAgain, GiveUp
    <3> QED
      BY <2>3, <3>1, <3>2, <3>3, <3>4 DEF JobStep
  <2>4. ASSUME NEW m \in Notification \ {n}, JobStep(m)
        PROVE  event'[n] = event[n] /\ job'[n] = job[n]
    BY <2>4, OtherJobsStay
  <2>5. ASSUME NEW b \in Body, ReplayExpires(b) \/ RemoteMoves(b)
        PROVE  event' = event /\ job' = job
    BY <2>5 DEF ReplayExpires, RemoteMoves
  <2>6. ASSUME NEW e \in Event, LockExpires(e)
        PROVE  event' = event /\ job' = job
    BY <2>6 DEF LockExpires
  <2> QED
    BY <2>1, <2>2, <2>3, <2>4, <2>5, <2>6 DEF Next
<1>2. PICK e \in Event : e = event[n]
  BY <1>1 DEF TakeLock
<1>3. CASE job[n] \in {"ask", "duplicate"}
  <2>1. Settled(e) \/ \E m \in Notification : GoesOn(m, e)
    BY <1>2, <1>3 DEF RefusedForAnother
  <2>2. Settled(e)' \/ \E m \in Notification : GoesOn(m, e)'
    BY <2>1, SettledStays, EventStaysInHand
  <2> QED
    BY <1>1, <1>2, <2>2 DEF Settled, GoesOn
<1>4. CASE TakeLock(n)
  <2>1. /\ lock[e] # Nobody /\ job' = [job EXCEPT ![n] = "ask"]
        /\ UNCHANGED <<lock, event, moved>>
    BY <1>2, <1>4 DEF TakeLock
  <2>2. CASE e \in moved
    BY <1>1, <1>2, <2>1, <2>2 DEF Settled
  <2>3. CASE lock[e] = n
    BY <1>1, <1>2, <2>1, <2>3 DEF GoesOn
  <2>4. CASE e \notin moved /\ lock[e] # n
    <3>1. /\ lock[e] \in Notification \ {n}
          /\ event[lock[e]] = e /\ job[lock[e]] \in InHand
      BY <2>1, <2>4
    <3> QED
      BY <1>1, <1>2, <2>1, <3>1 DEF GoesOn
  <2> QED
    BY <2>2, <2>3, <2>4
<1> QED
  BY <1>1, <1>3, <1>4

\* An announcement is due from the commit on; only the insertion ends that, and
\* only a job that breaks before it leaves the gap behind.
LEMMA GapStays ==
    ASSUME EffectInvariant, [Next]_vars, NEW e \in Event, InGap(e)
    PROVE  InGap(e)' \/ KeyOf[e] \in delivery'
<1> USE DEF InGap
<1>1. CASE UNCHANGED vars \/ AllEnded
  BY <1>1 DEF vars, AllEnded
<1>2. ASSUME NEW n \in Notification, Receive(n) \/ EdgeStep(n)
      PROVE  InGap(e)'
  <2>1. /\ UNCHANGED <<event, gap>>
        /\ \A m \in Notification : job[m] # "none" => job'[m] = job[m]
    BY <1>2 DEF Receive, EdgeStep, EnqueueJob, Remember, EdgeFails
  <2> QED
    BY <2>1
<1>3. ASSUME NEW n \in Notification, JobStep(n)
      PROVE  InGap(e)' \/ KeyOf[e] \in delivery'
  <2>1. gap \subseteq gap'
    <3>1. CASE Fail(n) \/ Conflict(n) \/ Die(n)
      BY <3>1 DEF Fail, Conflict, Break, Die
    <3>2. ~ (Fail(n) \/ Conflict(n) \/ Die(n)) => gap' = gap
      BY <1>3 DEF JobStep, Resolve, TakeLock, AskHolder, CheckEvent, CommitEvent, CheckDelivery,
                  InsertDelivery, EnqueueDelivery, Finish, Reject, RunAgain, GiveUp
    <3> QED
      BY <3>1, <3>2
  <2>2. CASE e \in gap \/ \E m \in Notification \ {n} : event[m] = e /\ job[m] \in {"deliver", "insert"}
    BY <1>3, <2>1, <2>2, OtherJobsStay
  <2>3. CASE event[n] = e /\ job[n] \in {"deliver", "insert"}
    <3>1. CASE CheckDelivery(n)
      BY <2>3, <3>1 DEF CheckDelivery
    <3>2. CASE InsertDelivery(n)
      BY <2>3, <3>2 DEF InsertDelivery
    <3>3. CASE Fail(n) \/ Conflict(n) \/ Die(n)
      BY <2>3, <3>3 DEF Fail, Conflict, Break, Die
    <3> QED
      BY <1>3, <2>3, <3>1, <3>2, <3>3 DEF JobStep, Resolve, TakeLock, AskHolder, CheckEvent,
         CommitEvent, EnqueueDelivery, Finish, Reject, RunAgain, GiveUp
  <2> QED
    BY <2>2, <2>3
<1>4. ASSUME NEW b \in Body, ReplayExpires(b) \/ RemoteMoves(b)
      PROVE  InGap(e)'
  BY <1>4 DEF ReplayExpires, RemoteMoves
<1>5. ASSUME NEW f \in Event, LockExpires(f)
      PROVE  InGap(e)'
  BY <1>5 DEF LockExpires
<1> QED
  BY <1>1, <1>2, <1>3, <1>4, <1>5 DEF Next

LEMMA LossStays ==
    ASSUME EffectInvariant, LostOnlyInTheGap, [Next]_vars
    PROVE  LostOnlyInTheGap'
<1>1. CASE \E n \in Notification : CommitEvent(n)
  <2>1. PICK n \in Notification : CommitEvent(n)
    BY <1>1
  <2>5. event[n] \in Event /\ event' = event /\ job[n] = "commit"
    BY <2>1 DEF CommitEvent
  <2>6. PICK f \in Event : f = event[n]
    BY <2>5
  <2> DEFINE k == KeyOf[f]
  <2>2. /\ delivery' = delivery
        /\ \A e \in Event \ {f} : applied'[e] = applied[e]
        /\ \/ InGap(f)' /\ changed' = changed \cup (OnChange \cap {k})
           \/ k \in OnChange \cup {NoKey} /\ changed' = changed
    BY <2>1, <2>5, <2>6 DEF CommitEvent, InGap
  <2>3. ASSUME NEW e \in Event, applied'[e] > 0, KeyOf[e] \in Key \ OnChange
        PROVE  KeyOf[e] \in delivery' \/ InGap(e)'
    <3>1. CASE e = f
      <4>1. KeyOf[f] \notin OnChange \cup {NoKey}
        BY <2>3, <3>1, DistinctAssumption
      <4> QED
        BY <2>2, <3>1, <4>1
    <3>2. CASE e # f
      BY <2>2, <2>3, <3>2, GapStays DEF LostOnlyInTheGap
    <3> QED
      BY <3>1, <3>2
  <2>4. ASSUME NEW c \in changed'
        PROVE  c \in delivery' \/ \E e \in Event : KeyOf[e] = c /\ InGap(e)'
    <3>1. CASE c \in changed
      BY <2>2, <3>1, GapStays DEF LostOnlyInTheGap
    <3>2. CASE c \notin changed
      <4>1. c = k /\ InGap(f)'
        BY <2>2, <2>4, <3>2
      <4> QED
        BY <2>2, <4>1
    <3> QED
      BY <3>1, <3>2
  <2> QED
    BY <2>3, <2>4 DEF LostOnlyInTheGap
<1>2. CASE ~ \E n \in Notification : CommitEvent(n)
  <2>1. UNCHANGED <<applied, changed>> /\ delivery \subseteq delivery'
    <3>1. \A n \in Notification : EdgeStep(n) \/ Receive(n) \/ JobStep(n)
             => UNCHANGED <<applied, changed>> /\ delivery \subseteq delivery'
      BY <1>2 DEF Receive, EdgeStep, EnqueueJob, Remember, EdgeFails, JobStep, Resolve,
                  TakeLock, AskHolder, CheckEvent, CheckDelivery, InsertDelivery,
                  EnqueueDelivery, Finish, Reject, Fail, Conflict, Break, Die, RunAgain, GiveUp
    <3>2. \A b \in Body : ReplayExpires(b) \/ RemoteMoves(b)
             => UNCHANGED <<applied, changed, delivery>>
      BY DEF ReplayExpires, RemoteMoves
    <3>3. \A e \in Event : LockExpires(e) => UNCHANGED <<applied, changed, delivery>>
      BY DEF LockExpires
    <3> QED
      BY <3>1, <3>2, <3>3 DEF Next, AllEnded, vars
  <2>2. ASSUME NEW e \in Event, applied'[e] > 0, KeyOf[e] \in Key \ OnChange
        PROVE  KeyOf[e] \in delivery' \/ InGap(e)'
    BY <2>1, <2>2, GapStays DEF LostOnlyInTheGap
  <2>3. ASSUME NEW c \in changed'
        PROVE  c \in delivery' \/ \E e \in Event : KeyOf[e] = c /\ InGap(e)'
    BY <2>1, <2>3, GapStays DEF LostOnlyInTheGap
  <2> QED
    BY <2>2, <2>3 DEF LostOnlyInTheGap
<1> QED
  BY <1>1, <1>2

\* The invariant holds in every reachable state, whatever the constants.
THEOREM PipelineHolds == Spec => []PipelineInvariant
<1>1. PipelineInvariant /\ [Next]_vars => PipelineInvariant'
  <2> SUFFICES ASSUME StateKnown, EffectInvariant, RefusedForAnother, LostOnlyInTheGap,
                      [Next]_vars
               PROVE  PipelineInvariant'
    BY DEF PipelineInvariant
  <2>1. StateKnown'
    BY StatesStayKnown
  <2>2. EffectInvariant'
    <3>1. CASE UNCHANGED vars \/ AllEnded
      BY <3>1 DEF AllEnded, vars
    <3>2. ASSUME NEW n \in Notification, Receive(n) \/ EdgeStep(n) \/ JobStep(n)
          PROVE  EffectInvariant'
      BY <3>2, EdgeHolds, ResolveHolds, TakeLockHolds, EffectHolds, EndHolds, FailureHolds
         DEF EdgeStep, JobStep
    <3>3. ASSUME NEW b \in Body, ReplayExpires(b) \/ RemoteMoves(b)
          PROVE  EffectInvariant'
      BY <3>3, EnvironmentHolds
    <3>4. ASSUME NEW e \in Event, LockExpires(e)
          PROVE  EffectInvariant'
      BY <3>4, ExpiryHolds
    <3> QED
      BY <3>1, <3>2, <3>3, <3>4 DEF Next
  <2>3. RefusedForAnother'
    BY RefusalsStay
  <2>4. SwallowedIsInHand'
    BY <2>3 DEF RefusedForAnother, SwallowedIsInHand, GoesOn, Settled
  <2>5. LostOnlyInTheGap'
    BY LossStays
  <2> QED
    BY <2>1, <2>2, <2>3, <2>4, <2>5 DEF PipelineInvariant
<1> QED
  BY InitHolds, <1>1, PTL DEF Spec

\* An event takes effect at most once, even where the lock was lost.
THEOREM EventsApplyOnce == Spec => []AppliedOnce
<1>1. PipelineInvariant => AppliedOnce
  BY DEF PipelineInvariant
<1> QED
  BY PipelineHolds, <1>1, PTL

\* Two jobs process one event at once only after its lock was lost.
THEOREM LocksProtect == Spec => []LockProtects
<1>1. PipelineInvariant => LockProtects
  BY DEF PipelineInvariant, LockProtects
<1> QED
  BY PipelineHolds, <1>1, PTL

\* A notification that is dropped as a duplicate has another job to answer for it.
THEOREM DuplicatesAreInHand == Spec => []SwallowedIsInHand
<1>1. PipelineInvariant => SwallowedIsInHand
  BY DEF PipelineInvariant
<1> QED
  BY PipelineHolds, <1>1, PTL

\* An announcement is lost in the gap between the two commits, or not at all.
THEOREM AnnouncementsAreLostOnlyInTheGap == Spec => []LostOnlyInTheGap
<1>1. PipelineInvariant => LostOnlyInTheGap
  BY DEF PipelineInvariant
<1> QED
  BY PipelineHolds, <1>1, PTL

\* A delivery gets one sending job.
THEOREM DeliveriesAreSentByOneJob == Spec => []SentByOneJob
<1>1. PipelineInvariant => SentByOneJob
  BY DEF PipelineInvariant
<1> QED
  BY PipelineHolds, <1>1, PTL

\* Every step of a job leaves it less to do: no job retries for ever.
THEOREM JobsComeToAnEnd == Spec => JobsEnd
<1>1. TypeOK /\ JobFollowsEdge /\ [Next]_vars => [\A n \in Notification :
          job[n] # "none" /\ job[n]' # job[n] => Work(n)' < Work(n)]_vars
  <2> SUFFICES ASSUME TypeOK, JobFollowsEdge, Next, NEW n \in Notification,
                      job[n] # "none", job[n]' # job[n]
               PROVE  Work(n)' < Work(n)
    OBVIOUS
  <2>1. JobStep(n)
    <3>1. ~ (AllEnded \/ \E b \in Body : ReplayExpires(b) \/ RemoteMoves(b))
      BY DEF AllEnded, vars, ReplayExpires, RemoteMoves
    <3>2. ~ \E e \in Event : LockExpires(e)
      BY DEF LockExpires
    <3>3. \A m \in Notification : ~ Receive(m) /\ ~ Remember(m) /\ ~ EdgeFails(m)
      BY DEF Receive, Remember, EdgeFails
    <3>4. \A m \in Notification : EnqueueJob(m) => m # n /\ job'[n] = job[n]
      BY DEF EnqueueJob
    <3>5. \A m \in Notification \ {n} : JobStep(m) => job'[n] = job[n]
      BY DEF JobStep, Resolve, TakeLock, AskHolder, CheckEvent, CommitEvent, CheckDelivery,
             InsertDelivery, EnqueueDelivery, Finish, Reject, Fail, Conflict, Break,
             Die, RunAgain, GiveUp
    <3> QED
      BY <3>1, <3>2, <3>3, <3>4, <3>5 DEF Next, EdgeStep
  <2>2. CASE Resolve(n) \/ TakeLock(n) \/ AskHolder(n) \/ CheckEvent(n) \/ CommitEvent(n)
    BY <2>2 DEF Resolve, TakeLock, AskHolder, CheckEvent, CommitEvent, Work, Rank
  <2>3. CASE CheckDelivery(n) \/ InsertDelivery(n) \/ EnqueueDelivery(n) \/ Finish(n) \/ GiveUp(n)
    BY <2>3 DEF CheckDelivery, InsertDelivery, EnqueueDelivery, Finish, GiveUp, Work, Rank
  <2>4. CASE Reject(n)
    BY <2>4 DEF Reject, Work, Rank
  <2>5. CASE Fail(n) \/ Conflict(n) \/ Die(n)
    <3>1. /\ job[n] \in Running
          /\ tries' = tries
          /\ job'[n] \in {"failed", "broken"}
      BY <2>5 DEF Fail, Conflict, Break, Die
    <3> QED
      BY <3>1 DEF Work, Rank
  <2>6. CASE RunAgain(n)
    BY <2>6 DEF RunAgain, Work, Rank
  <2> QED
    BY <2>1, <2>2, <2>3, <2>4, <2>5, <2>6 DEF JobStep
<1>2. PipelineInvariant => TypeOK /\ JobFollowsEdge
  BY DEF PipelineInvariant
<1> QED
  BY PipelineHolds, <1>1, <1>2, PTL DEF Spec, JobsEnd

\* The pipeline implements the abstract outbox.
THEOREM PipelineKeepsPromise == Spec => KeepsPromise
<1>1. Init => Promise!Init
  BY DEF Init, Promise!Init
<1>2. PipelineInvariant /\ [Next]_vars => [Promise!Next]_(Promise!vars)
  <2> SUFFICES ASSUME PipelineInvariant, [Next]_vars
               PROVE  [Promise!Next]_(Promise!vars)
    OBVIOUS
  <2>1. CASE \E n \in Notification : CommitEvent(n)
    <3>1. PICK n \in Notification : CommitEvent(n)
      BY <2>1
    <3>2. Promise!Apply(event[n]) /\ event[n] \in Event
      BY <3>1 DEF CommitEvent, Promise!Apply, PipelineInvariant
    <3> QED
      BY <3>2 DEF Promise!Next
  <2>2. CASE \E n \in Notification : InsertDelivery(n)
    <3>1. PICK n \in Notification : InsertDelivery(n)
      BY <2>2
    <3>2. Promise!Announce(KeyOf[event[n]]) /\ KeyOf[event[n]] \in Key
      BY <3>1 DEF InsertDelivery, Promise!Announce, PipelineInvariant
    <3> QED
      BY <3>2 DEF Promise!Next
  <2>3. ASSUME ~ \E n \in Notification : CommitEvent(n) \/ InsertDelivery(n)
        PROVE  UNCHANGED <<applied, delivery>>
    <3>1. \A n \in Notification : EdgeStep(n) \/ Receive(n) \/ JobStep(n)
                                     => UNCHANGED <<applied, delivery>>
      BY <2>3 DEF Receive, EdgeStep, EnqueueJob, Remember, EdgeFails, JobStep, Resolve,
                  TakeLock, AskHolder, CheckEvent, CheckDelivery, EnqueueDelivery, Finish, Reject,
                  Fail, Conflict, Break, Die, RunAgain, GiveUp
    <3>2. \A b \in Body : ReplayExpires(b) \/ RemoteMoves(b) => UNCHANGED <<applied, delivery>>
      BY DEF ReplayExpires, RemoteMoves
    <3>3. \A e \in Event : LockExpires(e) => UNCHANGED <<applied, delivery>>
      BY DEF LockExpires
    <3> QED
      BY <3>1, <3>2, <3>3 DEF Next, AllEnded, vars
  <2> QED
    BY <2>1, <2>2, <2>3 DEF Promise!vars
<1> QED
  BY PipelineHolds, <1>1, <1>2, PTL DEF Spec, KeepsPromise, Promise!Spec

(*************************** Sending a delivery ****************************)

USE MaxSendsAssumption

\* Between two tries every post was counted, one attempt per try; only the
\* last try, or an answer that cannot be read, closes a delivery as FAILED, and
\* a try that was cut off while it did had such an answer.
Recorded ==
    /\ SendingTypeOK
    /\ AttemptsCoverPosts
    /\ pc = "queued" => attempts < try
    /\ pc = "post" => received < attempts
    /\ pc \in Rejecting \cup {"settle", "finish", "rejected", "done"} => received > 0
    /\ cut # {} => received > 0
    /\ DeliveredWasReceived
    /\ FailedIsFinal
    /\ FailedUnheardIsExhausted

\* It holds in every state, however often the job fails, dies and runs again.
LEMMA RecordedHolds == SendingSpec => []Recorded
<1> USE DEF Recorded, SendingTypeOK, AttemptsCoverPosts, DeliveredWasReceived, FailedIsFinal,
            FailedUnheardIsExhausted, Sending, Rejecting, Ended, LastTry
<1>1. SendingInit => Recorded
  BY DEF SendingInit
<1>2. Recorded /\ [SendingNext]_sendingVars => Recorded'
  <2> SUFFICES ASSUME Recorded, [SendingNext]_sendingVars
               PROVE  Recorded'
    OBVIOUS
  <2>1. CASE RegisterAttempt
    BY <2>1 DEF RegisterAttempt
  <2>2. CASE Taken
    BY <2>2 DEF Taken
  <2>8. CASE TakenUnreadable
    BY <2>8 DEF TakenUnreadable
  <2>9. CASE WriteRejection
    BY <2>9 DEF WriteRejection
  <2>10. CASE ReportRejection
    BY <2>10 DEF ReportRejection
  <2>3. CASE MarkDelivered \/ ReportSent
    BY <2>3 DEF MarkDelivered, ReportSent
  <2>4. CASE SendingFails
    BY <2>4 DEF SendingFails, MaybeReceived
  <2>5. CASE SenderDies
    BY <2>5 DEF SenderDies, MaybeReceived
  <2>6. CASE SendAgain
    <3>1. try' = try + 1 /\ try' \in 1 .. MaxSends /\ try # MaxSends
      BY <2>6 DEF SendAgain
    <3>2. /\ pc = "broken" /\ pc' = "queued"
          /\ UNCHANGED <<status, attempts, received, cut>>
      BY <2>6 DEF SendAgain
    <3> QED
      BY <3>1, <3>2
  <2>11. CASE SendingAbandoned
    BY <2>11 DEF SendingAbandoned
  <2>7. CASE SendingOver \/ UNCHANGED sendingVars
    BY <2>7 DEF SendingOver, sendingVars
  <2> QED
    BY <2>1, <2>2, <2>3, <2>4, <2>5, <2>6, <2>7, <2>8, <2>9, <2>10, <2>11
       DEF SendingNext, SendingStep
<1> QED
  BY <1>1, <1>2, PTL DEF SendingSpec

\* attempt_count covers every post, also one whose answer or record was lost, and
\* DELIVERED is true of the consumer.
THEOREM RecordsAgree == SendingSpec => []RecordAgrees
<1>1. Recorded => RecordAgrees
  BY DEF Recorded, RecordAgrees
<1> QED
  BY RecordedHolds, <1>1, PTL

\* FAILED is the end, nobody posts a delivery that says so: unless the try that
\* wrote it was cut off before its job had ended.
THEOREM FailedIsTheEnd == SendingSpec => []FailedIsFinal
<1>1. Recorded => FailedIsFinal
  BY DEF Recorded
<1> QED
  BY RecordedHolds, <1>1, PTL

\* And without a word from the consumer it means that every try was spent.
THEOREM UnheardIsTriedToTheLast == SendingSpec => []FailedUnheardIsExhausted
<1>1. Recorded => FailedUnheardIsExhausted
  BY DEF Recorded
<1> QED
  BY RecordedHolds, <1>1, PTL
=============================================================================
