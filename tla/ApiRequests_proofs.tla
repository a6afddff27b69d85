-------------------------- MODULE ApiRequests_proofs --------------------------
(***************************************************************************)
(* While its record stays in Redis, a key enqueues one job; and whatever   *)
(* becomes of the record, nobody is answered with the job of another body. *)
(*                                                                         *)
(* RequestsInvariant is inductive.  OneJob rests on KeyIsHeld: the request *)
(* that has the key has left a record that keeps the others out.           *)
(* JobOfThePayload rests on RecordIsTrue: a record never pairs a hash with *)
(* the job of another body, though every route writes over any record.     *)
(***************************************************************************)
EXTENDS ApiRequests, TLAPS

USE NamesAssumption, LimitAssumption
USE DEF Label, NoRecord, Trying, Work, Status, Goto, Fault, RequestsInvariant, TypeOK

\* No request has come.
LEMMA InitHolds == Init => RequestsInvariant
  BY DEF Init, OneJob, KeyIsHeld, HasKey, JobOfThePayload, RecordIsTrue

\* Type correctness, one action after the other.
LEMMA TypesHold ==
    ASSUME TypeOK, Next
    PROVE  TypeOK'
<1> USE DEF limiter, jobVars
<1>1. CASE WindowEnds
  BY <1>1 DEF WindowEnds
<1>2. CASE RecordExpires
  BY <1>2 DEF RecordExpires
<1>3. ASSUME NEW r \in Request, RouteStep(r) \/ WorkerStep(r)
      PROVE  TypeOK'
  <2>1. CASE Count(r)
    BY <2>1 DEF Count
  <2>2. CASE SetExpiry(r)
    BY <2>2 DEF SetExpiry
  <2>3. CASE Claim(r)
    BY <2>3 DEF Claim
  <2>4. CASE Look(r)
    BY <2>4 DEF Look
  <2>5. CASE Enqueue(r)
    BY <2>5 DEF Enqueue
  <2>6. CASE Clear(r)
    BY <2>6 DEF Clear
  <2>7. CASE Save(r)
    BY <2>7 DEF Save
  <2>8. CASE SetOwner(r)
    BY <2>8 DEF SetOwner
  <2>9. CASE WriteQueued(r)
    BY <2>9 DEF WriteQueued
  <2>10. CASE Crash(r)
    BY <2>10 DEF Crash
  <2>11. CASE WorkerTakes(r)
    BY <2>11 DEF WorkerTakes, Leaves
  <2>12. CASE WorkerStarts(r)
    BY <2>12 DEF WorkerStarts, Report, Leaves
  <2>13. CASE WorkerEnds(r)
    BY <2>13 DEF WorkerEnds, Report, Leaves
  <2>14. CASE WorkerErrs(r)
    BY <2>14 DEF WorkerErrs, Report, Leaves
  <2>15. CASE WorkerLeaves(r)
    BY <2>15 DEF WorkerLeaves, Leaves
  <2>16. CASE WorkerDies(r)
    BY <2>16 DEF WorkerDies, Leaves
  <2> QED
    BY <1>3, <2>1, <2>2, <2>3, <2>4, <2>5, <2>6, <2>7, <2>8, <2>9, <2>10, <2>11, <2>12, <2>13,
       <2>14, <2>15, <2>16 DEF RouteStep, WorkerStep
<1> QED
  BY <1>1, <1>2, <1>3 DEF Next

\* A step that leaves the record alone and gives nobody the key.
LEMMA NobodyClaims ==
    ASSUME RequestsInvariant, UNCHANGED <<record, lost, payload>>,
           \A r \in Request : HasKey(r)' => HasKey(r),
           \A r \in Request : pc'[r] = "looking" => pc[r] = "looking"
    PROVE  OneJob' /\ KeyIsHeld' /\ RecordIsTrue'
<1>1. KeyIsHeld'
  <2> HIDE DEF HasKey
  <2> QED
    BY DEF KeyIsHeld
<1>2. RecordIsTrue'
  BY DEF RecordIsTrue
<1>3. OneJob'
  BY <1>1 DEF KeyIsHeld, HasKey, OneJob
<1> QED
  BY <1>1, <1>2, <1>3

\* The rate limit.
LEMMA LimiterHolds ==
    ASSUME RequestsInvariant, NEW r \in Request, Count(r) \/ SetExpiry(r) \/ WindowEnds
    PROVE  RequestsInvariant'
<1>1. TypeOK'
  BY TypesHold DEF Next, RouteStep, WorkerStep
<1>2. UNCHANGED <<record, lost, payload, answer, work>>
  BY DEF Count, SetExpiry, WindowEnds, limiter, jobVars
<1>3. \A q \in Request : (HasKey(q)' => HasKey(q)) /\ (pc'[q] = "looking" => pc[q] = "looking")
  BY DEF Count, SetExpiry, WindowEnds, limiter, jobVars, HasKey
<1>4. JobOfThePayload'
  BY <1>2 DEF JobOfThePayload
<1> QED
  BY <1>1, <1>2, <1>3, <1>4, NobodyClaims

\* Who claims the key finds no record, so that nobody had it.
LEMMA ClaimHolds ==
    ASSUME RequestsInvariant, NEW r \in Request, Claim(r) \/ Look(r)
    PROVE  RequestsInvariant'
<1>1. TypeOK'
  BY TypesHold DEF Next, RouteStep, WorkerStep
<1>2. JobOfThePayload'
  BY DEF Claim, Look, JobOfThePayload, RecordIsTrue
<1>3. RecordIsTrue'
  BY DEF Claim, Look, RecordIsTrue
<1>4. CASE record = NoRecord /\ lost = {}
  <2>1. \A q \in Request : ~HasKey(q) /\ pc[q] # "looking"
    BY <1>4 DEF KeyIsHeld
  <2>2. Claim(r) /\ record' # NoRecord
    BY <1>4, <2>1 DEF Claim, Look
  <2>3. \A q \in Request : HasKey(q)' => q = r
    BY <2>1, <2>2 DEF Claim, HasKey, jobVars
  <2>4. KeyIsHeld'
    BY <2>2, <2>3 DEF KeyIsHeld
  <2>5. OneJob'
    BY <2>3 DEF OneJob, HasKey
  <2> QED
    BY <1>1, <1>2, <1>3, <2>4, <2>5
<1>5. CASE record # NoRecord
  <2>1. UNCHANGED <<record, lost, payload>>
    BY <1>5 DEF Claim, Look
  <2>2. \A q \in Request : HasKey(q)' => HasKey(q)
    BY <1>5 DEF Claim, Look, HasKey, jobVars
  <2>3. KeyIsHeld'
    <3> HIDE DEF HasKey
    <3> QED
      BY <1>5, <2>1, <2>2 DEF KeyIsHeld
  <2>4. OneJob'
    BY <2>3 DEF OneJob, KeyIsHeld, HasKey
  <2> QED
    BY <1>1, <1>2, <1>3, <2>3, <2>4
<1>6. CASE lost # {}
  <2>1. lost' # {}
    BY <1>6 DEF Claim, Look
  <2> QED
    BY <1>1, <1>2, <1>3, <2>1 DEF OneJob, KeyIsHeld
<1> QED
  BY <1>4, <1>5, <1>6

\* Who has the key keeps it until the record has the job; the record may go, and
\* then nothing is said any more.
LEMMA RouteHolds ==
    ASSUME RequestsInvariant, NEW r \in Request,
           Enqueue(r) \/ Save(r) \/ SetOwner(r) \/ WriteQueued(r) \/ Crash(r)
    PROVE  RequestsInvariant'
<1>1. TypeOK'
  BY TypesHold DEF Next, RouteStep, WorkerStep
<1>2. \A q \in Request : (HasKey(q)' => HasKey(q)) /\ (pc'[q] = "looking" => pc[q] = "looking")
  BY DEF Enqueue, Save, SetOwner, WriteQueued, Crash, jobVars, HasKey
<1>3. JobOfThePayload'
  BY DEF Enqueue, Save, SetOwner, WriteQueued, Crash, JobOfThePayload
<1>4. RecordIsTrue'
  BY DEF Enqueue, Save, SetOwner, WriteQueued, Crash, RecordIsTrue
<1>5. lost' = lost /\ (record' = NoRecord => record = NoRecord)
  BY DEF Enqueue, Save, SetOwner, WriteQueued, Crash
<1>6. KeyIsHeld'
  <2> HIDE DEF HasKey
  <2> QED
    BY <1>2, <1>5 DEF KeyIsHeld
<1>7. OneJob'
  BY <1>6 DEF OneJob, KeyIsHeld, HasKey
<1> QED
  BY <1>1, <1>3, <1>4, <1>6, <1>7

\* Clear and the TTL take the record away; Clear finds it, unless it was lost before.
LEMMA RecordGoes ==
    ASSUME RequestsInvariant, RecordExpires \/ \E r \in Request : Clear(r)
    PROVE  RequestsInvariant'
<1>1. TypeOK'
  BY TypesHold DEF Next, RouteStep, WorkerStep
<1>2. JobOfThePayload' /\ RecordIsTrue'
  BY DEF RecordExpires, Clear, JobOfThePayload, RecordIsTrue
<1>3. lost' # {}
  BY DEF RecordExpires, Clear, KeyIsHeld, HasKey
<1> QED
  BY <1>1, <1>2, <1>3 DEF OneJob, KeyIsHeld

\* The worker runs what was queued.
LEMMA WorkerHolds ==
    ASSUME RequestsInvariant, NEW j \in Request, WorkerStep(j)
    PROVE  RequestsInvariant'
<1> USE DEF WorkerStep, WorkerTakes, WorkerStarts, WorkerEnds, WorkerErrs, WorkerLeaves, WorkerDies,
           Leaves, Report
<1>1. TypeOK'
  BY TypesHold DEF Next, RouteStep, WorkerStep
<1>2. UNCHANGED <<record, lost, payload, answer, pc>>
  OBVIOUS
<1>3. \A q \in Request : HasKey(q)' => HasKey(q)
  BY DEF HasKey
<1>4. JobOfThePayload'
  BY <1>2 DEF JobOfThePayload
<1> QED
  BY <1>1, <1>2, <1>3, <1>4, NobodyClaims

\* OneJob and JobOfThePayload, from the inductive invariant.
THEOREM RequestsHold == Spec => []RequestsInvariant
<1>1. RequestsInvariant /\ [Next]_vars => RequestsInvariant'
  <2> SUFFICES ASSUME RequestsInvariant, [Next]_vars
               PROVE  RequestsInvariant'
    OBVIOUS
  <2>1. CASE UNCHANGED vars
    BY <2>1 DEF vars, limiter, jobVars, OneJob, KeyIsHeld, HasKey, JobOfThePayload, RecordIsTrue
  <2>2. CASE Next
    <3> HIDE DEF RequestsInvariant
    <3>1. CASE WindowEnds /\ Request = {}
      BY <3>1 DEF WindowEnds, RequestsInvariant, jobVars, OneJob, KeyIsHeld, JobOfThePayload,
                  RecordIsTrue
    <3> QED
      BY <2>2, <3>1, LimiterHolds, ClaimHolds, RouteHolds, RecordGoes, WorkerHolds
         DEF Next, RouteStep
  <2> QED
    BY <2>1, <2>2
<1> QED
  BY InitHolds, <1>1, PTL DEF Spec

\* One job for each key whose record was neither cleared nor expired.
THEOREM OneJobForAKey == Spec => []OneJob
<1>1. RequestsInvariant => OneJob
  OBVIOUS
<1> QED
  BY RequestsHold, <1>1, PTL

\* The job somebody is answered with was asked for with the same body.
THEOREM AnswersAreOfThePayload == Spec => []JobOfThePayload
<1>1. RequestsInvariant => JobOfThePayload
  OBVIOUS
<1> QED
  BY RequestsHold, <1>1, PTL

\* A job that is visible, or about to be, stays so.
LEMMA GivenOutHolds ==
    ASSUME TypeOK, GivenOut, Next
    PROVE  GivenOut'
<1> USE DEF limiter, jobVars, GivenOut, Visible
<1>1. CASE WindowEnds
  BY <1>1 DEF WindowEnds
<1>2. CASE RecordExpires
  BY <1>2 DEF RecordExpires
<1>3. ASSUME NEW r \in Request, RouteStep(r) \/ WorkerStep(r)
      PROVE  GivenOut'
  <2>1. CASE Count(r)
    BY <2>1 DEF Count
  <2>2. CASE SetExpiry(r)
    BY <2>2 DEF SetExpiry
  <2>3. CASE Claim(r)
    BY <2>3 DEF Claim
  <2>4. CASE Look(r)
    BY <2>4 DEF Look
  <2>5. CASE Enqueue(r)
    BY <2>5 DEF Enqueue
  <2>6. CASE Clear(r)
    BY <2>6 DEF Clear
  <2>7. CASE Save(r)
    BY <2>7 DEF Save
  <2>8. CASE SetOwner(r)
    BY <2>8 DEF SetOwner
  <2>9. CASE WriteQueued(r)
    BY <2>9 DEF WriteQueued
  <2>10. CASE Crash(r)
    BY <2>10 DEF Crash
  <2>11. CASE WorkerTakes(r)
    BY <2>11 DEF WorkerTakes, Leaves
  <2>12. CASE WorkerStarts(r)
    BY <2>12 DEF WorkerStarts, Report, Leaves
  <2>13. CASE WorkerEnds(r)
    BY <2>13 DEF WorkerEnds, Report, Leaves
  <2>14. CASE WorkerErrs(r)
    BY <2>14 DEF WorkerErrs, Report, Leaves
  <2>15. CASE WorkerLeaves(r)
    BY <2>15 DEF WorkerLeaves, Leaves
  <2>16. CASE WorkerDies(r)
    BY <2>16 DEF WorkerDies, Leaves
  <2> QED
    BY <1>3, <2>1, <2>2, <2>3, <2>4, <2>5, <2>6, <2>7, <2>8, <2>9, <2>10, <2>11, <2>12, <2>13,
       <2>14, <2>15, <2>16 DEF RouteStep, WorkerStep
<1> QED
  BY <1>1, <1>2, <1>3 DEF Next

\* The worker has nothing of a request before it is enqueued.
LEMMA NotSentHolds ==
    ASSUME TypeOK, NotSent, Next
    PROVE  NotSent'
<1> USE DEF limiter, jobVars, NotSent
<1>1. CASE WindowEnds
  BY <1>1 DEF WindowEnds
<1>2. CASE RecordExpires
  BY <1>2 DEF RecordExpires
<1>3. ASSUME NEW r \in Request, RouteStep(r) \/ WorkerStep(r)
      PROVE  NotSent'
  <2>1. CASE Count(r)
    BY <2>1 DEF Count
  <2>2. CASE SetExpiry(r)
    BY <2>2 DEF SetExpiry
  <2>3. CASE Claim(r)
    BY <2>3 DEF Claim
  <2>4. CASE Look(r)
    BY <2>4 DEF Look
  <2>5. CASE Enqueue(r)
    BY <2>5 DEF Enqueue
  <2>6. CASE Clear(r)
    BY <2>6 DEF Clear
  <2>7. CASE Save(r)
    BY <2>7 DEF Save
  <2>8. CASE SetOwner(r)
    BY <2>8 DEF SetOwner
  <2>9. CASE WriteQueued(r)
    BY <2>9 DEF WriteQueued
  <2>10. CASE Crash(r)
    BY <2>10 DEF Crash
  <2>11. CASE WorkerTakes(r)
    BY <2>11 DEF WorkerTakes, Leaves
  <2>12. CASE WorkerStarts(r)
    BY <2>12 DEF WorkerStarts, Report, Leaves
  <2>13. CASE WorkerEnds(r)
    BY <2>13 DEF WorkerEnds, Report, Leaves
  <2>14. CASE WorkerErrs(r)
    BY <2>14 DEF WorkerErrs, Report, Leaves
  <2>15. CASE WorkerLeaves(r)
    BY <2>15 DEF WorkerLeaves, Leaves
  <2>16. CASE WorkerDies(r)
    BY <2>16 DEF WorkerDies, Leaves
  <2> QED
    BY <1>3, <2>1, <2>2, <2>3, <2>4, <2>5, <2>6, <2>7, <2>8, <2>9, <2>10, <2>11, <2>12, <2>13,
       <2>14, <2>15, <2>16 DEF RouteStep, WorkerStep
<1> QED
  BY <1>1, <1>2, <1>3 DEF Next

\* The worker reports whatever it does to a job.
LEMMA ReportedHolds ==
    ASSUME TypeOK, NotSent, Reported, Next
    PROVE  Reported'
<1> USE DEF limiter, jobVars, Reported, Reached
<1>1. CASE WindowEnds
  BY <1>1 DEF WindowEnds
<1>2. CASE RecordExpires
  BY <1>2 DEF RecordExpires
<1>3. ASSUME NEW r \in Request, RouteStep(r) \/ WorkerStep(r)
      PROVE  Reported'
  <2>1. CASE Count(r)
    BY <2>1 DEF Count
  <2>2. CASE SetExpiry(r)
    BY <2>2 DEF SetExpiry
  <2>3. CASE Claim(r)
    BY <2>3 DEF Claim
  <2>4. CASE Look(r)
    BY <2>4 DEF Look
  <2>5. CASE Enqueue(r)
    BY <2>5 DEF Enqueue, NotSent
  <2>6. CASE Clear(r)
    BY <2>6 DEF Clear
  <2>7. CASE Save(r)
    BY <2>7 DEF Save
  <2>8. CASE SetOwner(r)
    BY <2>8 DEF SetOwner
  <2>9. CASE WriteQueued(r)
    BY <2>9 DEF WriteQueued
  <2>10. CASE Crash(r)
    BY <2>10 DEF Crash
  <2>11. CASE WorkerTakes(r)
    BY <2>11 DEF WorkerTakes, Leaves
  <2>12. CASE WorkerStarts(r)
    BY <2>12 DEF WorkerStarts, Report, Leaves
  <2>13. CASE WorkerEnds(r)
    BY <2>13 DEF WorkerEnds, Report, Leaves
  <2>14. CASE WorkerErrs(r)
    BY <2>14 DEF WorkerErrs, Report, Leaves
  <2>15. CASE WorkerLeaves(r)
    BY <2>15 DEF WorkerLeaves, Leaves
  <2>16. CASE WorkerDies(r)
    BY <2>16 DEF WorkerDies, Leaves
  <2> QED
    BY <1>3, <2>1, <2>2, <2>3, <2>4, <2>5, <2>6, <2>7, <2>8, <2>9, <2>10, <2>11, <2>12, <2>13,
       <2>14, <2>15, <2>16 DEF RouteStep, WorkerStep
<1> QED
  BY <1>1, <1>2, <1>3 DEF Next

\* Who finds 1 sets the TTL.
LEMMA CounterHolds ==
    ASSUME TypeOK, CounterRunsOut, Next
    PROVE  CounterRunsOut'
<1> USE DEF limiter, jobVars, CounterRunsOut
<1>1. CASE WindowEnds
  BY <1>1 DEF WindowEnds
<1>2. CASE RecordExpires
  BY <1>2 DEF RecordExpires
<1>3. ASSUME NEW r \in Request, RouteStep(r) \/ WorkerStep(r)
      PROVE  CounterRunsOut'
  <2>1. CASE Count(r)
    BY <2>1 DEF Count
  <2>2. CASE SetExpiry(r)
    BY <2>2 DEF SetExpiry
  <2>3. CASE Claim(r)
    BY <2>3 DEF Claim
  <2>4. CASE Look(r)
    BY <2>4 DEF Look
  <2>5. CASE Enqueue(r)
    BY <2>5 DEF Enqueue
  <2>6. CASE Clear(r)
    BY <2>6 DEF Clear
  <2>7. CASE Save(r)
    BY <2>7 DEF Save
  <2>8. CASE SetOwner(r)
    BY <2>8 DEF SetOwner
  <2>9. CASE WriteQueued(r)
    BY <2>9 DEF WriteQueued
  <2>10. CASE Crash(r)
    BY <2>10 DEF Crash
  <2>11. CASE WorkerTakes(r)
    BY <2>11 DEF WorkerTakes, Leaves
  <2>12. CASE WorkerStarts(r)
    BY <2>12 DEF WorkerStarts, Report, Leaves
  <2>13. CASE WorkerEnds(r)
    BY <2>13 DEF WorkerEnds, Report, Leaves
  <2>14. CASE WorkerErrs(r)
    BY <2>14 DEF WorkerErrs, Report, Leaves
  <2>15. CASE WorkerLeaves(r)
    BY <2>15 DEF WorkerLeaves, Leaves
  <2>16. CASE WorkerDies(r)
    BY <2>16 DEF WorkerDies, Leaves
  <2> QED
    BY <1>3, <2>1, <2>2, <2>3, <2>4, <2>5, <2>6, <2>7, <2>8, <2>9, <2>10, <2>11, <2>12, <2>13,
       <2>14, <2>15, <2>16 DEF RouteStep, WorkerStep
<1> QED
  BY <1>1, <1>2, <1>3 DEF Next

\* AnswersAreVisible, StatusIsTrue and CounterRunsOut, from the inductive invariant.
THEOREM ShownHolds == Spec => []ShownInvariant
<1>1. Init => ShownInvariant
  BY DEF Init, ShownInvariant, GivenOut, NotSent, Reported, Reached, CounterRunsOut
<1>2. ShownInvariant /\ [Next]_vars => ShownInvariant'
  <2> SUFFICES ASSUME ShownInvariant, [Next]_vars
               PROVE  ShownInvariant'
    OBVIOUS
  <2>1. CASE UNCHANGED vars
    BY <2>1 DEF vars, limiter, jobVars, ShownInvariant, GivenOut, Visible, NotSent,
             Reported, CounterRunsOut
  <2>2. CASE Next
    <3> HIDE DEF TypeOK
    <3> QED
      BY <2>2, TypesHold, GivenOutHolds, NotSentHolds, ReportedHolds, CounterHolds DEF ShownInvariant
  <2> QED
    BY <2>1, <2>2
<1> QED
  BY <1>1, <1>2, PTL DEF Spec

\* A job id that was given out is found, but for a route that died half way.
THEOREM GivenOutIsVisible == Spec => []AnswersAreVisible
<1>1. ShownInvariant => AnswersAreVisible
  BY DEF ShownInvariant, GivenOut, Visible, AnswersAreVisible, JobStatus
<1> QED
  BY ShownHolds, <1>1, PTL

\* What GET /v1/jobs shows is what became of the job.
THEOREM ShownIsTrue == Spec => []StatusIsTrue
<1>1. ShownInvariant => StatusIsTrue
  BY DEF ShownInvariant, Reported, Reached, StatusIsTrue, JobStatus
<1> QED
  BY ShownHolds, <1>1, PTL

\* Only a death between INCR and EXPIRE leaves a counter that counts for ever.
THEOREM CountersRunOut == Spec => []CounterRunsOut
<1>1. ShownInvariant => CounterRunsOut
  BY DEF ShownInvariant
<1> QED
  BY ShownHolds, <1>1, PTL
=============================================================================
