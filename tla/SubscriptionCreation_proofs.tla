-------------------- MODULE SubscriptionCreation_proofs ---------------------
(***************************************************************************)
(* The invariant of the creation of a subscription, for every set of jobs, *)
(* every limit on their tries and every number of outages.                 *)
(***************************************************************************)
EXTENDS SubscriptionCreation, TLAPS

\* The initial state satisfies the invariant.
LEMMA InitInvariant == Init => CreationInvariant
<1> SUFFICES ASSUME Init PROVE CreationInvariant
    OBVIOUS
<1> USE DEF Init
<1>1. TypeOK
  <2>1. op \in Operation /\ mirror \in Mirror
    BY DEF Operation, OperationStatus, Mirror, NoMirror, Reference, NoReference
  <2>2. loaded \in [Job -> Operation]
    BY <2>1
  <2>3. /\ tries \in [Job -> 1 .. MaxTries]
        /\ mine \in [Job -> Reference]
        /\ want \in [Job -> OperationStatus]
    BY LimitAssumption DEF Reference, NoReference, OperationStatus
  <2>4. asked \in Seq(Job) /\ outages \in 0 .. MaxOutages
    BY LimitAssumption
  <2> QED
    BY <2>1, <2>2, <2>3, <2>4 DEF TypeOK
<1>2. ReferencesExist /\ AnswerKept
  BY DEF ReferencesExist, AnswerKept, Settling, NoMirror, NoReference
<1>3. OneCreationUntilFailure /\ CompletedIsMirrored
  BY DEF OneCreationUntilFailure, CompletedIsMirrored, Calling
<1> QED
  BY <1>1, <1>2, <1>3 DEF CreationInvariant

\* What an exception does to the label and the tries of a job.
LEMMA ExceptionTyping ==
    ASSUME TypeOK, NEW j \in Job, EndsByException(j)
    PROVE  /\ tries' \in [Job -> 1 .. MaxTries]
           /\ \/ pc' = [pc EXCEPT ![j] = "idle"]
              \/ pc' = [pc EXCEPT ![j] = "failed"]
<1>1. tries[j] \in 1 .. MaxTries /\ MaxTries \in Nat
  BY LimitAssumption DEF TypeOK
<1>2. CASE tries[j] < MaxTries /\ tries' = [tries EXCEPT ![j] = @ + 1]
  <2>1. tries[j] + 1 \in 1 .. MaxTries
    BY <1>1, <1>2
  <2> QED
    BY <1>2, <2>1 DEF TypeOK, EndsByException, Goto
<1>3. CASE UNCHANGED tries
  BY <1>3 DEF TypeOK, EndsByException, Goto
<1> QED
  BY <1>2, <1>3 DEF EndsByException

\* One subscription more at the gateway.
LEMMA AskedGrows ==
    ASSUME asked \in Seq(Job), NEW j \in Job, asked' = Append(asked, j)
    PROVE  asked' \in Seq(Job) /\ Len(asked') = Len(asked) + 1 /\ Len(asked) \in Nat
  OBVIOUS

\* What gateway_operation_repo.save writes is an operation, with a reference that was
\* there, and the status of the row or of the job.
LEMMA SavedDoes ==
    ASSUME CreationInvariant, NEW j \in Job
    PROVE  /\ Saved(j) \in Operation /\ Saved(j).ref \in 0 .. Len(asked)
           /\ Saved(j).status = op.status \/ Saved(j).status = want[j]
<1>1. /\ Saved(j).status = op.status \/ Saved(j).status = want[j]
      /\ Saved(j).ref = op.ref \/ Saved(j).ref = mine[j]
      /\ Saved(j) = [status |-> Saved(j).status, ref |-> Saved(j).ref, terms |-> op.terms]
  BY DEF Saved, Column
<1>2. /\ op \in Operation /\ want[j] \in OperationStatus /\ mine[j] \in Reference
      /\ op.ref \in 0 .. Len(asked) /\ mine[j] \in 0 .. Len(asked)
  BY DEF CreationInvariant, TypeOK, ReferencesExist
<1>3. op.status \in OperationStatus /\ op.ref \in Reference /\ op.terms \in Job \cup {Nobody}
  BY <1>2 DEF Operation
<1> QED
  BY <1>1, <1>2, <1>3 DEF Operation

\* A step of the cron that writes neither row keeps it.
LEMMA CronMoves ==
    ASSUME CreationInvariant, UNCHANGED <<asked, rows, jobVars, failed>>,
           cron' \in {"idle", "listed", "reconcile"}, opLock' \in {Cron, Nobody},
           outages' \in 0 .. MaxOutages
    PROVE  CreationInvariant'
<1>1. UNCHANGED <<asked, mirror, payment, op, pc, tries, mine, want, loaded, failed>>
  BY DEF rows, jobVars
<1>2. TypeOK'
  BY <1>1 DEF CreationInvariant, TypeOK
<1>3. ReferencesExist'
  BY <1>1 DEF CreationInvariant, ReferencesExist
<1>4. AnswerKept'
  BY <1>1 DEF CreationInvariant, AnswerKept, Settling
<1>5. OneCreationUntilFailure'
  BY <1>1 DEF CreationInvariant, OneCreationUntilFailure
<1>6. CompletedIsMirrored'
  BY <1>1 DEF CreationInvariant, CompletedIsMirrored
<1> QED
  BY <1>2, <1>3, <1>4, <1>5, <1>6 DEF CreationInvariant

\* So does a job that moves without an answer in hand: to a label outside the
\* creation, or into it once an attempt was recorded as failed.
LEMMA QuietMove ==
    ASSUME CreationInvariant, NEW j \in Job, NEW label \in {"idle"} \cup JobLabel \cup Ended,
           Goto(j, label), label \notin {"settle", "save", "write"}, label = "create" => failed,
           tries' \in [Job -> 1 .. MaxTries],
           mine' = mine \/ mine' = [mine EXCEPT ![j] = NoReference],
           UNCHANGED <<asked, rows, want, loaded, cronVars, failed>>
    PROVE  CreationInvariant'
<1>1. UNCHANGED <<asked, mirror, payment, op, want, loaded, cron, opLock, outages, failed>>
  BY DEF rows, cronVars
<1>2. pc \in [Job -> {"idle"} \cup JobLabel \cup Ended] /\ mine \in [Job -> Reference]
  BY DEF CreationInvariant, TypeOK
<1>3. pc' \in [Job -> {"idle"} \cup JobLabel \cup Ended]
  BY <1>2 DEF Goto
<1>4. mine' \in [Job -> Reference]
  BY <1>2 DEF Reference, NoReference
<1>5. ASSUME NEW i \in Job PROVE (pc'[i] = pc[i] /\ mine'[i] = mine[i]) \/ pc'[i] = label
  BY <1>2 DEF Goto
<1>6. TypeOK'
  BY <1>1, <1>3, <1>4 DEF CreationInvariant, TypeOK
<1>7. ReferencesExist'
  <2>1. Len(asked) \in Nat
    BY DEF CreationInvariant, TypeOK
  <2>2. ASSUME NEW i \in Job PROVE mine'[i] = mine[i] \/ mine'[i] = 0
    BY <1>2 DEF NoReference
  <2>3. ASSUME NEW i \in Job PROVE mine'[i] \in 0 .. Len(asked)
    BY <2>1, <2>2 DEF CreationInvariant, ReferencesExist
  <2> QED
    BY <1>1, <2>3 DEF CreationInvariant, ReferencesExist
<1>8. AnswerKept'
  <2>1. ASSUME NEW i \in Job, Settling(i)' PROVE mine'[i] # NoReference
    <3>1. pc'[i] = pc[i] /\ mine'[i] = mine[i] /\ want'[i] = want[i]
      BY <1>1, <1>5, <2>1 DEF Settling
    <3>2. Settling(i)
      BY <2>1, <3>1 DEF Settling
    <3> QED
      BY <3>1, <3>2 DEF CreationInvariant, AnswerKept
  <2> QED
    BY <1>1, <2>1 DEF CreationInvariant, AnswerKept
<1>9. OneCreationUntilFailure'
  <2> SUFFICES ASSUME ~failed PROVE OneCreationUntilFailure'
    BY <1>1 DEF OneCreationUntilFailure
  <2>1. ASSUME NEW i \in Job
        PROVE  /\ pc'[i] \in Calling => pc[i] \in Calling
               /\ pc'[i] = "create" => pc[i] = "create"
    BY <1>5 DEF Calling
  <2> QED
    BY <1>1, <2>1 DEF CreationInvariant, OneCreationUntilFailure
<1>10. CompletedIsMirrored'
  BY <1>1 DEF CreationInvariant, CompletedIsMirrored
<1> QED
  BY <1>6, <1>7, <1>8, <1>9, <1>10 DEF CreationInvariant

\* So does a job that goes on to save: it says it is settled only if it holds the
\* answer already.
LEMMA SavingMove ==
    ASSUME CreationInvariant, NEW j \in Job, NEW label \in {"save", "write"},
           NEW status \in OperationStatus, Goto(j, label), pc[j] \in Calling,
           status = "COMPLETED" => Settling(j), want' = [want EXCEPT ![j] = status],
           loaded' = loaded \/ loaded' = [loaded EXCEPT ![j] = op],
           UNCHANGED <<asked, rows, tries, mine, cronVars, failed>>
    PROVE  CreationInvariant'
<1>1. UNCHANGED <<asked, mirror, payment, op, tries, mine, cron, opLock, outages, failed>>
  BY DEF rows, cronVars
<1>2. /\ pc \in [Job -> {"idle"} \cup JobLabel \cup Ended]
      /\ want \in [Job -> OperationStatus]
      /\ loaded \in [Job -> Operation] /\ op \in Operation
  BY DEF CreationInvariant, TypeOK
<1>3. pc' \in [Job -> {"idle"} \cup JobLabel \cup Ended]
  BY <1>2 DEF Goto, JobLabel
<1>4. want' \in [Job -> OperationStatus]
  BY <1>2
<1>5. loaded' \in [Job -> Operation]
  BY <1>2
<1>6. TypeOK'
  BY <1>1, <1>3, <1>4, <1>5 DEF CreationInvariant, TypeOK
<1>7. ReferencesExist'
  <2>1. ASSUME NEW i \in Job PROVE loaded'[i] = loaded[i] \/ loaded'[i] = op
    BY <1>2
  <2>2. ASSUME NEW i \in Job PROVE loaded'[i].ref \in 0 .. Len(asked)
    BY <2>1 DEF CreationInvariant, ReferencesExist
  <2> QED
    BY <1>1, <2>2 DEF CreationInvariant, ReferencesExist
<1>8. AnswerKept'
  <2>1. ASSUME NEW i \in Job, Settling(i)' PROVE Settling(i)
    <3>1. CASE i = j
      <4>1. pc'[j] = label /\ want'[j] = status
        BY <1>2 DEF Goto
      <4> QED
        BY <2>1, <3>1, <4>1 DEF Settling
    <3>2. CASE i # j
      <4>1. pc'[i] = pc[i] /\ want'[i] = want[i]
        BY <1>2, <3>2 DEF Goto
      <4> QED
        BY <2>1, <4>1 DEF Settling
    <3> QED
      BY <3>1, <3>2
  <2> QED
    BY <1>1, <2>1 DEF CreationInvariant, AnswerKept
<1>9. OneCreationUntilFailure'
  <2>1. ASSUME NEW i \in Job
        PROVE  /\ pc'[i] \in Calling <=> pc[i] \in Calling
               /\ pc'[i] = "create" => pc[i] = "create"
    <3>1. CASE i = j
      <4>1. pc'[j] = label
        BY <1>2 DEF Goto
      <4> QED
        BY <3>1, <4>1 DEF Calling
    <3>2. CASE i # j
      BY <1>2, <3>2 DEF Goto
    <3> QED
      BY <3>1, <3>2
  <2> QED
    BY <1>1, <2>1 DEF CreationInvariant, OneCreationUntilFailure
<1>10. CompletedIsMirrored'
  BY <1>1 DEF CreationInvariant, CompletedIsMirrored
<1> QED
  BY <1>6, <1>7, <1>8, <1>9, <1>10 DEF CreationInvariant

\* The reads, the crash and the INSERT that meets the unique key are quiet moves.
LEMMA QuietJobs ==
    ASSUME CreationInvariant, NEW j \in Job,
           ReadMirror(j) \/ ReadOperation(j) \/ DuplicateOperation(j) \/ Crash(j)
    PROVE  CreationInvariant'
<1>0. /\ TypeOK /\ tries \in [Job -> 1 .. MaxTries]
      /\ op.status = "FAILED" => failed
      /\ failed \in BOOLEAN
  BY DEF CreationInvariant, TypeOK, OneCreationUntilFailure
<1>1. CASE ReadMirror(j)
  <2>1. PICK label \in {"reserve", "done", "rejected"} : Goto(j, label)
    BY <1>1 DEF ReadMirror
  <2>2. UNCHANGED <<asked, rows, tries, mine, want, loaded, cronVars, failed>>
    BY <1>1 DEF ReadMirror
  <2>3. tries' \in [Job -> 1 .. MaxTries] /\ mine' = mine
    BY <1>0, <2>2
  <2>4. label \in {"idle"} \cup JobLabel \cup Ended
    BY DEF JobLabel, Ended
  <2>5. label \notin {"settle", "save", "write"} /\ label # "create"
    OBVIOUS
  <2> QED
    BY <2>1, <2>2, <2>3, <2>4, <2>5, QuietMove
<1>2. CASE ReadOperation(j)
  <2>1. PICK label \in {"insert", "create", "rejected"} :
             Goto(j, label) /\ (label = "create" => op.status = "FAILED")
    BY <1>2 DEF ReadOperation, MayTryAgain
  <2>2. /\ UNCHANGED <<asked, rows, tries, want, loaded, cronVars, failed>>
        /\ mine' = [mine EXCEPT ![j] = NoReference]
    BY <1>2 DEF ReadOperation
  <2>3. label = "create" => failed
    BY <1>0, <2>1
  <2>4. tries' \in [Job -> 1 .. MaxTries]
    BY <1>0, <2>2
  <2>5. label \in {"idle"} \cup JobLabel \cup Ended
    BY DEF JobLabel, Ended
  <2>6. label \notin {"settle", "save", "write"}
    OBVIOUS
  <2> QED
    BY <2>1, <2>2, <2>3, <2>4, <2>5, <2>6, QuietMove
<1>3. CASE DuplicateOperation(j) \/ Crash(j)
  <2>1. /\ EndsByException(j)
        /\ UNCHANGED <<asked, rows, mine, want, loaded, cronVars, failed>>
    BY <1>3 DEF DuplicateOperation, Crash
  <2>2. tries' \in [Job -> 1 .. MaxTries]
    BY <1>0, <2>1, ExceptionTyping
  <2>3. PICK label \in {"idle", "failed"} : Goto(j, label)
    BY <2>1 DEF EndsByException
  <2>4. mine' = mine /\ UNCHANGED <<asked, rows, want, loaded, cronVars, failed>>
    BY <2>1
  <2>5. label \in {"idle"} \cup JobLabel \cup Ended
    BY DEF Ended
  <2>6. label \notin {"settle", "save", "write"} /\ label # "create"
    OBVIOUS
  <2> QED
    BY <2>2, <2>3, <2>4, <2>5, <2>6, QuietMove
<1> QED
  BY <1>1, <1>2, <1>3

\* What follows the gateway's answer, up to the write, is a move towards the save.
LEMMA SavingJobs ==
    ASSUME CreationInvariant, NEW j \in Job,
           Settle(j) \/ SettleFails(j) \/ LoadOperation(j) \/ DuplicateMirror(j)
    PROVE  CreationInvariant'
<1>0. want \in [Job -> OperationStatus] /\ want[j] \in OperationStatus
  BY DEF CreationInvariant, TypeOK
<1>1. CASE Settle(j)
  <2>1. /\ Goto(j, "save") /\ pc[j] \in Calling /\ Settling(j)
        /\ want' = [want EXCEPT ![j] = "COMPLETED"] /\ UNCHANGED loaded
        /\ UNCHANGED <<asked, rows, tries, mine, cronVars, failed>>
    BY <1>1 DEF Settle, Settling, Calling
  <2> QED
    BY <2>1, SavingMove DEF OperationStatus
<1>2. CASE SettleFails(j) \/ DuplicateMirror(j)
  <2>1. /\ Goto(j, "save") /\ pc[j] \in Calling
        /\ want' = [want EXCEPT ![j] = "REQUIRES_RECONCILIATION"] /\ UNCHANGED loaded
        /\ UNCHANGED <<asked, rows, tries, mine, cronVars, failed>>
    BY <1>2 DEF SettleFails, DuplicateMirror, Settling, Calling
  <2> QED
    BY <2>1, SavingMove DEF OperationStatus
<1>3. CASE LoadOperation(j)
  <2>1. /\ Goto(j, "write") /\ pc[j] = "save" /\ UNCHANGED want
        /\ loaded' = [loaded EXCEPT ![j] = op]
        /\ UNCHANGED <<asked, rows, tries, mine, cronVars, failed>>
    BY <1>3 DEF LoadOperation
  <2>2. want' = [want EXCEPT ![j] = want[j]]
    BY <1>0, <2>1
  <2>3. pc[j] \in Calling /\ (want[j] = "COMPLETED" => Settling(j))
    BY <2>1 DEF Settling, Calling
  <2> QED
    BY <1>0, <2>1, <2>2, <2>3, SavingMove
<1> QED
  BY <1>1, <1>2, <1>3

\* The cron lists and locks, and lets go, without a write.
LEMMA IdleCron ==
    ASSUME CreationInvariant,
           ListOperations \/ LockOperation \/ CannotReconcile \/ ReconcileFails
    PROVE  CreationInvariant'
<1>0. /\ opLock \in {Cron, Nobody} /\ outages \in 0 .. MaxOutages /\ MaxOutages \in Nat
      /\ cron \in {"idle", "listed", "reconcile"}
  BY LimitAssumption DEF CreationInvariant, TypeOK
<1>1. UNCHANGED <<asked, rows, jobVars, failed>>
  BY DEF ListOperations, LockOperation, CannotReconcile, ReconcileFails
<1>2. cron' \in {"idle", "listed", "reconcile"}
  BY DEF ListOperations, LockOperation, CannotReconcile, ReconcileFails
<1>3. opLock' \in {Cron, Nobody}
  BY <1>0 DEF ListOperations, LockOperation, CannotReconcile, ReconcileFails
<1>4. outages' \in 0 .. MaxOutages
  BY <1>0 DEF ListOperations, LockOperation, CannotReconcile, ReconcileFails
<1> QED
  BY <1>1, <1>2, <1>3, <1>4, CronMoves

\* A job that completes was the only one at work, or an attempt had failed before.
LEMMA CompleteHolds ==
    ASSUME CreationInvariant, NEW j \in Job, Complete(j)
    PROVE  CreationInvariant'
<1>1. /\ pc[j] = "write" /\ want[j] = "COMPLETED" /\ op' = Saved(j)
      /\ pc' = [pc EXCEPT ![j] = "done"] /\ payment' = TRUE
      /\ mirror' = [ref |-> mine[j], terms |-> j]
      /\ UNCHANGED <<asked, tries, mine, want, loaded, cron, opLock, outages, failed>>
  BY DEF Complete, Goto, cronVars
<1>2. /\ pc \in [Job -> {"idle"} \cup JobLabel \cup Ended]
      /\ mine[j] \in Reference /\ mine[j] \in 0 .. Len(asked)
  BY DEF CreationInvariant, TypeOK, ReferencesExist
<1>3. mine[j] # NoReference
  BY <1>1 DEF CreationInvariant, AnswerKept, Settling
<1>4. op' \in Operation /\ op'.ref \in 0 .. Len(asked)
  BY <1>1, SavedDoes
<1>5. op'.status = op.status \/ op'.status = "COMPLETED"
  BY <1>1, SavedDoes
<1>6. mirror' \in Mirror /\ mirror'.ref = mine[j]
  BY <1>1, <1>2 DEF Mirror
<1>7. mirror' # NoMirror
  BY <1>3, <1>6 DEF NoMirror
<1>8. pc' \in [Job -> {"idle"} \cup JobLabel \cup Ended]
  BY <1>1, <1>2 DEF Ended
<1>9. ASSUME NEW i \in Job PROVE pc'[i] = pc[i] \/ pc'[i] = "done"
  BY <1>1, <1>2
<1>10. TypeOK'
  BY <1>1, <1>4, <1>6, <1>8 DEF CreationInvariant, TypeOK
<1>11. ReferencesExist'
  BY <1>1, <1>2, <1>4, <1>6 DEF CreationInvariant, ReferencesExist
<1>12. AnswerKept'
  <2>1. ASSUME NEW i \in Job, Settling(i)' PROVE Settling(i)
    BY <1>1, <1>9, <2>1 DEF Settling
  <2> QED
    BY <1>1, <1>3, <1>6, <2>1 DEF CreationInvariant, AnswerKept
<1>13. OneCreationUntilFailure'
  <2> SUFFICES ASSUME ~failed PROVE OneCreationUntilFailure'
    BY <1>1 DEF OneCreationUntilFailure
  <2>1. ASSUME NEW i \in Job
        PROVE  /\ pc'[i] \in Calling => pc[i] \in Calling
               /\ pc'[i] = "create" => pc[i] = "create"
    BY <1>9 DEF Calling
  <2>2. op'.status # "FAILED" /\ (op'.status = "ABSENT" => op.status = "ABSENT")
    BY <1>5 DEF CreationInvariant, OneCreationUntilFailure
  <2> QED
    BY <1>1, <2>1, <2>2 DEF CreationInvariant, OneCreationUntilFailure
<1>14. CompletedIsMirrored'
  BY <1>7 DEF CompletedIsMirrored
<1> QED
  BY <1>10, <1>11, <1>12, <1>13, <1>14 DEF CreationInvariant

\* The operation is reserved by the first of them.
LEMMA InsertHolds ==
    ASSUME CreationInvariant, NEW j \in Job, InsertOperation(j)
    PROVE  CreationInvariant'
<1>1. /\ pc[j] = "insert" /\ op.status = "ABSENT"
      /\ op' = [status |-> "PENDING", ref |-> NoReference, terms |-> j]
      /\ pc' = [pc EXCEPT ![j] = "create"]
      /\ UNCHANGED <<asked, mirror, payment, tries, mine, want, loaded, cron, opLock, outages,
                     failed>>
  BY DEF InsertOperation, Goto, cronVars
<1>2. pc \in [Job -> {"idle"} \cup JobLabel \cup Ended] /\ Len(asked) \in Nat
  BY DEF CreationInvariant, TypeOK
<1>3. ASSUME NEW i \in Job PROVE pc'[i] = IF i = j THEN "create" ELSE pc[i]
  BY <1>1, <1>2
<1>4. op' \in Operation
  BY <1>1 DEF Operation, OperationStatus, Reference, NoReference
<1>5. pc' \in [Job -> {"idle"} \cup JobLabel \cup Ended]
  BY <1>1, <1>2 DEF JobLabel
<1>6. TypeOK'
  BY <1>1, <1>4, <1>5 DEF CreationInvariant, TypeOK
<1>7. ReferencesExist'
  <2>1. op'.ref \in 0 .. Len(asked)
    BY <1>1, <1>2 DEF NoReference
  <2> QED
    BY <1>1, <2>1 DEF CreationInvariant, ReferencesExist
<1>8. AnswerKept'
  <2>1. ASSUME NEW i \in Job, Settling(i)' PROVE Settling(i)
    BY <1>1, <1>3, <2>1 DEF Settling
  <2> QED
    BY <1>1, <2>1 DEF CreationInvariant, AnswerKept
<1>9. OneCreationUntilFailure'
  <2> SUFFICES ASSUME ~failed PROVE OneCreationUntilFailure'
    BY <1>1 DEF OneCreationUntilFailure
  <2>1. asked = <<>> /\ \A i \in Job : pc[i] \notin Calling
    BY <1>1 DEF CreationInvariant, OneCreationUntilFailure
  <2>2. \A i \in Job : pc'[i] \in Calling => i = j
    BY <1>3, <2>1
  <2>3. asked' = <<>> /\ Len(asked') <= 1
    BY <1>1, <2>1
  <2>4. op'.status = "PENDING"
    BY <1>1
  <2> QED
    BY <2>2, <2>3, <2>4 DEF OneCreationUntilFailure
<1>10. CompletedIsMirrored'
  BY <1>1 DEF CompletedIsMirrored
<1> QED
  BY <1>6, <1>7, <1>8, <1>9, <1>10 DEF CreationInvariant

\* A subscription more at the gateway, whose place is the answer of its job.
LEMMA CreateHolds ==
    ASSUME CreationInvariant, NEW j \in Job, CreateAtGateway(j)
    PROVE  CreationInvariant'
<1> USE NameAssumption, LimitAssumption
    DEF CreationInvariant, TypeOK, ReferencesExist, AnswerKept, Settling,
        OneCreationUntilFailure, CompletedIsMirrored, Calling, JobLabel, Ended,
        Operation, OperationStatus, Mirror, NoMirror, Reference, NoReference,
        rows, jobVars, cronVars, Goto
<1>0. asked' \in Seq(Job) /\ Len(asked') = Len(asked) + 1 /\ Len(asked) \in Nat
  BY AskedGrows DEF CreateAtGateway
<1>1. TypeOK'
  <2>1. /\ pc' = [pc EXCEPT ![j] = "settle"] /\ mine' = [mine EXCEPT ![j] = Len(asked')]
        /\ UNCHANGED <<mirror, payment, op, tries, want, loaded, cron, opLock, outages, failed>>
    BY DEF CreateAtGateway
  <2>2. pc' \in [Job -> {"idle"} \cup JobLabel \cup Ended]
    BY <2>1
  <2>3. mine' \in [Job -> Reference]
    BY <1>0, <2>1
  <2> QED
    BY <1>0, <2>1, <2>2, <2>3
<1>2. ReferencesExist' /\ AnswerKept'
  <2>1. UNCHANGED <<mirror, op, loaded>>
    BY DEF CreateAtGateway
  <2>2. 0 .. Len(asked) \subseteq 0 .. Len(asked')
    BY <1>0
  <2>3. mirror'.ref \in 0 .. Len(asked') /\ op'.ref \in 0 .. Len(asked')
    BY <2>1, <2>2
  <2>4. ASSUME NEW i \in Job
        PROVE  /\ mine'[i] \in 0 .. Len(asked') /\ loaded'[i].ref \in 0 .. Len(asked')
               /\ Settling(i)' => mine'[i] # NoReference
    <3>1. mine' = [mine EXCEPT ![j] = Len(asked) + 1]
      BY <1>0 DEF CreateAtGateway
    <3>2. pc' = [pc EXCEPT ![j] = "settle"] /\ UNCHANGED want
      BY DEF CreateAtGateway
    <3>3. mine[i] \in 0 .. Len(asked') /\ loaded'[i].ref \in 0 .. Len(asked')
      BY <2>1, <2>2
    <3>4. CASE i = j
      <4>1. mine'[i] = Len(asked) + 1
        BY <3>1, <3>4
      <4>2. Len(asked) + 1 \in 0 .. Len(asked') /\ Len(asked) + 1 # 0
        BY <1>0
      <4> QED
        BY <3>3, <4>1, <4>2
    <3>5. CASE i # j
      <4>1. mine'[i] = mine[i] /\ pc'[i] = pc[i] /\ want'[i] = want[i]
        BY <3>1, <3>2, <3>5
      <4> QED
        BY <3>3, <4>1
    <3> QED
      BY <3>4, <3>5
  <2>5. AnswerKept'
    BY <2>1, <2>4
  <2> QED
    BY <2>3, <2>4, <2>5 DEF ReferencesExist
<1>3. OneCreationUntilFailure' /\ CompletedIsMirrored'
  BY <1>0 DEF CreateAtGateway
<1> QED
  BY <1>1, <1>2, <1>3

\* The call of the gateway fails, with or without a subscription made.
LEMMA GatewayFailsHolds ==
    ASSUME CreationInvariant, NEW j \in Job, GatewayFails(j)
    PROVE  CreationInvariant'
<1>a. want' = [want EXCEPT ![j] = "FAILED"] /\ want \in [Job -> OperationStatus]
  BY DEF GatewayFails, CreationInvariant, TypeOK
<1>b. want' \in [Job -> OperationStatus]
  BY <1>a DEF OperationStatus
<1>c. asked \in Seq(Job) /\ (asked' = Append(asked, j) \/ asked' = asked)
  BY DEF GatewayFails, CreationInvariant, TypeOK
<1>0. /\ asked' \in Seq(Job) /\ Len(asked) \in Nat
      /\ Len(asked') \in {Len(asked), Len(asked) + 1}
  BY <1>c, AskedGrows
<1> USE NameAssumption, LimitAssumption
    DEF CreationInvariant, TypeOK, ReferencesExist, AnswerKept, Settling,
        OneCreationUntilFailure, CompletedIsMirrored, Calling, JobLabel, Ended,
        Operation, OperationStatus, Mirror, NoMirror, Reference, NoReference,
        rows, jobVars, cronVars, Goto
<1>1. TypeOK'
  <2>1. /\ pc' = [pc EXCEPT ![j] = "save"]
        /\ want' = [want EXCEPT ![j] = "FAILED"]
        /\ UNCHANGED <<mirror, payment, op, tries, mine, loaded, cron, opLock, outages, failed>>
    BY DEF GatewayFails
  <2>2. pc' \in [Job -> {"idle"} \cup JobLabel \cup Ended]
    BY <2>1
  <2> QED
    BY <1>0, <1>b, <2>1, <2>2
<1>2. ReferencesExist' /\ AnswerKept'
  <2>1. UNCHANGED <<mirror, op, loaded>>
    BY DEF GatewayFails
  <2>2. 0 .. Len(asked) \subseteq 0 .. Len(asked')
    BY <1>0
  <2>3. mirror'.ref \in 0 .. Len(asked') /\ op'.ref \in 0 .. Len(asked')
    BY <2>1, <2>2
  <2>4. ASSUME NEW i \in Job
        PROVE  mine'[i] \in 0 .. Len(asked') /\ loaded'[i].ref \in 0 .. Len(asked')
    <3>1. mine'[i] = mine[i] /\ loaded'[i] = loaded[i]
      BY DEF GatewayFails
    <3> QED
      BY <2>2, <3>1
  <2>5. AnswerKept'
    <3>1. ASSUME NEW i \in Job, Settling(i)' PROVE mine'[i] # NoReference
      <4>1. Settling(i) /\ mine'[i] = mine[i]
        BY <3>1 DEF GatewayFails
      <4> QED
        BY <4>1
    <3> QED
      BY <2>1, <3>1
  <2> QED
    BY <2>3, <2>4, <2>5 DEF ReferencesExist
<1>3. OneCreationUntilFailure' /\ CompletedIsMirrored'
  BY <1>0 DEF GatewayFails
<1> QED
  BY <1>1, <1>2, <1>3

\* The operation is left to the cron.
LEMMA MarkForReconciliationHolds ==
    ASSUME CreationInvariant, NEW j \in Job, MarkForReconciliation(j)
    PROVE  CreationInvariant'
<1> USE NameAssumption, LimitAssumption
    DEF CreationInvariant, TypeOK, ReferencesExist, AnswerKept, Settling,
        OneCreationUntilFailure, CompletedIsMirrored, Calling, JobLabel, Ended,
        Operation, OperationStatus, Mirror, NoMirror, Reference, NoReference,
        rows, jobVars, cronVars, Goto
<1>1. /\ pc[j] = "write" /\ want[j] = "REQUIRES_RECONCILIATION"
      /\ pc' = [pc EXCEPT ![j] = "rejected"] /\ op' = Saved(j)
      /\ UNCHANGED <<asked, mirror, payment, tries, mine, want, loaded, cron, opLock, outages,
                     failed>>
  BY DEF MarkForReconciliation
<1>2. op' \in Operation /\ op'.ref \in 0 .. Len(asked)
      /\ (op'.status = op.status \/ op'.status = "REQUIRES_RECONCILIATION")
  BY <1>1, SavedDoes
<1>3. TypeOK'
  <2> HIDE DEF Operation
  <2>1. pc' \in [Job -> {"idle"} \cup JobLabel \cup Ended]
    BY <1>1
  <2> QED
    BY <1>1, <1>2, <2>1
<1>4. \A i \in Job : i # j => pc'[i] = pc[i]
  BY <1>1
<1>5. pc'[j] = "rejected"
  BY <1>1
<1>6. ReferencesExist'
  BY <1>1, <1>2
<1>7. AnswerKept'
  BY <1>1, <1>4, <1>5
<1>8. OneCreationUntilFailure'
  <2> SUFFICES ASSUME ~failed PROVE OneCreationUntilFailure'
    BY <1>1
  <2>1. \A i \in Job : pc'[i] = pc[i] \/ pc'[i] = "rejected"
    BY <1>4, <1>5
  <2>2. op'.status # "FAILED" /\ (op'.status = "ABSENT" => op.status = "ABSENT")
    BY <1>2
  <2> QED
    BY <1>1, <2>1, <2>2
<1>9. CompletedIsMirrored'
  BY <1>1, <1>2
<1> QED
  BY <1>3, <1>6, <1>7, <1>8, <1>9

\* The attempt is recorded as failed.
LEMMA MarkFailedHolds ==
    ASSUME CreationInvariant, NEW j \in Job, MarkFailed(j)
    PROVE  CreationInvariant'
<1> USE NameAssumption, LimitAssumption
    DEF CreationInvariant, TypeOK, ReferencesExist, AnswerKept, Settling,
        OneCreationUntilFailure, CompletedIsMirrored, Calling, JobLabel, Ended,
        Operation, OperationStatus, Mirror, NoMirror, Reference, NoReference,
        rows, jobVars, cronVars, Goto
<1>0. /\ tries' \in [Job -> 1 .. MaxTries]
        /\ \/ pc' = [pc EXCEPT ![j] = "idle"]
           \/ pc' = [pc EXCEPT ![j] = "failed"]
  BY ExceptionTyping DEF MarkFailed, Saved, Column
<1>1. TypeOK'
  <2>1. UNCHANGED <<asked, mirror, payment, mine, want, loaded, cron, opLock, outages>>
    BY DEF MarkFailed
  <2>2. op' = Saved(j) /\ failed' = TRUE
    BY DEF MarkFailed
  <2>3. op' \in Operation
    BY <2>2 DEF Saved, Column
  <2>4. pc' \in [Job -> {"idle"} \cup JobLabel \cup Ended]
    BY <1>0
  <2> QED
    BY <1>0, <2>1, <2>2, <2>3, <2>4
<1>2. /\ op' = Saved(j) /\ failed' = TRUE /\ want[j] = "FAILED"
      /\ UNCHANGED <<asked, mirror, mine, want, loaded>>
  BY DEF MarkFailed
<1>3. op'.ref \in 0 .. Len(asked) /\ (op'.status = op.status \/ op'.status = "FAILED")
  BY <1>2, SavedDoes
<1>4. \A i \in Job : pc'[i] = pc[i] \/ pc'[i] \in {"idle", "failed"}
  BY <1>0
<1>5. ReferencesExist'
  BY <1>2, <1>3
<1>6. AnswerKept'
  BY <1>2, <1>4
<1>7. OneCreationUntilFailure' /\ CompletedIsMirrored'
  BY <1>2, <1>3
<1> QED
  BY <1>1, <1>5, <1>6, <1>7

\* The cron completes the operation, with its subscription.
LEMMA ReconcileHolds ==
    ASSUME CreationInvariant, Reconcile
    PROVE  CreationInvariant'
<1> USE NameAssumption, LimitAssumption
    DEF CreationInvariant, TypeOK, ReferencesExist, AnswerKept, Settling,
        OneCreationUntilFailure, CompletedIsMirrored, Calling, JobLabel, Ended,
        Operation, OperationStatus, Mirror, NoMirror, Reference, NoReference,
        rows, jobVars, cronVars, Goto
<1>1. /\ op' = [op EXCEPT !.status = "COMPLETED"]
      /\ op.ref # NoReference
      /\ cron' = "idle" /\ opLock' = Nobody
      /\ UNCHANGED <<asked, payment, pc, tries, mine, want, loaded, outages, failed>>
  BY DEF Reconcile, CanBeMirrored
<1>2. \/ mirror = NoMirror /\ mirror' = [ref |-> op.ref, terms |-> op.terms]
      \/ mirror # NoMirror /\ mirror' = mirror
  BY DEF Reconcile
<1>3. op' \in Operation /\ mirror' \in Mirror
  <2>1. op \in Operation /\ mirror \in Mirror
    OBVIOUS
  <2>2. op' \in Operation
    BY <1>1, <2>1
  <2>3. [ref |-> op.ref, terms |-> op.terms] \in Mirror
    BY <2>1
  <2> QED
    BY <1>2, <2>1, <2>2, <2>3
<1>4. mirror'.ref \in 0 .. Len(asked) /\ op'.ref = op.ref /\ mirror' # NoMirror
  BY <1>1, <1>2
<1>5. TypeOK'
  BY <1>1, <1>3
<1>6. ReferencesExist' /\ AnswerKept'
  BY <1>1, <1>2, <1>4
<1>7. OneCreationUntilFailure' /\ CompletedIsMirrored'
  BY <1>1, <1>4
<1> QED
  BY <1>5, <1>6, <1>7

\* Every step keeps it.
LEMMA StepInvariant == CreationInvariant /\ [Next]_vars => CreationInvariant'
<1> SUFFICES ASSUME CreationInvariant, [Next]_vars PROVE CreationInvariant'
    OBVIOUS
<1>1. ASSUME NEW j \in Job, JobStep(j) PROVE CreationInvariant'
  <2>1. CASE ReadMirror(j) \/ ReadOperation(j) \/ DuplicateOperation(j)
    BY <2>1, QuietJobs
  <2>2. CASE InsertOperation(j)
    BY <2>2, InsertHolds
  <2>3. CASE CreateAtGateway(j)
    BY <2>3, CreateHolds
  <2>4. CASE GatewayFails(j)
    BY <2>4, GatewayFailsHolds
  <2>5. CASE Settle(j) \/ LoadOperation(j) \/ DuplicateMirror(j)
    BY <2>5, SavingJobs
  <2>6. CASE Complete(j)
    BY <2>6, CompleteHolds
  <2>7. CASE MarkForReconciliation(j)
    BY <2>7, MarkForReconciliationHolds
  <2>8. CASE MarkFailed(j)
    BY <2>8, MarkFailedHolds
  <2> QED
    BY <1>1, <2>1, <2>2, <2>3, <2>4, <2>5, <2>6, <2>7, <2>8 DEF JobStep
<1>2. ASSUME NEW j \in Job, SettleFails(j) PROVE CreationInvariant'
  BY <1>2, SavingJobs
<1>3. ASSUME NEW j \in Job, Crash(j) PROVE CreationInvariant'
  BY <1>3, QuietJobs
<1>4. CASE ListOperations \/ LockOperation \/ CannotReconcile \/ ReconcileFails
  BY <1>4, IdleCron
<1>5. CASE Reconcile
  BY <1>5, ReconcileHolds
<1>6. CASE AllEnded \/ UNCHANGED vars
  <2>1. /\ UNCHANGED <<asked, rows, jobVars, failed>>
        /\ UNCHANGED <<cron, opLock, outages>>
    BY <1>6 DEF AllEnded, vars, cronVars
  <2>2. /\ cron' \in {"idle", "listed", "reconcile"} /\ opLock' \in {Cron, Nobody}
        /\ outages' \in 0 .. MaxOutages
    BY <2>1 DEF CreationInvariant, TypeOK
  <2> QED
    BY <2>1, <2>2, CronMoves
<1> QED
  BY <1>1, <1>2, <1>3, <1>4, <1>5, <1>6 DEF Next, CronStep

\* The inductive invariant of the creation holds in every reachable state.
THEOREM InvariantHolds == Spec => []CreationInvariant
<1> QED
  BY InitInvariant, StepInvariant, PTL DEF Spec

\* Until an attempt is recorded as failed, however many requests arrive at once
\* and wherever they crash, the gateway makes one subscription at most.
THEOREM OneCreation == Spec => []OneCreationUntilFailure
<1>1. CreationInvariant => OneCreationUntilFailure
  BY DEF CreationInvariant
<1> QED
  BY InvariantHolds, <1>1, PTL

\* A completed operation has its subscription.
THEOREM CompletedHasMirror == Spec => []CompletedIsMirrored
<1>1. CreationInvariant => CompletedIsMirrored
  BY DEF CreationInvariant
<1> QED
  BY InvariantHolds, <1>1, PTL

\* The first subscription committed is the answer to every later request.
THEOREM MirrorIsKept == Spec => MirrorStays
<1>1. CreationInvariant /\ [Next]_vars => [mirror # NoMirror => mirror' = mirror]_vars
  <2> USE DEF rows
  <2>1. ASSUME NEW j \in Job, JobStep(j) \/ SettleFails(j) \/ Crash(j)
        PROVE  mirror # NoMirror => mirror' = mirror
    BY <2>1 DEF JobStep, ReadMirror, ReadOperation, InsertOperation, DuplicateOperation,
        CreateAtGateway, GatewayFails, Settle, SettleFails, LoadOperation, Complete,
        DuplicateMirror, MarkForReconciliation, MarkFailed, Crash
  <2>2. ASSUME CronStep \/ ReconcileFails \/ AllEnded
        PROVE  mirror # NoMirror => mirror' = mirror
    BY <2>2 DEF CronStep, ListOperations, LockOperation, Reconcile, CannotReconcile,
        ReconcileFails, AllEnded, vars
  <2> QED
    BY <2>1, <2>2 DEF Next
<1> QED
  BY InvariantHolds, <1>1, PTL DEF Spec, MirrorStays
=============================================================================
