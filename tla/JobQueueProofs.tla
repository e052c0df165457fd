--------------------------- MODULE JobQueueProofs ---------------------------
(***************************************************************************)
(* Theorems about JobQueue, for both drivers and any sets of tasks,        *)
(* invocations and (finitely many) workers.  That every task settles is    *)
(* a matter of fairness and is left to TLC.                                *)
(***************************************************************************)
EXTENDS JobQueue, FiniteSetTheorems, TLAPS

(* What the processes that take jobs do, Bull's stalled check included. *)
WorkerStep ==
  \/ \E w \in Workers, j \in Jobs : Take(w, j)
  \/ \E w \in Workers : Run(w) \/ Return(w) \/ Throw(w)
  \/ \E p \in Processes : Crash(p) \/ Freeze(p) \/ Thaw(p)
  \/ \E j \in Jobs : StalledCheck(j)

(* Every step is one of these. *)
LEMMA NextCases ==
  ASSUME [Next]_vars
  PROVE  \/ \E t \in Tasks : Submit(t)
         \/ \E i \in Lambdas, b \in SUBSET Tasks : ReceiveBatch(i, b)
         \/ \E i \in Lambdas, t \in Tasks : Forward(i, t)
         \/ \E i \in Lambdas : FinishBatch(i)
         \/ \E i \in Lambdas : AbortBatch(i)
         \/ \E t \in Tasks : VisibilityExpire(t)
         \/ WorkerStep
         \/ UNCHANGED vars
BY DEF Next, Invocation, Work, Disturb, WorkerStep

(* AddJob takes one unused job and nothing else. *)
LEMMA AddJobTakes ==
  ASSUME NEW t \in Tasks, AddJob(t)
  PROVE  \E j \in Jobs :
           /\ status[j] = "unused"
           /\ status' = [status EXCEPT ![j] = "waiting"]
           /\ of' = [of EXCEPT ![j] = t]
           /\ UNCHANGED <<stalls, holder>>
BY DEF AddJob

(* A lock is only ever on a job that is being worked on. *)
LockedIsActive == \A j \in Jobs : holder[j] # {} => status[j] = "active"

(* The step of a worker never makes a job or forgets one. *)
LEMMA WorkersMakeNoJob ==
  ASSUME TypeOK, LockedIsActive, WorkerStep
  PROVE  /\ UNCHANGED <<accepted, sqsVars, of>>
         /\ status' \in [Jobs -> Statuses]
         /\ \A j \in Jobs : status'[j] = "unused" <=> status[j] = "unused"
<1>1. ASSUME NEW w \in Workers, NEW j \in Jobs, Take(w, j)
      PROVE  /\ UNCHANGED <<accepted, sqsVars, of>>
             /\ status' \in [Jobs -> Statuses]
             /\ \A k \in Jobs : status'[k] = "unused" <=> status[k] = "unused"
  BY <1>1 DEF TypeOK, Take, Statuses
<1>2. ASSUME NEW w \in Workers, Return(w) \/ Throw(w)
      PROVE  /\ UNCHANGED <<accepted, sqsVars, of>>
             /\ status' \in [Jobs -> Statuses]
             /\ \A k \in Jobs : status'[k] = "unused" <=> status[k] = "unused"
  <2>1. PICK outcome \in {"completed", "failed"} : Settle(w, outcome)
    BY <1>2 DEF Return, Throw
  <2>2. doing[w] \in Jobs
    BY <1>2 DEF TypeOK, Return, Throw, Busy
  <2>3. CASE w \in holder[doing[w]]
    BY <2>1, <2>2, <2>3 DEF TypeOK, LockedIsActive, Settle, Statuses
  <2>4. CASE w \notin holder[doing[w]]
    BY <2>1, <2>2, <2>4 DEF TypeOK, Settle
  <2>5. QED
    BY <2>3, <2>4
<1>3. ASSUME \/ \E w \in Workers : Run(w)
             \/ \E p \in Processes : Crash(p) \/ Freeze(p) \/ Thaw(p)
      PROVE  UNCHANGED <<accepted, sqsVars, of, status>>
  BY <1>3 DEF Run, Crash, Stop, Freeze, Thaw, jobVars
<1>4. ASSUME NEW j \in Jobs, StalledCheck(j)
      PROVE  /\ UNCHANGED <<accepted, sqsVars, of>>
             /\ status' \in [Jobs -> Statuses]
             /\ \A k \in Jobs : status'[k] = "unused" <=> status[k] = "unused"
  BY <1>4 DEF TypeOK, StalledCheck, Statuses
<1>5. QED
  BY <1>1, <1>2, <1>3, <1>4 DEF WorkerStep, TypeOK

-----------------------------------------------------------------------------
(* The part of the types that concerns locks, workers and effects. *)
WorkerTypes ==
  /\ stalls \in [Jobs -> 0..MaxStalls]
  /\ holder \in [Jobs -> {{}} \cup Processes]
  /\ doing \in [Workers -> {0} \cup Jobs] /\ ran \in [Workers -> BOOLEAN]
  /\ frozen \subseteq Freezable
  /\ effects \in [Jobs -> Nat] /\ threw \subseteq Jobs
  /\ faults \in 0..MaxFaults

LEMMA WorkerTypesStep ==
  ASSUME TypeOK, WorkerStep
  PROVE  WorkerTypes'
<1> USE BoundsAssumption, WorkersAssumption DEF TypeOK, WorkerTypes, jobVars, workerVars
<1>1. Fault => faults' \in 0..MaxFaults
  BY DEF Fault
<1>2. ASSUME NEW w \in Workers, NEW j \in Jobs, Take(w, j)
      PROVE  WorkerTypes'
  BY <1>2 DEF Take
<1>3. ASSUME NEW w \in Workers, Run(w)
      PROVE  WorkerTypes'
  <2>1. doing[w] \in Jobs
    BY <1>3 DEF Run, Busy
  <2>2. QED
    BY <1>3, <2>1 DEF Run
<1>4. ASSUME NEW w \in Workers, Return(w) \/ Throw(w)
      PROVE  WorkerTypes'
  <2>1. doing[w] \in Jobs
    BY <1>4 DEF Return, Throw, Busy
  <2>2. threw' \subseteq Jobs /\ faults' \in 0..MaxFaults
    BY <1>1, <1>4, <2>1 DEF Return, Throw
  <2>3. PICK outcome \in {"completed", "failed"} : Settle(w, outcome)
    BY <1>4 DEF Return, Throw
  <2>4. holder' \in [Jobs -> {{}} \cup Processes]
    BY <2>1, <2>3 DEF Settle
  <2>5. QED
    BY <2>2, <2>3, <2>4 DEF Settle
<1>5. ASSUME NEW p \in Processes, Crash(p)
      PROVE  WorkerTypes'
  <2>1. doing' \in [Workers -> {0} \cup Jobs] /\ ran' \in [Workers -> BOOLEAN]
    BY <1>5 DEF Crash, Stop
  <2>2. holder' \in [Jobs -> {{}} \cup Processes]
    BY <1>5 DEF Crash, Unlocked
  <2>3. QED
    BY <1>1, <1>5, <2>1, <2>2 DEF Crash, Stop
<1>6. ASSUME NEW p \in Processes, Freeze(p)
      PROVE  WorkerTypes'
  BY <1>1, <1>6 DEF Freeze
<1>7. ASSUME NEW p \in Processes, Thaw(p)
      PROVE  WorkerTypes'
  BY <1>7 DEF Thaw, Unlocked
<1>8. ASSUME NEW j \in Jobs, StalledCheck(j)
      PROVE  WorkerTypes'
  <2>1. stalls' \in [Jobs -> 0..MaxStalls]
    BY <1>8 DEF StalledCheck
  <2>2. QED
    BY <1>8, <2>1 DEF StalledCheck
<1>9. QED
  BY <1>2, <1>3, <1>4, <1>5, <1>6, <1>7, <1>8 DEF WorkerStep

(* Every variable keeps its type. *)
LEMMA TypeStep ==
  ASSUME TypeOK, LockedIsActive, [Next]_vars
  PROVE  TypeOK'
<1>1. ASSUME NEW t \in Tasks, AddJob(t),
             UNCHANGED <<receives, workerVars, effects, threw, faults, hidden, batch>>,
             accepted' \subseteq Tasks, inbox' = inbox,
             todo' \in [Lambdas -> SUBSET Tasks]
      PROVE  TypeOK'
  BY <1>1, AddJobTakes DEF TypeOK, Statuses, workerVars
<1>2. ASSUME NEW t \in Tasks, Submit(t)
      PROVE  TypeOK'
  <2>1. CASE Driver = "bull"
    BY <1>1, <1>2, <2>1, DriverAssumption DEF TypeOK, Submit
  <2>2. CASE Driver = "sqs"
    BY <1>2, <2>2, DriverAssumption DEF TypeOK, Submit, jobVars, workerVars
  <2>3. QED
    BY <2>1, <2>2, DriverAssumption
<1>3. ASSUME NEW i \in Lambdas, NEW b \in SUBSET Tasks, ReceiveBatch(i, b)
      PROVE  TypeOK'
  BY <1>3 DEF TypeOK, ReceiveBatch, jobVars, workerVars
<1>4. ASSUME NEW i \in Lambdas, NEW t \in Tasks, Forward(i, t)
      PROVE  TypeOK'
  <2>1. CASE AddJob(t)
    BY <1>1, <1>4, <2>1 DEF TypeOK, Forward
  <2>2. CASE UNCHANGED jobVars
    BY <1>4, <2>2 DEF TypeOK, Forward, jobVars, workerVars
  <2>3. QED
    BY <1>4, <2>1, <2>2 DEF Forward
<1>5. ASSUME NEW i \in Lambdas, FinishBatch(i) \/ AbortBatch(i)
      PROVE  TypeOK'
  <2>1. faults' \in 0..MaxFaults
    BY <1>5, BoundsAssumption DEF TypeOK, FinishBatch, AbortBatch, Fault
  <2>2. /\ inbox' \subseteq Tasks /\ hidden' \subseteq Tasks
        /\ batch' \in [Lambdas -> SUBSET Tasks] /\ todo' \in [Lambdas -> SUBSET Tasks]
        /\ UNCHANGED <<accepted, receives, jobVars, workerVars, effects, threw>>
    BY <1>5 DEF TypeOK, FinishBatch, AbortBatch, EndBatch
  <2>3. QED
    BY <2>1, <2>2 DEF TypeOK, jobVars, workerVars
<1>6. ASSUME NEW t \in Tasks, VisibilityExpire(t)
      PROVE  TypeOK'
  <2>1. faults' \in 0..MaxFaults
    BY <1>6, BoundsAssumption DEF TypeOK, VisibilityExpire, Fault
  <2>2. QED
    BY <1>6, <2>1 DEF TypeOK, VisibilityExpire, jobVars, workerVars
<1>7. CASE WorkerStep
  <2>1. /\ UNCHANGED <<accepted, sqsVars, of>>
        /\ status' \in [Jobs -> Statuses]
        /\ \A j \in Jobs : status'[j] = "unused" <=> status[j] = "unused"
    BY <1>7, WorkersMakeNoJob
  <2>2. WorkerTypes'
    BY <1>7, WorkerTypesStep
  <2>3. QED
    BY <2>1, <2>2 DEF TypeOK, WorkerTypes, sqsVars
<1>8. CASE UNCHANGED vars
  BY <1>8 DEF TypeOK, vars, sqsVars, jobVars, workerVars
<1>9. QED
  BY <1>2, <1>3, <1>4, <1>5, <1>6, <1>7, <1>8, NextCases

-----------------------------------------------------------------------------
(* A worker that is past the point where the task is done has done it. *)
RanHasEffect ==
  \A w \in Workers : doing[w] \in Jobs /\ ran[w] => effects[doing[w]] >= 1

JobInv == LockedIsActive /\ RanHasEffect /\ OutcomeExplained

SettledStaysStep ==
  \A j \in Jobs : status[j] \in {"completed", "failed"} => status'[j] = status[j]

(* A new job disturbs neither the jobs there are nor the workers. *)
LEMMA NewJobKeeps ==
  ASSUME TypeOK, JobInv, NEW t \in Tasks, AddJob(t),
         UNCHANGED <<workerVars, effects, threw>>
  PROVE  JobInv' /\ SettledStaysStep
<1> PICK j \in Jobs :
       /\ status[j] = "unused"
       /\ status' = [status EXCEPT ![j] = "waiting"]
       /\ of' = [of EXCEPT ![j] = t]
       /\ UNCHANGED <<stalls, holder>>
  BY AddJobTakes
<1>1. QED
  BY DEF TypeOK, JobInv, LockedIsActive, RanHasEffect, OutcomeExplained,
         SettledStaysStep, workerVars

(* A worker settles a job only if its lock is on it, hence only once. *)
LEMMA SettleKeeps ==
  ASSUME TypeOK, JobInv, NEW w \in Workers, Return(w) \/ Throw(w)
  PROVE  JobInv' /\ SettledStaysStep
<1> DEFINE j == doing[w]
<1>1. j \in Jobs
  BY DEF TypeOK, Return, Throw, Busy
<1>2. PICK outcome \in {"completed", "failed"} :
         /\ Settle(w, outcome)
         /\ outcome = "completed" => effects[j] >= 1
         /\ outcome = "failed" => j \in threw'
  BY <1>1 DEF TypeOK, JobInv, RanHasEffect, Return, Throw
<1>3. threw \subseteq threw' /\ effects' = effects /\ stalls' = stalls
  BY <1>2 DEF Return, Throw, Settle
<1>4. /\ doing' = [doing EXCEPT ![w] = 0] /\ ran' = [ran EXCEPT ![w] = FALSE]
  BY <1>2 DEF Settle
<1>5. RanHasEffect'
  BY <1>3, <1>4 DEF TypeOK, JobInv, RanHasEffect, Jobs
<1>6. CASE w \in holder[j]
  <2>1. /\ status' = [status EXCEPT ![j] = outcome]
        /\ holder' = [holder EXCEPT ![j] = {}]
    BY <1>2, <1>6 DEF Settle
  <2>2. status[j] = "active"
    BY <1>1, <1>6 DEF JobInv, LockedIsActive
  <2>3. LockedIsActive' /\ SettledStaysStep
    BY <1>1, <2>1, <2>2, WorkersAssumption
       DEF TypeOK, JobInv, LockedIsActive, SettledStaysStep
  <2>4. OutcomeExplained'
    BY <1>1, <1>2, <1>3, <2>1 DEF TypeOK, JobInv, OutcomeExplained
  <2>5. QED
    BY <1>5, <2>3, <2>4 DEF JobInv
<1>7. CASE w \notin holder[j]
  <2>1. UNCHANGED <<status, holder>>
    BY <1>2, <1>7 DEF Settle
  <2>2. QED
    BY <1>3, <1>5, <2>1
       DEF JobInv, LockedIsActive, OutcomeExplained, SettledStaysStep
<1>8. QED
  BY <1>6, <1>7

LEMMA JobStep ==
  ASSUME TypeOK, JobInv, [Next]_vars
  PROVE  JobInv' /\ SettledStaysStep
<1> USE DEF JobInv, LockedIsActive, RanHasEffect, OutcomeExplained, SettledStaysStep
<1>1. CASE UNCHANGED <<jobVars, workerVars, effects, threw>>
  BY <1>1 DEF jobVars, workerVars
<1>2. ASSUME NEW t \in Tasks, AddJob(t), UNCHANGED <<workerVars, effects, threw>>
      PROVE  JobInv' /\ SettledStaysStep
  BY <1>2, NewJobKeeps
<1>3. ASSUME NEW w \in Workers, NEW j \in Jobs, Take(w, j)
      PROVE  JobInv' /\ SettledStaysStep
  BY <1>3 DEF TypeOK, Take
<1>4. ASSUME NEW w \in Workers, Run(w)
      PROVE  JobInv' /\ SettledStaysStep
  <2>1. /\ doing[w] \in Jobs /\ UNCHANGED <<jobVars, doing, threw>>
        /\ effects' = [effects EXCEPT ![doing[w]] = @ + 1]
        /\ ran' = [ran EXCEPT ![w] = TRUE]
    BY <1>4 DEF TypeOK, Run, Busy
  <2>2. \A j \in Jobs : effects[j] \in Nat /\ effects'[j] \in {effects[j], effects[j] + 1}
    BY <2>1 DEF TypeOK
  <2>3. effects'[doing[w]] = effects[doing[w]] + 1
    BY <2>1 DEF TypeOK
  <2>4. RanHasEffect'
    BY <2>1, <2>2, <2>3 DEF TypeOK
  <2>5. OutcomeExplained'
    BY <2>1, <2>2 DEF jobVars
  <2>6. QED
    BY <2>1, <2>4, <2>5 DEF jobVars
<1>5. ASSUME NEW w \in Workers, Return(w) \/ Throw(w)
      PROVE  JobInv' /\ SettledStaysStep
  BY <1>5, SettleKeeps
<1>6. ASSUME NEW p \in Processes, Crash(p) \/ Thaw(p)
      PROVE  JobInv' /\ SettledStaysStep
  <2>1. UNCHANGED <<status, stalls, effects, threw>>
    BY <1>6 DEF Crash, Stop, Thaw
  <2>2. \A j \in Jobs : holder'[j] \in {holder[j], {}}
    BY <1>6 DEF Crash, Thaw, Unlocked
  <2>3. \A w \in Workers : doing'[w] = 0 \/ (doing'[w] = doing[w] /\ ran'[w] = ran[w])
    BY <1>6 DEF Crash, Stop, Thaw, TypeOK
  <2>4. RanHasEffect'
    BY <2>1, <2>3 DEF Jobs
  <2>5. QED
    BY <2>1, <2>2, <2>4
<1>7. ASSUME NEW p \in Processes, Freeze(p)
      PROVE  JobInv' /\ SettledStaysStep
  BY <1>7 DEF Freeze, jobVars
<1>8. ASSUME NEW j \in Jobs, StalledCheck(j)
      PROVE  JobInv' /\ SettledStaysStep
  <2>1. stalls[j] \in 0..MaxStalls
    BY DEF TypeOK
  <2>2. QED
    BY <1>8, <2>1, WorkersAssumption, BoundsAssumption DEF TypeOK, StalledCheck, workerVars
<1>9. QED
  BY <1>1, <1>2, <1>3, <1>4, <1>5, <1>6, <1>7, <1>8, NextCases, DriverAssumption
     DEF Submit, ReceiveBatch, Forward, FinishBatch, AbortBatch, EndBatch,
         VisibilityExpire, WorkerStep, vars

(* The types and the invariant of the jobs. *)
THEOREM JobInvariant == Spec => [](TypeOK /\ JobInv)
<1>1. Init => TypeOK /\ JobInv
  BY BoundsAssumption, WorkersAssumption
     DEF Init, TypeOK, JobInv, LockedIsActive, RanHasEffect, OutcomeExplained,
         Statuses, Jobs
<1>2. TypeOK /\ JobInv /\ [Next]_vars => TypeOK' /\ JobInv'
  BY TypeStep, JobStep DEF JobInv
<1>3. QED
  BY <1>1, <1>2, PTL DEF Spec

(* Every variable keeps its type. *)
THEOREM TypeCorrect == Spec => []TypeOK
BY JobInvariant, PTL

(* A completed job was carried out; a failed one threw or stalled too often. *)
THEOREM Outcomes == Spec => []OutcomeExplained
<1>1. JobInv => OutcomeExplained
  BY DEF JobInv
<1>2. QED
  BY <1>1, JobInvariant, PTL

(* A worker that comes late cannot move a job that has come to its end. *)
THEOREM SettledForGood == Spec => SettledStays
<1>1. TypeOK /\ JobInv /\ [Next]_vars => SettledStaysStep
  BY JobStep
<1>2. QED
  BY <1>1, JobInvariant, PTL DEF Spec, SettledStays, SettledStaysStep

-----------------------------------------------------------------------------
(* The records a Lambda is done with have their job already, if it Forwards, *)
(* so that it may delete the batch; with the Bull driver SQS is not used.     *)
QueueInv ==
  /\ \A i \in Lambdas : todo[i] \subseteq batch[i]
  /\ Driver = "bull" => inbox = {} /\ \A i \in Lambdas : batch[i] = {}
  /\ Forwards => /\ \A i \in Lambdas : \A t \in batch[i] \ todo[i] : HasJob(t)
                 /\ NothingLost

(* The invocations that have yet to make a job out of their record of t, and *)
(* what jobs and records of t there may be together: one for its add with    *)
(* the driver bull, one per delivery with sqs.                               *)
Carriers(t) == {i \in Lambdas : t \in todo[i]}
Due(t) == IF Driver = "bull" THEN (IF t \in accepted THEN 1 ELSE 0) ELSE receives[t]
Outstanding(t) == Cardinality(JobsOf(t)) + Cardinality(Carriers(t))

DeliveryInv ==
  \A t \in Tasks : IsFiniteSet(Carriers(t)) /\ Outstanding(t) <= Due(t)

LEMMA JobsOfFinite ==
  ASSUME NEW t
  PROVE  IsFiniteSet(JobsOf(t)) /\ Cardinality(JobsOf(t)) \in Nat
<1>1. JobsOf(t) \in SUBSET (1..MaxJobs) /\ IsFiniteSet(1..MaxJobs)
  BY BoundsAssumption, FS_Interval DEF JobsOf, Jobs
<1>2. QED
  BY <1>1, FS_Subset, FS_CardinalityType

(* Steps that make no job leave the jobs of every task as they are. *)
LEMMA NoNewJob ==
  ASSUME of' = of, \A j \in Jobs : status'[j] = "unused" <=> status[j] = "unused"
  PROVE  \A t : JobsOf(t)' = JobsOf(t) /\ (HasJob(t)' <=> HasJob(t))
BY DEF HasJob, JobsOf

(* AddJob gives one task one more job. *)
LEMMA OneNewJob ==
  ASSUME TypeOK, NEW t \in Tasks, AddJob(t)
  PROVE  /\ \A u \in Tasks : HasJob(u)' <=> HasJob(u) \/ u = t
         /\ \A u \in Tasks \ {t} : JobsOf(u)' = JobsOf(u)
         /\ Cardinality(JobsOf(t)') = Cardinality(JobsOf(t)) + 1
<1> PICK j \in Jobs :
       /\ status[j] = "unused"
       /\ status' = [status EXCEPT ![j] = "waiting"]
       /\ of' = [of EXCEPT ![j] = t]
       /\ UNCHANGED <<stalls, holder>>
  BY AddJobTakes
<1>1. JobsOf(t)' = JobsOf(t) \cup {j} /\ j \notin JobsOf(t)
  BY DEF TypeOK, JobsOf
<1>2. \A u \in Tasks \ {t} : JobsOf(u)' = JobsOf(u)
  BY DEF TypeOK, JobsOf
<1>3. Cardinality(JobsOf(t)') = Cardinality(JobsOf(t)) + 1
  BY <1>1, JobsOfFinite, FS_AddElement
<1>4. QED
  BY <1>1, <1>2, <1>3 DEF HasJob

LEMMA QueueStep ==
  ASSUME TypeOK, LockedIsActive, QueueInv, [Next]_vars
  PROVE  QueueInv'
<1> USE DEF QueueInv, NothingLost
<1>1. CASE UNCHANGED <<accepted, inbox, batch, todo, status, of>>
  BY <1>1 DEF HasJob, JobsOf
<1>2. ASSUME NEW t \in Tasks, Submit(t)
      PROVE  QueueInv'
  <2>1. CASE Driver = "bull"
    BY <1>2, <2>1, OneNewJob, DriverAssumption DEF TypeOK, Submit
  <2>2. CASE Driver = "sqs"
    <3>1. /\ UNCHANGED <<batch, todo, status, of>>
          /\ accepted' = accepted \cup {t} /\ inbox' = inbox \cup {t}
      BY <1>2, <2>2 DEF Submit, jobVars
    <3>2. QED
      BY <2>2, <3>1 DEF HasJob, JobsOf
  <2>3. QED
    BY <2>1, <2>2, DriverAssumption
<1>3. ASSUME NEW i \in Lambdas, NEW b \in SUBSET Tasks, ReceiveBatch(i, b)
      PROVE  QueueInv'
  <2>1. /\ UNCHANGED <<accepted, inbox, status, of>>
        /\ batch' = [batch EXCEPT ![i] = b] /\ todo' = [todo EXCEPT ![i] = b]
        /\ b \subseteq inbox /\ b # {}
    BY <1>3 DEF ReceiveBatch, jobVars
  <2>2. QED
    BY <2>1 DEF TypeOK, HasJob, JobsOf
<1>4. ASSUME NEW i \in Lambdas, NEW t \in Tasks, Forward(i, t)
      PROVE  QueueInv'
  <2>1. /\ UNCHANGED <<accepted, inbox, batch>>
        /\ todo' = [todo EXCEPT ![i] = @ \ {t}] /\ t \in todo[i]
    BY <1>4 DEF Forward
  <2>2. CASE AddJob(t)
    <3>1. \A u \in Tasks : HasJob(u)' <=> HasJob(u) \/ u = t
      BY <2>2, OneNewJob
    <3>2. QED
      BY <2>1, <3>1 DEF TypeOK
  <2>3. CASE LambdaDriver = "bull"
    <3>1. Driver = "sqs" /\ ~Forwards
      BY <2>1, <2>3, DriverAssumption DEF Forwards
    <3>2. QED
      BY <2>1, <3>1 DEF TypeOK, Forwards
  <2>4. QED
    BY <1>4, <2>2, <2>3 DEF Forward
<1>5. ASSUME NEW i \in Lambdas, FinishBatch(i) \/ AbortBatch(i)
      PROVE  QueueInv'
  <2>1. /\ UNCHANGED <<accepted, status, of>>
        /\ batch' = [batch EXCEPT ![i] = {}] /\ todo' = [todo EXCEPT ![i] = {}]
        /\ inbox' = inbox \/ (todo[i] = {} /\ inbox' = inbox \ batch[i])
    BY <1>5 DEF FinishBatch, AbortBatch, EndBatch, jobVars
  <2>2. Forwards => \A t \in accepted : t \in inbox' \/ HasJob(t)
    BY <2>1 DEF TypeOK
  <2>3. QED
    BY <2>1, <2>2 DEF TypeOK, HasJob, JobsOf
<1>6. CASE WorkerStep
  BY <1>6, WorkersMakeNoJob, NoNewJob DEF TypeOK, sqsVars
<1>7. QED
  BY <1>1, <1>2, <1>3, <1>4, <1>5, <1>6, NextCases
     DEF VisibilityExpire, vars, sqsVars, jobVars

(* A task whose jobs and records only go, while what is due only grows. *)
LEMMA NothingMoreOutstanding ==
  ASSUME DeliveryInv, NEW t \in Tasks,
         JobsOf(t)' = JobsOf(t), Carriers(t)' \subseteq Carriers(t),
         Due(t) \in Nat, Due(t)' \in Nat, Due(t) <= Due(t)'
  PROVE  IsFiniteSet(Carriers(t)') /\ Outstanding(t)' <= Due(t)'
<1>1. IsFiniteSet(Carriers(t)) /\ Outstanding(t) <= Due(t)
  BY DEF DeliveryInv
<1>2. /\ IsFiniteSet(Carriers(t)') /\ Cardinality(Carriers(t)') \in Nat
      /\ Cardinality(Carriers(t)) \in Nat
      /\ Cardinality(Carriers(t)') <= Cardinality(Carriers(t))
  BY <1>1, FS_Subset, FS_CardinalityType
<1>3. Cardinality(JobsOf(t)') = Cardinality(JobsOf(t))
  OBVIOUS
<1>4. QED
  BY <1>1, <1>2, <1>3, JobsOfFinite DEF Outstanding

LEMMA DueTyped ==
  ASSUME TypeOK, NEW t \in Tasks
  PROVE  Due(t) \in Nat
BY DEF TypeOK, Due

LEMMA DeliveryStep ==
  ASSUME TypeOK, TypeOK', LockedIsActive, QueueInv, DeliveryInv, [Next]_vars
  PROVE  DeliveryInv'
<1>0. \A t \in Tasks : Due(t) \in Nat /\ Due(t)' \in Nat
  BY DueTyped DEF TypeOK, Due
<1>1. ASSUME UNCHANGED <<status, of>>, \A i \in Lambdas : todo'[i] \subseteq todo[i],
             \A t \in Tasks : Due(t) <= Due(t)'
      PROVE  DeliveryInv'
  <2>1. \A t \in Tasks : JobsOf(t)' = JobsOf(t) /\ Carriers(t)' \subseteq Carriers(t)
    BY <1>1 DEF JobsOf, Carriers
  <2>2. QED
    BY <1>0, <1>1, <2>1, NothingMoreOutstanding DEF DeliveryInv
<1>2. ASSUME NEW t \in Tasks, Submit(t)
      PROVE  DeliveryInv'
  <2>1. CASE Driver = "bull"
    <3>1. /\ AddJob(t) /\ t \notin accepted /\ accepted' = accepted \cup {t}
          /\ UNCHANGED todo
      BY <1>2, <2>1, DriverAssumption DEF Submit
    <3>2. \A u \in Tasks : /\ Carriers(u)' = Carriers(u)
                            /\ Due(u)' = IF u = t THEN Due(u) + 1 ELSE Due(u)
      BY <2>1, <3>1 DEF Carriers, Due
    <3>3. \A u \in Tasks \ {t} : IsFiniteSet(Carriers(u)') /\ Outstanding(u)' <= Due(u)'
      BY <1>0, <3>1, <3>2, OneNewJob, NothingMoreOutstanding
    <3>4. IsFiniteSet(Carriers(t)') /\ Outstanding(t)' <= Due(t)'
      BY <1>0, <3>1, <3>2, OneNewJob, JobsOfFinite, FS_CardinalityType
         DEF DeliveryInv, Outstanding
    <3>5. QED
      BY <3>3, <3>4 DEF DeliveryInv
  <2>2. CASE Driver = "sqs"
    <3>1. UNCHANGED <<receives, todo, status, of>>
      BY <1>2, <2>2 DEF Submit, jobVars
    <3>2. \A u \in Tasks : Due(u)' = Due(u)
      BY <2>2, <3>1 DEF Due
    <3>3. QED
      BY <1>0, <1>1, <3>1, <3>2
  <2>3. QED
    BY <2>1, <2>2, DriverAssumption
<1>3. ASSUME NEW i \in Lambdas, NEW b \in SUBSET Tasks, ReceiveBatch(i, b)
      PROVE  DeliveryInv'
  <2>1. /\ UNCHANGED <<accepted, status, of>> /\ todo[i] = {}
        /\ todo' = [todo EXCEPT ![i] = b] /\ b \subseteq inbox /\ b # {}
        /\ receives' = [t \in Tasks |-> IF t \in b THEN receives[t] + 1 ELSE receives[t]]
    BY <1>3 DEF ReceiveBatch, jobVars, QueueInv
  <2>2. Driver = "sqs"
    BY <2>1, DriverAssumption DEF QueueInv
  <2>3. \A t \in Tasks : /\ JobsOf(t)' = JobsOf(t)
                         /\ Due(t)' = IF t \in b THEN Due(t) + 1 ELSE Due(t)
    BY <2>1, <2>2 DEF JobsOf, Due
  <2>4. ASSUME NEW t \in Tasks \ b
        PROVE  IsFiniteSet(Carriers(t)') /\ Outstanding(t)' <= Due(t)'
    <3>1. Carriers(t)' \subseteq Carriers(t)
      BY <2>1 DEF TypeOK, Carriers
    <3>2. QED
      BY <1>0, <2>3, <3>1, NothingMoreOutstanding
  <2>5. ASSUME NEW t \in b
        PROVE  IsFiniteSet(Carriers(t)') /\ Outstanding(t)' <= Due(t)'
    <3>1. Carriers(t)' = Carriers(t) \cup {i} /\ i \notin Carriers(t)
      BY <2>1 DEF TypeOK, Carriers
    <3>2. IsFiniteSet(Carriers(t)) /\ Outstanding(t) <= Due(t)
      BY DEF DeliveryInv
    <3>3. /\ IsFiniteSet(Carriers(t)') /\ Cardinality(Carriers(t)) \in Nat
          /\ Cardinality(Carriers(t)') = Cardinality(Carriers(t)) + 1
      BY <3>1, <3>2, FS_AddElement, FS_CardinalityType
    <3>4. Cardinality(JobsOf(t)') = Cardinality(JobsOf(t))
      BY <2>3
    <3>5. QED
      BY <1>0, <2>3, <3>2, <3>3, <3>4, JobsOfFinite DEF Outstanding
  <2>6. QED
    BY <2>4, <2>5 DEF DeliveryInv
<1>4. ASSUME NEW i \in Lambdas, NEW t \in Tasks, Forward(i, t)
      PROVE  DeliveryInv'
  <2>1. /\ UNCHANGED <<accepted, receives>> /\ t \in todo[i]
        /\ todo' = [todo EXCEPT ![i] = @ \ {t}]
    BY <1>4 DEF Forward
  <2>2. \A u \in Tasks : Due(u)' = Due(u)
    BY <2>1 DEF Due
  <2>3. CASE UNCHANGED <<status, of>>
    BY <1>0, <1>1, <2>1, <2>2, <2>3 DEF TypeOK
  <2>4. CASE AddJob(t)
    <3>1. \A u \in Tasks \ {t} : Carriers(u)' \subseteq Carriers(u)
      BY <2>1 DEF TypeOK, Carriers
    <3>2. \A u \in Tasks \ {t} : IsFiniteSet(Carriers(u)') /\ Outstanding(u)' <= Due(u)'
      BY <1>0, <2>2, <2>4, <3>1, OneNewJob, NothingMoreOutstanding
    <3>3. Carriers(t)' = Carriers(t) \ {i} /\ i \in Carriers(t)
      BY <2>1 DEF TypeOK, Carriers
    <3>4. IsFiniteSet(Carriers(t)) /\ Outstanding(t) <= Due(t)
      BY DEF DeliveryInv
    <3>5. /\ IsFiniteSet(Carriers(t)') /\ Cardinality(Carriers(t)) \in Nat
          /\ Cardinality(Carriers(t)') = Cardinality(Carriers(t)) - 1
      BY <3>3, <3>4, FS_RemoveElement, FS_CardinalityType
    <3>6. Outstanding(t)' <= Due(t)'
      BY <1>0, <2>2, <2>4, <3>4, <3>5, OneNewJob, JobsOfFinite DEF Outstanding
    <3>7. QED
      BY <3>2, <3>5, <3>6 DEF DeliveryInv
  <2>5. QED
    BY <1>4, <2>3, <2>4 DEF Forward, jobVars
<1>5. ASSUME NEW i \in Lambdas, FinishBatch(i) \/ AbortBatch(i)
      PROVE  DeliveryInv'
  <2>1. /\ UNCHANGED <<accepted, receives, status, of>>
        /\ todo' = [todo EXCEPT ![i] = {}]
    BY <1>5 DEF FinishBatch, AbortBatch, EndBatch, jobVars
  <2>2. QED
    BY <1>0, <1>1, <2>1 DEF TypeOK, Due
<1>6. CASE WorkerStep
  <2>1. /\ UNCHANGED <<accepted, receives, todo>>
        /\ \A t : JobsOf(t)' = JobsOf(t)
    BY <1>6, WorkersMakeNoJob, NoNewJob DEF sqsVars
  <2>2. \A t \in Tasks : Carriers(t)' = Carriers(t) /\ Due(t)' = Due(t)
    BY <2>1 DEF Carriers, Due
  <2>3. QED
    BY <1>0, <2>1, <2>2, NothingMoreOutstanding DEF DeliveryInv
<1>7. CASE UNCHANGED <<accepted, receives, todo, status, of>>
  BY <1>0, <1>1, <1>7 DEF Due
<1>8. QED
  BY <1>2, <1>3, <1>4, <1>5, <1>6, <1>7, NextCases
     DEF VisibilityExpire, vars, sqsVars, jobVars

(* The two invariants of the way from add to a Bull job. *)
THEOREM QueueInvariant == Spec => [](QueueInv /\ DeliveryInv)
<1>1. Init => QueueInv /\ DeliveryInv
  <2> SUFFICES ASSUME Init PROVE QueueInv /\ DeliveryInv
    OBVIOUS
  <2>1. QueueInv
    BY DEF Init, QueueInv, NothingLost, HasJob
  <2>2. \A t \in Tasks : JobsOf(t) = {} /\ Carriers(t) = {} /\ Due(t) = 0
    BY DEF Init, JobsOf, Carriers, Due
  <2>3. QED
    BY <2>1, <2>2, FS_EmptySet DEF DeliveryInv, Outstanding
<1>2. TypeOK /\ JobInv /\ TypeOK' /\ QueueInv /\ DeliveryInv /\ [Next]_vars
        => QueueInv' /\ DeliveryInv'
  BY QueueStep, DeliveryStep DEF JobInv
<1>3. QED
  BY <1>1, <1>2, JobInvariant, PTL DEF Spec

(* With a Lambda that adds a job for each message it gets, no task that add *)
(* accepted is ever in neither queue.                                       *)
THEOREM NoTaskLost ==
  ASSUME Forwards
  PROVE  Spec => []NothingLost
<1>1. QueueInv => NothingLost
  BY DEF QueueInv
<1>2. QED
  BY <1>1, QueueInvariant, PTL

(* A task has no more jobs than deliveries. *)
THEOREM JobsPerDelivery == Spec => []JobsBoundedByDeliveries
<1>1. TypeOK /\ DeliveryInv => JobsBoundedByDeliveries
  <2> SUFFICES ASSUME TypeOK, DeliveryInv, NEW t \in Tasks
               PROVE  Cardinality(JobsOf(t)) <= Deliveries(t)
    BY DEF JobsBoundedByDeliveries
  <2>1. IsFiniteSet(Carriers(t)) /\ Outstanding(t) <= Due(t)
    BY DEF DeliveryInv
  <2>2. Cardinality(Carriers(t)) \in Nat
    BY <2>1, FS_CardinalityType
  <2>3. Due(t) \in Nat /\ Deliveries(t) \in Nat /\ Due(t) <= Deliveries(t)
    BY DEF TypeOK, Due, Deliveries
  <2>4. QED
    BY <2>1, <2>2, <2>3, JobsOfFinite DEF Outstanding
<1>2. QED
  BY <1>1, JobInvariant, QueueInvariant, PTL

-----------------------------------------------------------------------------
(* The workers that have taken job j and not yet done its task. *)
Pending(j) == {w \in Workers : doing[w] = j /\ ~ran[w]}

(* Each time a job is taken its task may be done once more, and a job is    *)
(* taken again only after it was found stalled.                             *)
Allowed(j) == stalls[j] + (IF status[j] \in {"unused", "waiting"} THEN 0 ELSE 1)
EffectInv == \A j \in Jobs : effects[j] + Cardinality(Pending(j)) <= Allowed(j)

LEMMA PendingFinite ==
  ASSUME NEW j \in Jobs
  PROVE  IsFiniteSet(Pending(j)) /\ Cardinality(Pending(j)) \in Nat
<1>1. Pending(j) \in SUBSET Workers
  BY DEF Pending
<1>2. IsFiniteSet(Pending(j))
  BY <1>1, FS_Subset, WorkersAssumption DEF Workers
<1>3. QED
  BY <1>2, FS_CardinalityType

(* A step that adds to no job's workers and effects and allows no job less. *)
LEMMA NothingMoreDone ==
  ASSUME TypeOK, TypeOK', EffectInv, effects' = effects,
         \A j \in Jobs : Pending(j)' \subseteq Pending(j) /\ Allowed(j) <= Allowed(j)'
  PROVE  EffectInv'
<1> SUFFICES ASSUME NEW j \in Jobs
             PROVE  effects'[j] + Cardinality(Pending(j)') <= Allowed(j)'
  BY DEF EffectInv
<1>1. /\ Pending(j)' \in SUBSET Pending(j)
      /\ effects[j] + Cardinality(Pending(j)) <= Allowed(j)
  BY DEF EffectInv
<1>2. /\ Cardinality(Pending(j)') <= Cardinality(Pending(j))
      /\ Cardinality(Pending(j)') \in Nat /\ Cardinality(Pending(j)) \in Nat
  BY <1>1, PendingFinite, FS_Subset, FS_CardinalityType
<1>3. effects[j] \in Nat /\ Allowed(j) \in Nat /\ Allowed(j)' \in Nat
  BY BoundsAssumption DEF TypeOK, Allowed
<1>4. QED
  BY <1>1, <1>2, <1>3

LEMMA EffectStep ==
  ASSUME TypeOK, TypeOK', JobInv, EffectInv, [Next]_vars
  PROVE  EffectInv'
<1>1. CASE UNCHANGED <<status, stalls, doing, ran, effects>>
  <2>1. \A j \in Jobs : Pending(j)' = Pending(j) /\ Allowed(j)' = Allowed(j)
    BY <1>1 DEF Pending, Allowed
  <2>2. QED
    BY <1>1, <2>1 DEF EffectInv
<1>2. ASSUME NEW t \in Tasks, AddJob(t), UNCHANGED <<doing, ran, effects>>
      PROVE  EffectInv'
  <2>1. \A j \in Jobs : Pending(j)' = Pending(j) /\ Allowed(j)' = Allowed(j)
    BY <1>2, AddJobTakes DEF TypeOK, Pending, Allowed
  <2>2. QED
    BY <1>2, <2>1 DEF EffectInv
<1>3. ASSUME NEW w \in Workers, NEW j \in Jobs, Take(w, j)
      PROVE  EffectInv'
  <2>1. /\ UNCHANGED <<stalls, effects>>
        /\ status[j] = "waiting" /\ status' = [status EXCEPT ![j] = "active"]
        /\ doing[w] = 0 /\ doing' = [doing EXCEPT ![w] = j]
        /\ ran' = [ran EXCEPT ![w] = FALSE]
    BY <1>3 DEF Take
  <2> SUFFICES ASSUME NEW k \in Jobs
               PROVE  effects[k] + Cardinality(Pending(k)') <= Allowed(k)'
    BY <2>1 DEF EffectInv
  <2>2. CASE k = j
    <3>1. Pending(k)' = Pending(k) \cup {w} /\ w \notin Pending(k)
      BY <2>1, <2>2 DEF TypeOK, Pending, Jobs
    <3>2. Cardinality(Pending(k)') = Cardinality(Pending(k)) + 1
      BY <3>1, PendingFinite, FS_AddElement
    <3>3. Allowed(k)' = Allowed(k) + 1
      BY <2>1, <2>2, BoundsAssumption DEF TypeOK, Allowed
    <3>4. /\ effects[k] \in Nat /\ Allowed(k) \in Nat
          /\ effects[k] + Cardinality(Pending(k)) <= Allowed(k)
      BY BoundsAssumption DEF TypeOK, EffectInv, Allowed
    <3>5. QED
      BY <3>2, <3>3, <3>4, PendingFinite
  <2>3. CASE k # j
    <3>1. Pending(k)' = Pending(k) /\ Allowed(k)' = Allowed(k)
      BY <2>1, <2>3 DEF TypeOK, Pending, Allowed, Jobs
    <3>2. QED
      BY <3>1 DEF EffectInv
  <2>4. QED
    BY <2>2, <2>3
<1>4. ASSUME NEW w \in Workers, Run(w)
      PROVE  EffectInv'
  <2>1. /\ doing[w] \in Jobs /\ ~ran[w] /\ UNCHANGED <<stalls, status, doing>>
        /\ effects' = [effects EXCEPT ![doing[w]] = @ + 1]
        /\ ran' = [ran EXCEPT ![w] = TRUE]
    BY <1>4 DEF TypeOK, Run, Busy, jobVars
  <2> SUFFICES ASSUME NEW k \in Jobs
               PROVE  effects'[k] + Cardinality(Pending(k)') <= Allowed(k)
    BY <2>1 DEF EffectInv, Allowed
  <2>2. effects[k] \in Nat /\ effects[k] + Cardinality(Pending(k)) <= Allowed(k)
    BY DEF TypeOK, EffectInv
  <2>3. CASE k = doing[w]
    <3>1. Pending(k)' = Pending(k) \ {w} /\ w \in Pending(k)
      BY <2>1, <2>3 DEF TypeOK, Pending
    <3>2. Cardinality(Pending(k)') = Cardinality(Pending(k)) - 1
      BY <3>1, PendingFinite, FS_RemoveElement
    <3>3. effects'[k] = effects[k] + 1
      BY <2>1, <2>3 DEF TypeOK
    <3>4. effects'[k] + Cardinality(Pending(k)') = effects[k] + Cardinality(Pending(k))
      BY <2>2, <3>2, <3>3, PendingFinite
    <3>5. QED
      BY <2>2, <3>4
  <2>4. CASE k # doing[w]
    <3>1. Pending(k)' = Pending(k) /\ effects'[k] = effects[k]
      BY <2>1, <2>4 DEF TypeOK, Pending
    <3>2. QED
      BY <2>2, <3>1
  <2>5. QED
    BY <2>3, <2>4
<1>5. ASSUME \/ \E w \in Workers : Return(w) \/ Throw(w)
             \/ \E p \in Processes : Crash(p)
      PROVE  EffectInv'
  <2>1. /\ UNCHANGED <<stalls, effects>>
        /\ \A w \in Workers : doing'[w] = 0 \/ (doing'[w] = doing[w] /\ ran'[w] = ran[w])
    BY <1>5 DEF TypeOK, Return, Throw, Crash, Stop, Settle
  <2>2. \A j \in Jobs : status[j] \notin {"unused", "waiting"}
                          => status'[j] \notin {"unused", "waiting"}
    <3>1. CASE \E p \in Processes : Crash(p)
      BY <3>1 DEF Crash, Stop
    <3>2. ASSUME NEW w \in Workers, Return(w) \/ Throw(w)
          PROVE  \A j \in Jobs : status[j] \notin {"unused", "waiting"}
                   => status'[j] \notin {"unused", "waiting"}
      <4>1. PICK outcome \in {"completed", "failed"} : Settle(w, outcome)
        BY <3>2 DEF Return, Throw
      <4>2. QED
        BY <4>1 DEF TypeOK, Settle
    <3>3. QED
      BY <1>5, <3>1, <3>2
  <2>3. \A j \in Jobs : Pending(j)' \subseteq Pending(j) /\ Allowed(j) <= Allowed(j)'
    BY <2>1, <2>2, BoundsAssumption DEF TypeOK, Pending, Allowed, Jobs
  <2>4. QED
    BY <2>1, <2>3, NothingMoreDone
<1>6. ASSUME NEW j \in Jobs, StalledCheck(j)
      PROVE  EffectInv'
  <2>1. UNCHANGED <<doing, ran, effects>> /\ status[j] = "active"
    BY <1>6 DEF StalledCheck, workerVars
  <2>2. \A k \in Jobs : Allowed(k)' = Allowed(k)
    BY <1>6, <2>1, BoundsAssumption DEF TypeOK, StalledCheck, Allowed
  <2>3. \A k \in Jobs : Pending(k)' = Pending(k)
    BY <2>1 DEF Pending
  <2>4. QED
    BY <2>1, <2>2, <2>3 DEF EffectInv
<1>7. QED
  BY <1>1, <1>2, <1>3, <1>4, <1>5, <1>6, NextCases, DriverAssumption
     DEF Submit, ReceiveBatch, Forward, FinishBatch, AbortBatch, EndBatch,
         VisibilityExpire, WorkerStep, Freeze, Thaw, vars, jobVars, workerVars

(* A job carries out its task at most once more than it was found stalled. *)
THEOREM Effects == Spec => []EffectsBounded
<1>1. Init => EffectInv
  <2> SUFFICES ASSUME Init, NEW j \in Jobs
               PROVE  effects[j] + Cardinality(Pending(j)) <= Allowed(j)
    BY DEF EffectInv
  <2>1. Pending(j) = {}
    BY DEF Init, Pending, Jobs
  <2>2. Cardinality(Pending(j)) = 0
    BY <2>1, FS_EmptySet
  <2>3. QED
    BY <2>2 DEF Init, Allowed
<1>2. TypeOK /\ JobInv /\ TypeOK' /\ EffectInv /\ [Next]_vars => EffectInv'
  BY EffectStep
<1>3. TypeOK /\ EffectInv => EffectsBounded
  <2> SUFFICES ASSUME TypeOK, EffectInv, NEW j \in Jobs
               PROVE  effects[j] <= stalls[j] + 1
    BY DEF EffectsBounded
  <2>1. /\ effects[j] \in Nat /\ stalls[j] \in Nat
        /\ effects[j] + Cardinality(Pending(j)) <= Allowed(j)
    BY BoundsAssumption DEF TypeOK, EffectInv
  <2>2. QED
    BY <2>1, PendingFinite DEF Allowed
<1>4. QED
  BY <1>1, <1>2, <1>3, JobInvariant, PTL DEF Spec

=============================================================================
