------------------------- MODULE JobExecutionProofs -------------------------
(***************************************************************************)
(* JobQueue implements TaskExecution, for both drivers and any sets of     *)
(* tasks, invocations and workers.                                         *)
(***************************************************************************)
EXTENDS JobQueueProofs

(* Only tasks that were added travel; only jobs in use are held or carried  *)
(* out.                                                                     *)
TravelInv ==
  /\ inbox \subseteq accepted
  /\ \A i \in Lambdas : batch[i] \subseteq accepted
  /\ \A j \in Jobs : status[j] # "unused" => of[j] \in accepted
  /\ \A j \in Jobs : effects[j] > 0 => status[j] # "unused"
  /\ \A w \in Workers : doing[w] # 0 => status[doing[w]] # "unused"

Travelling == TypeOK /\ JobInv /\ QueueInv /\ DeliveryInv /\ TravelInv

LEMMA NewJobTravels ==
  ASSUME TypeOK, TravelInv, NEW t \in accepted', accepted \subseteq accepted', AddJob(t),
         t \in Tasks,
         UNCHANGED <<workerVars, effects, receives, batch>>, inbox' \subseteq accepted'
  PROVE  TravelInv'
<1> PICK j \in Jobs :
       /\ status[j] = "unused"
       /\ status' = [status EXCEPT ![j] = "waiting"]
       /\ of' = [of EXCEPT ![j] = t]
       /\ UNCHANGED <<stalls, holder>>
  BY AddJobTakes
<1> QED
  BY DEF TypeOK, TravelInv, workerVars

LEMMA TravelStep ==
  ASSUME Travelling, [Next]_vars
  PROVE  TravelInv'
<1> USE DEF Travelling
<1>1. CASE UNCHANGED vars
  BY <1>1 DEF TravelInv, vars, sqsVars, jobVars, workerVars
<1>2. ASSUME NEW t \in Tasks, Submit(t) PROVE TravelInv'
  <2>1. CASE Driver = "bull"
    BY <1>2, <2>1, NewJobTravels, DriverAssumption DEF Submit, TravelInv
  <2>2. CASE Driver = "sqs"
    <3>1. /\ accepted' = accepted \cup {t} /\ inbox' = inbox \cup {t}
          /\ UNCHANGED <<receives, batch, status, of, doing, effects>>
      BY <1>2, <2>2 DEF Submit, jobVars, workerVars
    <3> QED
      BY <2>2, <3>1 DEF TravelInv
  <2> QED
    BY <2>1, <2>2, DriverAssumption
<1>3. ASSUME NEW i \in Lambdas, NEW b \in SUBSET Tasks, ReceiveBatch(i, b)
      PROVE  TravelInv'
  <2>1. /\ UNCHANGED <<accepted, inbox, status, of, doing, effects>>
        /\ b \subseteq inbox /\ b # {} /\ Driver # "bull"
        /\ batch' = [batch EXCEPT ![i] = b]
    BY <1>3 DEF ReceiveBatch, jobVars, workerVars, QueueInv
  <2> QED
    BY <2>1 DEF TypeOK, TravelInv
<1>4. ASSUME NEW i \in Lambdas, NEW t \in Tasks, Forward(i, t) PROVE TravelInv'
  <2>1. CASE AddJob(t)
    BY <1>4, <2>1, NewJobTravels DEF Forward, QueueInv, TravelInv
  <2>2. CASE UNCHANGED jobVars
    BY <1>4, <2>2 DEF Forward, TravelInv, jobVars, workerVars
  <2> QED
    BY <1>4, <2>1, <2>2 DEF Forward
<1>5. ASSUME NEW i \in Lambdas, FinishBatch(i) \/ AbortBatch(i) PROVE TravelInv'
  <2>1. /\ UNCHANGED <<accepted, receives, status, of, doing, effects>>
        /\ inbox' \subseteq inbox
        /\ batch' = [batch EXCEPT ![i] = {}]
    BY <1>5 DEF FinishBatch, AbortBatch, EndBatch, jobVars, workerVars
  <2> QED
    BY <2>1 DEF TypeOK, TravelInv
<1>6. ASSUME NEW t \in Tasks, VisibilityExpire(t) PROVE TravelInv'
  BY <1>6 DEF VisibilityExpire, TravelInv, jobVars, workerVars
<1>7. CASE WorkerStep
  <2>1. /\ UNCHANGED <<accepted, sqsVars, of>>
        /\ \A j \in Jobs : status'[j] = "unused" <=> status[j] = "unused"
    BY <1>7, WorkersMakeNoJob DEF JobInv
  <2>2. \A w \in Workers : doing'[w] # 0 => doing'[w] = doing[w] \/ status[doing'[w]] # "unused"
    BY <1>7 DEF WorkerStep, Take, Run, Return, Throw, Crash, Stop, Freeze, Thaw, Settle,
       StalledCheck, TypeOK, workerVars
  <2>3. \A w \in Workers : doing'[w] \in {0} \cup Jobs
    BY <1>7, WorkerTypesStep DEF WorkerTypes
  <2>4. \A j \in Jobs : effects'[j] = effects[j] \/ \E w \in Workers : doing[w] = j /\ doing[w] # 0
    BY <1>7 DEF WorkerStep, Take, Run, Busy, Return, Throw, Crash, Stop, Freeze, Thaw, Settle,
       StalledCheck, TypeOK
  <2> QED
    BY <2>1, <2>2, <2>3, <2>4 DEF TravelInv, TypeOK, sqsVars
<1> QED
  BY <1>1, <1>2, <1>3, <1>4, <1>5, <1>6, <1>7, NextCases

THEOREM TravelInvariant == Spec => []Travelling
<1>1. Init => TravelInv
  BY DEF Init, TravelInv
<1>2. Travelling /\ [Next]_vars => TravelInv'
  BY TravelStep
<1>3. Spec => []TravelInv
  <2>1. TypeOK /\ JobInv /\ QueueInv /\ DeliveryInv /\ TravelInv /\ [Next]_vars => TravelInv'
    BY <1>2 DEF Travelling
  <2> QED
    BY <1>1, <2>1, JobInvariant, QueueInvariant, PTL DEF Spec
<1> QED
  BY <1>3, JobInvariant, QueueInvariant, PTL DEF Travelling

-----------------------------------------------------------------------------
BarVars == <<accepted, carriedOutBar, completedBar, failedBar>>

(* With the Bull driver a task has one job. *)
LEMMA BullOneJob ==
  ASSUME Travelling, Driver = "bull", NEW j \in Jobs, NEW k \in Jobs,
         status[j] # "unused", status[k] # "unused", of[j] = of[k]
  PROVE  j = k
<1>1. of[j] \in Tasks /\ j \in JobsOf(of[j]) /\ k \in JobsOf(of[j])
  BY DEF Travelling, TypeOK, JobsOf
<1>2. Cardinality(JobsOf(of[j])) <= 1
  <2>1. IsFiniteSet(Carriers(of[j])) /\ Outstanding(of[j]) <= Due(of[j])
    BY <1>1 DEF Travelling, DeliveryInv
  <2>2. Due(of[j]) \in 0..1
    BY DEF Due
  <2>3. QED
    BY <2>1, <2>2, JobsOfFinite, FS_CardinalityType DEF Outstanding
<1>3. /\ IsFiniteSet(JobsOf(of[j]) \ {j})
      /\ Cardinality(JobsOf(of[j]) \ {j}) = Cardinality(JobsOf(of[j])) - 1
  BY <1>1, JobsOfFinite, FS_RemoveElement
<1>4. Cardinality(JobsOf(of[j]) \ {j}) \in Nat
  BY <1>3, FS_CardinalityType
<1>5. JobsOf(of[j]) \ {j} = {}
  BY <1>2, <1>3, <1>4, JobsOfFinite, FS_EmptySet
<1> QED
  BY <1>1, <1>5

(* A job that is being worked on comes to its end. *)
LEMMA EndStep ==
  ASSUME Travelling, NEW j \in Jobs, status[j] = "active",
         NEW outcome \in {"completed", "failed"},
         outcome = "completed" => effects[j] > 0,
         status' = [status EXCEPT ![j] = outcome],
         UNCHANGED <<accepted, of, effects>>
  PROVE  Execution!ExecutionNext \/ UNCHANGED BarVars
<1> DEFINE t == of[j]
<1>1. t \in Tasks /\ t \in accepted
  BY DEF Travelling, TravelInv, TypeOK
<1>2. carriedOutBar' = carriedOutBar
  BY DEF carriedOutBar, TasksOf
<1>3. CASE outcome = "completed"
  <2>1. completedBar' = completedBar \cup {t} /\ failedBar' = failedBar
    BY <1>3 DEF completedBar, failedBar, TasksOf, Travelling, TypeOK
  <2>2. t \in carriedOutBar
    BY <1>3 DEF carriedOutBar, TasksOf
  <2>3. t \in failedBar => Driver = "sqs"
    BY BullOneJob, DriverAssumption DEF failedBar, TasksOf
  <2>4. t \notin completedBar => Execution!Complete(t)
    BY <1>2, <2>1, <2>2, <2>3 DEF Execution!Complete
  <2>5. t \in completedBar => UNCHANGED BarVars
    BY <1>2, <2>1 DEF BarVars
  <2> QED
    BY <1>1, <2>4, <2>5 DEF Execution!ExecutionNext
<1>4. CASE outcome = "failed"
  <2>1. failedBar' = failedBar \cup {t} /\ completedBar' = completedBar
    BY <1>4 DEF completedBar, failedBar, TasksOf, Travelling, TypeOK
  <2>3. t \in completedBar => Driver = "sqs"
    BY BullOneJob, DriverAssumption DEF completedBar, TasksOf
  <2>4. t \notin failedBar => Execution!GiveUp(t)
    BY <1>1, <1>2, <2>1, <2>3 DEF Execution!GiveUp
  <2>5. t \in failedBar => UNCHANGED BarVars
    BY <1>2, <2>1 DEF BarVars
  <2> QED
    BY <1>1, <2>4, <2>5 DEF Execution!ExecutionNext
<1> QED
  BY <1>3, <1>4

(* A new job, a job taken and a job put back say nothing of their tasks. *)
LEMMA SilentStep ==
  ASSUME Travelling,
         effects' = effects,
         \A j \in Jobs : /\ effects[j] > 0 => of'[j] = of[j]
                         /\ status[j] \in {"completed", "failed"} => of'[j] = of[j]
                         /\ status'[j] # status[j] =>
                              {status[j], status'[j]} \cap {"completed", "failed"} = {}
  PROVE  UNCHANGED <<carriedOutBar, completedBar, failedBar>>
<1>1. \A x \in {"completed", "failed"} : \A j \in Jobs : status'[j] = x <=> status[j] = x
  OBVIOUS
<1> QED
  BY <1>1 DEF carriedOutBar, completedBar, failedBar, TasksOf

LEMMA NewJobSilent ==
  ASSUME Travelling, NEW t \in Tasks, AddJob(t), effects' = effects
  PROVE  UNCHANGED <<carriedOutBar, completedBar, failedBar>>
<1> PICK j \in Jobs :
       /\ status[j] = "unused"
       /\ status' = [status EXCEPT ![j] = "waiting"]
       /\ of' = [of EXCEPT ![j] = t]
       /\ UNCHANGED <<stalls, holder>>
  BY AddJobTakes
<1>1. effects[j] = 0
  BY DEF Travelling, TravelInv, TypeOK
<1> QED
  BY <1>1, SilentStep DEF Travelling, TypeOK

(* The handler's work is reported once, whoever does it again. *)
LEMMA RunStep ==
  ASSUME Travelling, NEW w \in Workers, Run(w)
  PROVE  Execution!ExecutionNext \/ UNCHANGED BarVars
<1> DEFINE j == doing[w]
           t == of[doing[w]]
<1>1. /\ j \in Jobs /\ UNCHANGED <<accepted, of, status>>
      /\ effects' = [effects EXCEPT ![j] = @ + 1]
  BY DEF Run, Busy, Travelling, TypeOK, jobVars
<1>2. t \in Tasks /\ t \in accepted
  BY <1>1 DEF Run, Busy, Travelling, TravelInv, TypeOK
<1>3. \A k \in Jobs : effects'[k] > 0 <=> effects[k] > 0 \/ k = j
  BY <1>1 DEF Travelling, TypeOK
<1>4. carriedOutBar' = carriedOutBar \cup {t}
  BY <1>1, <1>3 DEF carriedOutBar, TasksOf
<1>5. UNCHANGED <<accepted, completedBar, failedBar>>
  BY <1>1 DEF completedBar, failedBar, TasksOf
<1>6. t \notin carriedOutBar => Execution!CarryOut(t)
  BY <1>2, <1>4, <1>5 DEF Execution!CarryOut
<1> QED
  BY <1>2, <1>4, <1>5, <1>6 DEF Execution!ExecutionNext, BarVars

LEMMA ExecutionStep ==
  ASSUME Travelling, [Next]_vars
  PROVE  Execution!ExecutionNext \/ UNCHANGED BarVars
<1>1. CASE UNCHANGED <<accepted, of, status, effects>>
  BY <1>1 DEF BarVars, carriedOutBar, completedBar, failedBar, TasksOf
<1>2. ASSUME NEW t \in Tasks, Submit(t)
      PROVE  Execution!ExecutionNext \/ UNCHANGED BarVars
  <2>1. UNCHANGED <<carriedOutBar, completedBar, failedBar>>
    <3>1. CASE AddJob(t)
      BY <1>2, <3>1, NewJobSilent DEF Submit
    <3>2. CASE UNCHANGED jobVars
      BY <1>2, <3>2 DEF Submit, jobVars, carriedOutBar, completedBar, failedBar, TasksOf
    <3> QED
      BY <1>2, <3>1, <3>2 DEF Submit
  <2>2. Execution!Accept(t)
    BY <1>2, <2>1 DEF Submit, Execution!Accept
  <2> QED
    BY <2>2 DEF Execution!ExecutionNext
<1>3. ASSUME NEW i \in Lambdas, NEW t \in Tasks, Forward(i, t)
      PROVE  UNCHANGED BarVars
  <2>1. CASE AddJob(t)
    BY <1>3, <2>1, NewJobSilent DEF Forward, BarVars
  <2>2. CASE UNCHANGED jobVars
    BY <1>3, <2>2 DEF Forward, jobVars, BarVars, carriedOutBar, completedBar,
                      failedBar, TasksOf
  <2> QED
    BY <1>3, <2>1, <2>2 DEF Forward
<1>4. ASSUME NEW w \in Workers, NEW j \in Jobs, Take(w, j) PROVE UNCHANGED BarVars
  BY <1>4, SilentStep DEF Take, BarVars, Travelling, TypeOK
<1>5. ASSUME NEW w \in Workers, Run(w)
      PROVE  Execution!ExecutionNext \/ UNCHANGED BarVars
  BY <1>5, RunStep
<1>6. ASSUME NEW w \in Workers, Return(w) \/ Throw(w)
      PROVE  Execution!ExecutionNext \/ UNCHANGED BarVars
  <2>1. doing[w] \in Jobs
    BY <1>6 DEF Return, Throw, Busy, Travelling, TypeOK
  <2>2. PICK outcome \in {"completed", "failed"} :
          Settle(w, outcome) /\ (outcome = "completed" => effects[doing[w]] > 0)
    BY <1>6, <2>1 DEF Return, Throw, Travelling, JobInv, RanHasEffect, TypeOK
  <2>3. UNCHANGED <<accepted, of, effects>>
    BY <2>2 DEF Settle
  <2>4. CASE w \in holder[doing[w]]
    <3>1. status[doing[w]] = "active"
      BY <2>1, <2>4 DEF Travelling, JobInv, LockedIsActive
    <3>2. status' = [status EXCEPT ![doing[w]] = outcome]
      BY <2>2, <2>4 DEF Settle
    <3> QED
      BY <2>1, <2>2, <2>3, <3>1, <3>2, EndStep
  <2>5. CASE w \notin holder[doing[w]]
    BY <1>1, <2>2, <2>3, <2>5 DEF Settle
  <2> QED
    BY <2>4, <2>5
<1>7. ASSUME NEW j \in Jobs, StalledCheck(j)
      PROVE  Execution!ExecutionNext \/ UNCHANGED BarVars
  <2>1. status[j] = "active" /\ UNCHANGED <<accepted, of, effects>>
    BY <1>7 DEF StalledCheck
  <2>2. CASE status' = [status EXCEPT ![j] = "waiting"]
    BY <2>1, <2>2, SilentStep DEF BarVars, Travelling, TypeOK
  <2>3. CASE status' = [status EXCEPT ![j] = "failed"]
    BY <2>1, <2>3, EndStep
  <2> QED
    BY <1>7, <2>2, <2>3 DEF StalledCheck
<1>8. ASSUME NEW p \in Processes, Crash(p) \/ Freeze(p) \/ Thaw(p) PROVE UNCHANGED BarVars
  BY <1>1, <1>8 DEF Crash, Stop, Freeze, Thaw, jobVars, BarVars, carriedOutBar,
     completedBar, failedBar, TasksOf
<1> QED
  BY <1>1, <1>2, <1>3, <1>4, <1>5, <1>6, <1>7, <1>8, NextCases
     DEF WorkerStep, ReceiveBatch, FinishBatch, AbortBatch, EndBatch,
         VisibilityExpire, vars, jobVars

(* Both drivers implement TaskExecution: reports are neither early nor taken  *)
(* back, nothing is carried out unasked, and with the Bull driver a task has  *)
(* one outcome.                                                               *)
THEOREM ExecutionImplemented == Spec => TasksRefined
<1>1. Init => Execution!ExecutionInit
  BY DEF Init, Execution!ExecutionInit, carriedOutBar, completedBar, failedBar, TasksOf
<1>2. Travelling /\ [Next]_vars => [Execution!ExecutionNext]_Execution!executionVars
  BY ExecutionStep DEF BarVars, Execution!executionVars
<1> QED
  BY <1>1, <1>2, TravelInvariant, PTL DEF Spec, TasksRefined, Execution!ExecutionSpec

=============================================================================
