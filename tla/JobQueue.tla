------------------------------ MODULE JobQueue ------------------------------
(***************************************************************************)
(* Background tasks from QueueService.add to the processors, for both      *)
(* drivers (src/src/shared/services/queue.service.ts):                     *)
(*   bull  add puts a job into the Bull queue "default";                   *)
(*   sqs   add sends a message; taskHandler (src/src/lambda.ts) receives   *)
(*         batches of messages and puts each into the same Bull queue.     *)
(* A process runs one Bull worker per registered processor; all of them    *)
(* use the process's one lock token, which it must keep renewing.  A       *)
(* process may crash, or stop for longer than its locks last (a Lambda     *)
(* frozen between two events, a blocked event loop) and go on later.  SQS, *)
(* Lambda and Bull are not in the repository and are modelled from how it  *)
(* uses them: default job options, no FIFO group, no redrive policy.       *)
(***************************************************************************)
EXTENDS Naturals, FiniteSets

CONSTANTS
  EmailTasks, FileTasks, \* tasks named email:send or email:verify; file:process
  Driver,                \* queue.driver of the services, "bull" or "sqs"
  LambdaDriver,          \* queue.driver of the Lambda, configured on its own
  Lambdas,               \* concurrent invocations of taskHandler
  Processes,             \* the processes taking jobs, as the sets of their workers
  Freezable,             \* processes that may be frozen
  MaxJobs,               \* bound on Bull's job counter
  MaxStalls,             \* Bull's maxStalledCount, 1 unless configured
  MaxFaults,             \* bound on crashes, freezes, throws and redeliveries
  None

Tasks == EmailTasks \cup FileTasks
Jobs == 1..MaxJobs
Workers == UNION Processes

ASSUME DriverAssumption == Driver \in {"bull", "sqs"} /\ LambdaDriver \in {"bull", "sqs"}
ASSUME BoundsAssumption == MaxJobs \in Nat /\ MaxStalls \in Nat /\ MaxFaults \in Nat
ASSUME WorkersAssumption ==
  /\ Freezable \subseteq Processes /\ IsFiniteSet(UNION Processes)
  /\ \A p, q \in Processes : p = q \/ p \cap q = {}

VARIABLES
  accepted,     \* tasks whose add has succeeded
  inbox,        \* SQS: messages not deleted
  hidden,       \* SQS: messages received and not visible to others
  receives,     \* SQS: how often each message was received
  batch, todo,  \* per invocation: its messages, and those still to forward
  status, of,   \* per Bull job: its state and task
  stalls,       \* per Bull job: how often it was found stalled
  holder,       \* per Bull job: the process whose lock is on it, {} if none
  doing, ran,   \* per worker: its job, and whether the task was carried out
  frozen,       \* processes that are stopped
  effects,      \* history, per job: how often its task was carried out
  threw,        \* history: jobs whose handler has thrown
  faults        \* faults so far

sqsVars == <<inbox, hidden, receives, batch, todo>>
jobVars == <<status, of, stalls, holder>>
workerVars == <<doing, ran, frozen>>
vars == <<accepted, sqsVars, jobVars, workerVars, effects, threw, faults>>

Statuses == {"unused", "waiting", "active", "completed", "failed"}

(* The types, and that every job in use says which task it is for. *)
TypeOK ==
  /\ accepted \subseteq Tasks /\ inbox \subseteq Tasks /\ hidden \subseteq Tasks
  /\ receives \in [Tasks -> Nat]
  /\ batch \in [Lambdas -> SUBSET Tasks] /\ todo \in [Lambdas -> SUBSET Tasks]
  /\ status \in [Jobs -> Statuses]
  /\ of \in [Jobs -> {None} \cup Tasks]
  /\ \A j \in Jobs : status[j] # "unused" => of[j] \in Tasks
  /\ stalls \in [Jobs -> 0..MaxStalls]
  /\ holder \in [Jobs -> {{}} \cup Processes]
  /\ doing \in [Workers -> {0} \cup Jobs] /\ ran \in [Workers -> BOOLEAN]
  /\ frozen \subseteq Freezable
  /\ effects \in [Jobs -> Nat] /\ threw \subseteq Jobs
  /\ faults \in 0..MaxFaults

-----------------------------------------------------------------------------
Init ==
  /\ accepted = {} /\ inbox = {} /\ hidden = {}
  /\ receives = [t \in Tasks |-> 0]
  /\ batch = [i \in Lambdas |-> {}] /\ todo = [i \in Lambdas |-> {}]
  /\ status = [j \in Jobs |-> "unused"] /\ of = [j \in Jobs |-> None]
  /\ stalls = [j \in Jobs |-> 0] /\ holder = [j \in Jobs |-> {}]
  /\ doing = [w \in Workers |-> 0] /\ ran = [w \in Workers |-> FALSE]
  /\ frozen = {} /\ effects = [j \in Jobs |-> 0] /\ threw = {}
  /\ faults = 0

Fault == faults < MaxFaults /\ faults' = faults + 1

(* Faulty variant of AddJob: the job does not say what it is for. *)
AddJobUnnamed(t) ==
  \E j \in Jobs :
    /\ status[j] = "unused"
    /\ \A k \in Jobs : status[k] = "unused" => j <= k
    /\ status' = [status EXCEPT ![j] = "waiting"]
    /\ UNCHANGED <<of, stalls, holder>>

(* defaultQueue.add without a job id: Bull numbers the job itself. *)
AddJob(t) ==
  \E j \in Jobs :
    /\ status[j] = "unused"
    /\ \A k \in Jobs : status[k] = "unused" => j <= k
    /\ status' = [status EXCEPT ![j] = "waiting"]
    /\ of' = [of EXCEPT ![j] = t]
    /\ UNCHANGED <<stalls, holder>>

(* Faulty variant of Submit: neither branch of add knows the driver, and the *)
(* caller is answered all the same.                                          *)
SubmitUnqueued(t) ==
  /\ t \notin accepted
  /\ accepted' = accepted \cup {t}
  /\ UNCHANGED <<sqsVars, jobVars, workerVars, effects, threw, faults>>

(* QueueService.add, called once per task by the services. *)
Submit(t) ==
  /\ t \notin accepted
  /\ accepted' = accepted \cup {t}
  /\ \/ Driver = "bull" /\ AddJob(t) /\ UNCHANGED inbox
     \/ Driver = "sqs" /\ inbox' = inbox \cup {t} /\ UNCHANGED jobVars
  /\ UNCHANGED <<hidden, receives, batch, todo, workerVars, effects, threw, faults>>

-----------------------------------------------------------------------------
(* Lambda polls the queue and invokes taskHandler with some visible messages. *)
ReceiveBatch(i, b) ==
  /\ batch[i] = {} /\ b # {}
  /\ b \subseteq inbox \ hidden
  /\ hidden' = hidden \cup b
  /\ receives' = [t \in Tasks |-> IF t \in b THEN receives[t] + 1 ELSE receives[t]]
  /\ batch' = [batch EXCEPT ![i] = b]
  /\ todo' = [todo EXCEPT ![i] = b]
  /\ UNCHANGED <<accepted, inbox, jobVars, workerVars, effects, threw, faults>>

(* Faulty variant of Forward: whatever the Lambda's driver is, it takes the *)
(* record for one that the processors get by themselves.                   *)
ForwardDropped(i, t) ==
  /\ t \in todo[i]
  /\ todo' = [todo EXCEPT ![i] = @ \ {t}]
  /\ UNCHANGED <<accepted, inbox, hidden, receives, batch, jobVars, workerVars,
                 effects, threw, faults>>

(* Faulty variant of Forward: a record already forwarded is forwarded again. *)
ForwardAgain(i, t) ==
  /\ t \in batch[i]
  /\ AddJob(t)
  /\ todo' = [todo EXCEPT ![i] = @ \ {t}]
  /\ UNCHANGED <<accepted, inbox, hidden, receives, batch, workerVars, effects,
                 threw, faults>>

(* One turn of the loop of taskHandler: processMessage adds a Bull job unless *)
(* queue.driver is "bull" in the Lambda.  The order of a batch is arbitrary.   *)
Forward(i, t) ==
  /\ t \in todo[i]
  /\ IF LambdaDriver = "bull" THEN UNCHANGED jobVars ELSE AddJob(t)
  /\ todo' = [todo EXCEPT ![i] = @ \ {t}]
  /\ UNCHANGED <<accepted, inbox, hidden, receives, batch, workerVars, effects,
                 threw, faults>>

EndBatch(i) ==
  /\ hidden' = hidden \ batch[i]
  /\ batch' = [batch EXCEPT ![i] = {}]
  /\ todo' = [todo EXCEPT ![i] = {}]
  /\ UNCHANGED <<accepted, receives, jobVars, workerVars, effects, threw>>

(* Faulty variant of FinishBatch: the answer of taskHandler names every record *)
(* as failed (batchItemFailures), so that nothing is deleted.                  *)
FinishBatchKept(i) ==
  /\ batch[i] # {} /\ todo[i] = {}
  /\ EndBatch(i)
  /\ UNCHANGED <<inbox, faults>>

(* taskHandler returned: Lambda deletes the whole batch. *)
FinishBatch(i) ==
  /\ batch[i] # {} /\ todo[i] = {}
  /\ inbox' = inbox \ batch[i]
  /\ EndBatch(i)
  /\ UNCHANGED faults

(* Faulty variant of AbortBatch: an error of one record is caught and logged. *)
AbortBatchSwallowed(i) ==
  /\ batch[i] # {}
  /\ Fault
  /\ EndBatch(i)
  /\ inbox' = inbox \ batch[i]

(* taskHandler threw or timed out: nothing is deleted and the whole batch, *)
(* with the records already forwarded, becomes visible again.              *)
AbortBatch(i) ==
  /\ batch[i] # {}
  /\ Fault
  /\ EndBatch(i)
  /\ UNCHANGED inbox

(* A message becomes visible while its batch is still being worked on. *)
VisibilityExpire(t) ==
  /\ t \in hidden
  /\ Fault
  /\ hidden' = hidden \ {t}
  /\ UNCHANGED <<accepted, inbox, receives, batch, todo, jobVars, workerVars,
                 effects, threw>>

-----------------------------------------------------------------------------
Awake(w) == w \notin UNION frozen
Busy(w) == Awake(w) /\ doing[w] # 0

(* The lock is taken with the token of the worker's process. *)
Take(w, j) ==
  \E p \in Processes :
    /\ w \in p /\ Awake(w) /\ doing[w] = 0
    /\ status[j] = "waiting"
    /\ status' = [status EXCEPT ![j] = "active"]
    /\ holder' = [holder EXCEPT ![j] = p]
    /\ doing' = [doing EXCEPT ![w] = j]
    /\ ran' = [ran EXCEPT ![w] = FALSE]
    /\ UNCHANGED <<accepted, sqsVars, of, stalls, frozen, effects, threw, faults>>

(* The handler gets to the point where its task is done. *)
Run(w) ==
  /\ Busy(w) /\ ~ran[w]
  /\ effects' = [effects EXCEPT ![doing[w]] = @ + 1]
  /\ ran' = [ran EXCEPT ![w] = TRUE]
  /\ UNCHANGED <<accepted, sqsVars, jobVars, doing, frozen, threw, faults>>

(* Faulty variant of Settle: nobody asks whose lock is on the job. *)
SettleUnlocked(w, outcome) ==
  LET j == doing[w]
  IN /\ status' = [status EXCEPT ![j] = outcome]
     /\ holder' = [holder EXCEPT ![j] = {}]
     /\ doing' = [doing EXCEPT ![w] = 0]
     /\ ran' = [ran EXCEPT ![w] = FALSE]
     /\ UNCHANGED <<accepted, sqsVars, of, stalls, frozen, effects>>

(* Bull moves the job on only for a worker of the process whose lock is on   *)
(* it: a late worker may settle the job that its own process took again.     *)
Settle(w, outcome) ==
  LET j == doing[w]
  IN /\ IF w \in holder[j]
        THEN /\ status' = [status EXCEPT ![j] = outcome]
             /\ holder' = [holder EXCEPT ![j] = {}]
        ELSE UNCHANGED <<status, holder>>
     /\ doing' = [doing EXCEPT ![w] = 0]
     /\ ran' = [ran EXCEPT ![w] = FALSE]
     /\ UNCHANGED <<accepted, sqsVars, of, stalls, frozen, effects>>

(* Faulty variant of Return: the handler does not await the work it starts. *)
ReturnEarly(w) ==
  /\ Busy(w)
  /\ Settle(w, "completed")
  /\ UNCHANGED <<threw, faults>>

Return(w) ==
  /\ Busy(w) /\ ran[w]
  /\ Settle(w, "completed")
  /\ UNCHANGED <<threw, faults>>

(* The handler throws, before or after its task was done.  add passes no     *)
(* "attempts", so that Bull gives the job one attempt, although the handlers *)
(* "rethrow to let Bull handle retry logic" (email.processor.ts:48).         *)
Throw(w) ==
  /\ Busy(w)
  /\ Fault
  /\ threw' = threw \cup {doing[w]}
  /\ Settle(w, "failed")

(* The process stops in the middle of some job; all its workers are gone. *)
Stop(p) ==
  /\ \E w \in p : doing[w] # 0
  /\ Fault
  /\ doing' = [w \in Workers |-> IF w \in p THEN 0 ELSE doing[w]]
  /\ ran' = [w \in Workers |-> w \notin p /\ ran[w]]
  /\ frozen' = frozen \ {p}
  /\ UNCHANGED <<accepted, sqsVars, status, of, stalls, effects, threw>>

Unlocked(p) == [j \in Jobs |-> IF holder[j] = p THEN {} ELSE holder[j]]

Crash(p) == Stop(p) /\ holder' = Unlocked(p)

Freeze(p) ==
  /\ p \in Freezable \ frozen /\ \E w \in p : doing[w] # 0
  /\ Fault
  /\ frozen' = frozen \cup {p}
  /\ UNCHANGED <<accepted, sqsVars, jobVars, doing, ran, effects, threw>>

(* A process goes on where it stopped; its locks may have run out meanwhile. *)
Thaw(p) ==
  /\ p \in frozen
  /\ frozen' = frozen \ {p}
  /\ holder' \in {holder, Unlocked(p)}
  /\ UNCHANGED <<accepted, sqsVars, status, of, stalls, doing, ran, effects,
                 threw, faults>>

(* Faulty variant of StalledCheck: stalled jobs go back uncounted. *)
StalledCheckUncounted(j) ==
  /\ status[j] = "active"
  /\ holder[j] \in {{}} \cup frozen
  /\ holder' = [holder EXCEPT ![j] = {}]
  /\ status' = [status EXCEPT ![j] = "waiting"]
  /\ UNCHANGED <<accepted, sqsVars, of, stalls, workerVars, effects, threw, faults>>

(* Bull's stalled check: an active job nobody renews goes back to waiting, or *)
(* fails when it was stalled too often.                                       *)
StalledCheck(j) ==
  /\ status[j] = "active"
  /\ holder[j] \in {{}} \cup frozen
  /\ holder' = [holder EXCEPT ![j] = {}]
  /\ IF stalls[j] < MaxStalls
     THEN /\ status' = [status EXCEPT ![j] = "waiting"]
          /\ stalls' = [stalls EXCEPT ![j] = @ + 1]
     ELSE /\ status' = [status EXCEPT ![j] = "failed"]
          /\ UNCHANGED stalls
  /\ UNCHANGED <<accepted, sqsVars, of, workerVars, effects, threw, faults>>

Invocation(i) ==
  \/ \E b \in SUBSET Tasks : ReceiveBatch(i, b)
  \/ \E t \in Tasks : Forward(i, t)
  \/ FinishBatch(i)

Work(w) == Run(w) \/ Return(w) \/ \E j \in Jobs : Take(w, j)

Disturb ==
  \/ \E i \in Lambdas : AbortBatch(i)
  \/ \E t \in Tasks : VisibilityExpire(t)
  \/ \E w \in Workers : Throw(w)
  \/ \E p \in Processes : Crash(p) \/ Freeze(p) \/ Thaw(p)

Next ==
  \/ \E t \in Tasks : Submit(t)
  \/ \E i \in Lambdas : Invocation(i)
  \/ \E w \in Workers : Work(w)
  \/ \E j \in Jobs : StalledCheck(j)
  \/ Disturb

(* Lambda keeps polling, a process that runs keeps its event loop turning and *)
(* Bull keeps checking for stalled jobs.  Nothing makes a frozen process go on. *)
Fairness ==
  /\ \A i \in Lambdas : WF_vars(Invocation(i))
  /\ \A w \in Workers : WF_vars(Work(w))
  /\ \A j \in Jobs : WF_vars(StalledCheck(j))

Spec == Init /\ [][Next]_vars /\ Fairness

-----------------------------------------------------------------------------
(* What the handler of a task finds in job.data.  The Bull driver stores the *)
(* whole message with the fields and trace ids in its payload; taskHandler   *)
(* stores the payload alone.  The email handlers look for their fields in    *)
(* both places and for the trace id in the payload; the file handler looks   *)
(* for its fields in job.data itself and sets up no trace.                   *)
Wrapped == Driver = "bull"
FieldsFound(t) == t \in EmailTasks \/ ~Wrapped
TraceFound(t) == t \in EmailTasks /\ Wrapped

JobsOf(t) == {j \in Jobs : status[j] # "unused" /\ of[j] = t}
HasJob(t) == JobsOf(t) # {}

(* A Lambda that gets messages adds a job for each of them. *)
Forwards == Driver = "sqs" => LambdaDriver = "sqs"

(* A task is never forgotten between the two queues: once add has returned   *)
(* it is in SQS until a Bull job stands for it (lambda.ts:46-54), provided    *)
(* that the Lambda Forwards.                                                  *)
NothingLost ==
  \A t \in accepted : t \in inbox \/ HasJob(t)

Deliveries(t) == IF Driver = "bull" THEN 1 ELSE receives[t]

(* A task has no more jobs than deliveries: one with the driver bull, and one *)
(* per delivery of its message with sqs, however the batches it was in ended  *)
(* and whoever else had it in hands (queue.service.ts:62-74, lambda.ts:46-54). *)
JobsBoundedByDeliveries ==
  \A t \in Tasks : Cardinality(JobsOf(t)) <= Deliveries(t)

(* A job carries out its task again only after it was found stalled, and so  *)
(* at most MaxStalls + 1 times, late workers included.                       *)
EffectsBounded ==
  \A j \in Jobs : effects[j] <= stalls[j] + 1

(* The times a task was carried out, and those one of its jobs was found stalled. *)
Carryings(t) == UNION {{j} \X (1..effects[j]) : j \in JobsOf(t)}
Stallings(t) == UNION {{j} \X (1..stalls[j]) : j \in JobsOf(t)}

(* What at-least-once comes to for the user, from add to the handlers: a task *)
(* is carried out at most once per delivery, and once more per stall.         *)
CarriedOutBounded ==
  \A t \in Tasks :
    Cardinality(Carryings(t)) <= Deliveries(t) + Cardinality(Stallings(t))

(* Repetition has a cause: no message was delivered again, and no job found   *)
(* stalled, more often than something has failed so far (one crash may stall  *)
(* several jobs).                                                             *)
RepeatsTakeFaults ==
  /\ \A t \in Tasks : receives[t] <= 1 + faults
  /\ \A j \in Jobs : stalls[j] <= faults

(* Late answers change nothing: once a job has completed or failed, a worker *)
(* that still had it in hands cannot move it.                                *)
SettledStays ==
  [][\A j \in Jobs : status[j] \in {"completed", "failed"} => status'[j] = status[j]]_vars

(* A job is completed only when its task was carried out, and fails only     *)
(* when its handler threw or it was found stalled too often.                 *)
OutcomeExplained ==
  \A j \in Jobs :
    /\ status[j] = "completed" => effects[j] >= 1
    /\ status[j] = "failed" => j \in threw \/ stalls[j] = MaxStalls

(* Every task that add accepted comes to an end: its message is deleted and  *)
(* a job for it has completed or failed.                                     *)
EveryTaskSettles ==
  \A t \in Tasks :
    t \in accepted ~> /\ t \notin inbox
                      /\ \E j \in Jobs : of[j] = t /\ status[j] \in {"completed", "failed"}

(* docs/queue-system.md:41 lists the data fields of file:process, and         *)
(* docs/distributed-tracing.md:17 says "Queue processors maintain trace       *)
(* context": a handler that runs finds both where it looks for them.          *)
HandlersFindTheirData ==
  \A j \in Jobs : effects[j] > 0 => FieldsFound(of[j]) /\ TraceFound(of[j])

(* queue.service.ts:111, "If already using Bull, the processors will handle   *)
(* it automatically": a message that the Lambda deletes has a job.            *)
HandledAutomatically ==
  [][\A t \in inbox \ inbox' : HasJob(t)]_vars

-----------------------------------------------------------------------------
(* The mapping to TaskExecution: what the jobs say of their tasks. *)
TasksOf(js) == {of[j] : j \in js}
carriedOutBar == TasksOf({j \in Jobs : effects[j] > 0})
completedBar == TasksOf({j \in Jobs : status[j] = "completed"})
failedBar == TasksOf({j \in Jobs : status[j] = "failed"})

Execution == INSTANCE TaskExecution
               WITH Redelivered <- Driver = "sqs", carriedOut <- carriedOutBar,
                    completed <- completedBar, failed <- failedBar

(* Both drivers implement TaskExecution, whatever crashes, freezes and is     *)
(* delivered again: only tasks that were added are carried out, no report is  *)
(* early, wrong or taken back, and with the driver bull a task has one        *)
(* outcome (queue.service.ts:50-122 against lambda.ts:46-54).                 *)
TasksRefined == Execution!ExecutionSpec

=============================================================================
