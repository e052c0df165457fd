-------------------------- MODULE JobDeliveryProofs --------------------------
(***************************************************************************)
(* How often the handlers of JobQueue carry out a task, for both drivers   *)
(* and any number of faults.                                               *)
(***************************************************************************)
EXTENDS JobQueueProofs, Functions

(* A message that can be received again has had a fault for it. *)
MessageFaults ==
  /\ inbox \subseteq accepted
  /\ \A t \in Tasks : /\ t \notin accepted => receives[t] = 0
                      /\ t \in inbox \ hidden => receives[t] <= faults
                      /\ receives[t] <= 1 + faults

(* So has a job that the next stalled check finds. *)
JobFaults ==
  \A j \in Jobs :
    /\ status[j] = "active" /\ holder[j] \in {{}} \cup frozen => stalls[j] + 1 <= faults
    /\ stalls[j] <= faults

LEMMA CountersTyped ==
  ASSUME TypeOK
  PROVE  /\ faults \in Nat
         /\ \A t \in Tasks : receives[t] \in Nat
         /\ \A j \in Jobs : stalls[j] \in Nat
BY BoundsAssumption DEF TypeOK

(* The number of faults never goes back, and the workers never touch SQS. *)
LEMMA FaultsGrow ==
  ASSUME TypeOK, [Next]_vars
  PROVE  faults <= faults'
BY CountersTyped, NextCases
   DEF Fault, Submit, ReceiveBatch, Forward, FinishBatch, AbortBatch, EndBatch,
       VisibilityExpire, WorkerStep, Take, Run, Return, Throw, Settle, Crash,
       Stop, Freeze, Thaw, StalledCheck, vars

LEMMA MessageStep ==
  ASSUME TypeOK, TypeOK', LockedIsActive, MessageFaults, [Next]_vars
  PROVE  MessageFaults'
<1>0. /\ faults \in Nat /\ faults' \in Nat /\ faults <= faults'
      /\ \A t \in Tasks : receives[t] \in Nat /\ receives'[t] \in Nat
  BY CountersTyped, FaultsGrow DEF TypeOK
<1>1. ASSUME UNCHANGED <<accepted, receives>>, inbox' \subseteq inbox,
             inbox' \ hidden' \subseteq inbox \ hidden
      PROVE  MessageFaults'
  BY <1>0, <1>1 DEF MessageFaults
<1>2. ASSUME NEW t \in Tasks, Submit(t)
      PROVE  MessageFaults'
  <2>1. /\ t \notin accepted /\ accepted' = accepted \cup {t}
        /\ inbox' \subseteq inbox \cup {t} /\ UNCHANGED <<hidden, receives, faults>>
    BY <1>2 DEF Submit
  <2>2. QED
    BY <1>0, <2>1 DEF MessageFaults
<1>3. ASSUME NEW i \in Lambdas, NEW b \in SUBSET Tasks, ReceiveBatch(i, b)
      PROVE  MessageFaults'
  <2>1. /\ UNCHANGED <<accepted, inbox, faults>>
        /\ b \subseteq inbox \ hidden /\ hidden' = hidden \cup b
        /\ receives' = [t \in Tasks |-> IF t \in b THEN receives[t] + 1 ELSE receives[t]]
    BY <1>3 DEF ReceiveBatch
  <2>2. \A t \in Tasks : receives'[t] = IF t \in b THEN receives[t] + 1 ELSE receives[t]
    BY <2>1
  <2>3. QED
    BY <1>0, <2>1, <2>2 DEF MessageFaults
<1>4. ASSUME NEW i \in Lambdas, FinishBatch(i)
      PROVE  MessageFaults'
  BY <1>1, <1>4 DEF FinishBatch, EndBatch
<1>5. ASSUME UNCHANGED <<accepted, inbox, receives>>, faults' = faults + 1
      PROVE  MessageFaults'
  BY <1>0, <1>5 DEF MessageFaults
<1>6. CASE WorkerStep
  BY <1>1, <1>6, WorkersMakeNoJob DEF sqsVars
<1>7. QED
  BY <1>1, <1>2, <1>3, <1>4, <1>5, <1>6, NextCases
     DEF Forward, AbortBatch, EndBatch, VisibilityExpire, Fault, vars, sqsVars

(* The steps that lock, unlock and activate no job. *)
LEMMA JobsLeftAlone ==
  ASSUME TypeOK, TypeOK', JobFaults, faults <= faults',
         UNCHANGED <<stalls, holder, frozen>>,
         \A j \in Jobs : status'[j] = "active" => status[j] = "active"
  PROVE  JobFaults'
<1>1. /\ faults \in Nat /\ faults' \in Nat
      /\ \A j \in Jobs : stalls[j] \in Nat
  BY CountersTyped DEF TypeOK
<1>2. QED
  BY <1>1 DEF JobFaults

LEMMA JobFaultStep ==
  ASSUME TypeOK, TypeOK', LockedIsActive, JobFaults, [Next]_vars
  PROVE  JobFaults'
<1>0. /\ faults \in Nat /\ faults' \in Nat /\ faults <= faults'
      /\ \A j \in Jobs : stalls[j] \in Nat /\ stalls'[j] \in Nat
  BY CountersTyped, FaultsGrow DEF TypeOK
<1>1. CASE UNCHANGED <<status, stalls, holder, frozen>>
  BY <1>0, <1>1, JobsLeftAlone
<1>2. ASSUME NEW t \in Tasks, AddJob(t), UNCHANGED frozen
      PROVE  JobFaults'
  <2>1. /\ UNCHANGED <<stalls, holder>>
        /\ \A j \in Jobs : status'[j] = "active" => status[j] = "active"
    BY <1>2, AddJobTakes DEF TypeOK
  <2>2. QED
    BY <1>0, <1>2, <2>1, JobsLeftAlone
<1>3. ASSUME NEW w \in Workers, NEW j \in Jobs, Take(w, j)
      PROVE  JobFaults'
  <2>1. PICK p \in Processes :
          /\ w \in p /\ p \notin frozen /\ UNCHANGED <<stalls, frozen, faults>>
          /\ status' = [status EXCEPT ![j] = "active"]
          /\ holder' = [holder EXCEPT ![j] = p]
    BY <1>3 DEF Take, Awake
  <2>2. p \notin {{}} \cup frozen'
    BY <2>1
  <2>3. QED
    BY <1>0, <2>1, <2>2 DEF TypeOK, JobFaults
<1>4. ASSUME NEW w \in Workers, Return(w) \/ Throw(w)
      PROVE  JobFaults'
  <2>1. PICK outcome \in {"completed", "failed"} : Settle(w, outcome)
    BY <1>4 DEF Return, Throw
  <2>2. \A j \in Jobs : status'[j] = "active" => status[j] = "active" /\ holder'[j] = holder[j]
    BY <2>1 DEF TypeOK, Settle
  <2>3. UNCHANGED <<stalls, frozen>>
    BY <2>1 DEF Settle
  <2>4. QED
    BY <1>0, <2>2, <2>3 DEF JobFaults
<1>5. ASSUME NEW p \in Processes, Crash(p) \/ Freeze(p)
      PROVE  JobFaults'
  <2>1. UNCHANGED <<status, stalls>> /\ faults' = faults + 1
    BY <1>5 DEF Crash, Stop, Freeze, Fault, jobVars
  <2>2. QED
    BY <1>0, <2>1 DEF JobFaults
<1>6. ASSUME NEW p \in Processes, Thaw(p)
      PROVE  JobFaults'
  <2>1. /\ UNCHANGED <<status, stalls, faults>> /\ p \in frozen /\ frozen' \subseteq frozen
        /\ \A j \in Jobs : holder'[j] = holder[j] \/ (holder'[j] = {} /\ holder[j] = p)
    BY <1>6 DEF TypeOK, Thaw, Unlocked
  <2>2. QED
    BY <1>0, <2>1 DEF JobFaults
<1>7. ASSUME NEW j \in Jobs, StalledCheck(j)
      PROVE  JobFaults'
  <2>1. /\ status[j] = "active" /\ holder[j] \in {{}} \cup frozen
        /\ UNCHANGED <<frozen, faults>>
        /\ holder' = [holder EXCEPT ![j] = {}]
        /\ \/ stalls' = [stalls EXCEPT ![j] = @ + 1] \/ UNCHANGED stalls
        /\ \E s \in {"waiting", "failed"} : status' = [status EXCEPT ![j] = s]
    BY <1>7 DEF StalledCheck, workerVars
  <2>2. \A k \in Jobs \ {j} : /\ status'[k] = status[k] /\ holder'[k] = holder[k]
                             /\ stalls'[k] = stalls[k]
    BY <2>1 DEF TypeOK
  <2>3. status'[j] # "active" /\ stalls'[j] <= stalls[j] + 1
    BY <1>0, <2>1 DEF TypeOK
  <2>4. QED
    BY <1>0, <2>1, <2>2, <2>3 DEF JobFaults
<1>8. QED
  BY <1>1, <1>2, <1>3, <1>4, <1>5, <1>6, <1>7, NextCases
     DEF Submit, ReceiveBatch, Forward, FinishBatch, AbortBatch, EndBatch,
         VisibilityExpire, WorkerStep, Run, vars, jobVars, workerVars

(* Without failures nothing is delivered again or found stalled. *)
THEOREM RepeatsHaveFaults == Spec => []RepeatsTakeFaults
<1>1. Init => MessageFaults /\ JobFaults
  <2> SUFFICES ASSUME Init PROVE MessageFaults /\ JobFaults
    OBVIOUS
  <2>1. MessageFaults
    BY DEF Init, MessageFaults
  <2>2. JobFaults
    BY DEF Init, JobFaults
  <2>3. QED
    BY <2>1, <2>2
<1>2. TypeOK /\ JobInv /\ TypeOK' /\ MessageFaults /\ JobFaults /\ [Next]_vars
        => MessageFaults' /\ JobFaults'
  BY MessageStep, JobFaultStep DEF JobInv
<1>3. MessageFaults /\ JobFaults => RepeatsTakeFaults
  BY DEF MessageFaults, JobFaults, RepeatsTakeFaults
<1>4. QED
  BY <1>1, <1>2, <1>3, JobInvariant, PTL DEF Spec

-----------------------------------------------------------------------------
(* What there is to count of a task is finite. *)
LEMMA StallingsFinite ==
  ASSUME TypeOK, NEW t \in Tasks
  PROVE  IsFiniteSet(Stallings(t)) /\ Cardinality(Stallings(t)) \in Nat
<1>1. Stallings(t) \in SUBSET (JobsOf(t) \X (0..MaxStalls))
  BY BoundsAssumption DEF TypeOK, Stallings, JobsOf
<1>2. IsFiniteSet(JobsOf(t) \X (0..MaxStalls))
  <2>1. IsFiniteSet(0..MaxStalls) /\ IsFiniteSet(JobsOf(t))
    BY BoundsAssumption, JobsOfFinite, FS_Interval
  <2>2. QED
    BY <2>1, FS_Product
<1>3. QED
  BY <1>1, <1>2, FS_Subset, FS_CardinalityType

(* The first time a job carries out its task is charged to the job, each     *)
(* later one to the stall before it.                                         *)
LEMMA CarryingsCharged ==
  ASSUME TypeOK, EffectsBounded, NEW t \in Tasks
  PROVE  /\ IsFiniteSet(Carryings(t))
         /\ Cardinality(Carryings(t)) <= Cardinality(JobsOf(t)) + Cardinality(Stallings(t))
<1> DEFINE First == JobsOf(t) \X {0}
           Charged == First \cup Stallings(t)
           charge == [c \in Carryings(t) |-> <<c[1], c[2] - 1>>]
<1>1. IsFiniteSet(First) /\ Cardinality(First) = Cardinality(JobsOf(t))
  <2>1. IsFiniteSet({0}) /\ Cardinality({0}) = 1 /\ IsFiniteSet(JobsOf(t))
    BY JobsOfFinite, FS_Singleton
  <2>2. /\ IsFiniteSet(First)
        /\ Cardinality(First) = Cardinality(JobsOf(t)) * Cardinality({0})
    BY <2>1, FS_Product
  <2>3. QED
    BY <2>1, <2>2, JobsOfFinite
<1>2. /\ IsFiniteSet(Charged) /\ Cardinality(Charged) \in Nat
      /\ Cardinality(Charged) <= Cardinality(JobsOf(t)) + Cardinality(Stallings(t))
  <2>1. IsFiniteSet(First \cap Stallings(t))
    BY <1>1, FS_Intersection
  <2>2. Cardinality(First \cap Stallings(t)) \in Nat
    BY <2>1, FS_CardinalityType
  <2>3. /\ IsFiniteSet(Charged)
        /\ Cardinality(Charged) = Cardinality(First) + Cardinality(Stallings(t))
                                    - Cardinality(First \cap Stallings(t))
    BY <1>1, StallingsFinite, FS_Union
  <2>4. QED
    BY <1>1, <2>2, <2>3, JobsOfFinite, StallingsFinite, FS_CardinalityType
<1>3. ASSUME NEW c \in Carryings(t)
      PROVE  c = <<c[1], c[2]>> /\ c[2] \in Int /\ <<c[1], c[2] - 1>> \in Charged
  <2>1. PICK j \in JobsOf(t) : c \in {j} \X (1..effects[j])
    BY <1>3 DEF Carryings
  <2>2. j \in Jobs /\ effects[j] \in Nat /\ stalls[j] \in Nat /\ effects[j] <= stalls[j] + 1
    BY CountersTyped DEF JobsOf, TypeOK, EffectsBounded
  <2>3. c = <<c[1], c[2]>> /\ c[1] = j /\ c[2] \in 1..effects[j]
    BY <2>1
  <2>4. CASE c[2] = 1
    BY <2>3, <2>4
  <2>5. CASE c[2] # 1
    <3>1. c[2] - 1 \in 1..stalls[j]
      BY <2>2, <2>3, <2>5
    <3>2. <<c[1], c[2] - 1>> \in Stallings(t)
      BY <2>3, <3>1 DEF Stallings
    <3>3. QED
      BY <2>2, <2>3, <3>2
  <2>6. QED
    BY <2>4, <2>5, <2>2, <2>3
<1>4. charge \in Injection(Carryings(t), Charged)
  <2>1. charge \in [Carryings(t) -> Charged]
    BY <1>3
  <2>2. ASSUME NEW c \in Carryings(t), NEW d \in Carryings(t), charge[c] = charge[d]
        PROVE  c = d
    BY <1>3, <2>2
  <2>3. QED
    BY <2>1, <2>2 DEF Injection, IsInjective
<1>5. IsFiniteSet(Carryings(t)) /\ Cardinality(Carryings(t)) <= Cardinality(Charged)
  BY <1>2, <1>4, FS_Injection
<1>6. QED
  BY <1>2, <1>5, JobsOfFinite, StallingsFinite, FS_CardinalityType

LEMMA CarriedOutFollows ==
  ASSUME TypeOK, EffectsBounded, JobsBoundedByDeliveries
  PROVE  CarriedOutBounded
<1> SUFFICES ASSUME NEW t \in Tasks
             PROVE  Cardinality(Carryings(t)) <= Deliveries(t) + Cardinality(Stallings(t))
  BY DEF CarriedOutBounded
<1>1. Cardinality(JobsOf(t)) <= Deliveries(t) /\ Deliveries(t) \in Nat
  BY DEF TypeOK, JobsBoundedByDeliveries, Deliveries
<1>2. /\ Cardinality(Carryings(t)) \in Nat
      /\ Cardinality(Carryings(t)) <= Cardinality(JobsOf(t)) + Cardinality(Stallings(t))
  BY CarryingsCharged, FS_CardinalityType
<1>3. QED
  BY <1>1, <1>2, JobsOfFinite, StallingsFinite

(* A task is carried out at most once per delivery and once more per stall. *)
THEOREM CarriedOut == Spec => []CarriedOutBounded
<1>1. TypeOK /\ EffectsBounded /\ JobsBoundedByDeliveries => CarriedOutBounded
  BY CarriedOutFollows
<1>2. QED
  BY <1>1, TypeCorrect, Effects, JobsPerDelivery, PTL

(* As long as nothing has failed, every task has been carried out at most    *)
(* once, with either driver (queue.service.ts:50-122, lambda.ts:46-54).      *)
THEOREM OnceWithoutFaults ==
  Spec => [](faults = 0 => \A t \in Tasks : Cardinality(Carryings(t)) <= 1)
<1>1. TypeOK /\ EffectsBounded /\ CarriedOutBounded /\ RepeatsTakeFaults
        => (faults = 0 => \A t \in Tasks : Cardinality(Carryings(t)) <= 1)
  <2> SUFFICES ASSUME TypeOK, EffectsBounded, CarriedOutBounded, RepeatsTakeFaults,
                      faults = 0, NEW t \in Tasks
               PROVE  Cardinality(Carryings(t)) <= 1
    OBVIOUS
  <2>1. \A j \in JobsOf(t) : stalls[j] = 0
    BY CountersTyped DEF RepeatsTakeFaults, JobsOf
  <2>2. Stallings(t) = {}
    BY <2>1 DEF Stallings
  <2>3. Cardinality(Stallings(t)) = 0
    BY <2>2, FS_EmptySet
  <2>4. Deliveries(t) \in Nat /\ Deliveries(t) <= 1
    BY CountersTyped DEF RepeatsTakeFaults, Deliveries
  <2>5. Cardinality(Carryings(t)) \in Nat
    BY CarryingsCharged, FS_CardinalityType
  <2>6. Cardinality(Carryings(t)) <= Deliveries(t) + Cardinality(Stallings(t))
    BY DEF CarriedOutBounded
  <2>7. QED
    BY <2>3, <2>4, <2>5, <2>6
<1>2. QED
  BY <1>1, TypeCorrect, Effects, CarriedOut, RepeatsHaveFaults, PTL

=============================================================================
