CONSTANTS
  EmailTasks = {t1}
  FileTasks = {t2}
  Driver = "sqs"
  LambdaDriver = "sqs"
  Lambdas = {l1, l2}
  Processes = {{w1}, {w2, w3}}
  Freezable = {{w2, w3}}
  MaxJobs = 4
  MaxStalls = 1
  MaxFaults = 1
  None = None
SPECIFICATION Spec
CHECK_DEADLOCK FALSE
INVARIANTS TypeOK NothingLost JobsBoundedByDeliveries CarriedOutBounded RepeatsTakeFaults
PROPERTIES EveryTaskSettles TasksRefined
