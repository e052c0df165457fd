CONSTANTS
  EmailTasks = {t1}
  FileTasks = {t2}
  Driver = "sqs"
  LambdaDriver = "bull"
  Lambdas = {l1, l2}
  Processes = {{w1}, {w2}}
  Freezable = {{w2}}
  MaxJobs = 2
  MaxStalls = 1
  MaxFaults = 1
  None = None
SPECIFICATION Spec
CHECK_DEADLOCK FALSE
PROPERTIES HandledAutomatically
