CONSTANTS
  EmailTasks = {t1}
  FileTasks = {t2}
  Driver = "bull"
  LambdaDriver = "bull"
  Lambdas = {}
  Processes = {{w1}, {w2}}
  Freezable = {{w2}}
  MaxJobs = 2
  MaxStalls = 1
  MaxFaults = 3
  None = None
SPECIFICATION Spec
CHECK_DEADLOCK FALSE
INVARIANTS HandlersFindTheirData
