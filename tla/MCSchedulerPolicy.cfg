SPECIFICATION Spec
CONSTANTS
  Idle = Idle
  a = a
  b = b
  c = c
  Tasks <- Two
  Workload <- PolicyWorkload
  MAX_LOCK_COUNT = 127
  TimeSlice = 2
  CreatePriorities = {1, 2}
  SetPriorities = {1, 2}
  UsedWaits = {"WAIT_SEM"}
  SlowToClose = {}
  MaxNest = 1
INVARIANTS HighestPriorityRuns OneRunning
PROPERTIES LockKeepsCPU FifoWithinPriority
