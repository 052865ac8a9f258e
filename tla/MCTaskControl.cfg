SPECIFICATION ControlSpec
CONSTANTS
  Idle = Idle
  a = a
  b = b
  c = c
  Tasks <- Three
  Workload <- CoreWorkload
  MAX_LOCK_COUNT = 127
  TimeSlice = 2
  CreatePriorities = {1, 2}
  SetPriorities = {0, 1, 3}
  UsedWaits = {"WAIT_SEM"}
  SlowToClose = {b}
  MaxNest = 1
INVARIANTS TypeOK ListsConsistent ListsSorted IdleLast OneRunning PendingOnlyWhileLocked HighestPriorityRuns ExclusiveCalls NoPanic
PROPERTIES LockKeepsCPU FifoWithinPriority RestartReinitializes
