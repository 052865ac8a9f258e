SPECIFICATION MCSpec
CONSTANTS
  Idle = Idle
  a = a
  b = b
  c = c
  m1 = m1
  m2 = m2
  w1 = w1
  w2 = w2
  Tasks <- Two
  Workload <- TimedWorkload
  MAX_LOCK_COUNT = 127
  TimeSlice = 1
  CreatePriorities = {1}
  SetPriorities = {}
  UsedWaits = {}
  SlowToClose = {}
  MaxNest = 0
  Sems = {m1}
  InitCount <- OneCount
  SEM_VALUE_MAX = 32767
  MaxCount = 1
  Wdogs = {w1, w2}
  Timeouts <- ManyTimeouts
INVARIANTS CountIsWaiters TimeoutIsOwn
PROPERTIES CountsKept TimedWaitEnds
