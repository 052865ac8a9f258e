SPECIFICATION SafeSpec
SYMMETRY SemSymmetry
CONSTANTS
  Idle = Idle
  a = a
  b = b
  c = c
  m1 = m1
  m2 = m2
  w1 = w1
  w2 = w2
  Tasks <- Three
  Workload <- WaitWorkload
  MAX_LOCK_COUNT = 127
  TimeSlice = 1
  CreatePriorities = {1}
  SetPriorities = {1, 3}
  UsedWaits = {}
  SlowToClose = {}
  MaxNest = 0
  Sems = {m1, m2}
  InitCount <- ZeroCount
  SEM_VALUE_MAX = 32767
  MaxCount = 1
  Wdogs = {w1}
  Timeouts = {1}
INVARIANTS CountIsWaiters
PROPERTIES CountsKept PostWakesHighest
