SPECIFICATION RRSpec
CONSTANTS
  Idle = Idle
  a = a
  b = b
  c = c
  Tasks <- Three
  Workload <- RRWorkload
  MAX_LOCK_COUNT = 127
  TimeSlice = 2
  CreatePriorities = {}
  SetPriorities = {}
  UsedWaits = {"WAIT_SEM"}
  SlowToClose = {}
  MaxNest = 0
PROPERTIES RoundRobinTurns
