SPECIFICATION MCSpec
CONSTANTS
  Idle = Idle
  a = a
  b = b
  c = c
  q1 = q1
  w1 = w1
  None = None
  Handler = Handler
  Tasks <- Three
  MAX_LOCK_COUNT = 127
  TimeSlice = 0
  Queues = {q1}
  Prios = {0}
  MaxMsgs = 1
  NumMsgs = 1
  NumIrqMsgs = 1
  MaxDyn = 2
  Timeouts = {1}
  Wdogs = {w1}
  Workload <- OvertakenWorkload
  Signalled = {}
  HeapWaiters = {}
  NonBlocking = {}
CHECK_DEADLOCK FALSE
PROPERTY TimedCallEnds
