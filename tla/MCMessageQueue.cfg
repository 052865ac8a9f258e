SPECIFICATION SafeSpec
CONSTANTS
  Idle = Idle
  a = a
  b = b
  c = c
  q1 = q1
  w1 = w1
  None = None
  Handler = Handler
  Tasks <- Three
  MAX_LOCK_COUNT = 127
  TimeSlice = 0
  Queues = {q1}
  Prios = {0, 1}
  MaxMsgs = 1
  NumMsgs = 1
  NumIrqMsgs = 0
  MaxDyn = 1
  Timeouts = {0, 1}
  Wdogs = {w1}
  Workload <- AllWorkload
  Signalled = {b, c}
  HeapWaiters = {c}
  NonBlocking = {a}
CHECK_DEADLOCK FALSE
INVARIANTS WaitersCounted NoLostWakeup NeverOverfilled
PROPERTIES MessagesInOrder
