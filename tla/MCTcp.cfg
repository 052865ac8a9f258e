SPECIFICATION Spec
CHECK_DEADLOCK FALSE
CONSTANTS
  ISNs <- NearWrap
  SeqSpace = 16
  UIP_TCP_MSS = 2
  UIP_MAXRTX = 1
  UIP_MAXSYNRTX = 1
  NREADAHEAD = 1
  READAHEAD_BUFSIZE = 2
  Programs <- ClientFirst
  SendLengths <- Lengths
  RecvLengths <- Reads
  MaxBytes <- Bytes
  MaxInFlight <- OneAndTwo
  MaxUnacked = 6
INVARIANTS AckedMeansTaken SendNotStuck
PROPERTIES StreamsKept
