SPECIFICATION HSpec
SYMMETRY UserSymmetry
CONSTANTS
  a = a
  b = b
  c = c
  Users <- Three
  Collector = Collector
  HeapWords = 14
  MM_NNODES = 2
  Requests = {1, 2, 4}
  Alignments = {4}
  MaxDelayed = 1
  Programs <- OneOrOther
INVARIANTS ListsMatchChunks EveryChunkHeldOnce FindsBest
PROPERTIES BlocksKept
