SPECIFICATION HSpec
CONSTANTS
  a = a
  b = b
  c = c
  Users <- Three
  Collector = Collector
  HeapWords = 14
  MM_NNODES = 2
  Requests = {1, 2, 4}
  Alignments = {4}
  MaxDelayed = 1
  Programs <- Both
INVARIANT NoSmallChunk
