CONSTANTS
  w1 = w1
  w2 = w2
  w3 = w3
  Wdogs <- Three
  Delays <- ManyDelays
SPECIFICATION FairSpec
INVARIANTS
  MarkedIsLinked
  LagsAreCounts
PROPERTIES
  OwnCountdown
  InterruptEnds
  ExpiresUnlessRestarted
