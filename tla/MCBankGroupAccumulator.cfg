SPECIFICATION FairSpec
CONSTANTS
  NumStreams = 2
  InputQueueDepth = 2
  AccumulatorEntries = 2
  OutputQueueDepth = 1
  CompareLatency = 1
  AddLatency = 2
  NumRows = 3
  MaxGeneration = 2
  Offers <- MCOffers
INVARIANTS
  SafeState
  AdditionOrder
  EvictionExcludesDatapath
PROPERTIES
  ImplementsLedger
  Progress
