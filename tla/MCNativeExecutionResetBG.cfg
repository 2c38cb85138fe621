CONSTANTS
  NoOp = NoOp
  NumBGs = 2
  NumRows = 2
  InputQueueDepth = 4
  AccumulatorEntries = 1
  OutputQueueDepth = 1
  CompareLatency = 1
  AddLatency = 4
  RecordsPerBurst = 2
  BufferCapacity = 4
  PendingCapacity = 1
  MaxInflightWrites = 1
  WriteLatency = 30
  MaxInflightReads = 1
  ReadLatency = 2
  ReturnQueueCapacity = 1
  ReductionQueueCapacity = 2
  ReduceRecordsPerCycle = 1
  ReduceLatency = 1
  AcceptsPerCycle = 1
  Images <- ProductionImages
  Policies <- ProductionPolicy
  FlushedLaunches = 1
SPECIFICATION Spec
INVARIANTS ValidResultIsComplete
CHECK_DEADLOCK FALSE
