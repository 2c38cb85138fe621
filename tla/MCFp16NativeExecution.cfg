CONSTANTS
  Half = 2
  InputQueueDepth = 3
  AccumulatorEntries = 2
  OutputQueueDepth = 1
  CompareLatency = 1
  AddLatency = 5
  Channels = 2
  BankGroupsPerRank = 2
  RecordsPerBurst = 2
  PendingCapacity = 1
  WriteLatency = 30
  MaxInflightWrites = 1
  ReadLatency = 2
  MaxInflightReads = 2
  ReduceRecordsPerCycle = 2
  ReduceLatency = 2
  AcceptsPerCycle = 1
  Rejects = 1
  Modes <- AllModes
  Images <- SmallImages
SPECIFICATION FairSpec
INVARIANTS SafeState OperandsBelongTogether RowsHandedOver ReductionIsCanonical DoneIsComplete
PROPERTIES Completes
