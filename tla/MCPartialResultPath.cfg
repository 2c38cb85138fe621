SPECIFICATION FairSpec
CONSTANTS
  Channels = 2
  RanksPerChannel = 1
  BankGroupsPerRank = 2
  RecordsPerBurst = 2
  BufferCapacity = 3
  PendingCapacity = 1
  MaxInflightWrites = 2
  WriteLatency = 0
  MaxInflightReads = 2
  ReadLatency = 2
  ReturnQueueCapacity = 2
  ReductionQueueCapacity = 3
  ReduceRecordsPerCycle = 2
  ReduceLatency = 2
  MaxRecords <- UnequalRecords
INVARIANTS
  SafeState
PROPERTIES
  ImplementsDelivery
  ResultsDelivered
