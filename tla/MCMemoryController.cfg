SPECIFICATION FairSpec
CONSTANTS
  NumRanks = 2
  NumBanks = 2
  NumBankGroups = 1
  NumRows = 2
  Timing <- SmallTiming
  CmdQueueDepth = 2
  TotalRowAccesses = 2
  None = None
  TransQueueDepth = 1
  Requests <- MixedRequests
  Streams <- NoRequests
  MaxSubmissions = 3
  MaxBarriers = 1
  MaxIds = 3
INVARIANTS SafeState OnTheFlyExact BarrierOrder
PROPERTIES ImplementsMemoryService Progress
