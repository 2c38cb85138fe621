SPECIFICATION FairSpec
CONSTANTS
  NumRanks = 1
  NumBanks = 2
  NumBankGroups = 1
  NumRows = 2
  Timing <- SmallTiming
  CmdQueueDepth = 2
  TotalRowAccesses = 2
  None = None
  TransQueueDepth = 1
  Requests <- RowConflict
  Streams <- RowStream
  MaxSubmissions = 1
  MaxBarriers = 0
  MaxIds = 3
PROPERTIES
  AllAnswered
