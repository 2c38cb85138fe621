SPECIFICATION FairSpec
CONSTANTS
  NumChans = 4
  NumRanks = 1
  NumBankGroups = 3
  NumBanks = 6
  NumRows = 128
  NumCols = 128
  BurstLength = 4
  BusBytes = 8
  Channel = 2
  UpperBank = 4
  NumGrf = 2
  RowBit = 64
  ColsPerRow = 2
  Input0Row = 0
  Input1Row = 16
  ResultRow = 32
  ZeroRow = 48
  CmdQueueDepth = 4
  MaxRefreshes = 1
  Kernels <- MCKernels
  OpenRows <- MCOpenRows
INVARIANTS SafeState ResultCorrect
PROPERTIES Completes
