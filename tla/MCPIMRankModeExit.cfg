SPECIFICATION FairSpec
CONSTANTS
  NumBGs = 2
  OperationIds = {o1, o2}
  Masks <- BothBlocks
  MaxGeneration = 0
  MaxInjections = 0
  HostCalls = {"mode"}
  None = None
PROPERTIES
  ModeExitCompletes
