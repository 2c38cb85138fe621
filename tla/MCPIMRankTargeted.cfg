SPECIFICATION FairSpec
CONSTANTS
  NumBGs = 2
  OperationIds = {o1, o2}
  Masks <- BothBlocks
  MaxGeneration = 1
  MaxInjections = 1
  HostCalls = {"flush", "reset", "mode"}
  None = None
INVARIANTS OwnershipExact OutstandingIsCurrent NothingLeftBehind
PROPERTIES ImplementsTargetedExecution Progress
