SPECIFICATION Spec
CONSTANTS
  RequestIds = {r1, r2, r3, r4}
  Kinds = {value, index}
  MaxGeneration = 2
  MaxInjections = 2
SYMMETRY IdSymmetry
INVARIANTS AccountingBalances
PROPERTIES ImplementsRequestLifecycle
