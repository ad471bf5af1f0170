CONSTANTS
  w1 = w1
  w2 = w2
  Workers = {w1, w2}
  Plans <- MCPlans
  Contended = TRUE
  Failing = {"write", "sign", "clear", "store"}
  MaxFaults = 2
  MaxUser = 1
  MaxCrashes = 1
SPECIFICATION Spec
SYMMETRY Symmetry
INVARIANTS BranchIsWhole NotStranded
PROPERTIES  AbortReturns
CHECK_DEADLOCK FALSE
