CONSTANTS
  Remotes <- Remotes2
  Kinds <- AllKinds
  MaxOps = 2
  MaxOutside = 1
  MaxFaults = 1
  EarlyCancels = 1
  MaxClones = 2
  MaxSubmodules = 1
  MaxCloneFaults = 2
  MaxRequests = 3
  MaxLosses = 2
SPECIFICATION OpsSpec
INVARIANTS CancelIsHonest CloneKeepsItsWord RequestsAreKept SearchesAreServed
PROPERTIES  EveryOperationEnds
CHECK_DEADLOCK FALSE
