CONSTANTS
  Folders = {"Root", "Outside", "A", "B", "C", "D"}
  Root = "Root"
  Outside = "Outside"
  Path <- DeepPath
  Temp = "t"
  Targets <- GitdirTargets
  Attempts = 2
  MaxMeddling = 2
  Names <- CaseNames
  Parents <- CaseParents
  Twins <- CaseTwins
  Trees <- CaseTrees
  Ignored = {"g"}
  MaxTries = 2
  Linked = {"w1", "w2"}
  Places = {"p"}
  LocalBranches = {"a", "b"}
  MaxOutside = 3
SPECIFICATION WorkSpec
INVARIANTS LinksAreRespected 
PROPERTIES StaysBeneath LeavesTheRest StoppedCanBeRetried OnlyItsOwnFolder
CHECK_DEADLOCK FALSE
