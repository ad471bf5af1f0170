CONSTANTS
  Steps = 2
  MaxFaults = 2
  MaxUser = 2
  MaxStops = 1
  MaxCrashes = 1
  b1 = b1
  b2 = b2
  Branches = {b1, b2}
  Signs = FALSE
  MaxActs = 3
  MaxCommits = 2
SPECIFICATION HistorySpec
INVARIANTS StepsOnceInOrder NeverStuck
PROPERTIES AbortTakesBackItsOwn Completes CommitsAreRight
CHECK_DEADLOCK FALSE
