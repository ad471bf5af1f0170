\* Two threads and two spellings of two repositories; one worker that waits
\* for a lock another window takes at any time; saves that stop, and git gc.
SPECIFICATION StateSpec
CONSTANTS
  Threads = {t1, t2}
  Spellings = {s1, s2}
  Repos = {r1, r2}
  Nowhere = Nowhere
  MaxWorkers = 2
  MaxGates = 2
  LockWait = 3
  ContendedWait = 2
  Trees = {1, 3}
  Commits = {2}
  Tags = {5, 6}
  Entries <- SomeEntries
  UndoLimit = 2
  MaxSaves = 5
SYMMETRY Symmetry
INVARIANTS WorkersAndGatesAgree BurstCostsOnce IntactHistory
PROPERTIES LiveWorkersStay CompleteSavePins
CHECK_DEADLOCK FALSE
