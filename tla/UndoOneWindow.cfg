\* One window on a file system without locks: the history over a longer run of
\* recorded commands, operations and steps back and forth.
SPECIFICATION Spec
CONSTANTS
  Workers = {app}
  NoHolder = NoHolder
  Parts = {branch, index}
  RetryParts = {index}
  Vals = {1, 2}
  Kinds = {"move", "start", "commit", "continue", "undo", "redo"}
  MaxCmds = 5
  MaxOps = 2
  StoredOps = {2}
  Markers = {1, 2}
  MarkerOf <- MarkerPerOperation
  UndoLimit = 2
  LocksWork = FALSE
  Env = {}
INVARIANTS HistoryMatches
CHECK_DEADLOCK FALSE
