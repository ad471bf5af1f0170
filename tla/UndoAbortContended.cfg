\* The abort of one window outlasts the wait behind the other window's command.
SPECIFICATION Spec
CONSTANTS
  Workers = {app, sidecar}
  NoHolder = NoHolder
  Parts = {worktree}
  RetryParts = {worktree}
  Vals = {v1, v2}
  Kinds = {"stage", "start", "abort"}
  MaxCmds = 3
  MaxOps = 1
  StoredOps = {}
  Markers = {1}
  MarkerOf <- MarkerPerOperation
  UndoLimit = 2
  LocksWork = TRUE
  Env = {"timeout"}
SYMMETRY Symmetry
INVARIANTS AbortedNeverRecorded
CHECK_DEADLOCK FALSE
