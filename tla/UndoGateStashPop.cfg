\* One window pops a stash while the other starts a rebase; nobody waits in vain.
SPECIFICATION Spec
CONSTANTS
  Workers = {app, sidecar}
  NoHolder = NoHolder
  Parts = {worktree}
  RetryParts = {worktree}
  Vals = {v1, v2}
  Kinds = {"pop", "start"}
  MaxCmds = 2
  MaxOps = 1
  StoredOps = {1}
  Markers = {1}
  MarkerOf <- MarkerPerOperation
  UndoLimit = 2
  LocksWork = TRUE
  Env = {}
SYMMETRY Symmetry
PROPERTIES GateIsAtomic
CHECK_DEADLOCK FALSE
