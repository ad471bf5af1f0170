\* Two windows and a terminal: a holder outlasts a wait, saves fail, writes
\* share an mtime tick, a newer build takes the file over.
SPECIFICATION Spec
CONSTANTS
  Workers = {app, sidecar}
  NoHolder = NoHolder
  Parts = {branch}
  RetryParts = {}
  Vals = {v1, v2}
  Kinds = {"stage", "start", "abort", "undo", "plain"}
  MaxCmds = 3
  MaxOps = 1
  StoredOps = {}
  Markers = {1}
  MarkerOf <- MarkerPerOperation
  UndoLimit = 1
  LocksWork = TRUE
  Env = {"timeout", "terminal", "saveFails", "newerBuild", "sameTick"}
SYMMETRY Symmetry
INVARIANTS WritersAreCurrent
PROPERTIES LegalHistory 
CHECK_DEADLOCK FALSE
