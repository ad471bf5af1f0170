\* Two windows, every command gets the lock in the end; workers die, the user
\* edits between commands, snapshots and restores fail.
SPECIFICATION FairSpec
CONSTANTS
  Workers = {app, sidecar}
  NoHolder = NoHolder
  Parts = {branch}
  RetryParts = {}
  Vals = {1, 2}
  Kinds = {"move", "start", "continue", "abort", "undo"}
  MaxCmds = 3
  MaxOps = 2
  StoredOps = {1, 2}
  Markers = {1}
  MarkerOf <- OneMarker
  UndoLimit = 2
  LocksWork = TRUE
  Env = {"crash", "edit", "restoreFails", "captureFails"}
INVARIANTS AbortedNeverRecorded
PROPERTIES GateIsAtomic EntryIsItsCommands EveryCommandAnswered
CHECK_DEADLOCK FALSE
