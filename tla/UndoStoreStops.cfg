\* What a save that stops before it has written undo.json leaves pinned.
SPECIFICATION StoreSpec
CONSTANTS
  Trees = {1, 3}
  Commits = {2}
  Tags = {5, 6}
  Entries <- SomeEntries
  UndoLimit = 2
  MaxSaves = 4
INVARIANTS StillPinned
CHECK_DEADLOCK FALSE
