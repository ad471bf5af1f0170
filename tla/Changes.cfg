CONSTANTS
  Paths <- StagePaths
  FoldersOf <- StageFolders
  Commits <- StageCommits
  Texts <- SomeTexts
  NoNewline = {"c~", "d~"}
  Contexts = {0, 1}
  MaxSteps = 2
  StashPaths <- FilesOfStash
  HolderOf <- FoldersOfStash
  Heads <- StashHeads
  IgnoreRules <- Ignoring
  Picks <- PickedFiles
  MaxChanges = 2
  Ordered <- UndoOrder
  FolderAbove <- UndoFolders
  IgnoreFile = "i"
  Rules <- UndoRules
  Smudged <- UndoSmudged
  TreeAt <- UndoTrees
  Worlds <- UndoWorlds
  MaxEdits = 2
  MaxTries = 3
  Contested = {"f", "g"}
  Clashes <- ClashesAt
  Swapped <- ThingsAt
  Launches = {1, 2}
  MaxTurns = 2
  MaxSwaps = 1
SPECIFICATION ChangesSpec
INVARIANTS IndexFollowsEveryPath  
PROPERTIES OnlyTheChosenIsDropped RestoreKeepsItsWord ConflictsEndAsChosen
CHECK_DEADLOCK FALSE
