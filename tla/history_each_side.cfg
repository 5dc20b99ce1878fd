SPECIFICATION Spec
CONSTANTS
  SameRoot = FALSE
  Order <- FourNames
  Folders <- NoFolders
  Contents = {1, 2}
  Parts = {}
  Editable <- TwoEach
  Habits <- OrderlyButCrashing
  MaxEdits = 3
  MaxSessions = 3
INVARIANTS
  NoLoss
  Synced
  Executable
CHECK_DEADLOCK FALSE
