SPECIFICATION Spec
CONSTANTS
  SameRoot = FALSE
  Order <- TwoFolders
  Folders <- FoldersOfTwo
  Contents = {1, 2}
  Parts = {}
  Editable <- OwnerAndGuest
  Habits <- Orderly
  MaxEdits = 4
  MaxSessions = 3
INVARIANTS
  NoLoss
  Synced
  Executable
  PlanCompletes
CHECK_DEADLOCK FALSE
