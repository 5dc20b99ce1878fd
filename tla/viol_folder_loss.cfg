SPECIFICATION Spec
CONSTANTS
  SameRoot = FALSE
  Order <- TwoFolders
  Folders <- FoldersOfTwo
  Contents = {1}
  Parts = {}
  Editable <- OwnerAndGuest
  Habits <- Crosser
  MaxEdits = 4
  MaxSessions = 3
INVARIANTS
  NoLoss
CHECK_DEADLOCK FALSE
