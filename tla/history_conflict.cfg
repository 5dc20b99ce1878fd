SPECIFICATION Spec
CONSTANTS
  SameRoot = FALSE
  Order <- OneName
  Folders <- NoFolders
  Contents = {1, 2}
  Parts = {}
  Editable <- BothWrite
  Habits <- NoHabits
  MaxEdits = 5
  MaxSessions = 3
INVARIANTS
  TypeOK
  NoLoss
  BothVersions
  Executable
  StaysIndexable
PROPERTIES
  KeepsWhatIsNew
CHECK_DEADLOCK FALSE
