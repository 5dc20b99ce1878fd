SPECIFICATION Spec
CONSTANTS
  SameRoot = FALSE
  Order <- TwoNamesDeep
  Folders <- NoFolders
  Contents = {1, 2}
  Parts = {3}
  Editable <- EachItsOwn
  Habits <- Interrupting
  MaxEdits = 4
  MaxSessions = 3
INVARIANTS
  Executable
PROPERTIES
  HalfNeverWins
  KeepsWhatIsNew
CHECK_DEADLOCK FALSE
