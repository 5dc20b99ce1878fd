SPECIFICATION Spec
CONSTANTS
  Plans <- Plans2
  Failures <- AllFailures
  Crashing <- AllProcesses
INVARIANTS
  OneReader
  AppliedInOrder
  DoneMeansApplied
CHECK_DEADLOCK FALSE
