SPECIFICATION Spec
CONSTANTS
  Plans <- Plans3
  Failures <- HandlerFails
  Crashing <- NoFaults
INVARIANTS
  NoMisread
  ServerCanReceive
  DoneMeansApplied
CHECK_DEADLOCK FALSE
