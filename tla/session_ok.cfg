SPECIFICATION FairSpec
CONSTANTS
  Plans <- Plans3
  Failures <- NoFaults
  Crashing <- NoFaults
INVARIANTS
  TypeOK
  NoMisread
  CopiesBeforeRemovals
PROPERTIES
  Finishes
  OrderedSpec
