SPECIFICATION MCSpec
CONSTANTS
  Requests <- MCRequests
  MaxOps = 3
  LinkLoss = TRUE
INVARIANTS
  TypeOK
PROPERTIES
  GuardedLeavesProgram
  StartIsPrepared
  RflEnds
