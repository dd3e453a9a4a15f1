SPECIFICATION MCSpec
CONSTANTS
  Client = {c1}
  Field = {f1}
  FullEvery = 2
  MaxPollFails = 2
  MaxLoopFails = 2
  MaxOps = 3
INVARIANTS
  TypeOK
  MirrorExact
  ConfigCurrent
PROPERTIES
  PagesCatchUp
