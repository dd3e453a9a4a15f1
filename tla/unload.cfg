SPECIFICATION MCSpec
CONSTANTS
  Client = {c1}
  File = {f1}
  NoFile = NoFile
  MaxOps = 2
  MaxFaults = 0
PROPERTIES
  UnloadedStaysEmpty
