SPECIFICATION MCSpec
CONSTANTS
  Client = {c1}
  File = {f1, f2}
  NoFile = NoFile
  MaxOps = 3
  MaxFaults = 3
INVARIANTS
  TypeOK
  NeverOldBytes
  FewVersions
PROPERTIES
  PreviewCatchesUp
  
