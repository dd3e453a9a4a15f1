SPECIFICATION MCSpec
CONSTANTS
  Client = {c1, c2}
  Tool = {1, 2}
  MaxOps = 2
  Failures = TRUE
  Detaches = TRUE
INVARIANTS
  TypeOK
  EditsStay
  LcncAgrees
PROPERTIES
  PagesCatchUp
  MetaFollowsTool
CHECK_DEADLOCK FALSE
