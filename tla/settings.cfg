SPECIFICATION MCSpec
CONSTANTS
  Page = {p1, p2}
  Section = {s1}
  MaxOps = 3
  LinkLoss = TRUE
INVARIANTS
  TypeOK
  SavesStay
PROPERTIES
  PagesCatchUp
