SPECIFICATION Spec
CONSTANTS
  Conn = {c1, c2}
  Tab = {t1}
  NoTab = NoTab
  Nobody = Nobody
  Orphan = Orphan
  HbTimeout = 1
  ResumeMaxAge = 0
  HoldLife = 1
SYMMETRY ConnSymmetry
INVARIANTS
  TypeOK
  LockConsistent
PROPERTIES
  DisarmedJogIsStopping
  OrphanOnlyByStall
