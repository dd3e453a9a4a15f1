SPECIFICATION FairSpec
CONSTANTS
  Conn = {c1}
  Tab = {t1}
  NoTab = NoTab
  Nobody = Nobody
  Orphan = Orphan
  HbTimeout = 2
  ResumeMaxAge = 1
  HoldLife = 1
PROPERTY
  SilentClientDisarmed
