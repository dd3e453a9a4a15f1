SPECIFICATION HistorySpec
CONSTANTS
  MaxClients = 2
  Width = 2
  FreshTimeout = 2
  GraceTicks = 1
  LinkCap = 1
  WatchdogHangs = FALSE
  Horizon = 9
  MaxResets = 1
INVARIANTS
  HistoryTypeOK
  EnabledIsFed
  EnabledIsAttended
  NoSpuriousTrip
