SPECIFICATION HistorySpec
CONSTANTS
  MaxClients = 1
  Width = 2
  FreshTimeout = 2
  GraceTicks = 1
  LinkCap = 4
  WatchdogHangs = FALSE
  Horizon = 0
  MaxResets = 2
PROPERTY
  ResetLandsFirst
