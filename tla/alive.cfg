SPECIFICATION FairHistorySpec
CONSTANTS
  MaxClients = 1
  Width = 2
  FreshTimeout = 1
  GraceTicks = 1
  LinkCap = 1
  WatchdogHangs = TRUE
  Horizon = 0
  MaxResets = 1
PROPERTIES
  ImplementsTripLatch
  StoppedGatewayStopsMachine
  HeartbeatSelfHeals
