CONSTANTS
  v1 = v1
  v2 = v2
  k1 = k1
  k2 = k2
  k3 = k3
  k4 = k4
  kLocal = kLocal
  Vins = {v1}
  NoVin = NoVin
  Peers = {}
  Keys = {k1, k2, k3, k4, kLocal}
  CollateralKey <- MCCollateralKey
  HotKey <- MCHotKey
  LocalHotKey = kLocal
  IsFloatingcity = FALSE
  MinDseeSeconds = 1
  MinDseepSeconds = 2
  HourSeconds = 3
  ExpirationSeconds = 4
  RemovalSeconds = 5
  DsegSeconds = 3
  MaxTime = 6
  CountValues <- MCCountValues
  LastUpdatedSkew <- MCHonestSkew
  MaxSigned = 3
  MaintenanceInterleaves = FALSE
  VoteValues = {}
  VoteLifetimeSeconds = 4
SPECIFICATION Spec
INVARIANT StopIsFinal
CHECK_DEADLOCK FALSE
