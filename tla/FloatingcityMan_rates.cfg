\* one peer asking for the list: the ask-again maps against the sweeps, two signatures
CONSTANTS
  v1 = v1
  v2 = v2
  k1 = k1
  k2 = k2
  k3 = k3
  k4 = k4
  kLocal = kLocal
  Vins = {v1}
  NoVin = NoVin
  Peers = {p1}
  Keys = {k1, k2, k3, k4, kLocal}
  CollateralKey <- MCCollateralKey
  HotKey <- MCHotKey
  LocalHotKey = kLocal
  IsFloatingcity = FALSE
  MinDseeSeconds = 1
  MinDseepSeconds = 2
  HourSeconds = 3
  ExpirationSeconds = 4
  RemovalSeconds = 5
  DsegSeconds = 3
  MaxTime = 6
  CountValues <- MCCountValues
  LastUpdatedSkew <- MCHonestSkew
  MaxSigned = 2
  MaintenanceInterleaves = FALSE
  VoteValues = {1}
  VoteLifetimeSeconds = 4
SPECIFICATION Spec
PROPERTY AskRateLimits
CHECK_DEADLOCK FALSE
