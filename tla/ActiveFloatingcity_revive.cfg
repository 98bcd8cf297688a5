\* The local node alone, stopped over RPC while peers still hold its
\* earlier registration.
CONSTANTS
  v1 = v1  v2 = v2  k1 = k1  k2 = k2  k3 = k3  k4 = k4
  Vins = {v1}
  Self = v1
  Aliases = {}
  AliasInput <- MCAliasInput
  NoVin = NoVin
  Peers = {}
  Keys = {k1, k2, k3, k4}
  CollateralKey <- MCCollateralKey
  HotKey <- MCHotKey
  LocalHotKey = k3
  IsFloatingcity = TRUE
  MinDseeSeconds = 1
  MinDseepSeconds = 2
  HourSeconds = 3
  ExpirationSeconds = 4
  RemovalSeconds = 5
  DsegSeconds = 3
  MaxTime = 6
  MaxSigned = 3
  CountValues <- MCCountValues
  LastUpdatedSkew <- MCHonestSkew
  MaintenanceInterleaves = FALSE
  VoteValues = {}
  VoteLifetimeSeconds = 4
SPECIFICATION AgentSpec
PROPERTY StoppedStaysStopped
CHECK_DEADLOCK FALSE
