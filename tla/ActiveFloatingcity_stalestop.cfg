\* An RPC stop racing the maintenance sweep: the sweep erases the record
\* Find returned before Remove reads the input through the pointer.
CONSTANTS
  v1 = v1  v2 = v2  k1 = k1  k2 = k2  k3 = k3  k4 = k4
  Vins = {v1, v2}
  Self = v1
  Aliases = {}
  AliasInput <- MCAliasInput
  NoVin = NoVin
  Peers = {}
  Keys = {k1, k2, k3, k4}
  CollateralKey <- MCCollateralKey
  HotKey <- MCHotKey
  LocalHotKey = k3
  IsFloatingcity = TRUE
  MinDseeSeconds = 1
  MinDseepSeconds = 2
  HourSeconds = 3
  ExpirationSeconds = 4
  RemovalSeconds = 5
  DsegSeconds = 3
  MaxTime = 3
  MaxSigned = 2
  CountValues <- MCCountValues
  LastUpdatedSkew <- MCHonestSkew
  MaintenanceInterleaves = TRUE
  VoteValues = {}
  VoteLifetimeSeconds = 4
SPECIFICATION AgentSpec
PROPERTY StopRemovesOnlySelf
CHECK_DEADLOCK FALSE
