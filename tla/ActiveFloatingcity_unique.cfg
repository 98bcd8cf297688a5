\* The local node alone: register, ping, stop, restart, start-alias and
\* stop-alias racing the message thread's replays, duplicates and
\* reorderings of its own messages, with the maintenance sweep free to run
\* between a Find and the use of its pointer (the slot may die or be
\* refilled by a new registration).
CONSTANTS
  v1 = v1  v2 = v2  k1 = k1  k2 = k2  k3 = k3  k4 = k4
  Vins = {v1}
  Self = v1
  Aliases = {a1}
  AliasInput <- MCAliasInput
  NoVin = NoVin
  Peers = {}
  Keys = {k1, k2, k3, k4}
  CollateralKey <- MCCollateralKey
  HotKey <- MCHotKey
  LocalHotKey = k3
  IsFloatingcity = TRUE
  MinDseeSeconds = 1
  MinDseepSeconds = 2
  HourSeconds = 3
  ExpirationSeconds = 4
  RemovalSeconds = 5
  DsegSeconds = 3
  MaxTime = 6
  MaxSigned = 2
  CountValues <- MCFreshCount
  LastUpdatedSkew <- MCHonestSkew
  MaintenanceInterleaves = TRUE
  VoteValues = {}
  VoteLifetimeSeconds = 4
SPECIFICATION AgentSpec
INVARIANT AgentTypeOK
INVARIANT UniqueVin
PROPERTY ReplayNeverRegresses
CHECK_DEADLOCK FALSE
