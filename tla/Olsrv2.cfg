SPECIFICATION Olsrv2Spec
CONSTANTS
  LanDomains = {1, 2}
  LanKeys = {"k1", "k2", "k3"}
  MetricMax = 4
  MaxDistance = 255
  Routes <- MCRoutes
  Filters <- MCFilters
  LanConfigs <- MCLanConfigs
  LanSections <- MCLanSections
  L2Configs <- MCL2Configs
  NoConfig = NoConfig
  Addrs = {"a1", "a2", "a3"}
  LinkLocal = {"a3"}
  Homes <- MCHomes
  Acls <- MCAcls
  Peers <- MCPeers
  Routable = {"p2", "q1"}
  NhdpRoutable = TRUE
  Hellos <- MCHellos
  HoldFactor = 1
  NumberMod = 16
  MaxFlight = 3
  NoAddr = "none"
  Routers = {1, 2, 3, 4, 5}
  Networks <- MCNetworks
  MaxDomains = 3
  Wills = {0, 7}
  HelloEntries <- MCHelloEntries
  HelloWills <- MCHelloWills
  Budgets <- Scenarios
INVARIANTS AnnouncementsExact FloodReachesAll HelloExact
CHECK_DEADLOCK FALSE
