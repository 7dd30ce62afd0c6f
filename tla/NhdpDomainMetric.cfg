CONSTANTS
  LinkMetricMax = 16776960
  InfiniteMetric = 16777215
  InfinitePath = 2147483647
  SamplingCount = 2
  SeqnoModulus = 4
  SuccessRange = 8
  SpeedMinimum = 1024
  SpeedRange = 16
  IntHalf = 1048576
  Refresh = 2
  LinkList <- MCLinkList
  LinkNeigh <- MCLinkNeigh
  LinkIf <- MCLinkIf
  NeighOrder <- MCNeighOrder
  TwohopAddrs <- MCTargets
  Owner <- MCOwner
  Hellos <- MCHellos
  Lost = {0, 2}
  Layer2 <- MCLayer2
  DatConfigs <- MCDatConfigs
  CostTables <- MCCostTables
  Handlers <- MCHandlers
  Budgets <- MCBudgets
SPECIFICATION DomainSpec
INVARIANTS MetricsAnnounced
CHECK_DEADLOCK FALSE
