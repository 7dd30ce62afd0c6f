SPECIFICATION RouterSpec
CONSTANTS
    r1 = r1  r2 = r2  p = p  Self = self  NoHop = none
    Nodes = {self, r1, r2}
    Endpoints = {p}
    Routable = {r2, p}
    NhdpRoutable = FALSE
    MetricMax = 3
    KeyRank <- Rank
    DefaultTable = 1
    Tables = {1, 2}
    Situations <- TwoSituations
    PageSize = 1
    SeqNumbers = {1, 2, 3, 4}
    MaxMishaps = 1
    LinkMetricMax = 16776960
    InfiniteMetric = 16777215
    InfinitePath = 2147483647
    SamplingCount = 2
    SeqnoModulus = 4
    SuccessRange = 8
    SpeedMinimum = 1024
    SpeedRange = 16
    IntHalf = 1048576
    Refresh = 2
    LinkList <- MCLinkList
    LinkNeigh <- MCLinkNeigh
    LinkIf <- MCLinkIf
    NeighOrder <- MCNeighOrder
    TwohopAddrs <- MCTargets
    Owner <- MCOwner
    Hellos <- MCHellos
    Lost = {0, 2}
    Layer2 <- MCLayer2
    DatConfigs <- MCDatConfigs
    CostTables <- MCCostTables
    Handlers <- MCHandlers
    Budgets <- MCBudgets
INVARIANTS KernelMatches AnswerFindsItsRoute ChangeRemembered MprCovers DomainTold DatCounts
PROPERTIES NetlinkIsFifo
