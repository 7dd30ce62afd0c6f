SPECIFICATION AllSpec
CONSTANTS
  Static = {1, 2, 3}
  Dynamic = {4}
  Deps <- MCDeps
  Types = {"u", "n", "d", "p", "x"}
  Schema <- MCSchema
  Files <- MCFiles
  Budgets <- MCBudgets
  SessionTimeout = 2
  RepeatInterval = 1
  MaxOut = 2
  Slots = {1, 2}
  Addresses = {1, 2}
  SockBudgets <- MCSockBudgets
  Ifs = {"wlan0", "eth0", "any"}
  AnyIf = "any"
  IfOf <- MCIfOf
  Mesh = {"nhdp", "dlep", "eth"}
  LinkLocal = {1, 2}
  Default = 1
  Nhdp = "nhdp"
  IfBudgets <- MCIfBudgets
  NetIdx = {"frequency", "noise", "mcs"}
  NeighIdx = {"bitrate", "max_bitrate"}
  Priority <- MCPriority
  L2Values = {1, 2}
  Macs = {1, 2}
  Gateways = {"g1", "g2"}
  Destinations = {"d1", "d2"}
  L2Configs <- MCL2Configs
  LinkConfigs <- MCLinkConfigs
  TelnetEntries <- MCTelnetEntries
  L2Budgets <- MCL2Budgets
INVARIANT SessionsCounted
CHECK_DEADLOCK FALSE
