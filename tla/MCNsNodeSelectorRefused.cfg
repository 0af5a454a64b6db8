SPECIFICATION Spec
CONSTANTS
  Namespaces = {"a", "b"}
  ClusterNamespaces = {"a"}
  Keys = {"sys", "k"}
  Sys = "sys"
  Nodes = {"n1", "n2"}
  Labels <- MCLabels
  Admins = {a1}
  Requests <- MCDisjointRequests
  InitConfigs <- MCInitConfigs
  Faults = {"write"}
  MaxExpiry = 0
  MaxTorn = 0
INVARIANT CacheHoldsStoredConfig
