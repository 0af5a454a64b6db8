SPECIFICATION Spec
CONSTANTS
  Namespaces = {"a", "b"}
  ClusterNamespaces = {"a"}
  Keys = {"sys", "k"}
  Sys = "sys"
  Nodes = {"n1", "n2"}
  Labels <- MCLabels
  Admins = {a1}
  Requests <- MCSystemOpenRequests
  InitConfigs <- MCInitConfigs
  Faults = {}
  MaxExpiry = 0
  MaxTorn = 0
INVARIANT SystemNodesReserved
