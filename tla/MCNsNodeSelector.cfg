SPECIFICATION Spec
CONSTANTS
  Namespaces = {"a", "b"}
  ClusterNamespaces = {"a"}
  Keys = {"sys", "k"}
  Sys = "sys"
  Nodes = {"n1", "n2"}
  Labels <- MCLabels
  Admins = {a1, a2}
  Requests <- MCRequests
  InitConfigs <- MCInitConfigs
  Faults = {"read", "list", "write"}
  MaxExpiry = 1
  MaxTorn = 1
INVARIANT SystemNodesNeedNotMatchEdit
SYMMETRY AdminSymmetry
