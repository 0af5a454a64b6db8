CONSTANTS
  DiskPaths <- NestedPaths
  MCCandidateNodes <- OneNode
SPECIFICATION Spec
INVARIANTS
  AdmittedNodeFits
