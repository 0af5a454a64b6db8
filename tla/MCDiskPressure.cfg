CONSTANTS
  DiskPaths <- PrefixFreePaths
  MCCandidateNodes <- OneNode
SPECIFICATION Spec
INVARIANTS
  TypeOK
  AdmittedNodeFits
