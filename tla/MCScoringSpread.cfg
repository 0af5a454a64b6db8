CONSTANTS
  Kind = "spread"
  NodeName <- MCNodeName2
  NumVolumes = 2
  DiskInputs <- MCDiskInputs
  PVKinds = {"err", "nil", "shared", "exclusive"}
  UsedInputs <- MCUsedInputs
  NoHost = NoHost
  NoHolder = NoHolder
SPECIFICATION Spec
INVARIANTS
  TypeOK
  BarrierBeforeReduce
  ErrorsNotLost
PROPERTIES
  AbstractSpec
