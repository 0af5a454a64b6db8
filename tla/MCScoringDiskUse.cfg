CONSTANTS
  Kind = "diskuse"
  NodeName <- MCNodeName3
  NumVolumes = 0
  DiskInputs <- MCDiskInputs
  PVKinds = {"nil"}
  UsedInputs <- MCUsedInputs
  NoHost = NoHost
  NoHolder = NoHolder
SPECIFICATION Spec
INVARIANTS
  TypeOK
  BarrierBeforeReduce
  ErrorsNotLost
PROPERTIES
  AbstractSpec
