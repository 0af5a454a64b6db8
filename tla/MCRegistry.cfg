CONSTANTS
  aff = aff
  press = press
  nsns = nsns
  diskuse = diskuse
  spread = spread
  Plugins <- MCPlugins
  Cat <- MCCat
  PName <- MCPName
  NeedsCache <- MCNeedsCache
  Registrations <- MCRegistrations
  RunModeFlags = {"all", "scheduleronly", "backendonly", "debug"}
SPECIFICATION Spec
INVARIANTS ServesOnlyReadyPlugins
PROPERTIES EventuallyServing
CHECK_DEADLOCK FALSE
