SPECIFICATION Spec
CONSTANTS
  d1 = d1
  d2 = d2
  Device <- Devices
  NoDevice = NoDevice
  Settings <- SomeSettings
  MaxAlive = 2
  MaxRefusals = 2
SYMMETRY Symmetry
INVARIANTS
  HookHasItsOriginal
  ObservedDeathIsSeen
  StateBlocksRestore
PROPERTIES
  ReportIsTrue
