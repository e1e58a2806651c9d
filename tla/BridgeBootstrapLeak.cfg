SPECIFICATION BootSpec
CONSTANTS
  BootstrapFaults = {}
INVARIANTS
  NoLeakedHandles
CHECK_DEADLOCK FALSE
