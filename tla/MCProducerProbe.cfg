SPECIFICATION FairProbeSpec
CONSTANTS
  Frames = 3
  RingDepth = 2
  Sentinel = 99
  ValidatePattern = TRUE
  InitialStall = TRUE
  Patience = {TRUE, FALSE}
  Faults <- EveryFault
CHECK_DEADLOCK FALSE
INVARIANTS
  ExitZeroIsEarned
PROPERTIES
  EverythingStops
  HealthySessionPasses
