SPECIFICATION ProbeSpec
CONSTANTS
  Frames = 3
  RingDepth = 2
  Sentinel = 99
  ValidatePattern = TRUE
  InitialStall = TRUE
  Patience = {FALSE}
  Faults = {"sink_crash"}
INVARIANTS
  TimeoutIsClassified
CHECK_DEADLOCK FALSE
