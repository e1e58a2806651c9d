CONSTANTS
  Threads = {main, render}
  Creator = main
  Runtimes = {r1, r2, r3}
  None = None
  MultiframeRequested = TRUE
  ProvenanceRequested = TRUE
  FrameLimit = 2
  SampleLimit = 2
  MaxDevices = 1
  MaxResets = 1
  MaxPresents = 3
SYMMETRY Interchangeable
SPECIFICATION Spec
CHECK_DEADLOCK FALSE
INVARIANTS
  NoSessionOutsideRegistry
  CaptureIsUndisturbed
  RegistryIsTrue
  TicketsAreSound
