CONSTANTS
  Threads = {main, render}
  Creator = main
  Runtimes = {r1, r2, r3}
  None = None
  MultiframeRequested = TRUE
  ProvenanceRequested = FALSE
  FrameLimit = 2
  SampleLimit = 1
  MaxDevices = 2
  MaxResets = 2
  MaxPresents = 3
SYMMETRY Interchangeable
SPECIFICATION Spec
INVARIANT NoRelayAcrossReset
CHECK_DEADLOCK FALSE
