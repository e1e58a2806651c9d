CONSTANTS
  Threads = {main}
  Creator = main
  Runtimes = {r1, r2}
  None = None
  MultiframeRequested = TRUE
  ProvenanceRequested = FALSE
  FrameLimit = 2
  SampleLimit = 1
  MaxDevices = 2
  MaxResets = 2
  MaxPresents = 3
SYMMETRY Interchangeable
SPECIFICATION Spec
CHECK_DEADLOCK FALSE
INVARIANTS
  NoRelayAcrossReset
  GenerationIsCurrent
