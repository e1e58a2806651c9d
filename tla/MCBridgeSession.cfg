SPECIFICATION SessionSpec
CONSTANTS
  Frames = 4
  RingDepth = 2
  Sentinel = 99
  ValidatePattern = TRUE
  Faults <- EveryFault
  BootstrapFaults <- EveryBootstrapFault
CHECK_DEADLOCK FALSE
INVARIANTS
  HandlesAreOwned
  StartIsAllOrNothing
  SlotExclusive
  FramesStayIntact
  VerdictIsTrue
  NoUnsupervisedSink
PROPERTIES
  ImplementsRelay
  SessionEnds
