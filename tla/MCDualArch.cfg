SPECIFICATION Spec
CONSTANTS
  FRAMES = 2
  FAULTS = 2
  RUNS <- AllRuns
CHECK_DEADLOCK FALSE
INVARIANTS
  DualArchTypeOK
  TexturesAreSafe
  DetectorsAreExact
  ClaimsAreEarned
PROPERTIES
  AcceptedIsCurrent
  ProcessesEnd
  RunsEndAsIntended
