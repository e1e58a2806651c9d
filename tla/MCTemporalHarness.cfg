SPECIFICATION Spec
CONSTANTS
  None = None
  U32Max = 2
  U64Max = 3
  Scenarios <- SomeScenarios
  Moving <- SomeMoving
  Order <- SomeOrder
  InitialSize <- Wide
  Sides = {0, 1, 2}
  Times = {0, 1}
CHECK_DEADLOCK FALSE
INVARIANTS
  FramesAreTrue
  SelfTestPasses
PROPERTIES
  HistoryLeadsBack
