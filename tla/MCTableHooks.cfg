SPECIFICATION Spec
CONSTANTS
  t1 = t1
  t2 = t2
  t3 = t3
  s1 = s1
  s2 = s2
  r1 = r1
  Thread <- Threads
  NoThread = NoThread
  SurfaceTable <- Surfaces
  ReleaseTable <- Resources
  MaxRefusals = 2
SYMMETRY Symmetry
INVARIANTS
  CallsReachTheOriginal
  HooksComeWithTheirMap
  TraceHasItsOriginal
