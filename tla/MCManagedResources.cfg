SPECIFICATION Spec
CONSTANTS
  t1 = t1
  t2 = t2
  a1 = a1
  a2 = a2
  s1 = s1
  None = None
  Threads = {t1, t2}
  Creator = t1
  Addrs = {a1, a2}
  Surfaces = {s1}
  Games <- AllGames
  SampleLimit = 2
  MaxRefs = 2
  MaxObjects = 3
  MaxGeneration = 3
CHECK_DEADLOCK FALSE
INVARIANTS
  ManagedTypeOK
  RegistryIsExact
  StaleLinesAreTrue
  AdaptedIsLockable
  TotalsAreOwn
PROPERTIES
  MatchIsOfThisReset
