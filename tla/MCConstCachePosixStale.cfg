SPECIFICATION Spec
CONSTANTS
  Threads = {t1, t2}
  pi = pi
  catalan = catalan
  Caches <- MCCaches
  Deps <- MCDeps
  FreeOrder <- MCNoFree
  Precs = {20, 21}
  WorkPrecs = {31}
  RWLock = TRUE
  MaxCalls = 2
  NoFrame = NoFrame
INVARIANT CprecIsCurrent

