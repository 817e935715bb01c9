SPECIFICATION Spec
CONSTANTS
  Threads = {t1, t2}
  pi = pi
  catalan = catalan
  Caches <- MCCaches
  Deps <- MCDeps
  FreeOrder <- MCFreeOrder
  Precs = {20, 21}
  WorkPrecs = {31}
  RWLock = FALSE
  MaxCalls = 2
  NoFrame = NoFrame
INVARIANT MutexInv
INVARIANT CacheCoherent
INVARIANT CprecIsCurrent
PROPERTY ServiceSpec
