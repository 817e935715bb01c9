SPECIFICATION Spec
CONSTANTS
  Threads = {t1, t2}
  pi = pi
  catalan = catalan
  Caches <- MCCaches
  Deps <- MCDeps
  FreeOrder <- MCFreeOrder
  Precs = {20, 21}
  WorkPrecs = {31}
  RWLock = TRUE
  MaxCalls = 2
  NoFrame = NoFrame
INVARIANT TypeOK
INVARIANT LockInv
INVARIANT NoTornRead
INVARIANT LeafCoherent
PROPERTY ShrinksOnlyWhenCleared
PROPERTY CallsReturn
