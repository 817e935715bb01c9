CONSTANTS
  Threads = {t1, t2}
  Allocators = {a1, a2}
  Blocks = {b1, b2}
  NTemps = 1
  NEntries = 2
  MaxSize = 1
  MinAlloc = 1
  Growth = 1
  MaxLimbs = 2
  MaxIndex = 1
SPECIFICATION Spec
SYMMETRY Symmetry
INVARIANT TypeOK
INVARIANT OneOwner
INVARIANT OwnAllocator
INVARIANT TableRoom
INVARIANT NothingLeft
CHECK_DEADLOCK FALSE
