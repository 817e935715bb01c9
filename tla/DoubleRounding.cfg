SPECIFICATION Spec
CONSTANTS
  W = 3
  MaxBits = 30
  Scale = 9
  XBits = 8
  Exps = {1, 2, 3, 4, 5, 6, 7, 8}
  Precs = {1, 2, 3, 4}
  EMin = 4
  EMax = 7
  ExtEMin = 2
  ExtEMax = 8
INVARIANTS
  AtomicRounding
  NearestAwayRight
  SubnormalRight
  FlagsRight
