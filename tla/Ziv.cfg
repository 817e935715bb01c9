SPECIFICATION Spec
CONSTANTS
  W = 3
  MaxBits = 30
  Scale = 14
  XBits = 5
  Exps = {1, 3, 4}
  Precs = {1, 3}
  EMins = {1, 2}
  EMaxs = {3, 4}
  ExtEMin = 1
  ExtEMax = 4
  ExtraPrec = 2
  ErrBits = 2
  VPrecs = {1, 4}
  Errs = {4, 5}
PROPERTIES PromiseKept Returns
