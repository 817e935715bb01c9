CONSTANTS
  W = 3
  MaxBits = 30
  WideBits = 6
  emin <- MCEmin
  emax = 2
  ExtEmin <- MCExtEmin
  ExtEmax = 3
  MulThreshold = 1
  DivThreshold = 2
  MulhighK = 2
  Root1Error = 1
  Root2Below = 1
  Root2Above = 1
  SumLoops = 4
  LargeEmax = 4
  LargeExtEmax = 7
  FarEmax = 12
  WantedBits = 2
  Names <- MCNames
  OperandsOf <- MCOperandsOf
INIT WrongInit
NEXT WrongNext
INVARIANT EveryCallRight
CHECK_DEADLOCK FALSE
