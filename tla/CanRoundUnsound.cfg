SPECIFICATION Spec
CONSTANTS
  W = 2
  MaxBits = 30
  MaxLimbs = 3
  Slack = 2
  Negs = {FALSE, TRUE}
INVARIANT CanRoundSound
