CONSTANTS
  Names <- MCNames
  OperandsOf <- MCOperandsOf
SPECIFICATION Spec
INVARIANTS RangeRestored NothingLeaked FlagsExactlyDue ResultInRange OperandNotStale ResultRight
CHECK_DEADLOCK FALSE
