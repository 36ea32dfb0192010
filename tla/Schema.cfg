CONSTANTS
  MaxLength = 4
  MaxTime = 3
  Offset <- MCOffset
  Naive = Naive
SPECIFICATION Spec
INVARIANTS DeadByLengthOnly OnlyTheApiOverflows
PROPERTIES ParsedAsAccepted
CHECK_DEADLOCK FALSE
