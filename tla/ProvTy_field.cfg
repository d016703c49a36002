SPECIFICATION Spec
CONSTANTS
  Ty <- MCTy
  Offset = {0, 1, 2, 3}
INVARIANT
  FieldContainsOffset
CHECK_DEADLOCK FALSE
