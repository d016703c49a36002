SPECIFICATION Spec
CONSTANTS
  Ty <- MCTy
  Offset = {0, 1, 2, 3}
INVARIANT
  ResolvesPointers
\* The call returns.
CHECK_DEADLOCK FALSE
