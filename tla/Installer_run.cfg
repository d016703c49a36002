SPECIFICATION Spec
CONSTANT MaxRuns = 3
INVARIANTS
  TypeOK
  NoMix
  ScriptBacked
  SuccessComplete
\* After the last run nothing is left to do.
CHECK_DEADLOCK FALSE
