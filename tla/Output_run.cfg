SPECIFICATION Spec
CONSTANTS
  TyDisplay <- MCTyDisplay
  Sources <- MCSources
  Crate <- MCCrate
  Flags = {"--json", "--dot", "--d2"}
  MaxRuns = 3
  Empty = Empty
  Missing = Missing
INVARIANTS
  TypeOK
  SuccessMeansWritten
  OneRunPerFile
  SilentMeansFresh
  Reproducible
PROPERTY
  TouchesOnlyOwn
\* The last invocation allowed ends.
CHECK_DEADLOCK FALSE
