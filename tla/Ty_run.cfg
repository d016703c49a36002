SPECIFICATION Spec
CONSTANTS
  Ty <- MCTy
  Mentioned = {"&Node", "Option<&Node>", "Holder", "closure", "Later<F>"}
  Fn = {"fn(Holder)", "F"}
  Closure = {"closure"}
  Witness = {"witness"}
  Parts <- MCParts
  Fields <- MCFields
  LayoutPanics = {"&Node"}
  Clean <- MCClean
INVARIANTS
  TypeOK
  PartsKnown
  CleanCollected
  ClosuresRecorded
PROPERTY
  WalksEnd
