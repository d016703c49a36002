SPECIFICATION FairSpec
CONSTANTS
  Name <- MCName
  MonoItems <- MCMonoItems
  HasBody <- MCHasBody
  ConstDef = {"C", "D", "E", "F"}
  Refs <- MCRefs
  InternedOf <- MCInternedOf
  MayPanic = {"C3"}
INVARIANTS
  TypeOK
  ItemsOnce
  LatestBody
  AllocsExact
  ConstsListed
  PanicsJustified
  OutputIsLeastClosure
PROPERTIES
  ImplementsClosure
  Termination
\* The pipeline stops when it has assembled its output or panicked.
CHECK_DEADLOCK FALSE
