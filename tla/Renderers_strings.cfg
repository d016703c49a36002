SPECIFICATION Spec
CONSTANTS
  Crates <- MCCrates
  Display <- MCDisplay
  Debug <- MCDebug
  WithStr = {"str", "&str", "[&str; 2]", "&[&str; 2]"}
  Uninit = Uninit
  Qualified = {"lib::init"}
  ShortName <- MCShortName
  Words <- MCWords
  FnTypes <- MCFnTypes
  FNames = {"f"}
  GBodies = "some"
INVARIANT
  ConstantsDecoded
\* Rendering ends.
CHECK_DEADLOCK FALSE
