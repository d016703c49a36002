SPECIFICATION Spec
CONSTANTS
  FnTy <- MCFnTy
  Inst <- MCInst
  MonoFns <- MCMonoFns
  DropGlue <- MCDropGlue
  NoInst = "no instance"
  NotFnDef = "not a FnDef"
  NoKind = "no kind"
  Info <- MCInfo
  Direct <- MCDirect
  ForFnPtr <- MCForFnPtr
INVARIANTS
  TypeOK
  EntriesAreOffered
  PreferItem
  SourcesFaithful
  ClashesReported
PROPERTY
  OnlyGrows
\* A panic ends the process.
CHECK_DEADLOCK FALSE
