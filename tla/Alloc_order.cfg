SPECIFICATION RunsSpec
CONSTANTS
  AllocId <- MCAllocId
  Ty <- MCTy
  Memory = {"m1", "m2", "m3"}
  Function = {"function"}
  Ptrs <- MCPtrs
  Const <- MCConst
  ConstTy <- MCConstTy
  ConstPtrs <- MCConstPtrs
  Offset = {0, 1}
  ProvTy <- MCProvTy
  NoTy = "no type"
  Placeholder = "Ty(0)"
  Derefs = {"&node", "&dyn"}
  FnPtrs = {"fn()"}
INVARIANT
  SameReach
