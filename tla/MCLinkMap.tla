----------------------------- MODULE MCLinkMap -----------------------------
(***************************************************************************)
(* A small crate for LinkMap: a #[track_caller] function (its function     *)
(* pointer is a reify shim), a closure called through FnOnce::call_once    *)
(* (the call resolves to the closure body, the vtable of dyn FnOnce holds  *)
(* a VTableShim of the same FnDef type), a trait method (the constant's    *)
(* type differs from the type of the implementation it resolves to), drop  *)
(* glue, and a function that does not resolve.  The default body of the    *)
(* trait method is listed under the very type that resolves to the         *)
(* implementation, so that there is a pair of symbols for the consistency  *)
(* check to report; whether rustc ever presents one, the code cannot know. *)
(***************************************************************************)
EXTENDS LinkMap

MCFnTy == {"track_caller", "call_once", "Trait::m", "Impl::m", "drop_in_place", "missing"}
MCInst == {"tc_item", "tc_reify", "closure", "once_vtable_shim", "m_item", "m_default", "glue"}

MCMonoFns == MCInst \ {"tc_reify"}
MCDropGlue == {"glue"}

MCInfo == [i \in MCInst |->
  CASE i = "tc_item"  -> [ty |-> "track_caller", kind |-> "Item", reify |-> FALSE, name |-> "tc"]
    [] i = "tc_reify" -> [ty |-> "track_caller", kind |-> "ReifyShim", reify |-> TRUE, name |-> "tc{{reify}}"]
    [] i = "closure"  -> [ty |-> NotFnDef, kind |-> "Item", reify |-> FALSE, name |-> "closure"]
    [] i = "once_vtable_shim" ->
         [ty |-> "call_once", kind |-> "VTableShim", reify |-> FALSE, name |-> "call_once{{vtable}}"]
    [] i = "m_item"   -> [ty |-> "Impl::m", kind |-> "Item", reify |-> FALSE, name |-> "m"]
    [] i = "m_default" -> [ty |-> "Trait::m", kind |-> "Item", reify |-> FALSE, name |-> "Trait::m"]
    [] i = "glue"     -> [ty |-> "drop_in_place", kind |-> "DropGlue", reify |-> FALSE, name |-> "NoOpSym"]]

MCDirect == [t \in MCFnTy |->
  CASE t = "track_caller" -> "tc_item"
    [] t = "call_once" -> "closure"
    [] t \in {"Trait::m", "Impl::m"} -> "m_item"
    [] t = "drop_in_place" -> "glue"
    [] OTHER -> NoInst]

\* dyn-safe FnOnce::call_once has no pointer form here, so the constant falls back to Direct
MCForFnPtr == [t \in MCFnTy |->
  CASE t = "track_caller" -> "tc_reify"
    [] t \in {"Trait::m", "Impl::m"} -> "m_item"
    [] t = "drop_in_place" -> "glue"
    [] OTHER -> NoInst]
=============================================================================
