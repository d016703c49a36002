---------------------------- MODULE MCTyCollector ----------------------------
(***************************************************************************)
(* A recursive struct behind a reference and an enum, a struct with a      *)
(* function pointer field whose signature mentions the struct, a closure   *)
(* that takes itself by reference, and a struct Later<F> with a field of   *)
(* type F::Output where F is a function that returns a coroutine.          *)
(***************************************************************************)
EXTENDS TyCollector

MCTy == {"&Node", "Node", "Option<&Node>", "u8", "Holder", "fn(Holder)",
         "closure", "&closure", "u16", "Later<F>", "F", "coroutine", "witness", "u32"}

MCParts == [t \in MCTy |->
  CASE t = "&Node" -> <<"Node">>
    [] t = "Option<&Node>" -> <<"&Node">>
    [] t = "fn(Holder)" -> <<"Holder", "u8">>
    [] t = "closure" -> <<"&closure", "u16">>
    [] t = "&closure" -> <<"closure">>
    [] t = "Later<F>" -> <<"F">>
    [] t = "F" -> <<"coroutine">>
    [] t = "coroutine" -> <<"u8", "witness", "u32">>
    [] t = "witness" -> <<"u32">>
    [] OTHER -> <<>>]

MCFields == [t \in MCTy |->
  CASE t = "Node" -> <<"Option<&Node>", "u8">>
    [] t = "Option<&Node>" -> <<"&Node">>
    [] t = "Holder" -> <<"u16", "fn(Holder)">>
    [] t = "Later<F>" -> <<"coroutine", "u16">>
    [] OTHER -> <<>>]

MCClean == MCTy \ {"Later<F>", "F", "coroutine", "witness"}
=============================================================================
