-------------------------- MODULE MCAllocCollector --------------------------
(***************************************************************************)
(* Two memory allocations that point to each other, one with a pointer to  *)
(* a static and one to a function; a third that an untyped constant        *)
(* reaches first or last; a vtable.                                        *)
(***************************************************************************)
EXTENDS AllocCollector

MCAllocId == {"m1", "m2", "m3", "static", "vtable", "function"}
MCTy == {"&node", "node", "&dyn", "fn()", "opaque", "leaf"}
P(o, a) == [offset |-> o, id |-> a]

MCPtrs == [a \in MCAllocId |->
  CASE a = "m1" -> <<P(0, "m2"), P(1, "function")>>
    [] a = "m2" -> <<P(0, "m1"), P(1, "m3")>>
    [] a = "m3" -> <<P(0, "static"), P(1, "m2")>>
    [] OTHER -> <<>>]

\* node is a struct of a reference to a node and a function pointer or other word
MCProvTy == [x \in MCTy \X {0, 1} |->
  CASE x = <<"&node", 0>> -> "node"
    [] x = <<"node", 0>> -> "node"
    [] x = <<"node", 1>> -> "leaf"
    [] x = <<"&dyn", 0>> -> "node"
    [] x = <<"leaf", 0>> -> "leaf"
    [] OTHER -> "no type"]

MCConst == {"typed", "untyped", "object", "callback", "plain"}
MCConstTy == [c \in MCConst |->
  CASE c = "typed" -> "&node" [] c = "untyped" -> "opaque" [] c = "object" -> "&dyn"
    [] c = "callback" -> "fn()" [] c = "plain" -> "opaque"]
MCConstPtrs == [c \in MCConst |->
  CASE c = "typed" -> <<P(0, "m1")>>
    [] c = "untyped" -> <<P(0, "m3"), P(1, "function")>>
    [] c = "object" -> <<P(0, "m1"), P(1, "vtable")>>
    [] c = "callback" -> <<P(0, "function")>>
    [] c = "plain" -> <<>>]
=============================================================================
