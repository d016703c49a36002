----------------------------- MODULE MCCollect -----------------------------
(***************************************************************************)
(* A crate for Collect.  main is listed by two codegen units and its body  *)
(* uses two instances of one generic constant, C1 and C2; C1 and C3 use    *)
(* each other; C4 is known already because it is a mono item; a foreign    *)
(* function has no body.  The walk of C3 may panic.                        *)
(***************************************************************************)
EXTENDS Collect

MCName == {"main", "foreign", "STATIC", "C1", "C2", "C3", "C4"}
MCMonoItems == <<"main", "foreign", "C4", "main", "STATIC">>
MCHasBody == MCName \ {"foreign"}
Ref(d, n) == [def |-> d, name |-> n]
MCRefs == [n \in MCName |->
  CASE n = "main"   -> {Ref("C", "C1"), Ref("C", "C2"), Ref("D", "C4")}
    [] n = "STATIC" -> {Ref("C", "C2")}
    [] n = "C1"     -> {Ref("E", "C3")}
    [] n = "C3"     -> {Ref("C", "C1"), Ref("F", "C4")}
    [] OTHER        -> {}]
MCInternedOf == [n \in MCName |-> IF n \in {"main", "C3"} THEN {"STATIC"} ELSE {}]
=============================================================================
