------------------------------ MODULE MCProvTy ------------------------------
(***************************************************************************)
(* All types over a few leaves up to two levels of nesting: structs of two *)
(* fields in both layouts (the second field may come first), with a field  *)
(* of size 0 at the start or at the end, tuples, and arrays of none or of  *)
(* two elements.                                                           *)
(***************************************************************************)
EXTENDS ProvTy

Prim(n) == [kind |-> "prim", size |-> n, parts |-> <<>>, inner |-> {}]
Ptr(p) == [kind |-> "ptr", size |-> 1, parts |-> <<>>, inner |-> {p}]
Unit == [kind |-> "struct", size |-> 0, parts |-> <<>>, inner |-> {}]
Enum(p) == [kind |-> "enum", size |-> 2, parts |-> <<>>, inner |-> {}]

Leaf == {Prim(1), Ptr(Prim(1)), Ptr(Prim(2)), Unit, Enum(1)}

Part(t, o) == [ty |-> t, at |-> o]
Record(kind, s, a, t, b) ==
  [kind |-> kind, size |-> s.size + t.size, parts |-> <<Part(s, a), Part(t, b)>>, inner |-> {}]
Records(kind, S, T) ==
  {Record(kind, s, 0, t, s.size) : s \in S, t \in T}
  \cup {Record(kind, s, t.size, t, 0) : s \in S, t \in T}
Arrays(S) ==
  {[kind |-> "array", size |-> 2 * s.size,
    parts |-> <<Part(s, 0), Part(s, s.size)>>, inner |-> {s}] : s \in S}
  \cup {[kind |-> "array", size |-> 0, parts |-> <<>>, inner |-> {s}] : s \in S}

Level1 == Leaf \cup Records("struct", Leaf, Leaf)
Empty == Arrays({Ptr(Prim(1))})
Level2 == Arrays(Level1) \cup Records("tuple", Level1, Leaf) \cup Records("struct", Empty, Leaf)
MCTy == Level1 \cup Level2
=============================================================================
