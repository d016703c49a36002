------------------------------- MODULE Assemble -------------------------------
(***************************************************************************)
(* Phase 3 of the pipeline, assemble_smir (src/src/printer/collect.rs):    *)
(* what was collected in hash maps becomes the sorted lists of the output, *)
(* and the types their metadata (types.rs).                                *)
(*                                                                         *)
(* A collected crate is a record of sets:                                  *)
(*   allocs     [id, kind, name, bytes, ptrs]                              *)
(*   functions  [ty, kind, symbol]         types      [ty, kind, rest]     *)
(*   items      [symbol, name]             spans      [id, source]         *)
(*   consts     [id, symbol]                                               *)
(* Strings are numbers in their order, bytes a sequence in which 0 stands  *)
(* for None and b + 1 for Some(b), and an Option a sequence of at most one *)
(* element; rest is what the metadata of a type tell besides its name and  *)
(* the types it refers to.  A ty or id is the entity itself, whatever      *)
(* number rustc gives it; the numbers of the types, which the sort keys    *)
(* use, are chosen anew in every run, and so is the order in which a map   *)
(* is iterated.                                                            *)
(***************************************************************************)
EXTENDS Naturals, Sequences, SequencesExt, Functions

CONSTANT TyDisplay   \* [types -> Nat]: their Display form

\* What the collection delivers: finitely many of each, in the forms above
Sections == {"allocs", "functions", "items", "types", "spans", "consts"}
IsCollected(c) ==
  /\ \A section \in Sections : IsFiniteSet(c[section])
  /\ \A a \in c.allocs : /\ a.kind \in {"Memory", "Static", "VTable", "Function"}
                         /\ a.name \in Nat /\ a.bytes \in Seq(Nat)
  /\ \A f \in c.functions : f.kind \in Seq(Nat)
  /\ \A e \in c.types \cup c.functions : TyDisplay[e.ty] \in Nat
  /\ \A i \in c.items : i.symbol \in Nat /\ i.name \in Nat
  /\ \A s \in c.spans : s.source \in Nat
  /\ \A k \in c.consts : k.symbol \in Nat

-----------------------------------------------------------------------------
(* Ord of sequences and of tuples of sequences                             *)

Below(s, t, Lt(_, _)) ==
  \E n \in 0..Len(s) :
    /\ n <= Len(t) /\ \A i \in 1..n : s[i] = t[i]
    /\ \/ n = Len(s) /\ n < Len(t)
       \/ n < Len(s) /\ n < Len(t) /\ Lt(s[n + 1], t[n + 1])
SeqLt(s, t) == Below(s, t, LAMBDA a, b : a < b)
KeyLt(s, t) == Below(s, t, SeqLt)

-----------------------------------------------------------------------------
(* The sort keys, tier by tier                                             *)

alloc_sort_tag == [Memory |-> 0, Static |-> 1, VTable |-> 2, Function |-> 3]
alloc_content_key(alloc) == IF alloc.kind = "Memory" THEN <<>> ELSE <<alloc.name>>
alloc_bytes(alloc) == IF alloc.kind = "Memory" THEN alloc.bytes ELSE <<>>

\* The tiers computed from the contents of an element.  Items are compared by the string
\* symbol!name, and '!' sorts below every character of a symbol, so by symbol and then name.
content_key(section, e) ==
  CASE section = "allocs"    -> <<<<alloc_sort_tag[e.kind]>>, alloc_content_key(e), alloc_bytes(e)>>
    [] section = "functions" -> <<<<TyDisplay[e.ty]>>, e.kind>>
    [] section = "items"     -> <<<<e.symbol>>, <<e.name>>>>
    [] section = "types"     -> <<<<TyDisplay[e.ty]>>>>
    [] section = "spans"     -> <<<<e.source>>>>
    [] section = "consts"    -> <<<<e.symbol>>>>

\* Fault for the mutation run: allocations sorted by kind and length only.
TagAndLength(section, e, to_index) ==
  CASE section = "allocs" -> <<<<alloc_sort_tag[e.kind]>>, <<Len(alloc_bytes(e))>>>>
    [] section \in {"functions", "types"} -> Append(content_key(section, e), <<to_index[e.ty]>>)
    [] OTHER -> content_key(section, e)

\* Two lists have the number of a type as the last tier.
sort_key(section, e, to_index) ==
  IF section \in {"functions", "types"} THEN Append(content_key(section, e), <<to_index[e.ty]>>)
  ELSE content_key(section, e)

-----------------------------------------------------------------------------
(***************************************************************************)
(* mk_type_metadata: the variant of the metadata of a type, if it has one. *)
(* The walk does not record FnDef and FnPtr.                               *)
(***************************************************************************)
Primitive == {"Bool", "Char", "Int", "Uint", "Float", "Str"}
Variants(kind) ==
  CASE kind \in Primitive                     -> {"PrimitiveType"}
    [] kind = "Enum"                          -> {"EnumType"}
    [] kind = "Struct"                        -> {"StructType"}
    [] kind = "Union"                         -> {"UnionType"}
    [] kind \in {"Array", "Slice"}            -> {"ArrayType"}
    [] kind = "RawPtr"                        -> {"PtrType"}
    [] kind = "Ref"                           -> {"RefType"}
    [] kind = "Tuple"                         -> {"TupleType"}
    [] kind \in {"FnDef", "FnPtr", "Closure"} -> {"FunType"}
    [] kind = "Dynamic"                       -> {"DynType"}
    [] kind = "Never"                         -> {"VoidType"}
    [] OTHER                                  -> {}
mk_type_metadata(t) == {[ty |-> t.ty, variant |-> v, rest |-> t.rest] : v \in Variants(t.kind)}

\* An array whose length is an unevaluated constant is a panic.
AssemblePanics(collected) == \E t \in collected.types : t.kind = "Array of unevaluated length"

-----------------------------------------------------------------------------
Entities(collected, section) ==
  IF section = "types" THEN UNION {mk_type_metadata(t) : t \in collected.types}
  ELSE collected[section]

\* The numbers rustc may give the types
TypesOf(collected) == {e.ty : e \in collected.types \cup collected.functions}
Interned(collected) ==
  Injection(TypesOf(collected), 1..Cardinality(TypesOf(collected)))

\* sort_by is stable: in the order of the keys, and where they tie in the order of the map.
SortedSection(collected, section, to_index) ==
  LET Key(e) == sort_key(section, e, to_index) IN
  {s \in SetToSeqs(Entities(collected, section)) :
     \A i, j \in DOMAIN s : i < j => ~KeyLt(Key(s[j]), Key(s[i]))}

assemble_smir(collected) ==
  UNION {[allocs : SortedSection(collected, "allocs", to_index),
          functions : SortedSection(collected, "functions", to_index),
          items : SortedSection(collected, "items", to_index),
          types : SortedSection(collected, "types", to_index),
          spans : SortedSection(collected, "spans", to_index),
          consts : SortedSection(collected, "consts", to_index)]
           : to_index \in Interned(collected)}
=============================================================================
