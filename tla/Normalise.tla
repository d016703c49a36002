------------------------------ MODULE Normalise ------------------------------
(***************************************************************************)
(* The filter the integration tests put an output through before they      *)
(* compare it (src/tests/integration/normalise-filter.jq): it removes      *)
(* numbers of the run from each element, drops some elements, and sorts    *)
(* most of the lists again.                                                *)
(*                                                                         *)
(* A list that jq sorts by all that is left of its elements is told by how *)
(* often each occurs, a bag.  The numbers that the filter leaves in (of    *)
(* the allocations pointers lead to, of vtables' and unions' types) stand  *)
(* for the entities themselves here, so outputs are compared up to a       *)
(* renumbering of those.  The hash at the end of a symbol is not cut off,  *)
(* which only compares more.                                               *)
(***************************************************************************)
EXTENDS Assemble

\* del(.alloc_id), del(.ty); del(.[0]) of a function and of a type; "elided".  The name is
\* in the metadata of enums, structs, unions and functions only.
Named == {"EnumType", "StructType", "UnionType", "FunType"}
Left(section, e) ==
  CASE section = "allocs"    -> <<e.kind, e.name, e.bytes, e.ptrs>>
    [] section = "functions" -> <<e.symbol>>
    [] section = "items"     -> <<e.symbol, e.name>>
    [] section = "types"     -> [variant |-> e.variant, rest |-> e.rest,
                                 name |-> IF e.variant \in Named THEN <<TyDisplay[e.ty]>> ELSE <<>>]
Remains(section, list) == [i \in DOMAIN list |-> Left(section, list[i])]

\* Types are grouped by variant; those of no name are sorted, of the tuples and functions the
\* order is kept, and the others are sorted by name, as they come.  VoidType and DynType are
\* not among them.
Resorted == {"PrimitiveType", "ArrayType", "PtrType", "RefType"}
Ordered == {"EnumType", "StructType", "UnionType", "TupleType", "FunType"}
Group(types, variant) == SelectSeq(types, LAMBDA t : t.variant = variant)
NormalTypes(types) == <<[v \in Resorted |-> ToBag(Group(types, v))], [v \in Ordered |-> Group(types, v)]>>

normalise_filter(smir) ==
  [allocs    |-> ToBag(Remains("allocs", smir.allocs)),
   functions |-> ToBag(Remains("functions", smir.functions)),
   items     |-> ToBag(Remains("items", smir.items)),
   types     |-> NormalTypes(Remains("types", smir.types))]
=============================================================================
