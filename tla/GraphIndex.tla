------------------------------ MODULE GraphIndex ------------------------------
(***************************************************************************)
(* The lookup tables the graphs are labelled from                          *)
(* (src/src/mk_graph/index.rs): TypeIndex, a name and layout for each type *)
(* of the crate, and AllocIndex, a description for each allocation.        *)
(*                                                                         *)
(* The crate is a record [items, functions, allocs, types].  An allocation *)
(* is [id, ty, kind, bytes, name]: bytes of a "Memory" are 0..255 or       *)
(* Uninit, name is what a "Static", "VTable" or "Function" is of.  A type  *)
(* is [ty, variant, layout]: the variant of its TypeMetadata and a         *)
(* sequence of at most one [size, align].  Ids and types are unique.       *)
(* Field offsets are left out: nothing that is drawn shows them.           *)
(***************************************************************************)
EXTENDS Naturals, Sequences, SequencesExt, FiniteSetsExt

CONSTANTS Crates,       \* the crates rendered
          Display,      \* [types -> names]: their Display form
          Debug,        \* [types -> names]: the Debug form of their RigidTy
          WithStr,      \* names that contain "str"
          Uninit        \* a byte that is not initialised

VARIABLE crate          \* the crate rendered: SmirJson

\* The tables are built from maps by id and by type.
ASSUME TablesAssumption ==
  \A c \in Crates :
    /\ c.allocs \in Seq(ToSet(c.allocs)) /\ c.types \in Seq(ToSet(c.types))
    /\ \A i, j \in DOMAIN c.allocs : c.allocs[i].id = c.allocs[j].id => i = j
    /\ \A i, j \in DOMAIN c.types : c.types[i].ty = c.types[j].ty => i = j

NumberBytes == 8
TextBytes == 20

Concrete(bytes) == SelectSeq(bytes, LAMBDA b : b # Uninit)
IsAscii(b) == b < 128

\* bytes_to_u64_le, as the digits of the number to base 256, least significant first
bytes_to_u64_le(bytes) ==
  SubSeq(bytes, 1, Max({0} \cup {i \in DOMAIN bytes : bytes[i] # 0}))

-----------------------------------------------------------------------------
(* TypeIndex                                                               *)

TypeEntries(ty) == {t \in ToSet(crate.types) : t.ty = ty}

\* TypeEntry::from_metadata: the name of an indexed type
EntryName(entry) == CASE entry.variant = "PrimitiveType" -> Debug[entry.ty]
                      [] entry.variant = "VoidType" -> "()"
                      [] OTHER -> Display[entry.ty]
\* and its layout, which three of the variants do not have
EntryLayout(entry) ==
  IF entry.variant \in {"PrimitiveType", "FunType", "VoidType"} THEN <<>> ELSE entry.layout

get_name(ty) == IF TypeEntries(ty) = {} THEN Display[ty]
                ELSE EntryName(CHOOSE t \in TypeEntries(ty) : TRUE)
get_layout(ty) == IF TypeEntries(ty) = {} THEN <<>>
                  ELSE EntryLayout(CHOOSE t \in TypeEntries(ty) : TRUE)

render_type_with_layout(ty) == [name |-> get_name(ty), layout |-> get_layout(ty)]

\* types_legend_lines.  Its order, by name, is left out.
Composite == {"StructType", "UnionType", "EnumType", "TupleType"}
types_legend_lines ==
  {[name |-> EntryName(t), size |-> [i \in DOMAIN EntryLayout(t) |-> EntryLayout(t)[i].size]]
     : t \in {u \in ToSet(crate.types) : u.variant \in Composite}}

-----------------------------------------------------------------------------
(* AllocIndex                                                              *)

Text(bytes) == [form |-> "text", shown |-> SubSeq(bytes, 1, Min({TextBytes, Len(bytes)})),
                len |-> Len(bytes)]
Number(name, bytes) == [form |-> "number", name |-> name, value |-> bytes_to_u64_le(bytes)]
Size(name, bytes) == [form |-> "size", name |-> name, len |-> Len(bytes)]

\* AllocEntry::from_alloc_info of a GlobalAlloc::Memory
MemoryDescription(alloc) ==
  LET name == get_name(alloc.ty)
      concrete == Concrete(alloc.bytes)
      is_str == name \in WithStr
  IN IF is_str /\ \A b \in ToSet(concrete) : IsAscii(b) THEN Text(concrete)
     ELSE IF Len(concrete) \in 1..NumberBytes THEN Number(name, concrete)
     ELSE Size(name, alloc.bytes)

from_alloc_info(alloc) ==
  IF alloc.kind = "Memory" THEN MemoryDescription(alloc)
  ELSE [form |-> alloc.kind, name |-> alloc.name]

short_description(alloc) == [id |-> alloc.id, description |-> <<from_alloc_info(alloc)>>]

\* AllocIndex::describe: an id that was not collected is all there is to show of it.
describe(id) ==
  LET entries == {a \in ToSet(crate.allocs) : a.id = id} IN
  IF entries = {} THEN [id |-> id, description |-> <<>>]
  ELSE short_description(CHOOSE a \in entries : TRUE)

\* allocs_legend_lines: one for each allocation.  Their order, by id, is left out.
allocs_legend_lines == [i \in DOMAIN crate.allocs |-> short_description(crate.allocs[i])]
=============================================================================
