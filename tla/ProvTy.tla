------------------------------- MODULE ProvTy -------------------------------
(***************************************************************************)
(* get_prov_ty (src/src/printer/mir_visitor.rs): which type does the       *)
(* pointer at a given offset of a value point to?  The code walks down the *)
(* nested fields of the value's type; the specification takes one step per *)
(* recursive call.                                                         *)
(*                                                                         *)
(* A type is a record [kind, size, parts, inner]: parts are its fields or  *)
(* array elements in source order, each with its offset (the compiler may  *)
(* lay fields out in any order, and puts fields of size 0 anywhere), and   *)
(* inner holds the pointee of a pointer or the element type of an array,   *)
(* which an array of length 0 has too.  Offsets count machine words.       *)
(***************************************************************************)
EXTENDS Naturals, Sequences

CONSTANTS Ty,        \* the types asked about and those inside them
          Offset     \* the offsets asked about

\* A type contains types; an array is made of elements of one type.
ASSUME TypesAssumption ==
  /\ \A t \in Ty : /\ t.size \in Nat
                   /\ t.parts \in Seq([ty : Ty, at : Nat])
                   /\ t.kind = "array" =>
                        \E e \in Ty : /\ t.inner = {e}
                                      /\ \A i \in DOMAIN t.parts : t.parts[i].ty = e
  /\ Offset \subseteq Nat

Ends(part) == part.at + part.ty.size

\* The compiler lays the fields of a struct or tuple out one after the other.
ASSUME LayoutAssumption ==
  \A t \in Ty : t.kind \in {"struct", "tuple"} =>
    \A i, j \in DOMAIN t.parts :
      i # j => Ends(t.parts[i]) <= t.parts[j].at \/ Ends(t.parts[j]) <= t.parts[i].at

VARIABLES query,     \* the call of get_prov_ty: [ty, offset]
          at,        \* where the recursion is: [ty, offset]
          status,    \* "looking" or "done"
          pointee    \* the type found, as a set of at most one

vars == <<query, at, status, pointee>>

-----------------------------------------------------------------------------
(***************************************************************************)
(* field_containing_offset: the field with the largest start that does not *)
(* exceed the offset; of several with that start, the first listed.        *)
(***************************************************************************)
StartsBefore(parts, o) == {i \in DOMAIN parts : parts[i].at <= o}

\* Fault for the mutation runs: the last listed field wins a tie.
LastListed(parts, o) ==
  {i \in StartsBefore(parts, o) :
     \A j \in StartsBefore(parts, o) \ {i} :
       parts[j].at < parts[i].at \/ (parts[j].at = parts[i].at /\ j < i)}

field_containing_offset(parts, o) ==
  {i \in StartsBefore(parts, o) :
     \A j \in StartsBefore(parts, o) \ {i} :
       parts[j].at < parts[i].at \/ (parts[j].at = parts[i].at /\ i < j)}

-----------------------------------------------------------------------------
Init == /\ query \in [ty : Ty, offset : Offset]
        /\ at = query
        /\ status = "looking"
        /\ pointee = {}

Answer(p) == status' = "done" /\ pointee' = p /\ UNCHANGED <<query, at>>
Recurse(t, o) == at' = [ty |-> t, offset |-> o] /\ UNCHANGED <<query, status, pointee>>

\* builtin_deref succeeds (references, raw pointers, boxes): only offset 0 makes sense
Pointer == /\ at.ty.kind = "ptr"
           /\ Answer(IF at.offset = 0 THEN at.ty.inner ELSE {})

\* Arrays and slices: the element type, at offset 0 whatever the offset was
Array == /\ at.ty.kind = "array"
         /\ \E e \in at.ty.inner : Recurse(e, 0)

\* Fault for the mutation runs: the recursion starts at the field's first byte.
FieldStart ==
  /\ at.ty.kind \in {"struct", "tuple"}
  /\ \E i \in field_containing_offset(at.ty.parts, at.offset) : Recurse(at.ty.parts[i].ty, 0)

\* Structs and tuples: into the field, relative to its start
Field ==
  /\ at.ty.kind \in {"struct", "tuple"}
  /\ \E i \in field_containing_offset(at.ty.parts, at.offset) :
       Recurse(at.ty.parts[i].ty, at.offset - at.ty.parts[i].at)

NoField == /\ at.ty.kind \in {"struct", "tuple"}
           /\ field_containing_offset(at.ty.parts, at.offset) = {}
           /\ Answer({})

\* Enums (the variant is unknown), function pointers, primitives, types without
\* layout and everything not implemented
Unresolved == /\ at.ty.kind \notin {"ptr", "array", "struct", "tuple"}
              /\ Answer({})

Next == status = "looking" /\ (Pointer \/ Array \/ Field \/ NoField \/ Unresolved)

Spec == Init /\ [][Next]_vars

-----------------------------------------------------------------------------
(* Reference: the pointers inside a value, each with its offset.  Those    *)
(* inside an enum, a union or a closure, which the code does not look into, *)
(* are left out.                                                           *)
Composed(t) == t.kind \in {"array", "struct", "tuple"}

Leaves[t \in Ty] ==
  IF t.kind = "ptr" THEN {[at |-> 0, to |-> p] : p \in t.inner}
  ELSE IF ~Composed(t) THEN {}
  ELSE UNION {{[at |-> l.at + t.parts[i].at, to |-> l.to] : l \in Leaves[t.parts[i].ty]}
               : i \in DOMAIN t.parts}

\* A type, those of its parts and of its elements, down to the pointers
Inside[t \in Ty] ==
  {t} \cup (UNION {Inside[t.parts[i].ty] : i \in DOMAIN t.parts})
      \cup (IF t.kind = "array" THEN UNION {Inside[e] : e \in t.inner} ELSE {})

\* Types nest finitely, so both recursions are well founded.
ASSUME NestingAssumption ==
  \A t \in Ty :
    /\ Leaves[t] =
         IF t.kind = "ptr" THEN {[at |-> 0, to |-> p] : p \in t.inner}
         ELSE IF ~Composed(t) THEN {}
         ELSE UNION {{[at |-> l.at + t.parts[i].at, to |-> l.to] : l \in Leaves[t.parts[i].ty]}
                      : i \in DOMAIN t.parts}
    /\ Inside[t] =
         {t} \cup (UNION {Inside[t.parts[i].ty] : i \in DOMAIN t.parts})
             \cup (IF t.kind = "array" THEN UNION {Inside[e] : e \in t.inner} ELSE {})

\* A pointer has a size and its bytes lie in those of the value it is in.
ASSUME PointersInside ==
  \A t \in Ty : \A l \in Leaves[t] : l.at \in Nat /\ l.at < t.size

\* What the pointer at an offset of a value really points to.
PointeeAt(t, o) == {l.to : l \in {m \in Leaves[t] : m.at = o}}
Truth == PointeeAt(query.ty, query.offset)

\* No field of size 0 is listed before a field that starts at the same offset.
NoShadow(t) ==
  t.kind \in {"struct", "tuple"} =>
    \A i, j \in DOMAIN t.parts :
      (i < j /\ t.parts[i].at = t.parts[j].at) => t.parts[i].ty.size > 0

\* The elements of an array have at most one pointer, at their start; those of an
\* array without elements have none.
SimpleElements(t) ==
  t.kind = "array" =>
    \A e \in t.inner : \A l \in Leaves[e] : l.at = 0 /\ t.parts # <<>>

Simple == \A t \in Inside[query.ty] : SimpleElements(t)
Unshadowed == \A t \in Inside[query.ty] : NoShadow(t)

\* The answer about a pointer inside a value is never the pointee of another pointer, and
\* where no zero-sized field hides another one it is its own pointee; both in types whose
\* array elements start with their only pointer.
ResolvesPointers ==
  (status = "done" /\ Truth # {} /\ Simple) =>
    /\ pointee \subseteq Truth
    /\ Unshadowed => pointee = Truth

-----------------------------------------------------------------------------
(* A statement of a comment that the code does not keep.                   *)

\* mir_visitor.rs:91 "Find the field whose byte range contains the given offset":
\* for the offset of a pointer inside a struct, the chosen field contains it.
FieldContainsOffset ==
  (at.ty.kind \in {"struct", "tuple"} /\ PointeeAt(at.ty, at.offset) # {}) =>
    \A i \in field_containing_offset(at.ty.parts, at.offset) :
      /\ at.ty.parts[i].at <= at.offset
      /\ at.offset < at.ty.parts[i].at + at.ty.parts[i].ty.size
=============================================================================
