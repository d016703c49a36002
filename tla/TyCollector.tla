----------------------------- MODULE TyCollector -----------------------------
(***************************************************************************)
(* The type visitor of src/src/printer/ty_visitor.rs: a depth-first walk   *)
(* over the graph of the monomorphic types that the bodies mention.  A     *)
(* type that is known already ends the walk there, so it matters when each *)
(* kind of type becomes known: functions and closures before the types of  *)
(* their signature, structs and enums between their arguments and their    *)
(* fields, all others after their parts.  A coroutine witness breaks off   *)
(* the whole walk, and what was recorded until then stays.                 *)
(*                                                                         *)
(* The recursion of the code is a stack of frames, innermost first, each   *)
(* with the types it has still to visit; the first of them stays there     *)
(* while its own frame is on top of the stack.                             *)
(***************************************************************************)
EXTENDS Naturals, Sequences, SequencesExt

CONSTANTS Ty,
          Mentioned,     \* the types that occur in the bodies
          Fn,            \* FnDef and FnPtr types,
          Closure,       \* closures,
          Witness,       \* and coroutine witnesses among them
          Parts,         \* [Ty -> Seq(Ty)]: arguments or component types; of a function or
                         \* closure the types of its ABI: inputs, then output
          Fields,        \* [Ty -> Seq(Ty)]: field types of all variants (ADTs only)
          LayoutPanics,  \* types whose layout computation panics inside rustc
          Clean          \* types from which no witness can be reached

Refs(t) == ToSet(Parts[t]) \cup ToSet(Fields[t])

ASSUME TyAssumption ==
  /\ Fn \subseteq Ty /\ Closure \subseteq Ty \ Fn /\ Witness \subseteq Ty \ (Fn \cup Closure)
  /\ LayoutPanics \subseteq Ty /\ Mentioned \subseteq Ty
  /\ Parts \in [Ty -> Seq(Ty)] /\ Fields \in [Ty -> Seq(Ty)]
  /\ \A t \in Fn \cup Closure : Fields[t] = <<>>
  /\ Clean \subseteq Ty \ Witness /\ \A t \in Clean : Refs(t) \subseteq Clean

VARIABLES stack,
          types,          \* keys of TyMap
          resolved,       \* functions and closures entered
          layout_panics,
          visited         \* history: types the bodies mentioned

vars == <<stack, types, resolved, layout_panics, visited>>

Frame == [ty : Ty, todo : Seq(Ty), recorded : BOOLEAN]
Known == types \cup resolved
Top == Head(stack)
Pushed(t, recorded) == <<[ty |-> t, todo |-> Parts[t], recorded |-> recorded]>> \o stack

-----------------------------------------------------------------------------
Init == /\ stack = <<>> /\ types = {} /\ resolved = {} /\ layout_panics = <<>>
        /\ visited = {}

\* visit_ty of the body visitor: a body mentions type t.
Visit(t) ==
  /\ stack = <<>>
  /\ stack' = <<[ty |-> t, todo |-> <<t>>, recorded |-> TRUE]>>
  /\ visited' = visited \cup {t}
  /\ UNCHANGED <<types, resolved, layout_panics>>

AtType(t) == stack # <<>> /\ Top.todo # <<>> /\ t = Head(Top.todo)

\* Fault for the mutation run: a known type is put off, not dropped.
PutOff(t) == /\ AtType(t) /\ t \in Known
             /\ stack' = <<[Top EXCEPT !.todo = Append(Tail(@), t)]>> \o Tail(stack)
             /\ UNCHANGED <<types, resolved, layout_panics, visited>>

\* The type is known: at once, or now that its visit has returned Continue.
Continue(t) ==
  /\ AtType(t) /\ t \in Known
  /\ stack' = <<[Top EXCEPT !.todo = Tail(@)]>> \o Tail(stack)
  /\ UNCHANGED <<types, resolved, layout_panics, visited>>

\* Fault for the mutation run: closures are treated as functions are.
SameAsFn(t) ==
  /\ AtType(t) /\ t \in (Fn \cup Closure) \ Known
  /\ resolved' = resolved \cup {t}
  /\ stack' = Pushed(t, TRUE)
  /\ UNCHANGED <<types, layout_panics, visited>>

\* FnDef, FnPtr, Closure: known from here on, then their signature is visited; only
\* closures are recorded after it.
EnterFn(t) ==
  /\ AtType(t) /\ t \in (Fn \cup Closure) \ Known
  /\ resolved' = resolved \cup {t}
  /\ stack' = Pushed(t, t \in Fn)
  /\ UNCHANGED <<types, layout_panics, visited>>

\* Fault for the mutation run: entered in the memo table before the walk.
RecordFirst(t) ==
  /\ AtType(t) /\ t \notin Fn \cup Closure \cup Witness \cup Known
  /\ stack' = Pushed(t, FALSE)
  /\ types' = types \cup {t}
  /\ UNCHANGED <<resolved, layout_panics, visited>>

\* super_visit of every other type
Enter(t) ==
  /\ AtType(t) /\ t \notin Fn \cup Closure \cup Witness \cup Known
  /\ stack' = Pushed(t, FALSE)
  /\ UNCHANGED <<types, resolved, layout_panics, visited>>

\* A coroutine witness: Break unwinds all frames; the body visitor ignores it.
Break(t) ==
  /\ AtType(t) /\ t \in Witness
  /\ stack' = <<>>
  /\ UNCHANGED <<types, resolved, layout_panics, visited>>

layout_shape_or_record(t) ==
  layout_panics' = IF t \in LayoutPanics THEN Append(layout_panics, t) ELSE layout_panics

\* Faults for the mutation runs: no entry without a layout; no visit to the fields.
NeedsLayout ==
  /\ stack # <<>> /\ Top.todo = <<>> /\ ~Top.recorded
  /\ layout_shape_or_record(Top.ty)
  /\ types' = types \cup ({Top.ty} \ LayoutPanics)
  /\ stack' = <<[Top EXCEPT !.todo = Fields[Top.ty], !.recorded = TRUE]>> \o Tail(stack)
  /\ UNCHANGED <<resolved, visited>>
SkipsFields ==
  /\ stack # <<>> /\ Top.todo = <<>> /\ ~Top.recorded
  /\ layout_shape_or_record(Top.ty)
  /\ types' = types \cup {Top.ty}
  /\ stack' = Tail(stack)
  /\ UNCHANGED <<resolved, visited>>

\* All parts have been visited: the type is recorded, then its fields are visited.
Record ==
  /\ stack # <<>> /\ Top.todo = <<>> /\ ~Top.recorded
  /\ layout_shape_or_record(Top.ty)
  /\ types' = types \cup {Top.ty}
  /\ stack' = <<[Top EXCEPT !.todo = Fields[Top.ty], !.recorded = TRUE]>> \o Tail(stack)
  /\ UNCHANGED <<resolved, visited>>

Return == /\ stack # <<>> /\ Top.todo = <<>> /\ Top.recorded
          /\ stack' = Tail(stack)
          /\ UNCHANGED <<types, resolved, layout_panics, visited>>

Walk == \/ \E t \in Ty : Continue(t) \/ EnterFn(t) \/ Enter(t) \/ Break(t)
        \/ Record \/ Return

Next == (\E t \in Mentioned : Visit(t)) \/ Walk

\* The recursion runs to its end; nothing obliges the bodies to mention a type.
Spec == Init /\ [][Next]_vars /\ WF_vars(Walk)

-----------------------------------------------------------------------------
\* What the frames of type t have still to visit.
Todo(t) == UNION {ToSet(f.todo) : f \in {g \in ToSet(stack) : g.ty = t}}

\* Type invariant; layouts that panicked are those of recorded types.
TypeOK == /\ stack \in Seq(Frame)
          /\ types \subseteq Ty /\ resolved \subseteq Fn \cup Closure
          /\ layout_panics \in Seq(types \cap LayoutPanics)
          /\ visited \subseteq Ty

\* A type is recorded only when the visit of its parts succeeded ("record closure Ty
\* only when traversal succeeds"), breaks and recursive types notwithstanding: what
\* its parts are is always known.
PartsKnown == \A t \in types : ToSet(Parts[t]) \subseteq Known

\* The damage of a break is contained: of a type that leads to no witness all the
\* types it refers to are known or still to be visited for it, whatever breaks came
\* before, and so is every such type that a body mentioned.
CleanCollected ==
  /\ \A t \in Known \cap Clean : Refs(t) \subseteq Known \cup Todo(t)
  /\ \A t \in visited \cap Clean : t \in Known \cup Todo(t)

\* After a walk only functions are known without being recorded, closures on the way
\* to a witness aside.
ClosuresRecorded == stack = <<>> => resolved \cap Clean \subseteq Fn \cup types

\* Recursive types do not keep the walk from ending.
WalksEnd == stack # <<>> ~> stack = <<>>
=============================================================================
