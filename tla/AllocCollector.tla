--------------------------- MODULE AllocCollector ---------------------------
(***************************************************************************)
(* collect_alloc and the AllocMap it fills (src/src/printer/mir_visitor.rs *)
(* and schema.rs): the walk over the graph of global allocations that      *)
(* starts from the constants of the bodies.  An allocation is entered with *)
(* the type its first visitor came with; the type decides whether the      *)
(* pointers inside a memory allocation are followed.                       *)
(*                                                                         *)
(* The recursion of the code is a stack of calls [ty, offset, id]: the     *)
(* pointer at that offset of a value of that type points to allocation id. *)
(***************************************************************************)
EXTENDS Naturals, Sequences, SequencesExt

CONSTANTS AllocId, Ty,
          Memory,        \* the ids of memory allocations ...
          Function,      \* ... and of functions; the others are statics and vtables
          Ptrs,          \* [AllocId -> Seq([offset, id])]: the pointers in a memory allocation
          Const,         \* the allocated constants of all bodies
          ConstTy,       \* [Const -> Ty]
          ConstPtrs,     \* [Const -> Seq([offset, id])]
          Offset,
          ProvTy,        \* get_prov_ty as a function on Ty \X Offset, with NoTy for None
          NoTy,
          Placeholder,   \* opaque_placeholder_ty()
          Derefs,        \* types builtin_deref(true) succeeds for
          FnPtrs         \* types that are fn pointers

ASSUME AllocAssumption ==
  /\ Memory \subseteq AllocId /\ Function \subseteq AllocId \ Memory
  /\ Ptrs \in [AllocId -> Seq([offset : Offset, id : AllocId])]
  /\ ConstTy \in [Const -> Ty]
  /\ ConstPtrs \in [Const -> Seq([offset : Offset, id : AllocId])]
  /\ ProvTy \in [Ty \X Offset -> Ty \cup {NoTy}]
  /\ NoTy \notin Ty

VARIABLES calls,           \* pending calls of collect_alloc, innermost first
          visited_allocs,  \* AllocMap::inner: partial function from AllocId to types
          duplicate_ids,   \* AllocMap::duplicate_ids (debug builds)
          walks            \* history: how often each constant was walked

vars == <<calls, visited_allocs, duplicate_ids, walks>>

Call == [ty : Ty, offset : Offset, id : AllocId]
CallsOn(ty, ptrs) == [i \in DOMAIN ptrs |-> [ty |-> ty, offset |-> ptrs[i].offset, id |-> ptrs[i].id]]

\* The answer of get_prov_ty for a call
PointeeTy(call) == ProvTy[<<call.ty, call.offset>>]

MaxWalks == 2   \* a bound on the history only

-----------------------------------------------------------------------------
Init == /\ calls = <<>>
        /\ visited_allocs = [a \in {} |-> Placeholder]
        /\ duplicate_ids = {}
        /\ walks = [c \in Const |-> 0]

\* AllocMap::insert
insert(a, ty) ==
  /\ visited_allocs' = [x \in DOMAIN visited_allocs \cup {a} |->
                          IF x = a THEN ty ELSE visited_allocs[x]]
  /\ duplicate_ids' = duplicate_ids \cup ({a} \cap DOMAIN visited_allocs)

\* visit_mir_const of an Allocated constant, when no call is pending
VisitConst(c) ==
  /\ calls = <<>>
  /\ calls' = CallsOn(ConstTy[c], ConstPtrs[c])
  /\ walks' = [walks EXCEPT ![c] = IF @ < MaxWalks THEN @ + 1 ELSE @]
  /\ UNCHANGED <<visited_allocs, duplicate_ids>>

\* Fault for the mutation runs: an allocation of unknown type is entered again.
SeenTyped(call) == call.id \in DOMAIN visited_allocs /\ visited_allocs[call.id] # Placeholder

\* The early return of collect_alloc
SeenBefore(call) == call.id \in DOMAIN visited_allocs

\* Fault for the mutation runs: a known allocation is put off, not dropped.
PutOff == /\ calls # <<>>
          /\ SeenBefore(Head(calls))
          /\ calls' = Append(Tail(calls), Head(calls))
          /\ UNCHANGED <<visited_allocs, duplicate_ids, walks>>

Skip == /\ calls # <<>>
        /\ SeenBefore(Head(calls))
        /\ calls' = Tail(calls)
        /\ UNCHANGED <<visited_allocs, duplicate_ids, walks>>

Fresh == calls # <<>> /\ ~SeenBefore(Head(calls))

\* Fault for the mutation runs: only the first pointer is followed.
FollowsFirst ==
  LET call == Head(calls)
      ty == PointeeTy(call) IN
  /\ Fresh
  /\ call.id \in Memory /\ ty # NoTy
  /\ insert(call.id, ty)
  /\ calls' = SubSeq(CallsOn(ty, Ptrs[call.id]), 1, 1) \o Tail(calls)
  /\ UNCHANGED walks

\* A memory allocation whose type is found: entered first, then its pointers are
\* followed, depth first.
CollectMemory ==
  LET call == Head(calls)
      ty == PointeeTy(call) IN
  /\ Fresh
  /\ call.id \in Memory /\ ty # NoTy
  /\ insert(call.id, ty)
  /\ calls' = CallsOn(ty, Ptrs[call.id]) \o Tail(calls)
  /\ UNCHANGED walks

\* Fault for the mutation runs: without a type the allocation is left out.
LeavesOut == /\ Fresh
             /\ Head(calls).id \in Memory
             /\ PointeeTy(Head(calls)) = NoTy
             /\ calls' = Tail(calls)
             /\ UNCHANGED <<visited_allocs, duplicate_ids, walks>>

\* A memory allocation of unknown type: the pointers inside it are not followed.
CollectOpaque ==
  LET call == Head(calls) IN
  /\ Fresh
  /\ call.id \in Memory /\ PointeeTy(call) = NoTy
  /\ insert(call.id, Placeholder)
  /\ calls' = Tail(calls)
  /\ UNCHANGED walks

\* Statics, vtables and functions are entered and not followed.
needs_recovery(call) ==
  IF call.id \in Function THEN call.ty \notin FnPtrs ELSE call.ty \notin Derefs
\* Fault for the mutation runs: a failed recovery is recorded as it is.
RawTy(call) == IF needs_recovery(call) THEN PointeeTy(call) ELSE call.ty

OtherTy(call) ==
  LET ty == PointeeTy(call) IN
  IF ~needs_recovery(call) THEN call.ty ELSE IF ty = NoTy THEN Placeholder ELSE ty

CollectOther ==
  LET call == Head(calls) IN
  /\ Fresh
  /\ call.id \notin Memory
  /\ insert(call.id, OtherTy(call))
  /\ calls' = Tail(calls)
  /\ UNCHANGED walks

collect_alloc == Skip \/ CollectMemory \/ CollectOpaque \/ CollectOther

Next == (\E c \in Const : VisitConst(c)) \/ collect_alloc

\* The recursion runs to its end; nothing obliges the compiler to offer constants.
Spec == Init /\ [][Next]_vars /\ WF_vars(collect_alloc)

-----------------------------------------------------------------------------
Targets(ptrs) == {p.id : p \in ToSet(ptrs)}
Pending == {call.id : call \in ToSet(calls)}
Walked == {c \in Const : walks[c] > 0}

\* Type invariant.
TypeOK == /\ calls \in Seq(Call)
          /\ DOMAIN visited_allocs \subseteq AllocId
          /\ \A a \in DOMAIN visited_allocs : visited_allocs[a] \in Ty \cup {Placeholder}
          /\ duplicate_ids \subseteq AllocId
          /\ walks \in [Const -> 0..MaxWalks]

\* verify_coherence, first assertion: the ids a walked body refers to are collected.
ConstsCollected ==
  \A c \in Walked : Targets(ConstPtrs[c]) \subseteq DOMAIN visited_allocs \cup Pending

\* A memory allocation entered with its type has its targets entered too: the
\* output mentions no unknown id from there.
TypedClosed ==
  \A a \in DOMAIN visited_allocs \cap Memory :
    visited_allocs[a] # Placeholder => Targets(Ptrs[a]) \subseteq DOMAIN visited_allocs \cup Pending

\* verify_coherence, second assertion: no id is inserted twice, shared and cyclic
\* allocations included.
NoDuplicates == duplicate_ids = {}

\* The type an allocation was entered with is never corrected later.
FirstVisitDecides ==
  [][\A a \in DOMAIN visited_allocs : visited_allocs'[a] = visited_allocs[a]]_vars

\* Every walk comes to an end, cyclic memory included.
WalksEnd == calls # <<>> ~> calls = <<>>

-----------------------------------------------------------------------------
(* A statement of the documentation that the code does not keep.           *)

\* schema.rs:30 "if the same AllocId is inserted twice, that indicates a body was
\* walked more than once": walking a body twice is flagged.
RewalkDetected ==
  \A c \in Const : (walks[c] > 1 /\ calls = <<>> /\ ConstPtrs[c] # <<>>) => duplicate_ids # {}
=============================================================================
