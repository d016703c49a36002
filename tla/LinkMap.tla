------------------------------ MODULE LinkMap ------------------------------
(***************************************************************************)
(* The link-time function resolution map (src/src/printer/link_map.rs) and *)
(* the visitor callbacks of BodyAnalyzer that feed it                      *)
(* (src/src/printer/mir_visitor.rs).  A map entry says which symbol a      *)
(* FnDef type is linked to and where the function was seen: as a           *)
(* monomorphised item (ITEM), in a call or drop terminator (TERM) or as a  *)
(* function pointer (FPTR).                                                *)
(*                                                                         *)
(* rustc is the environment: the constants say how it resolves every FnDef *)
(* type and what it reports about every instance.  Bodies are walked in    *)
(* the order a HashMap yields them, so the callbacks may come in any order.*)
(***************************************************************************)
CONSTANTS FnTy,        \* the FnDef types of the crate
          Inst,        \* the monomorphised instances rustc knows of
          MonoFns,     \* those listed as MonoItem::Fn
          DropGlue,    \* those resolve_drop_in_place may return
          NoInst,      \* "does not resolve" (Option<Instance>::None)
          NotFnDef,    \* the type of an instance that is not a FnDef (a closure body)
          NoKind,      \* the second half of a LinkMapKey when LINK_INST is not set
          Info,        \* [Inst -> [ty, kind, reify, name]]: Instance::ty(), instance_kind(), symbol
          Direct,      \* [FnTy -> Inst or NoInst]: Instance::resolve
          ForFnPtr     \* [FnTy -> Inst or NoInst]: Instance::resolve_for_fn_ptr

VARIABLES link_items_enabled,     \* is LINK_ITEMS set in the environment?
          link_instance_enabled,  \* is LINK_INST set?  Both are read once and kept.
          link_map,               \* partial function from keys to [source, name]
          panic,                  \* "none", or why the process aborted
          offers,                 \* history: every fn_sym update_link_map accepted, with its source
          refused                 \* history: the one its consistency check aborted over, or NoSym

settings == <<link_items_enabled, link_instance_enabled>>
vars == <<settings, link_map, panic, offers, refused>>

Source == {"ITEM", "TERM", "FPTR"}
\* Fault for the mutation runs: the kind left out of the key.
KeyWithoutKind(ty, kind) == <<ty, NoKind>>

Key(ty, kind) == <<ty, IF link_instance_enabled THEN kind ELSE NoKind>>
KeyOf(sym) == Key(sym.ty, sym.kind)

(***************************************************************************)
(* fn_inst_sym: an instance whose type is not a FnDef has no symbol.       *)
(***************************************************************************)
NoSym == [ty |-> NotFnDef, kind |-> NoKind, reify |-> FALSE, name |-> NotFnDef]
fn_inst_sym(ty, inst) ==
  IF inst = NoInst \/ ty = NotFnDef THEN NoSym
  ELSE [ty |-> ty, kind |-> Info[inst].kind, reify |-> Info[inst].reify, name |-> Info[inst].name]
OwnSym(inst) == IF inst = NoInst THEN NoSym ELSE fn_inst_sym(Info[inst].ty, inst)

\* The instance a zero-sized FnDef constant stands for: its function pointer first.
ConstInst(ty) == IF ForFnPtr[ty] # NoInst THEN ForFnPtr[ty] ELSE Direct[ty]

\* Everything the callbacks can hand to update_link_map.
FnSyms == ({OwnSym(i) : i \in Inst}
           \cup {fn_inst_sym(t, Direct[t]) : t \in FnTy}
           \cup {fn_inst_sym(t, ForFnPtr[t]) : t \in FnTy}) \ {NoSym}

ASSUME ResolutionAssumption ==
  /\ MonoFns \subseteq Inst /\ DropGlue \subseteq Inst
  /\ NoInst \notin Inst /\ NotFnDef \notin FnTy
  /\ \A i \in Inst : /\ DOMAIN Info[i] = {"ty", "kind", "reify", "name"}
                     /\ Info[i].ty \in FnTy \cup {NotFnDef}
                     /\ Info[i].reify \in BOOLEAN
  /\ Direct \in [FnTy -> Inst \cup {NoInst}]
  /\ ForFnPtr \in [FnTy -> Inst \cup {NoInst}]
  /\ \A s \in FnSyms : s # NoSym /\ s.ty \in FnTy

-----------------------------------------------------------------------------
(***************************************************************************)
(* update_link_map(map, sym, source)                                       *)
(***************************************************************************)
Clash(map, sym) ==
  /\ sym # NoSym
  /\ KeyOf(sym) \in DOMAIN map
  /\ map[KeyOf(sym)].name # sym.name

\* With LINK_INST set, two symbols for one key are an internal error.
Inconsistent(map, sym) == link_instance_enabled /\ Clash(map, sym)

Insert(map, k, entry) == [x \in DOMAIN map \cup {k} |-> IF x = k THEN entry ELSE map[x]]

\* Faults for the mutation runs: a key that always carries the kind; reify shims
\* skipped outright; no preference for items; sources lost on replacement or when
\* the entry is already there (ForgetsSources, FirstWins).
KeyedByKind(map, sym, source) ==
  IF sym = NoSym THEN map
  ELSE Insert(map, <<sym.ty, sym.kind>>, [source |-> {source}, name |-> sym.name])
SkipsReify(map, sym, source) ==
  IF sym = NoSym \/ sym.reify THEN map
  ELSE Insert(map, KeyOf(sym), [source |-> {source}, name |-> sym.name])
LastWins(map, sym, source) ==
  IF sym = NoSym THEN map
  ELSE LET k == KeyOf(sym) IN
       Insert(map, k, [source |-> (IF k \in DOMAIN map THEN map[k].source ELSE {}) \cup {source},
                       name |-> sym.name])
ForgetsSources(map, sym, source) ==
  IF sym = NoSym \/ (Clash(map, sym) /\ sym.reify) THEN map
  ELSE Insert(map, KeyOf(sym), [source |-> {source}, name |-> sym.name])
FirstWins(map, sym, source) ==
  IF sym = NoSym \/ KeyOf(sym) \in DOMAIN map THEN map
  ELSE Insert(map, KeyOf(sym), [source |-> {source}, name |-> sym.name])

update_link_map(map, sym, source) ==
  IF sym = NoSym THEN map
  ELSE LET k == KeyOf(sym) IN
       IF k \notin DOMAIN map THEN Insert(map, k, [source |-> {source}, name |-> sym.name])
       ELSE IF Clash(map, sym) /\ sym.reify THEN map      \* keep the item's symbol, and its sources
       ELSE Insert(map, k, [source |-> map[k].source \cup {source}, name |-> sym.name])

Offer(sym, source) == IF sym = NoSym THEN {} ELSE {[sym |-> sym, source |-> source]}

Abort(why) == panic' = why /\ UNCHANGED <<settings, link_map, offers, refused>>

\* A call of update_link_map on the map as it is when the call is made, the last
\* call of its callback unless it panics.
Refuse(map, accepted, sym) ==
  /\ panic' = "inconsistent" /\ refused' = sym
  /\ link_map' = map /\ offers' = accepted /\ UNCHANGED settings
Accept(map, accepted, sym, source) ==
  /\ link_map' = update_link_map(map, sym, source)
  /\ offers' = accepted \cup Offer(sym, source)
  /\ UNCHANGED <<settings, panic, refused>>
Last(map, accepted, sym, source) ==
  IF Inconsistent(map, sym) THEN Refuse(map, accepted, sym) ELSE Accept(map, accepted, sym, source)

\* One call of update_link_map.
Offer1(sym, source) == Last(link_map, offers, sym, source)

\* Two calls in a row, of one callback and of the operand it goes on to visit.
Offer2(sym1, source1, sym2, source2) ==
  IF Inconsistent(link_map, sym1) THEN Refuse(link_map, offers, sym1)
  ELSE Last(update_link_map(link_map, sym1, source1), offers \cup Offer(sym1, source1), sym2, source2)

-----------------------------------------------------------------------------
Init == /\ link_items_enabled \in BOOLEAN /\ link_instance_enabled \in BOOLEAN
        /\ link_map = [k \in {} |-> NoSym] /\ panic = "none" /\ offers = {} /\ refused = NoSym

\* maybe_add_to_link_map for MonoItem::Fn(inst)
AddItem(inst) == /\ panic = "none"
                 /\ link_items_enabled
                 /\ Offer1(OwnSym(inst), "ITEM")

\* visit_terminator, Call of a zero-sized FnDef constant: the callee is resolved
\* for a direct call, then super_terminator visits the constant itself.
VisitCall(ty) ==
  /\ panic = "none"
  /\ IF Direct[ty] = NoInst THEN Abort("unresolved callee")
     ELSE Offer2(fn_inst_sym(ty, Direct[ty]), "TERM", fn_inst_sym(ty, ConstInst(ty)), "FPTR")

\* visit_terminator, Drop: resolve_drop_in_place never fails
VisitDrop(inst) == panic = "none" /\ Offer1(OwnSym(inst), "TERM")

\* visit_rvalue, ReifyFnPointer cast of a local holding the function
VisitCastOfLocal(ty) ==
  /\ panic = "none"
  /\ IF ForFnPtr[ty] = NoInst THEN Abort("unresolved cast")
     ELSE Offer1(OwnSym(ForFnPtr[ty]), "FPTR")

\* visit_rvalue, ReifyFnPointer cast of a constant, which super_rvalue then visits.
\* The cast is keyed by the instance's own type, the constant by the constant's.
VisitCastOfConst(ty) ==
  /\ panic = "none"
  /\ IF ForFnPtr[ty] = NoInst THEN Abort("unresolved cast")
     ELSE Offer2(OwnSym(ForFnPtr[ty]), "FPTR", fn_inst_sym(ty, ConstInst(ty)), "FPTR")

\* visit_mir_const, a zero-sized FnDef constant used as a value
VisitFnConst(ty) == panic = "none" /\ Offer1(fn_inst_sym(ty, ConstInst(ty)), "FPTR")

Next == \/ \E i \in MonoFns : AddItem(i)
        \/ \E i \in DropGlue : VisitDrop(i)
        \/ \E t \in FnTy : \/ VisitCall(t) \/ VisitFnConst(t)
                           \/ VisitCastOfLocal(t) \/ VisitCastOfConst(t)

Spec == Init /\ [][Next]_vars

-----------------------------------------------------------------------------
Offered(k) == {f \in offers : KeyOf(f.sym) = k}

\* Type invariant: keys of known types, entries of sources and symbols.
TypeOK ==
  /\ link_items_enabled \in BOOLEAN /\ link_instance_enabled \in BOOLEAN
  /\ \A k \in DOMAIN link_map :
       /\ link_map[k].source \in SUBSET Source
       /\ \E s \in FnSyms : k = KeyOf(s)
  /\ panic \in {"none", "inconsistent", "unresolved callee", "unresolved cast"}
  /\ \A f \in offers : f.sym \in FnSyms /\ f.source \in Source
  /\ refused \in FnSyms \cup {NoSym}

\* Every function that was called, dropped, listed or taken as a pointer has an
\* entry, and the entry's symbol is one that was offered under its key.
EntriesAreOffered ==
  /\ DOMAIN link_map = {KeyOf(f.sym) : f \in offers}
  /\ \A k \in DOMAIN link_map : \E f \in Offered(k) : link_map[k].name = f.sym.name

\* "prefer Item over ReifyShim": whatever the order of the callbacks, once a
\* symbol that has a body was offered for a type, the entry carries such a
\* symbol and never falls back to a reify shim, which no item has a body for.
PreferItem ==
  \A k \in DOMAIN link_map :
    (\E f \in Offered(k) : ~f.sym.reify)
      => \E f \in Offered(k) : ~f.sym.reify /\ link_map[k].name = f.sym.name

\* The sources of an entry are places the function was really seen at, and none is
\* missing, sightings through a reify shim aside when LINK_INST is not set.
SourcesFaithful ==
  \A k \in DOMAIN link_map :
    /\ link_map[k].source \subseteq {f.source : f \in Offered(k)}
    /\ \A f \in Offered(k) : (f.sym.reify /\ ~link_instance_enabled) \/ f.source \in link_map[k].source

\* The consistency check of update_link_map is exact: with LINK_INST two symbols of
\* one type and instance kind never both get into the map, in whatever order they
\* come, and the panic "Added inconsistent entries" is raised over such a pair only,
\* of the symbol refused and one accepted before.  Without LINK_INST it never is.
\* Whether rustc reports such a pair is left open.
ClashesReported ==
  /\ link_instance_enabled =>
       \A f, g \in offers : (f.sym.ty = g.sym.ty /\ f.sym.kind = g.sym.kind) => f.sym.name = g.sym.name
  /\ panic = "inconsistent" =>
       /\ link_instance_enabled
       /\ \E f \in offers : /\ f.sym.ty = refused.ty /\ f.sym.kind = refused.kind
                            /\ f.sym.name # refused.name

\* An entry is never removed and never loses a source.
OnlyGrows ==
  [][\A k \in DOMAIN link_map : /\ k \in DOMAIN link_map'
                                /\ link_map[k].source \subseteq link_map'[k].source]_vars

=============================================================================
