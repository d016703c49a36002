--------------------------- MODULE LinkMapProofs ---------------------------
(***************************************************************************)
(* Proofs about LinkMap, for every crate and every order of the visitor's  *)
(* callbacks.  A callback calls update_link_map once or twice, so the      *)
(* inductive invariant is stated of any map m and any set o of offers that *)
(* led to it, and one lemma shows that a call preserves it.                *)
(***************************************************************************)
EXTENDS LinkMap, TLAPS

OffersFor(o, k) == {f \in o : KeyOf(f.sym) = k}

\* What holds of an entry, given the offers fs made for its key.
EntryInv(entry, fs) ==
  /\ \E f \in fs : entry.name = f.sym.name
  /\ (\E f \in fs : ~f.sym.reify) => \E f \in fs : ~f.sym.reify /\ entry.name = f.sym.name
  /\ \A src \in entry.source : \E f \in fs : f.source = src
  /\ \A f \in fs : (f.sym.reify /\ ~link_instance_enabled) \/ f.source \in entry.source
  /\ link_instance_enabled => \A f \in fs : f.sym.name = entry.name

MapInv(m, o) ==
  /\ \A f \in o : f.sym \in FnSyms /\ f.source \in Source
  /\ \A f \in o : KeyOf(f.sym) \in DOMAIN m
  /\ \A k \in DOMAIN m : EntryInv(m[k], OffersFor(o, k))

\* What the consistency check may have aborted over.
RefusedInv(why, sym, o) ==
  /\ why \in {"none", "inconsistent", "unresolved callee", "unresolved cast"}
  /\ sym \in FnSyms \cup {NoSym}
  /\ why = "inconsistent" =>
       /\ link_instance_enabled
       /\ \E f \in o : f.sym.ty = sym.ty /\ f.sym.kind = sym.kind /\ f.sym.name # sym.name

IInv == /\ link_items_enabled \in BOOLEAN /\ link_instance_enabled \in BOOLEAN
        /\ MapInv(link_map, offers)
        /\ RefusedInv(panic, refused, offers)

-----------------------------------------------------------------------------
(* What the resolution functions can return.                               *)

LEMMA SymsOfConsts ==
  ASSUME NEW t \in FnTy
  PROVE  /\ fn_inst_sym(t, Direct[t]) \in FnSyms \cup {NoSym}
         /\ fn_inst_sym(t, ConstInst(t)) \in FnSyms \cup {NoSym}
         /\ OwnSym(ForFnPtr[t]) \in FnSyms \cup {NoSym}
<1>1. OwnSym(ForFnPtr[t]) \in FnSyms \cup {NoSym}
  <2>1. CASE ForFnPtr[t] = NoInst
    BY <2>1 DEF OwnSym
  <2>2. CASE ForFnPtr[t] # NoInst
    BY <2>2, ResolutionAssumption DEF FnSyms
  <2>. QED BY <2>1, <2>2
<1>. QED BY <1>1 DEF FnSyms, ConstInst

LEMMA SymsOfInstances ==
  ASSUME NEW i \in Inst
  PROVE  OwnSym(i) \in FnSyms \cup {NoSym}
BY DEF FnSyms

-----------------------------------------------------------------------------
(* One call of update_link_map.                                            *)

(* What is refused clashes with a symbol accepted for its type and kind.   *)
LEMMA RefusedClashes ==
  ASSUME NEW m, NEW o, NEW sym \in FnSyms \cup {NoSym}, MapInv(m, o), Inconsistent(m, sym)
  PROVE  RefusedInv("inconsistent", sym, o)
<1>1. sym # NoSym /\ KeyOf(sym) \in DOMAIN m /\ m[KeyOf(sym)].name # sym.name /\ link_instance_enabled
  BY DEF Inconsistent, Clash
<1>2. PICK f \in OffersFor(o, KeyOf(sym)) : m[KeyOf(sym)].name = f.sym.name
  BY <1>1 DEF MapInv, EntryInv
<1>3. f \in o /\ KeyOf(f.sym) = KeyOf(sym)
  BY <1>2 DEF OffersFor
<1>4. f.sym.ty = sym.ty /\ f.sym.kind = sym.kind
  BY <1>1, <1>3 DEF KeyOf, Key
<1>. QED BY <1>1, <1>2, <1>3, <1>4 DEF RefusedInv

LEMMA UpdatePreservesMapInv ==
  ASSUME NEW m, NEW o, NEW sym \in FnSyms \cup {NoSym}, NEW c \in Source, MapInv(m, o),
         ~Inconsistent(m, sym)
  PROVE  MapInv(update_link_map(m, sym, c), o \cup Offer(sym, c))
<1>1. CASE sym = NoSym
  BY <1>1 DEF update_link_map, Offer
<1>2. CASE sym # NoSym
  <2>. DEFINE k == KeyOf(sym)
              n == update_link_map(m, sym, c)
              new == [sym |-> sym, source |-> c]
              p == o \cup {new}
  <2>1. Offer(sym, c) = {new} /\ sym \in FnSyms /\ new.sym = sym /\ new.source = c
    BY <1>2 DEF Offer
  <2>2. OffersFor(p, k) = OffersFor(o, k) \cup {new}
    BY <2>1 DEF OffersFor
  <2>3. \A x : x # k => OffersFor(p, x) = OffersFor(o, x)
    BY <2>1 DEF OffersFor
  <2>4. /\ DOMAIN n = DOMAIN m \cup {k}
        /\ \A x \in DOMAIN m : x # k => n[x] = m[x]
    BY <1>2 DEF update_link_map, Insert
  <2>5. EntryInv(n[k], OffersFor(o, k) \cup {new})
    <3>1. CASE k \notin DOMAIN m
      <4>1. n[k] = [source |-> {c}, name |-> sym.name]
        BY <1>2, <3>1 DEF update_link_map, Insert
      <4>2. OffersFor(o, k) = {}
        BY <3>1 DEF MapInv, OffersFor
      <4>3. EntryInv(n[k], {new})
        BY <2>1, <4>1 DEF EntryInv
      <4>. QED BY <4>2, <4>3
    <3>2. CASE k \in DOMAIN m /\ Clash(m, sym) /\ sym.reify
      <4>1. n[k] = m[k]
        BY <1>2, <3>2 DEF update_link_map
      <4>2. EntryInv(m[k], OffersFor(o, k))
        BY <3>2 DEF MapInv
      <4>3. ~link_instance_enabled
        BY <3>2 DEF Inconsistent
      <4>. QED BY <2>1, <3>2, <4>1, <4>2, <4>3 DEF EntryInv
    <3>3. CASE k \in DOMAIN m /\ ~(Clash(m, sym) /\ sym.reify)
      <4>1. n[k] = [source |-> m[k].source \cup {c}, name |-> sym.name]
        BY <1>2, <3>3 DEF update_link_map, Insert
      <4>2. EntryInv(m[k], OffersFor(o, k))
        BY <3>3 DEF MapInv
      <4>3. sym.reify => m[k].name = sym.name
        BY <1>2, <3>3 DEF Clash
      <4>. HIDE DEF k, n, new
      <4>. DEFINE fs == OffersFor(o, k)
      <4>4. n[k].name = sym.name /\ n[k].source = m[k].source \cup {c}
        BY <4>1
      <4>5. (\E f \in fs \cup {new} : ~f.sym.reify)
              => \E f \in fs \cup {new} : ~f.sym.reify /\ n[k].name = f.sym.name
        <5>1. CASE sym.reify
          BY <5>1, <2>1, <4>2, <4>3, <4>4 DEF EntryInv
        <5>2. CASE ~sym.reify
          BY <5>2, <2>1, <4>4
        <5>. QED BY <5>1, <5>2
      <4>6. \A src \in n[k].source : \E f \in fs \cup {new} : f.source = src
        BY <2>1, <4>2, <4>4 DEF EntryInv
      <4>7. \A f \in fs \cup {new} : (f.sym.reify /\ ~link_instance_enabled) \/ f.source \in n[k].source
        BY <2>1, <4>2, <4>4 DEF EntryInv
      <4>8. link_instance_enabled => \A f \in fs \cup {new} : f.sym.name = n[k].name
        <5>. SUFFICES ASSUME link_instance_enabled, NEW f \in fs \cup {new}
                      PROVE  f.sym.name = n[k].name
          OBVIOUS
        <5>1. m[k].name = sym.name
          BY <1>2, <3>3 DEF Inconsistent, Clash, k
        <5>. QED BY <2>1, <4>2, <4>4, <5>1 DEF EntryInv
      <4>. QED BY <2>1, <4>4, <4>5, <4>6, <4>7, <4>8 DEF EntryInv
    <3>. QED BY <3>1, <3>2, <3>3
  <2>6. \A x \in DOMAIN n : EntryInv(n[x], OffersFor(p, x))
    <3>. TAKE x \in DOMAIN n
    <3>1. CASE x = k
      BY <3>1, <2>2, <2>5
    <3>2. CASE x # k
      BY <3>2, <2>3, <2>4 DEF MapInv
    <3>. QED BY <3>1, <3>2
  <2>7. \A f \in p : f.sym \in FnSyms /\ f.source \in Source /\ KeyOf(f.sym) \in DOMAIN n
    BY <2>1, <2>4 DEF MapInv
  <2>. QED BY <2>1, <2>6, <2>7 DEF MapInv
<1>. QED BY <1>1, <1>2

-----------------------------------------------------------------------------
(* The settings do not change, so neither does what holds of a map and its offers. *)
LEMMA SettingsKept ==
  ASSUME UNCHANGED settings, IInv, MapInv(link_map', offers'), RefusedInv(panic', refused', offers')
  PROVE  IInv'
<1>1. UNCHANGED <<link_items_enabled, link_instance_enabled>>
  BY DEF settings
<1>2. \A k : OffersFor(offers, k)' = OffersFor(offers', k)
  BY <1>1 DEF OffersFor, KeyOf, Key
<1>3. ASSUME NEW k \in DOMAIN link_map'
      PROVE  EntryInv(link_map[k], OffersFor(offers, k))'
  <2>1. EntryInv(link_map'[k], OffersFor(offers', k))
    BY <1>3 DEF MapInv
  <2>. QED BY <1>1, <1>2, <2>1 DEF EntryInv
<1>4. \A f \in offers' : f.sym \in FnSyms /\ f.source \in Source /\ (KeyOf(f.sym) \in DOMAIN link_map)'
  BY <1>1 DEF MapInv, KeyOf, Key
<1>5. RefusedInv(panic, refused, offers)'
  BY <1>1 DEF RefusedInv
<1>. QED BY <1>1, <1>3, <1>4, <1>5 DEF IInv, MapInv

LEMMA InitIInv == Init => IInv
BY DEF Init, IInv, MapInv, OffersFor, RefusedInv

(* The last call of a callback, on the map and offers its earlier call left. *)
LEMMA LastPreserves ==
  ASSUME IInv, panic = "none", NEW m, NEW o, MapInv(m, o),
         NEW sym \in FnSyms \cup {NoSym}, NEW c \in Source, Last(m, o, sym, c)
  PROVE  IInv'
<1>1. CASE Inconsistent(m, sym)
  <2>1. link_map' = m /\ offers' = o /\ panic' = "inconsistent" /\ refused' = sym /\ UNCHANGED settings
    BY <1>1 DEF Last, Refuse
  <2>2. RefusedInv("inconsistent", sym, o)
    BY <1>1, RefusedClashes
  <2>. QED BY <2>1, <2>2, SettingsKept
<1>2. CASE ~Inconsistent(m, sym)
  <2>1. /\ link_map' = update_link_map(m, sym, c) /\ offers' = o \cup Offer(sym, c)
        /\ panic' = panic /\ refused' = refused /\ UNCHANGED settings
    BY <1>2 DEF Last, Accept
  <2>2. MapInv(update_link_map(m, sym, c), o \cup Offer(sym, c))
    BY <1>2, UpdatePreservesMapInv
  <2>3. RefusedInv(panic', refused', offers')
    BY <2>1 DEF IInv, RefusedInv
  <2>. QED BY <2>1, <2>2, <2>3, SettingsKept
<1>. QED BY <1>1, <1>2

LEMMA Offer1Preserves ==
  ASSUME IInv, panic = "none", NEW sym \in FnSyms \cup {NoSym}, NEW c \in Source, Offer1(sym, c)
  PROVE  IInv'
BY LastPreserves DEF Offer1, IInv

LEMMA Offer2Preserves ==
  ASSUME IInv, panic = "none", NEW sym1 \in FnSyms \cup {NoSym}, NEW c1 \in Source,
         NEW sym2 \in FnSyms \cup {NoSym}, NEW c2 \in Source, Offer2(sym1, c1, sym2, c2)
  PROVE  IInv'
<1>1. CASE Inconsistent(link_map, sym1)
  <2>1. Last(link_map, offers, sym1, c1)
    BY <1>1 DEF Offer2, Last
  <2>. QED BY <2>1, LastPreserves DEF IInv
<1>2. CASE ~Inconsistent(link_map, sym1)
  <2>. DEFINE m1 == update_link_map(link_map, sym1, c1)
              o1 == offers \cup Offer(sym1, c1)
  <2>1. MapInv(m1, o1)
    BY <1>2, UpdatePreservesMapInv DEF IInv
  <2>2. Last(m1, o1, sym2, c2)
    BY <1>2 DEF Offer2
  <2>. HIDE DEF m1, o1
  <2>. QED BY <2>1, <2>2, LastPreserves
<1>. QED BY <1>1, <1>2

LEMMA AbortPreserves ==
  ASSUME IInv, NEW why \in {"unresolved callee", "unresolved cast"}, Abort(why)
  PROVE  IInv'
BY SettingsKept DEF Abort, IInv, RefusedInv

LEMMA NextIInv == IInv /\ [Next]_vars => IInv'
<1>. SUFFICES ASSUME IInv, [Next]_vars PROVE IInv'
  OBVIOUS
<1>. USE DEF Source
<1>1. ASSUME NEW i \in MonoFns, AddItem(i) PROVE IInv'
  BY <1>1, SymsOfInstances, Offer1Preserves, ResolutionAssumption DEF AddItem
<1>2. ASSUME NEW i \in DropGlue, VisitDrop(i) PROVE IInv'
  BY <1>2, SymsOfInstances, Offer1Preserves, ResolutionAssumption DEF VisitDrop
<1>3. ASSUME NEW t \in FnTy, VisitCall(t) PROVE IInv'
  BY <1>3, SymsOfConsts, Offer2Preserves, AbortPreserves DEF VisitCall
<1>4. ASSUME NEW t \in FnTy, VisitCastOfLocal(t) PROVE IInv'
  BY <1>4, SymsOfConsts, Offer1Preserves, AbortPreserves DEF VisitCastOfLocal
<1>5. ASSUME NEW t \in FnTy, VisitCastOfConst(t) PROVE IInv'
  BY <1>5, SymsOfConsts, Offer2Preserves, AbortPreserves DEF VisitCastOfConst
<1>6. ASSUME NEW t \in FnTy, VisitFnConst(t) PROVE IInv'
  BY <1>6, SymsOfConsts, Offer1Preserves DEF VisitFnConst
<1>7. CASE UNCHANGED vars
  BY <1>7, SettingsKept DEF vars, IInv
<1>. QED BY <1>1, <1>2, <1>3, <1>4, <1>5, <1>6, <1>7 DEF Next

LEMMA InvariantHolds == Spec => []IInv
BY InitIInv, NextIInv, PTL DEF Spec

-----------------------------------------------------------------------------
(* The consistency check of update_link_map ("Added inconsistent entries   *)
(* into link map!") is exact, whatever rustc reports and in every order:   *)
(* with LINK_INST the accepted symbols of one type and kind all agree, and *)
(* it panics only over one that disagrees with an accepted one.            *)
THEOREM LinkMapClashesReported == Spec => []ClashesReported
<1>1. IInv => ClashesReported
  <2>. SUFFICES ASSUME IInv PROVE ClashesReported
    OBVIOUS
  <2>1. ASSUME link_instance_enabled, NEW f \in offers, NEW g \in offers,
               f.sym.ty = g.sym.ty, f.sym.kind = g.sym.kind
        PROVE  f.sym.name = g.sym.name
    <3>1. KeyOf(f.sym) = KeyOf(g.sym) /\ KeyOf(f.sym) \in DOMAIN link_map
      BY <2>1 DEF KeyOf, Key, IInv, MapInv
    <3>2. EntryInv(link_map[KeyOf(f.sym)], OffersFor(offers, KeyOf(f.sym)))
      BY <3>1 DEF IInv, MapInv
    <3>3. f \in OffersFor(offers, KeyOf(f.sym)) /\ g \in OffersFor(offers, KeyOf(f.sym))
      BY <3>1 DEF OffersFor
    <3>. QED BY <2>1, <3>2, <3>3 DEF EntryInv
  <2>. QED BY <2>1 DEF ClashesReported, IInv, RefusedInv
<1>. QED BY <1>1, InvariantHolds, PTL

(* Type correctness of the map and of the history of offers.               *)
THEOREM LinkMapTyped == Spec => []TypeOK
<1>1. IInv => TypeOK
  <2>. SUFFICES ASSUME IInv PROVE TypeOK
    OBVIOUS
  <2>1. ASSUME NEW k \in DOMAIN link_map
        PROVE  link_map[k].source \in SUBSET Source /\ \E s \in FnSyms : k = KeyOf(s)
    <3>1. EntryInv(link_map[k], OffersFor(offers, k))
      BY DEF IInv, MapInv
    <3>2. \A f \in OffersFor(offers, k) : f.sym \in FnSyms /\ f.source \in Source /\ k = KeyOf(f.sym)
      BY DEF IInv, MapInv, OffersFor
    <3>3. \A src \in link_map[k].source : src \in Source
      BY <3>1, <3>2 DEF EntryInv
    <3>4. \E s \in FnSyms : k = KeyOf(s)
      BY <3>1, <3>2 DEF EntryInv
    <3>. QED BY <3>3, <3>4
  <2>. QED BY <2>1 DEF IInv, MapInv, TypeOK, RefusedInv
<1>. QED BY <1>1, InvariantHolds, PTL

(* Entries are exactly the functions seen, under a symbol seen for them.   *)
THEOREM LinkMapComplete == Spec => []EntriesAreOffered
<1>1. IInv => EntriesAreOffered
  <2>. SUFFICES ASSUME IInv PROVE EntriesAreOffered
    OBVIOUS
  <2>1. \A k \in DOMAIN link_map : EntryInv(link_map[k], Offered(k))
    BY DEF IInv, MapInv, OffersFor, Offered
  <2>2. \A k \in DOMAIN link_map : \E f \in Offered(k) : link_map[k].name = f.sym.name
    BY <2>1 DEF EntryInv
  <2>3. DOMAIN link_map = {KeyOf(f.sym) : f \in offers}
    <3>1. \A k \in DOMAIN link_map : \E f \in offers : k = KeyOf(f.sym)
      BY <2>2 DEF Offered
    <3>2. \A f \in offers : KeyOf(f.sym) \in DOMAIN link_map
      BY DEF IInv, MapInv
    <3>3. DOMAIN link_map \subseteq {KeyOf(f.sym) : f \in offers}
      BY <3>1
    <3>4. {KeyOf(f.sym) : f \in offers} \subseteq DOMAIN link_map
      BY <3>2
    <3>. QED BY <3>3, <3>4
  <2>. QED BY <2>2, <2>3 DEF EntriesAreOffered
<1>. QED BY <1>1, InvariantHolds, PTL

(* "Prefer Item over ReifyShim" holds in every order of the callbacks.     *)
THEOREM LinkMapPrefersItems == Spec => []PreferItem
<1>1. IInv => PreferItem
  BY DEF IInv, MapInv, EntryInv, OffersFor, PreferItem, Offered
<1>. QED BY <1>1, InvariantHolds, PTL

(* Sources are sound, and complete: with LINK_INST entirely, without it but *)
(* for sightings through reify shims.                                      *)
THEOREM LinkMapSources == Spec => []SourcesFaithful
<1>1. IInv => SourcesFaithful
  <2>. SUFFICES ASSUME IInv, NEW k \in DOMAIN link_map
                PROVE  /\ \A src \in link_map[k].source : src \in {f.source : f \in Offered(k)}
                       /\ \A f \in Offered(k) : \/ f.sym.reify /\ ~link_instance_enabled
                                               \/ f.source \in link_map[k].source
    BY DEF SourcesFaithful
  <2>1. EntryInv(link_map[k], Offered(k))
    BY DEF IInv, MapInv, OffersFor, Offered
  <2>. QED BY <2>1 DEF EntryInv
<1>. QED BY <1>1, InvariantHolds, PTL

-----------------------------------------------------------------------------
(* update_link_map adds keys and sources and takes none away.              *)
Grows(m, n) == \A k \in DOMAIN m : k \in DOMAIN n /\ m[k].source \subseteq n[k].source

LEMMA UpdateGrows ==
  ASSUME NEW m, NEW sym, NEW c
  PROVE  Grows(m, update_link_map(m, sym, c))
<1>1. \A k, e : (k \in DOMAIN m => m[k].source \subseteq e.source) => Grows(m, Insert(m, k, e))
  BY DEF Grows, Insert
<1>2. Grows(m, m)
  BY DEF Grows
<1>. QED BY <1>1, <1>2 DEF update_link_map

LEMMA GrowsTwice ==
  ASSUME NEW m, NEW s1, NEW c1, NEW s2, NEW c2
  PROVE  Grows(m, update_link_map(update_link_map(m, s1, c1), s2, c2))
<1>. DEFINE n == update_link_map(m, s1, c1)
<1>1. Grows(m, n)
  BY UpdateGrows
<1>. HIDE DEF n
<1>2. Grows(n, update_link_map(n, s2, c2))
  BY UpdateGrows
<1>. QED BY <1>1, <1>2 DEF Grows, n

(* No step of any callback removes an entry or one of its sources.         *)
THEOREM LinkMapOnlyGrows == Spec => OnlyGrows
<1>1. [Next]_vars => [Grows(link_map, link_map')]_vars
  <2>. SUFFICES ASSUME Next PROVE Grows(link_map, link_map')
    OBVIOUS
  <2>1. ASSUME NEW s, NEW c, Offer1(s, c) PROVE Grows(link_map, link_map')
    <3>1. link_map' = link_map \/ link_map' = update_link_map(link_map, s, c)
      BY <2>1 DEF Offer1, Last, Refuse, Accept
    <3>. QED BY <3>1, UpdateGrows DEF Grows
  <2>2. ASSUME NEW s1, NEW c1, NEW s2, NEW c2, Offer2(s1, c1, s2, c2)
        PROVE  Grows(link_map, link_map')
    <3>1. \/ link_map' = link_map
          \/ link_map' = update_link_map(link_map, s1, c1)
          \/ link_map' = update_link_map(update_link_map(link_map, s1, c1), s2, c2)
      BY <2>2 DEF Offer2, Last, Refuse, Accept
    <3>. QED BY <3>1, UpdateGrows, GrowsTwice DEF Grows
  <2>3. ASSUME NEW why, Abort(why) PROVE Grows(link_map, link_map')
    BY <2>3 DEF Abort, Grows
  <2>. QED BY <2>1, <2>2, <2>3 DEF Next, AddItem, VisitDrop, VisitCall, VisitFnConst,
                                   VisitCastOfLocal, VisitCastOfConst
<1>2. [Grows(link_map, link_map')]_vars
        => [\A k \in DOMAIN link_map : /\ k \in DOMAIN link_map'
                                       /\ link_map[k].source \subseteq link_map'[k].source]_vars
  BY DEF Grows
<1>. QED BY <1>1, <1>2, PTL DEF Spec, OnlyGrows
=============================================================================
