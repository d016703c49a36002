--------------------------- MODULE CollectProofs ---------------------------
(***************************************************************************)
(* Proofs about Collect, for every crate: the inductive invariant of the   *)
(* work loop, the safety properties it implies, and that the pipeline      *)
(* implements ItemClosure.                                                 *)
(***************************************************************************)
EXTENDS Collect, TLAPS

Elems(seq) == {seq[i] : i \in 1..Len(seq)}

(***************************************************************************)
(* The strengthening: what the loop has established when an item is taken, *)
(* being walked, and finished.                                             *)
(***************************************************************************)
ItemsPhase ==
  phase = "items" =>
    /\ current = {} /\ new_unevaluated = {} /\ all_items = {} /\ visited_allocs = {}
    /\ DOMAIN unevaluated_consts = {}
    /\ DOMAIN pending \cup Elems(todo) = Initial

\* All of a name's constants are known, but for those still to be enqueued.
ConstsKnown(n, except) == \A ref \in Refs[n] \ except : ref.name \in known_names

Progress ==
  phase # "items" =>
    /\ Initial \subseteq known_names
    /\ \A i \in current : /\ i.name \in HasBody
                          /\ new_unevaluated \subseteq Refs[i.name]
                          /\ ConstsKnown(i.name, new_unevaluated)
    /\ current = {} => new_unevaluated = {}
    /\ \A i \in all_items : i.name \in HasBody => ConstsKnown(i.name, {})

\* ItemsOnce, in a form that does not depend on how Stored is computed.
OnePlace ==
  /\ \A i \in current : i.name \notin DOMAIN pending /\ \A j \in all_items : j.name # i.name
  /\ \A i \in all_items : i.name \notin DOMAIN pending
  /\ \A i, j \in all_items : i.name = j.name => i = j
  /\ \A i, j \in current : i = j
  /\ phase = "analyze" =>
       \A n \in Name : n \in known_names <=> \/ n \in DOMAIN pending
                                    \/ \E i \in current \cup all_items : i.name = n

Latest ==
  /\ \A n \in DOMAIN pending : pending[n] = fetched[n]
  /\ \A i \in current \cup all_items : i.version = fetched[i.name]

IInv == TypeOK /\ ItemsPhase /\ Progress /\ OnePlace /\ Latest /\ AllocsCoherent /\ NoStrayAllocs

-----------------------------------------------------------------------------
LEMMA ElemsOfTail ==
  ASSUME NEW S, NEW seq \in Seq(S), seq # <<>>
  PROVE  /\ Head(seq) \in S /\ Tail(seq) \in Seq(S)
         /\ Elems(seq) = {Head(seq)} \cup Elems(Tail(seq))
<1>1. /\ Head(seq) = seq[1] /\ Tail(seq) \in Seq(S) /\ Len(seq) \in Nat \ {0}
      /\ Len(Tail(seq)) = Len(seq) - 1
      /\ \A i \in 1..Len(seq) - 1 : Tail(seq)[i] = seq[i + 1]
  OBVIOUS
<1>2. \A i \in 1..Len(seq) : seq[i] \in {Head(seq)} \cup Elems(Tail(seq))
  <2>. TAKE i \in 1..Len(seq)
  <2>1. CASE i = 1
    BY <2>1, <1>1
  <2>2. CASE i # 1
    <3>1. i - 1 \in 1..Len(Tail(seq)) /\ Tail(seq)[i - 1] = seq[i]
      BY <2>2, <1>1
    <3>. QED BY <3>1 DEF Elems
  <2>. QED BY <2>1, <2>2
<1>3. \A i \in 1..Len(Tail(seq)) : Tail(seq)[i] \in Elems(seq)
  <2>. TAKE i \in 1..Len(Tail(seq))
  <2>1. i + 1 \in 1..Len(seq) /\ Tail(seq)[i] = seq[i + 1]
    BY <1>1
  <2>. QED BY <2>1 DEF Elems
<1>4. Head(seq) \in Elems(seq)
  BY <1>1 DEF Elems
<1>5. Elems(seq) \subseteq {Head(seq)} \cup Elems(Tail(seq))
  BY <1>2 DEF Elems
<1>6. {Head(seq)} \cup Elems(Tail(seq)) \subseteq Elems(seq)
  BY <1>3, <1>4 DEF Elems
<1>7. Head(seq) \in S
  BY <1>1
<1>. QED BY <1>1, <1>5, <1>6, <1>7

LEMMA InitialElems == Initial = Elems(MonoItems)
<1>1. \A n \in Initial : n \in Elems(MonoItems)
  BY DEF Initial, Occurs, Elems
<1>2. \A i \in 1..Len(MonoItems) : MonoItems[i] \in Initial
  BY CollectAssumption DEF Initial, Occurs
<1>3. Elems(MonoItems) \subseteq Initial
  BY <1>2 DEF Elems
<1>. QED BY <1>1, <1>3

LEMMA InitIInv == Init => IInv
<1>. SUFFICES ASSUME Init PROVE IInv
  OBVIOUS
<1>1. TypeOK
  BY CollectAssumption DEF Init, TypeOK, Empty
<1>2. ItemsPhase
  BY InitialElems DEF Init, ItemsPhase, Empty
<1>3. Progress /\ OnePlace /\ Latest
  BY DEF Init, Progress, OnePlace, Latest, Empty
<1>4. AllocsCoherent /\ NoStrayAllocs
  BY DEF Init, AllocsCoherent, NoStrayAllocs
<1>. QED BY <1>1, <1>2, <1>3, <1>4 DEF IInv

-----------------------------------------------------------------------------
(* What mk_item does to the queue and to the count of body() calls.        *)
LEMMA MkItem ==
  ASSUME TypeOK, NEW n \in Name, mk_item(n)
  PROVE  /\ fetched' \in [Name -> Nat] /\ fetched'[n] = fetched[n] + 1
         /\ \A m \in Name : m # n => fetched'[m] = fetched[m]
         /\ DOMAIN pending' = DOMAIN pending \cup {n} /\ pending'[n] = fetched'[n]
         /\ \A m \in DOMAIN pending : m # n => pending'[m] = pending[m]
         /\ \A m \in DOMAIN pending' : pending'[m] \in Nat
BY DEF mk_item, With, TypeOK

LEMMA CollectItemIInv == IInv /\ CollectItem => IInv'
<1>. SUFFICES ASSUME IInv, CollectItem PROVE IInv'
  OBVIOUS
<1>. DEFINE n == Head(todo)
<1>1. /\ phase = "items" /\ phase' = phase /\ todo' = Tail(todo) /\ mk_item(n)
      /\ UNCHANGED <<known_names, current, new_unevaluated, all_items, visited_allocs,
                     unevaluated_consts>>
  BY DEF CollectItem
<1>2. n \in Name /\ todo' \in Seq(Name) /\ Elems(todo) = {n} \cup Elems(todo')
  BY ElemsOfTail DEF CollectItem, IInv, TypeOK
<1>3. /\ fetched' \in [Name -> Nat]
      /\ \A m \in Name : m # n => fetched'[m] = fetched[m]
      /\ DOMAIN pending' = DOMAIN pending \cup {n} /\ pending'[n] = fetched'[n]
      /\ \A m \in DOMAIN pending : m # n => pending'[m] = pending[m]
      /\ \A m \in DOMAIN pending' : pending'[m] \in Nat
  BY <1>1, <1>2, MkItem DEF IInv
<1>. HIDE DEF n
<1>4. TypeOK'
  BY <1>1, <1>2, <1>3 DEF IInv, TypeOK
<1>5. ItemsPhase'
  BY <1>1, <1>2, <1>3 DEF IInv, ItemsPhase
<1>6. Progress' /\ OnePlace' /\ AllocsCoherent' /\ NoStrayAllocs'
  BY <1>1 DEF IInv, ItemsPhase, Progress, OnePlace, AllocsCoherent, NoStrayAllocs
<1>7. Latest'
  BY <1>1, <1>2, <1>3 DEF IInv, ItemsPhase, Latest, TypeOK
<1>. QED BY <1>4, <1>5, <1>6, <1>7 DEF IInv

LEMMA StartAnalysisIInv == IInv /\ StartAnalysis => IInv'
<1>. SUFFICES ASSUME IInv, StartAnalysis PROVE IInv'
  OBVIOUS
<1>1. TypeOK'
  BY DEF StartAnalysis, IInv, TypeOK
<1>2. ItemsPhase'
  BY DEF StartAnalysis, ItemsPhase
<1>3. Progress'
  <2>1. Elems(todo) = {}
    BY DEF StartAnalysis, Elems
  <2>. QED BY <2>1 DEF StartAnalysis, IInv, ItemsPhase, Progress
<1>4. OnePlace'
  BY DEF StartAnalysis, IInv, ItemsPhase, OnePlace
<1>5. Latest'
  BY DEF StartAnalysis, IInv, Latest
<1>6. AllocsCoherent' /\ NoStrayAllocs'
  BY DEF StartAnalysis, IInv, AllocsCoherent, NoStrayAllocs, AllocIds
<1>. QED BY <1>1, <1>2, <1>3, <1>4, <1>5, <1>6 DEF IInv

(* What taking an item from the queue changes.                             *)
LEMMA TakeFacts ==
  ASSUME IInv, NEW n \in Name, Take(n)
  PROVE  /\ phase = "analyze" /\ current = {} /\ new_unevaluated = {}
         /\ DOMAIN pending' = DOMAIN pending \ {n}
         /\ \A m \in DOMAIN pending' : pending'[m] = pending[m] /\ pending'[m] \in Nat
         /\ n \in DOMAIN pending /\ pending[n] \in Nat /\ pending[n] = fetched[n]
         /\ n \in known_names /\ \A i \in all_items : i.name # n
BY DEF Take, Restrict, IInv, TypeOK, Progress, OnePlace, Latest

LEMMA TakeBodilessIInv == ASSUME NEW n \in Name PROVE IInv /\ TakeBodiless(n) => IInv'
<1>. SUFFICES ASSUME IInv, TakeBodiless(n) PROVE IInv'
  OBVIOUS
<1>. DEFINE item == [name |-> n, version |-> pending[n]]
<1>1. /\ Take(n) /\ n \notin HasBody /\ all_items' = all_items \cup {item}
      /\ UNCHANGED <<phase, todo, fetched, known_names, current, new_unevaluated,
                     visited_allocs, unevaluated_consts>>
  BY DEF TakeBodiless
<1>2. /\ phase = "analyze" /\ current = {} /\ new_unevaluated = {}
      /\ DOMAIN pending' = DOMAIN pending \ {n}
      /\ \A m \in DOMAIN pending' : pending'[m] = pending[m] /\ pending'[m] \in Nat
      /\ n \in DOMAIN pending /\ pending[n] \in Nat /\ pending[n] = fetched[n]
      /\ n \in known_names /\ \A i \in all_items : i.name # n
  BY <1>1, TakeFacts
<1>3. item.name = n /\ item.version = fetched[n] /\ item \in [name : Name, version : Nat]
  BY <1>2
<1>4. AllocIds(item) = {}
  BY <1>1, <1>3 DEF AllocIds
<1>. HIDE DEF item
<1>5. TypeOK'
  BY <1>1, <1>2, <1>3 DEF IInv, TypeOK
<1>6. ItemsPhase'
  BY <1>1, <1>2 DEF ItemsPhase
<1>7. Progress'
  BY <1>1, <1>2, <1>3, CollectAssumption DEF IInv, Progress, ConstsKnown
<1>8. OnePlace'
  BY <1>1, <1>2, <1>3 DEF IInv, OnePlace
<1>9. Latest'
  BY <1>1, <1>2, <1>3 DEF IInv, Latest
<1>10. AllocsCoherent'
  BY <1>1, <1>4 DEF IInv, AllocsCoherent
<1>11. NoStrayAllocs'
  BY <1>1, <1>2, <1>4 DEF IInv, NoStrayAllocs
<1>. QED BY <1>5, <1>6, <1>7, <1>8, <1>9, <1>10, <1>11 DEF IInv

LEMMA TakeAndWalkIInv == ASSUME NEW n \in Name PROVE IInv /\ TakeAndWalk(n) => IInv'
<1>. SUFFICES ASSUME IInv, TakeAndWalk(n) PROVE IInv'
  OBVIOUS
<1>. DEFINE item == [name |-> n, version |-> pending[n]]
<1>1. /\ Take(n) /\ n \in HasBody /\ current' = {item}
      /\ visited_allocs' = visited_allocs \cup AllocIds(item)
      /\ new_unevaluated' = Refs[n]
      /\ UNCHANGED <<phase, todo, fetched, known_names, all_items, unevaluated_consts>>
  BY DEF TakeAndWalk
<1>2. /\ phase = "analyze" /\ current = {} /\ new_unevaluated = {}
      /\ DOMAIN pending' = DOMAIN pending \ {n}
      /\ \A m \in DOMAIN pending' : pending'[m] = pending[m] /\ pending'[m] \in Nat
      /\ n \in DOMAIN pending /\ pending[n] \in Nat /\ pending[n] = fetched[n]
      /\ n \in known_names /\ \A i \in all_items : i.name # n
  BY <1>1, TakeFacts
<1>3. item.name = n /\ item.version = fetched[n] /\ item \in [name : Name, version : Nat]
  BY <1>2
<1>4. AllocIds(item) \subseteq Name \X Nat
  BY <1>3, CollectAssumption DEF AllocIds
<1>5. Refs[n] \subseteq [def : ConstDef, name : Name]
  BY CollectAssumption
<1>. HIDE DEF item
<1>6. TypeOK'
  BY <1>1, <1>2, <1>3, <1>4, <1>5 DEF IInv, TypeOK
<1>7. ItemsPhase'
  BY <1>1, <1>2 DEF ItemsPhase
<1>8. Progress'
  BY <1>1, <1>2, <1>3 DEF IInv, Progress, ConstsKnown
<1>9. OnePlace'
  BY <1>1, <1>2, <1>3 DEF IInv, OnePlace
<1>10. Latest'
  BY <1>1, <1>2, <1>3 DEF IInv, Latest
<1>11. AllocsCoherent'
  BY <1>1, <1>2 DEF IInv, AllocsCoherent
<1>12. NoStrayAllocs'
  BY <1>1, <1>2 DEF IInv, NoStrayAllocs
<1>. QED BY <1>6, <1>7, <1>8, <1>9, <1>10, <1>11, <1>12 DEF IInv

LEMMA WalkPanicsIInv == ASSUME NEW n \in Name PROVE IInv /\ WalkPanics(n) => IInv'
<1>. SUFFICES ASSUME IInv, WalkPanics(n) PROVE IInv'
  OBVIOUS
<1>1. /\ phase = "analyze" /\ phase' = "panicked"
      /\ DOMAIN pending' = DOMAIN pending \ {n}
      /\ \A m \in DOMAIN pending' : pending'[m] = pending[m] /\ pending'[m] \in Nat
      /\ UNCHANGED <<todo, fetched, known_names, current, new_unevaluated, all_items,
                     visited_allocs, unevaluated_consts>>
  BY TakeFacts DEF WalkPanics
<1>2. TypeOK'
  BY <1>1 DEF IInv, TypeOK
<1>3. ItemsPhase' /\ Progress'
  BY <1>1 DEF IInv, ItemsPhase, Progress, ConstsKnown
<1>4. OnePlace' /\ Latest'
  BY <1>1 DEF IInv, OnePlace, Latest
<1>5. AllocsCoherent' /\ NoStrayAllocs'
  BY <1>1 DEF IInv, AllocsCoherent, NoStrayAllocs
<1>. QED BY <1>2, <1>3, <1>4, <1>5 DEF IInv

LEMMA EnqueueIInv == ASSUME NEW ref \in new_unevaluated PROVE IInv /\ Enqueue(ref) => IInv'
<1>. SUFFICES ASSUME IInv, Enqueue(ref) PROVE IInv'
  OBVIOUS
<1>1. /\ phase = "analyze" /\ new_unevaluated' = new_unevaluated \ {ref}
      /\ UNCHANGED <<phase, todo, current, all_items, visited_allocs>>
      /\ ref.name \in Name /\ ref.def \in ConstDef
  BY DEF Enqueue, IInv, TypeOK
<1>2. ItemsPhase'
  BY <1>1 DEF ItemsPhase
<1>3. AllocsCoherent' /\ NoStrayAllocs'
  BY <1>1 DEF IInv, AllocsCoherent, NoStrayAllocs
<1>4. CASE /\ Known(ref.name)
           /\ UNCHANGED <<fetched, pending, known_names, unevaluated_consts>>
  <2>1. ref.name \in known_names
    BY <1>1, <1>4 DEF Known, IInv, OnePlace
  <2>2. TypeOK'
    BY <1>1, <1>4 DEF IInv, TypeOK
  <2>3. Progress'
    BY <1>1, <1>4, <2>1 DEF IInv, Progress, ConstsKnown
  <2>4. OnePlace' /\ Latest'
    BY <1>1, <1>4 DEF IInv, OnePlace, Latest
  <2>. QED BY <1>2, <1>3, <2>2, <2>3, <2>4 DEF IInv
<1>5. CASE /\ ~Known(ref.name)
           /\ unevaluated_consts' = With(unevaluated_consts, ref.def, ref.name)
           /\ mk_item(ref.name)
           /\ known_names' = known_names \cup {ref.name}
  <2>. DEFINE n == ref.name
  <2>1. /\ fetched' \in [Name -> Nat]
        /\ \A m \in Name : m # n => fetched'[m] = fetched[m]
        /\ DOMAIN pending' = DOMAIN pending \cup {n} /\ pending'[n] = fetched'[n]
        /\ \A m \in DOMAIN pending : m # n => pending'[m] = pending[m]
        /\ \A m \in DOMAIN pending' : pending'[m] \in Nat
    BY <1>1, <1>5, MkItem DEF IInv
  <2>2. /\ n \notin known_names /\ n \notin DOMAIN pending
        /\ \A i \in current \cup all_items : i.name # n
    BY <1>1, <1>5 DEF Known, IInv, OnePlace
  <2>3. /\ DOMAIN unevaluated_consts' = DOMAIN unevaluated_consts \cup {ref.def}
        /\ \A d \in DOMAIN unevaluated_consts' : unevaluated_consts'[d] \in Name
    BY <1>1, <1>5 DEF With, IInv, TypeOK
  <2>. HIDE DEF n
  <2>4. known_names' = known_names \cup {n}
    BY <1>5 DEF n
  <2>5. n \in Name
    BY <1>1 DEF n
  <2>6. TypeOK'
    BY <1>1, <2>1, <2>3, <2>4, <2>5 DEF IInv, TypeOK
  <2>7. Progress'
    BY <1>1, <1>5 DEF IInv, Progress, ConstsKnown
  <2>8. OnePlace'
    BY <1>1, <2>1, <2>2, <2>4 DEF IInv, OnePlace
  <2>9. Latest'
    <3>1. \A i \in current \cup all_items : i.name \in Name /\ i.name # n
      BY <2>2 DEF IInv, TypeOK
    <3>. QED BY <1>1, <2>1, <2>2, <2>5, <3>1 DEF IInv, Latest, TypeOK
  <2>. QED BY <1>2, <1>3, <2>6, <2>7, <2>8, <2>9 DEF IInv
<1>. QED BY <1>4, <1>5 DEF Enqueue

LEMMA FinishItemIInv == IInv /\ FinishItem => IInv'
<1>. SUFFICES ASSUME IInv, FinishItem PROVE IInv'
  OBVIOUS
<1>1. TypeOK'
  BY DEF FinishItem, IInv, TypeOK
<1>2. ItemsPhase' /\ Progress'
  BY DEF FinishItem, IInv, ItemsPhase, Progress, ConstsKnown
<1>3. OnePlace' /\ Latest'
  BY DEF FinishItem, IInv, OnePlace, Latest
<1>4. AllocsCoherent' /\ NoStrayAllocs'
  BY DEF FinishItem, IInv, AllocsCoherent, NoStrayAllocs
<1>. QED BY <1>1, <1>2, <1>3, <1>4 DEF IInv

LEMMA AssembleIInv == IInv /\ assemble_smir => IInv'
<1>. SUFFICES ASSUME IInv, assemble_smir PROVE IInv'
  OBVIOUS
<1>1. phase' \in {"assembled", "panicked"}
  BY DEF assemble_smir
<1>2. TypeOK'
  BY <1>1 DEF assemble_smir, IInv, TypeOK
<1>3. ItemsPhase' /\ Progress'
  BY <1>1 DEF assemble_smir, IInv, ItemsPhase, Progress, ConstsKnown
<1>4. OnePlace' /\ Latest'
  BY <1>1 DEF assemble_smir, IInv, OnePlace, Latest
<1>5. AllocsCoherent' /\ NoStrayAllocs'
  BY DEF assemble_smir, IInv, AllocsCoherent, NoStrayAllocs
<1>. QED BY <1>2, <1>3, <1>4, <1>5 DEF IInv

LEMMA NextIInv == IInv /\ [Next]_vars => IInv'
<1>. SUFFICES ASSUME IInv, [Next]_vars PROVE IInv'
  OBVIOUS
<1>1. CASE CollectItem  BY <1>1, CollectItemIInv
<1>2. CASE StartAnalysis  BY <1>2, StartAnalysisIInv
<1>3. CASE \E n \in Name : TakeBodiless(n) \/ TakeAndWalk(n) \/ WalkPanics(n)
  BY <1>3, TakeBodilessIInv, TakeAndWalkIInv, WalkPanicsIInv
<1>4. CASE \E ref \in new_unevaluated : Enqueue(ref)  BY <1>4, EnqueueIInv
<1>5. CASE FinishItem  BY <1>5, FinishItemIInv
<1>6. CASE assemble_smir  BY <1>6, AssembleIInv
<1>7. CASE UNCHANGED vars
  BY <1>7 DEF vars, IInv, TypeOK, ItemsPhase, Progress, ConstsKnown, OnePlace, Latest,
              AllocsCoherent, NoStrayAllocs
<1>. QED BY <1>1, <1>2, <1>3, <1>4, <1>5, <1>6, <1>7 DEF Next

LEMMA InvariantHolds == Spec => []IInv
BY InitIInv, NextIInv, PTL DEF Spec

-----------------------------------------------------------------------------
(* Type correctness.                                                       *)
THEOREM CollectTyped == Spec => []TypeOK
<1>1. IInv => TypeOK
  BY DEF IInv
<1>. QED BY <1>1, InvariantHolds, PTL

(* Every item is queued, walked or finished exactly once.                  *)
THEOREM CollectItemsOnce == Spec => []ItemsOnce
<1>1. IInv => ItemsOnce
  <2>. SUFFICES ASSUME IInv, phase = "analyze" PROVE ItemsOnce
    BY DEF ItemsOnce
  <2>1. \A i \in Queued : i.name \in DOMAIN pending /\ i = [name |-> i.name, version |-> pending[i.name]]
    BY DEF Queued
  <2>2. \A n \in DOMAIN pending : \E i \in Queued : i.name = n
    <3>. TAKE n \in DOMAIN pending
    <3>1. [name |-> n, version |-> pending[n]] \in Queued
      BY DEF Queued
    <3>. QED BY <3>1
  <2>3. \A n \in NamesOf(Stored) : n \in known_names
    <3>. SUFFICES ASSUME NEW i \in Stored PROVE i.name \in known_names
      BY DEF NamesOf
    <3>1. i.name \in Name
      BY <2>1 DEF Stored, IInv, TypeOK
    <3>. QED BY <2>1, <3>1 DEF Stored, IInv, OnePlace
  <2>4. \A n \in known_names : \E i \in Stored : i.name = n
    BY <2>2 DEF Stored, IInv, OnePlace, TypeOK
  <2>5. known_names \subseteq NamesOf(Stored)
    BY <2>4 DEF NamesOf
  <2>6. known_names = NamesOf(Stored)
    BY <2>3, <2>5
  <2>7. \A i, j \in Stored : i.name = j.name => i = j
    BY <2>1 DEF Stored, IInv, OnePlace
  <2>8. \A n \in NamesOf(current) : n \notin DOMAIN pending /\ n \notin NamesOf(all_items)
    BY DEF NamesOf, IInv, OnePlace
  <2>9. \A n \in NamesOf(all_items) : n \notin DOMAIN pending
    BY DEF NamesOf, IInv, OnePlace
  <2>. QED BY <2>6, <2>7, <2>8, <2>9 DEF ItemsOnce
<1>. QED BY <1>1, InvariantHolds, PTL

(* ADR-002: the stored body is the last one fetched.                       *)
THEOREM CollectLatestBody == Spec => []LatestBody
<1>1. IInv => LatestBody
  BY DEF IInv, Latest, LatestBody, Stored, Queued
<1>. QED BY <1>1, InvariantHolds, PTL

(* The alloc map agrees with the stored bodies, in both directions.        *)
THEOREM CollectAllocsExact == Spec => []AllocsExact
<1>1. IInv => AllocsExact
  BY DEF IInv, AllocsExact
<1>. QED BY <1>1, InvariantHolds, PTL

(***************************************************************************)
(* Every item beyond the mono items is one a known item's constant         *)
(* resolved to, and listed when it was enqueued.                           *)
(***************************************************************************)
LEMMA EnqueueListed ==
  ASSUME IInv, ConstsListed, NEW ref \in new_unevaluated, Enqueue(ref)
  PROVE  ConstsListed'
<1>1. /\ phase = "analyze" /\ ref.name \in Name
      /\ UNCHANGED <<phase, current>>
  BY DEF Enqueue, IInv, TypeOK
<1>2. CASE UNCHANGED <<known_names, unevaluated_consts>>
  BY <1>1, <1>2 DEF ConstsListed
<1>3. CASE /\ ~Known(ref.name)
           /\ unevaluated_consts' = With(unevaluated_consts, ref.def, ref.name)
           /\ known_names' = known_names \cup {ref.name}
  <2>1. /\ DOMAIN unevaluated_consts' = DOMAIN unevaluated_consts \cup {ref.def}
        /\ unevaluated_consts'[ref.def] = ref.name
        /\ \A d \in DOMAIN unevaluated_consts :
             d # ref.def => unevaluated_consts'[d] = unevaluated_consts[d]
    BY <1>3 DEF With
  <2>2. PICK m \in known_names : ref \in Refs[m]
    <3>1. PICK i \in current : new_unevaluated \subseteq Refs[i.name]
      BY <1>1 DEF IInv, Progress
    <3>2. i.name \in known_names
      BY <1>1, <3>1 DEF IInv, TypeOK, OnePlace
    <3>. QED BY <3>1, <3>2
  <2>3. ref.name \notin Initial
    BY <1>1, <1>3 DEF Known, IInv, Progress
  <2>4. ASSUME NEW n \in known_names' \ Initial
        PROVE  \E m2 \in known_names' : \E r \in Refs[m2] :
                 r.name = n /\ r.def \in DOMAIN unevaluated_consts'
    <3>1. CASE n = ref.name
      BY <1>3, <2>1, <2>2, <3>1
    <3>2. CASE n # ref.name
      <4>1. PICK m2 \in known_names : \E r \in Refs[m2] :
              r.name = n /\ r.def \in DOMAIN unevaluated_consts
        BY <1>1, <1>3, <3>2 DEF ConstsListed
      <4>. QED BY <1>3, <2>1, <4>1
    <3>. QED BY <3>1, <3>2
  <2>5. \A d \in DOMAIN unevaluated_consts' : unevaluated_consts'[d] \in known_names' \ Initial
    BY <1>1, <1>3, <2>1, <2>3 DEF ConstsListed
  <2>. QED BY <2>4, <2>5 DEF ConstsListed
<1>. QED BY <1>2, <1>3 DEF Enqueue

LEMMA ListedStep == IInv /\ ConstsListed /\ [Next]_vars => ConstsListed'
<1>. SUFFICES ASSUME IInv, ConstsListed, [Next]_vars PROVE ConstsListed'
  OBVIOUS
<1>1. CASE StartAnalysis
  <2>1. Elems(todo) = {}
    BY <1>1 DEF StartAnalysis, Elems
  <2>. QED BY <1>1, <2>1 DEF StartAnalysis, IInv, ItemsPhase, ConstsListed
<1>2. CASE \E n \in Name : TakeBodiless(n) \/ TakeAndWalk(n) \/ WalkPanics(n)
  BY <1>2 DEF TakeBodiless, TakeAndWalk, WalkPanics, Take, ConstsListed
<1>3. CASE \E ref \in new_unevaluated : Enqueue(ref)
  BY <1>3, EnqueueListed
<1>4. CASE FinishItem \/ CollectItem \/ assemble_smir \/ UNCHANGED vars
  BY <1>4 DEF FinishItem, CollectItem, assemble_smir, vars, ConstsListed
<1>. QED BY <1>1, <1>2, <1>3, <1>4 DEF Next

\* unevaluated_consts lists the definition of a constant for every item that is no mono
\* item, with such an item, and nothing else.
THEOREM CollectConstsListed == Spec => []ConstsListed
<1>1. Init => ConstsListed
  BY DEF Init, ConstsListed
<1>. QED BY <1>1, ListedStep, InvariantHolds, PTL DEF Spec

(* The coherence assertion never fires: only the walk of a body panics.    *)
THEOREM CollectPanicsJustified == Spec => []PanicsJustified
<1>1. Init => PanicsJustified
  BY DEF Init, PanicsJustified
<1>2. IInv /\ PanicsJustified /\ [Next]_vars => PanicsJustified'
  <2>. SUFFICES ASSUME IInv, PanicsJustified, [Next]_vars, phase' = "panicked"
                PROVE  (known_names \cap MayPanic # {})'
    BY DEF PanicsJustified
  <2>1. ASSUME NEW n \in Name, WalkPanics(n) PROVE (known_names \cap MayPanic # {})'
    <3>1. n \in known_names /\ n \in MayPanic /\ known_names' = known_names
      BY <2>1, TakeFacts DEF WalkPanics
    <3>. QED BY <3>1
  <2>2. CASE assemble_smir
    BY <2>2 DEF assemble_smir, Coherent, IInv, AllocsCoherent
  <2>3. CASE UNCHANGED vars
    BY <2>3 DEF vars, PanicsJustified
  <2>. QED BY <2>1, <2>2, <2>3 DEF Next, CollectItem, StartAnalysis, Take, TakeBodiless,
                                  TakeAndWalk, Enqueue, FinishItem
<1>. QED BY <1>1, <1>2, InvariantHolds, PTL DEF Spec

-----------------------------------------------------------------------------
LEMMA ClosedAtEnd == IInv /\ assemble_smir => Abs!Closed(known_names)
<1>. SUFFICES ASSUME IInv, assemble_smir, NEW n \in known_names
              PROVE  UsesOf[n] \subseteq known_names
  BY DEF Abs!Closed
<1>1. n \in Name
  BY DEF IInv, TypeOK
<1>2. PICK i \in all_items : i.name = n
  BY <1>1 DEF assemble_smir, IInv, OnePlace
<1>3. n \in HasBody => \A ref \in Refs[n] : ref.name \in known_names
  BY <1>2 DEF assemble_smir, IInv, Progress, ConstsKnown
<1>. QED BY <1>1, <1>3 DEF UsesOf, NamesOf

(* Every step of the pipeline is a step of ItemClosure or invisible to it. *)
LEMMA StepSimulation == IInv /\ [Next]_vars => [Abs!ANext]_(Abs!avars)
<1>. SUFFICES ASSUME IInv, [Next]_vars PROVE [Abs!ANext]_(Abs!avars)
  OBVIOUS
<1>. USE DEF Abs!avars, Outcome
<1>1. CASE CollectItem
  BY <1>1 DEF CollectItem
<1>2. CASE StartAnalysis
  <2>1. DOMAIN pending = Initial
    BY <1>2 DEF StartAnalysis, Elems, IInv, ItemsPhase
  <2>. QED BY <1>2, <2>1 DEF StartAnalysis
<1>3. CASE \E n \in Name : TakeBodiless(n) \/ TakeAndWalk(n)
  BY <1>3 DEF TakeBodiless, TakeAndWalk, Take
<1>4. ASSUME NEW n \in Name, WalkPanics(n) PROVE Abs!ANext
  <2>1. n \in known_names /\ n \in MayPanic /\ phase = "analyze"
    BY <1>4, TakeFacts DEF WalkPanics
  <2>2. Abs!GiveUp
    BY <1>4, <2>1 DEF WalkPanics, Abs!GiveUp
  <2>. QED BY <2>2 DEF Abs!ANext
<1>5. ASSUME NEW ref \in new_unevaluated, Enqueue(ref) PROVE [Abs!ANext]_(Abs!avars)
  <2>1. CASE UNCHANGED known_names
    BY <1>5, <2>1 DEF Enqueue
  <2>2. CASE ~Known(ref.name) /\ known_names' = known_names \cup {ref.name}
    <3>1. phase = "analyze" /\ phase' = "analyze"
      BY <1>5 DEF Enqueue
    <3>2. PICK i \in current : i.name \in HasBody /\ ref \in Refs[i.name]
      BY <3>1 DEF IInv, Progress
    <3>3. i.name \in known_names /\ i.name \in Name
      BY <3>1, <3>2 DEF IInv, OnePlace, TypeOK
    <3>4. ref.name \in UsesOf[i.name]
      BY <3>2, <3>3 DEF UsesOf, NamesOf
    <3>5. Abs!Discover
      BY <2>2, <3>1, <3>3, <3>4 DEF Abs!Discover, Known
    <3>. QED BY <3>5 DEF Abs!ANext
  <2>. QED BY <1>5, <2>1, <2>2 DEF Enqueue
<1>6. CASE FinishItem
  BY <1>6 DEF FinishItem
<1>7. CASE assemble_smir
  <2>1. Coherent
    BY DEF Coherent, IInv, AllocsCoherent
  <2>2. Abs!Deliver
    BY <1>7, <2>1, ClosedAtEnd DEF assemble_smir, Abs!Deliver
  <2>. QED BY <2>2 DEF Abs!ANext
<1>8. CASE UNCHANGED vars
  BY <1>8 DEF vars
<1>. QED BY <1>1, <1>2, <1>3, <1>4, <1>5, <1>6, <1>7, <1>8 DEF Next

(* The pipeline implements ItemClosure, in whatever order take_any serves  *)
(* the queue.                                                              *)
THEOREM CollectImplementsClosure == Spec => ImplementsClosure
<1>1. Init => Abs!AInit
  BY DEF Init, Abs!AInit, Outcome
<1>. QED BY <1>1, StepSimulation, InvariantHolds, PTL DEF Spec, ImplementsClosure, Abs!ASpec

(* Hence the items of the output are the least closure of the mono items.  *)
THEOREM CollectLeastClosure == Spec => []OutputIsLeastClosure
<1>. DEFINE Found == IF phase = "items" THEN Initial ELSE known_names
            Least == /\ Initial \subseteq Found
                     /\ Outcome = "done" => Abs!Closed(Found)
                     /\ \A S \in SUBSET Name : (Initial \subseteq S /\ Abs!Closed(S)) => Found \subseteq S
<1>1. Init => Least
  BY DEF Init, Outcome
<1>2. Least /\ [Abs!ANext]_(Abs!avars) => Least'
  BY DEF Abs!ANext, Abs!avars, Abs!Discover, Abs!Deliver, Abs!GiveUp, Abs!Closed
<1>3. Least => OutputIsLeastClosure
  BY DEF OutputIsLeastClosure, Abs!LeastClosure
<1>. QED BY <1>1, <1>2, <1>3, StepSimulation, InvariantHolds, PTL DEF Spec

-----------------------------------------------------------------------------
Running == phase \in {"items", "analyze"}
Shrinks(before, after) == after \subseteq before /\ after # before

(* Lower in the lexicographic order of the phase, the mono items to come,  *)
(* the names not known, the queue, the constants found in the current body *)
(* and the current item.                                                   *)
Lower ==
  \/ phase = "items" /\ phase' = "analyze"
  \/ Running /\ ~Running'
  \/ /\ UNCHANGED phase
     /\ \/ Len(todo') < Len(todo)
        \/ /\ UNCHANGED todo
           /\ \/ Shrinks(Name \ known_names, Name \ known_names')
              \/ /\ UNCHANGED known_names
                 /\ \/ Shrinks(DOMAIN pending, DOMAIN pending')
                    \/ /\ UNCHANGED pending
                       /\ \/ Shrinks(new_unevaluated, new_unevaluated')
                          \/ UNCHANGED new_unevaluated /\ Shrinks(current, current')

(* collect.rs: every step of the pipeline goes down in that order, and     *)
(* none is taken once it has ended.  With finitely many names and constants*)
(* the order has no infinite descent: constants that refer to each other's *)
(* bodies cannot keep the work loop going.                                 *)
THEOREM CollectDescends == Spec => [][Running /\ Lower]_vars
<1>1. IInv /\ [Next]_vars => [Running /\ Lower]_vars
  <2> SUFFICES ASSUME IInv, Next PROVE Running /\ Lower
    OBVIOUS
  <2>1. Running
    BY DEF Next, Running, CollectItem, StartAnalysis, TakeBodiless, TakeAndWalk, WalkPanics, Take,
           Enqueue, FinishItem, assemble_smir
  <2>2. CASE CollectItem
    <3>1. todo \in Seq(Name) /\ todo # <<>> /\ todo' = Tail(todo) /\ UNCHANGED phase
      BY <2>2 DEF CollectItem, IInv, TypeOK
    <3>2. Len(Tail(todo)) = Len(todo) - 1 /\ Len(todo) \in Nat
      BY <3>1
    <3>3. Len(todo') < Len(todo)
      BY <3>1, <3>2
    <3>4. Lower
      BY <3>1, <3>3, Zenon DEF Lower
    <3>. QED BY <2>1, <3>4
  <2>3. CASE StartAnalysis
    BY <2>1, <2>3 DEF StartAnalysis, Lower
  <2>4. ASSUME NEW n \in Name, TakeBodiless(n) \/ TakeAndWalk(n) PROVE Lower
    <3>1. UNCHANGED <<phase, todo, known_names>> /\ Take(n)
      BY <2>4 DEF TakeBodiless, TakeAndWalk
    <3>2. DOMAIN pending' = DOMAIN pending \ {n} /\ n \in DOMAIN pending
      BY <3>1 DEF Take, Restrict
    <3>. QED BY <3>1, <3>2 DEF Lower, Shrinks
  <2>5. ASSUME NEW n \in Name, WalkPanics(n) PROVE Lower
    BY <2>1, <2>5 DEF WalkPanics, Lower, Running
  <2>6. ASSUME NEW ref \in new_unevaluated, Enqueue(ref) PROVE Lower
    <3>1. new_unevaluated' = new_unevaluated \ {ref} /\ UNCHANGED <<phase, todo>>
      BY <2>6 DEF Enqueue
    <3>2. CASE UNCHANGED <<pending, known_names>>
      BY <3>1, <3>2 DEF Lower, Shrinks
    <3>3. CASE ~Known(ref.name) /\ known_names' = known_names \cup {ref.name}
      <4>1. ref.name \in Name \ known_names
        BY <3>3 DEF IInv, TypeOK, Known
      <4>. QED BY <3>1, <3>3, <4>1 DEF Lower, Shrinks
    <3>. QED BY <2>6, <3>2, <3>3 DEF Enqueue
  <2>7. CASE FinishItem
    BY <2>1, <2>7 DEF FinishItem, Lower, Shrinks
  <2>8. CASE assemble_smir
    BY <2>1, <2>8 DEF assemble_smir, Lower, Running
  <2>. QED BY <2>1, <2>2, <2>3, <2>4, <2>5, <2>6, <2>7, <2>8 DEF Next
<1>. QED BY <1>1, InvariantHolds, PTL DEF Spec
=============================================================================
