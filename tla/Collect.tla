------------------------------ MODULE Collect ------------------------------
(***************************************************************************)
(* The collect / analyze / assemble pipeline (src/src/printer/collect.rs). *)
(*                                                                         *)
(* Phase "items" turns the compiler's mono items into Items; phase         *)
(* "analyze" is the work loop that takes an arbitrary pending item, walks  *)
(* its body once and enqueues the items behind the unevaluated constants   *)
(* found on the way; assembly runs when nothing is pending.                *)
(*                                                                         *)
(* Each call of Instance::body() mints fresh AllocIds.  A stored item      *)
(* therefore carries the version of its body, the number of the body()     *)
(* call it came from, and the ids of an allocation owned by a body are     *)
(* pairs <<name, version>>: walking another version than the stored one    *)
(* collects ids the output never mentions.                                 *)
(***************************************************************************)
EXTENDS Naturals, Sequences, Functions

CONSTANTS Name,        \* symbol names of items
          MonoItems,   \* Seq(Name): mono_collect(), one entry per codegen unit an item is in
          HasBody,     \* names whose Instance::body() is Some
          MayPanic,    \* names with a body whose walk may panic: whether an unevaluated
                       \* constant or a callee resolves is rustc's answer, and left open
          ConstDef,    \* definitions of constants (a DefId, without generic arguments)
          Refs,        \* [Name -> SUBSET [def: ConstDef, name: Name]]: unevaluated constants
                       \* of the body, each with the symbol it resolves to
          InternedOf   \* [Name -> SUBSET Name]: statics and functions a body points to;
                       \* their ids are not minted per body, and have version 0

ASSUME CollectAssumption ==
  /\ MonoItems \in Seq(Name)
  /\ HasBody \subseteq Name /\ MayPanic \subseteq HasBody
  /\ Refs \in [Name -> SUBSET [def : ConstDef, name : Name]]
  /\ InternedOf \in [Name -> SUBSET Name]

VARIABLES phase,              \* "items", "analyze", "assembled", "panicked"
          todo,               \* mono items still to be turned into Items
          fetched,            \* [Name -> Nat]: calls of Instance::body() so far
          pending,            \* the work queue: partial function from names to body versions
          known_names,
          current,            \* the item taken from the queue, as a set of at most one
          new_unevaluated,    \* constants found by the walk of current, not yet enqueued
          all_items,          \* finished items, as [name, version]
          visited_allocs,     \* AllocIds in the alloc map
          unevaluated_consts  \* partial function from ConstDef to names

vars == <<phase, todo, fetched, pending, known_names, current, new_unevaluated,
          all_items, visited_allocs, unevaluated_consts>>

Occurs(n) == \E i \in 1..Len(MonoItems) : MonoItems[i] = n
Initial == {n \in Name : Occurs(n)}
NamesOf(items) == {i.name : i \in items}

\* AllocIds in the body of an item.
AllocIds(item) ==
  IF item.name \in HasBody
  THEN (InternedOf[item.name] \X {0}) \cup {<<item.name, item.version>>}
  ELSE {}

With(f, x, v) == [y \in DOMAIN f \cup {x} |-> IF y = x THEN v ELSE f[y]]
Empty == [x \in {} |-> 0]

-----------------------------------------------------------------------------
Init == /\ phase = "items"
        /\ todo = MonoItems
        /\ fetched = [n \in Name |-> 0]
        /\ pending = Empty
        /\ known_names = {}
        /\ current = {} /\ new_unevaluated = {}
        /\ all_items = {}
        /\ visited_allocs = {}
        /\ unevaluated_consts = Empty

\* Fault for the mutation runs: details and item each fetch a body of their own.
FetchesTwice(n) == /\ fetched' = [fetched EXCEPT ![n] = @ + 2]
                   /\ pending' = With(pending, n, fetched[n] + 1)

\* mk_item: one call of Instance::body(); the Item replaces one of the same name.
mk_item(n) == /\ fetched' = [fetched EXCEPT ![n] = @ + 1]
              /\ pending' = With(pending, n, fetched[n] + 1)

\* collect_items: the next mono item; an item of several codegen units comes again.
CollectItem ==
  /\ phase = "items"
  /\ todo # <<>>
  /\ mk_item(Head(todo))
  /\ todo' = Tail(todo)
  /\ UNCHANGED <<phase, known_names, current, new_unevaluated, all_items, visited_allocs,
                 unevaluated_consts>>

\* collect_and_analyze_items, up to the loop
StartAnalysis ==
  /\ phase = "items" /\ todo = <<>>
  /\ phase' = "analyze"
  /\ known_names' = DOMAIN pending
  /\ UNCHANGED <<todo, fetched, pending, current, new_unevaluated, all_items, visited_allocs,
                 unevaluated_consts>>

\* Fault for the mutation runs: the key is read and not removed.
Peeks(n) == /\ phase = "analyze" /\ current = {} /\ n \in DOMAIN pending
            /\ UNCHANGED pending

\* take_any: any key of the hash map
Take(n) == /\ phase = "analyze"
           /\ current = {}
           /\ n \in DOMAIN pending
           /\ pending' = Restrict(pending, DOMAIN pending \ {n})

\* Fault for the mutation runs: a missing body is unwrapped.
UnwrapsBody(n) ==
  /\ Take(n)
  /\ n \notin HasBody
  /\ phase' = "panicked"
  /\ UNCHANGED <<todo, fetched, known_names, current, new_unevaluated, all_items,
                 visited_allocs, unevaluated_consts>>

\* No body: the item is kept, with a warning.
TakeBodiless(n) ==
  /\ Take(n)
  /\ n \notin HasBody
  /\ all_items' = all_items \cup {[name |-> n, version |-> pending[n]]}
  /\ UNCHANGED <<phase, todo, fetched, known_names, current, new_unevaluated, visited_allocs,
                 unevaluated_consts>>

\* Fault for the mutation runs (issue #120): the walk fetches the body again.
WalksFreshBody(n) ==
  /\ Take(n)
  /\ n \in HasBody
  /\ current' = {[name |-> n, version |-> pending[n]]}
  /\ fetched' = [fetched EXCEPT ![n] = @ + 1]
  /\ visited_allocs' = visited_allocs \cup AllocIds([name |-> n, version |-> fetched[n] + 1])
  /\ new_unevaluated' = Refs[n]
  /\ UNCHANGED <<phase, todo, known_names, all_items, unevaluated_consts>>

\* BodyAnalyzer::visit_body on the body stored in the item
TakeAndWalk(n) ==
  LET item == [name |-> n, version |-> pending[n]] IN
  /\ Take(n)
  /\ n \in HasBody
  /\ current' = {item}
  /\ visited_allocs' = visited_allocs \cup AllocIds(item)
  /\ new_unevaluated' = Refs[n]
  /\ UNCHANGED <<phase, todo, fetched, known_names, all_items, unevaluated_consts>>

WalkPanics(n) ==
  /\ Take(n)
  /\ n \in MayPanic
  /\ phase' = "panicked"
  /\ UNCHANGED <<todo, fetched, known_names, current, new_unevaluated, all_items,
                 visited_allocs, unevaluated_consts>>

\* Fault for the mutation runs: only queued items count as known.
KnownIfQueued(n) == n \in DOMAIN pending

Known(n) == n \in known_names \/ n \in DOMAIN pending

\* Faults for the mutation runs: the constant listed before the check, or
\* under the wrong half of the pair.
ListsFirst(ref) ==
  /\ phase = "analyze"
  /\ ref \in new_unevaluated
  /\ new_unevaluated' = new_unevaluated \ {ref}
  /\ unevaluated_consts' = With(unevaluated_consts, ref.def, ref.name)
  /\ IF Known(ref.name) THEN UNCHANGED <<fetched, pending, known_names>>
     ELSE mk_item(ref.name) /\ known_names' = known_names \cup {ref.name}
  /\ UNCHANGED <<phase, todo, current, all_items, visited_allocs>>
ListsByName(ref) ==
  /\ phase = "analyze"
  /\ ref \in new_unevaluated
  /\ new_unevaluated' = new_unevaluated \ {ref}
  /\ ~Known(ref.name)
  /\ unevaluated_consts' = With(unevaluated_consts, ref.name, ref.def)
  /\ mk_item(ref.name)
  /\ known_names' = known_names \cup {ref.name}
  /\ UNCHANGED <<phase, todo, current, all_items, visited_allocs>>

\* enqueue_unevaluated_consts, one constant.  A body meets its constants in MIR
\* order, which is the compiler's choice: here, any order.
Enqueue(ref) ==
  /\ phase = "analyze"
  /\ ref \in new_unevaluated
  /\ new_unevaluated' = new_unevaluated \ {ref}
  /\ \/ /\ Known(ref.name)
        /\ UNCHANGED <<fetched, pending, known_names, unevaluated_consts>>
     \/ /\ ~Known(ref.name)
        /\ unevaluated_consts' = With(unevaluated_consts, ref.def, ref.name)
        /\ mk_item(ref.name)
        /\ known_names' = known_names \cup {ref.name}
  /\ UNCHANGED <<phase, todo, current, all_items, visited_allocs>>

\* Fault for the mutation runs: the constants of the body are dropped.
FinishesEarly ==
  /\ phase = "analyze"
  /\ current # {}
  /\ all_items' = all_items \cup current
  /\ current' = {} /\ new_unevaluated' = {}
  /\ UNCHANGED <<phase, todo, fetched, pending, known_names, visited_allocs, unevaluated_consts>>

FinishItem ==
  /\ phase = "analyze"
  /\ current # {} /\ new_unevaluated = {}
  /\ all_items' = all_items \cup current
  /\ current' = {}
  /\ UNCHANGED <<phase, todo, fetched, pending, known_names, new_unevaluated, visited_allocs,
                 unevaluated_consts>>

\* AllocMap::verify_coherence, which assembly asserts in debug builds
Coherent == \A i \in all_items : AllocIds(i) \subseteq visited_allocs

assemble_smir ==
  /\ phase = "analyze" /\ DOMAIN pending = {} /\ current = {}
  /\ phase' = IF Coherent THEN "assembled" ELSE "panicked"
  /\ UNCHANGED <<todo, fetched, pending, known_names, current, new_unevaluated, all_items,
                 visited_allocs, unevaluated_consts>>

Next == \/ CollectItem \/ StartAnalysis
        \/ \E n \in Name : TakeBodiless(n) \/ TakeAndWalk(n) \/ WalkPanics(n)
        \/ \E ref \in new_unevaluated : Enqueue(ref)
        \/ FinishItem \/ assemble_smir

\* The pipeline is one sequential loop: it takes a step whenever it can.
Spec == Init /\ [][Next]_vars
FairSpec == Spec /\ WF_vars(Next)

-----------------------------------------------------------------------------
Queued == {[name |-> n, version |-> pending[n]] : n \in DOMAIN pending}
Stored == Queued \cup current \cup all_items

\* Type invariant.
TypeOK ==
  /\ phase \in {"items", "analyze", "assembled", "panicked"}
  /\ todo \in Seq(Name)
  /\ fetched \in [Name -> Nat]
  /\ DOMAIN pending \subseteq Name /\ \A n \in DOMAIN pending : pending[n] \in Nat
  /\ known_names \subseteq Name
  /\ current \subseteq [name : Name, version : Nat]
  /\ \A i, j \in current : i = j
  /\ new_unevaluated \subseteq [def : ConstDef, name : Name]
  /\ all_items \subseteq [name : Name, version : Nat]
  /\ visited_allocs \subseteq Name \X Nat
  /\ DOMAIN unevaluated_consts \subseteq ConstDef
  /\ \A d \in DOMAIN unevaluated_consts : unevaluated_consts[d] \in Name

\* Each item is in exactly one place, once: queued, being walked, or finished;
\* and the names known are exactly those of the items.
ItemsOnce ==
  phase = "analyze" =>
    /\ known_names = NamesOf(Stored)
    /\ \A i, j \in Stored : i.name = j.name => i = j
    /\ NamesOf(current) \cap DOMAIN pending = {}
    /\ NamesOf(all_items) \cap (DOMAIN pending \cup NamesOf(current)) = {}

\* ADR-002: an item keeps the last body ever fetched for it; nothing calls
\* Instance::body() again once the item is stored.
LatestBody == \A i \in Stored : i.version = fetched[i.name]

AllocsCoherent == \A i \in all_items \cup current : AllocIds(i) \subseteq visited_allocs
NoStrayAllocs == visited_allocs \subseteq UNION {AllocIds(i) : i \in all_items \cup current}

\* The alloc map holds every AllocId of every body in the output, and none of a body
\* that was fetched and thrown away (issue #120).
AllocsExact == AllocsCoherent /\ NoStrayAllocs

\* Every item beyond the mono items was reached through a constant whose
\* definition unevaluated_consts lists, and it lists nothing but such items.
ConstsListed ==
  phase = "analyze" =>
    /\ \A n \in known_names \ Initial :
         \E m \in known_names : \E ref \in Refs[m] :
           ref.name = n /\ ref.def \in DOMAIN unevaluated_consts
    /\ \A d \in DOMAIN unevaluated_consts : unevaluated_consts[d] \in known_names \ Initial

\* The coherence assertion of assemble_smir never fires: the process only
\* aborts while an item whose walk may panic is known.
PanicsJustified == phase = "panicked" => known_names \cap MayPanic # {}

\* The work loop comes to an end, cyclic constants included.
Termination == <>(phase \in {"assembled", "panicked"})

-----------------------------------------------------------------------------
(* The pipeline implements ItemClosure: known_names is the set found.      *)
UsesOf == [n \in Name |-> IF n \in HasBody THEN NamesOf(Refs[n]) ELSE {}]
Outcome == CASE phase = "assembled" -> "done"
             [] phase = "panicked" -> "panicked"
             [] OTHER -> "running"

Abs == INSTANCE ItemClosure
         WITH Uses <- UsesOf,
              found <- IF phase = "items" THEN Initial ELSE known_names,
              outcome <- Outcome

\* The detailed pipeline is an implementation of the closure.
ImplementsClosure == Abs!ASpec

\* The output is the least closure of the mono items.
OutputIsLeastClosure == Abs!LeastClosure
=============================================================================
