# A verification project for stable-mir-json

`stable-mir-json` is a compiler driver: it runs rustc on a crate, and after
analysis collects the crate's monomorphic items with their MIR, everything the
MIR refers to (functions, allocations, types, spans), and writes it as JSON or as
a graph (DOT, D2). This directory holds TLA+ modules of the parts of the program
that have state, order or failure in them, TLC configurations that check them on
small instances, and proofs for TLAPS.

Run `tlc -config X.cfg M` and `tlapm M.tla` in this directory; `PROJECT.json`
lists the runs, which lines of the source each definition stands for, a fault for
each property that makes it fail, and what was found.

## 1. The system

| Component | Source | State | Operations |
|---|---|---|---|
| driver, command line | `src/main.rs`, `src/driver.rs` | none | pick an emitter, run rustc with it as the `after_analysis` callback |
| collection pipeline | `src/printer/collect.rs` | pending items, known names, finished items, unevaluated constants | `collect_items`, the work loop of `collect_and_analyze_items`, `enqueue_unevaluated_consts`, `assemble_smir` |
| items | `items.rs` | none (calls `Instance::body()`) | `mk_item` |
| MIR visitor | `mir_visitor.rs` | borrows all maps of the pipeline | callbacks for calls, drops, casts, constants, spans, types; `collect_alloc`, `get_prov_ty` |
| link map | `link_map.rs` | `(type, kind) -> (sources, symbol)` | `fn_inst_sym`, `update_link_map` |
| alloc map | `schema.rs` | `AllocId -> (type, allocation)`, duplicate ids | `insert`, `contains_key`, `verify_coherence` |
| type visitor | `ty_visitor.rs` | types with layout, memo of functions, layout panics | `visit_ty` |
| type metadata | `types.rs` | none | `mk_type_metadata` |
| compat layer | `src/compat` | none | rustc queries behind a stable interface |
| output | `printer/mod.rs`, `mk_graph/mod.rs`, `compat/output.rs` | the output files | `emit_smir`, `emit_dotfile`, `emit_d2file` |
| graph index and context | `mk_graph/index.rs`, `context.rs`, `util.rs` | tables of types, allocations and functions | `describe`, `get_name`, `render_const`, `resolve_call_target`, the legends |
| DOT and D2 renderers | `mk_graph/output` | the text under construction | `to_dot_file`, `to_d2_file` |
| installer | `src/bin/cargo_stable_mir_json.rs` | the directory `.stable-mir-json` | `setup` and the copies it makes |
| integration tests | `Makefile` | JSON files, `.expected` files | `integration-test`, `golden` |
| UI tests, CI | `tests/ui/*.sh`, `.github/scripts` | worktrees, result files | test runs, regeneration, polling |

How they interact: the pipeline turns mono items into `Item`s (`mk_item`), then a
loop takes any pending item and lets one `BodyAnalyzer` walk its body. The
visitor has mutable access to the link map, the alloc map, the type visitor, the
spans and a list of newly found constants; the loop enqueues the items of those
constants. When nothing is pending, assembly checks the alloc map against the
items, sorts everything and produces the `SmirJson`, which is serialised, or
rendered by one of two renderers over shared tables. The text is complete in
memory before the output file is created. The integration tests compare or record
the JSON file and delete it; what they leave, the next run of the program finds.

What is hard about it. The program has one thread, so there are no races, but

* *order is arbitrary*: the loop takes keys of a `HashMap`, so callbacks reach the
  maps in an order that changes from run to run;
* *identity is unstable*: each call of `Instance::body()` mints new `AllocId`s;
* *walks over cyclic graphs*: types, allocations and constants refer to each other,
  and three recursions with three different memo tables must end without leaving
  anything out;
* *early exits*: a coroutine witness breaks a walk off in the middle, panics inside
  rustc are caught in one place and abort the process in others;
* *two renderers* kept in step by hand, and legends that must say what labels say;
* *sort keys that tie*: what is sorted comes out of hash maps, with numbers that rustc
  gives anew in every run;
* *system calls that fail*, in the output and above all in the installer, and errors the
  program drops: what the compiler returns, and the flush of a buffer;
* *files that outlive their run*: a failed or killed invocation leaves something for the
  next one, and for the tests, to find.

What makes each component correct:

* pipeline: the output holds the least set of items closed under the constants of
  their bodies, each once, with the body that was walked, and the loop ends;
* link map: every function seen has an entry with a symbol that has a body if one
  was seen, independent of the order, and the sources that were seen; two symbols that
  disagree are reported (with `LINK_INST`), and nothing else is;
* allocations: everything a body points to is collected once, the walk ends, types
  of pointees are those of the pointers;
* types: everything reachable is collected although other walks break off;
* assembly: given what was collected, two runs give the same lists up to elements whose keys
  tie, and the same lists once the tests' filter has been through them;
* graphs: edges end at nodes, both renderers show the same flow, calls and constants, the
  legends explain the labels;
* output: reported success means a written file, texts of two runs never mix, a run that
  fails early destroys nothing, a test that passes has judged its own run;
* installer: no mixture of two builds, nothing executable that is incomplete,
  success means complete.

`PROJECT.json` lists the hazards, each at its line with the properties about it.

## 2. Modules

```
ItemClosure  <-- implemented by --  Collect   <- MCCollect, CollectProofs
                                    LinkMap   <- MCLinkMap, LinkMapProofs
                                    ProvTy    <- MCProvTy, ProvTyProofs
                                    AllocCollector <- MCAllocCollector, AllocCollectorProofs
                                    AllocCollector <- AllocRuns <- MCAllocRuns
                                    TyCollector    <- MCTyCollector, TyCollectorProofs
Assemble <- Emit, Normalise <- Output <- MCOutput, OutputProofs
GraphIndex <- GraphContext <- DotGraph, D2Graph <- Renderers <- MCRenderers, RenderersProofs
Installer <- InstallerProofs
```

`Collect` sees the walk of a body as one step; what happens within one is the
business of `LinkMap`, `AllocCollector` (whose `get_prov_ty` is `ProvTy`) and
`TyCollector`, which share no state with each other. Operators preceded by the comment
"Fault for the mutation runs" are not part of the specifications: each is a
plausible bug that replaces the definition after it, to show that a property
would notice.

### Collect and ItemClosure
`pending`, `known_names`, `all_items`, `new_unevaluated` and `unevaluated_consts`
are the code's variables; `todo` is the list `collect_items` iterates over,
`current` the item the loop has in hand. An item is its name and the number of
the `body()` call that its body came from (`fetched` counts the calls); an
allocation owned by a body is that pair too, so walking another body than the one
stored leaves foreign ids in `visited_allocs`, which is issue #120 of the
repository. Actions: `CollectItem` (one round of `collect_items`; an item of two
codegen units comes twice), `StartAnalysis`, `TakeBodiless`, `TakeAndWalk`,
`WalkPanics`, `Enqueue` (one round of `enqueue_unevaluated_consts`), `FinishItem`,
`assemble_smir`.
`ItemClosure` is the abstract specification: a set that grows by items that its
members use, and may be delivered when it is closed. `Collect` implements it with
`found` as `known_names`.

### LinkMap
rustc is a constant: how each `FnDef` type resolves directly (`Direct`) and as a
pointer (`ForFnPtr`), and what an instance's type, kind and symbol are (`Info`).
One action per callback; a callback that goes on to visit its operand makes two
calls of `update_link_map`, with the unwraps and the panic of that function.
`offers` and `refused` are history variables: what `update_link_map` accepted, and the symbol
its consistency check aborted over.

### ProvTy
A query and the recursion of `get_prov_ty`, one step per call, over types with
explicit field offsets; `inner` is the pointee of a pointer or the element type of an array,
which an array of length zero has as well. `Leaves` defines independently where the pointers of
a value are and what they point to, `Inside` which types its layout is made of; both are
recursive functions, and `NestingAssumption` says that they satisfy their equations (types nest
finitely). `TypesAssumption`, `LayoutAssumption` and `PointersInside` say of types what
the compiler's layouts guarantee: fields do not overlap, and a pointer has a size and lies in its value.

### AllocCollector
The recursion of `collect_alloc` as a stack of calls; a constant is walked when
the stack is empty, as often as one likes. `walks` is a history variable. `AllocRuns`
puts several runs of the collector in a row, each of which walks every constant once, in any order,
and keeps which allocations they handed over.

### TyCollector
The recursion of `visit_ty` as a stack of frames with what each has still to visit.
`resolved` is the code's memo of functions and closures, `types` the map of recorded
types; `Break` drops all frames. Which types lead to a witness is a constant
(`Clean`), as the set is not computed by the code.

### Assemble and Normalise
Phase 3 without state: `sort_key` has the key of each list of the output, tier by tier, and
`SortedSection` all the lists a stable sort may yield, over every order of the hash map and
every numbering of the types (`Interned`); `content_key` is the part of a key that no number
of the run is in. `IsCollected` is what collection hands over: finite
sets with fields of the right kinds. `mk_type_metadata` says which kinds of type reach
the output and `AssemblePanics` which abort it. Strings are numbers in their order.
`Normalise` is `normalise-filter.jq`: what it leaves of an element (`Left`: of a function the
symbol, of an allocation all but its id and type, of a type no number), which types it drops,
and which lists it sorts again; a list that jq sorts by all that is left is a bag, and of the others
the order counts.

### Emit and Output
`Emit` is one invocation after another: `Start` picks the emitter and its file, then one action
for each thing the program does (`after_analysis`, `Collect`, `Render`, `Create`,
`Write`, `Close`, `Continue`), each with its failures, and `Kill` between any two or in the
middle of the write. `Collect` stands for the pipeline of the module of that name. A source has
a set of collections, since what is collected may depend on the order of the work loop (section 5,
`Alloc_order`); a run gets one of them, and what it yields is an output that `assemble_smir` may give for
it. A file is a sequence of chunks, each with its run, the output it is a text of and whether it is
whole, so that mixed and truncated contents can be told apart. `big` decides whether a text goes past the `BufWriter` (an error is then a
panic) or is written when the writer is dropped (an error is then lost). `Output` adds who
runs the program: somebody by hand, or the targets `integration-test` and `golden`
of the `Makefile` for one test file, whose source may change between runs; they compare what
the filter leaves. A source of several collections may make a test report a difference although
nothing failed, as the `README.md` of the repository says in line 66 of some tests; no property denies
it. `assembled` and `judged` are history variables.

### GraphIndex, GraphContext, DotGraph, D2Graph, Renderers
The crate is a constant record of items with blocks, link map entries, allocations and types.
`GraphIndex` has the two tables: names and layouts of types, descriptions of allocations, and
their legends. `GraphContext` turns the constants and callees of a block into what a label
shows of them. `dot_*` and `d2_*` are the state of the two renderers, which advance item by item;
`name_lines_panics` says when the cut of a name falls inside a character. Of a label, places
and operators are left out, and so is the order of a legend's lines. An edge carries the item, the block and the exit
(the how-manieth target, or the cleanup) it was drawn for, so that the edges are a set in which
none of the drawn ones collapse. `short_name` and `block_name` are hashes in the code, and are
taken to be injective; `Id` keeps the kinds of identifier apart, as their forms do. `TablesAssumption` and
`BodiesAssumption` say what the earlier phases guarantee of a crate: ids, types and symbols
are unique (they come from maps, and items are deduplicated by symbol), the targets of
a block are blocks of its body, an entry of `smir.functions` is of a function type, and the allocations constants
point to were collected (`ConstsCollected` of `AllocCollector`).

### Installer
One action per system call, each of which may fail, and `Kill` between any two.
The directory maps paths to the run that wrote them, whether the file is whole,
and whether it is executable. `Start` lets the user build other profiles and run
the program again over what is there.

## 3. Runs

| Run | What it shows |
|---|---|
| `LinkMap_run` | completeness, preference for bodies and sources in any order of callbacks and any setting of `LINK_ITEMS` and `LINK_INST`; with the latter all sources are recorded, and the internal panic is raised exactly over two symbols of one type and kind |
| `Collect_run` | items once, latest body, allocation ids coherent, least closure, refinement, termination; a panicking walk is the only reason to abort |
| `ProvTy_resolves` | the answer is never the pointee of another pointer, and the right one where no zero-sized field is in the way, in types whose array elements start with their only pointer and whose empty arrays are of elements without pointers |
| `ProvTy_field` | *violated*: a zero-sized field shadows the field at its offset |
| `Alloc_run` | everything collected once, types final, the walk ends |
| `Alloc_rewalk` | *violated*: walking a body twice is not detected |
| `Alloc_order` | *violated*: two runs on one crate list different numbers of allocations |
| `Ty_run` | recursive types and breaks: parts known, clean types complete, the walk ends |
| `Renderers_run` | calls end at the right nodes; same flow, calls and constants in both graphs; the legends say what the labels say |
| `Renderers_strings` | *violated*: an allocation of type `str` is not described by its text |
| `Installer_run` | no mixture of two runs, scripts backed, success complete |
| `Output_run` | given what was collected, two runs assemble the same lists up to ties, and the same after the filter; success means written; texts of two runs never mix; early failures destroy nothing; silent tests judged their own run |

A violated run checks one sentence of the documentation, and the finding quotes it.

### Bounds, and why they are enough
* **LinkMap**: six types and seven instances, one for each way in which the direct, the
  pointer and the instance's own view of a function differ (reify shim, closure, vtable
  shim, trait method, drop glue, unresolved), and a pair of symbols of one type and kind. Entries are independent, so more of a kind
  adds nothing. The state is finite; no bound is needed.
* **Collect**: seven items: one listed twice, one without a body, a cycle of constants,
  two instances of one definition, a constant that is known already, a static, a
  constant several bodies share.
* **ProvTy**: all types of two levels over five leaves (both field orders, fields of size
  zero at either end, arrays of two and of none), offsets 0 to 3; level two covers every pair of
  consecutive recursion steps, and the code looks at one level at a time.
* **AllocCollector**: six allocations of all four kinds with a cycle and shared parts,
  five constants of known and unknown type. `Alloc_order` needs no more than two runs, and
  the number of runs is not bounded. `MaxWalks` bounds the history of walks at 2:
  "more than once" is all a property asks.
* **TyCollector**: fourteen types with every kind of recursion (through an argument, a
  field, a signature, a closure) and a path to a witness through a type argument.
* **Renderers**: 1152 crates: every kind of terminator in the first block of a function, constants
  of every kind that point to allocations of every kind, colliding symbols and display names, missing bodies, double
  entries of a type, with and without a list of types; two blocks suffice for a cleanup target
  that differs from the others, and an item is drawn without regard to the other items but for
  names. `LineBytes`, `NumberBytes` and `TextBytes` are the code's 25, 8 and 20.
  `Renderers_strings` needs only one display name and functions with bodies.
* **Output**: `MaxRuns = 3`, enough for a golden file to be made, a run by hand to leave
  something, and a check to find it. Five sources: a short text with
  two collections, in one of which two allocations have one key; a long one with names that cannot be
  drawn, an order for every list and two types of one name, which only their numbers order; one whose assembly panics, one that does not
  compile, and a query. The flags are the three that choose an emitter. In the
  theorems `MaxRuns` is any number.
* **Installer**: `MaxRuns = 3`, a run over the remains of a run over the remains of a run;
  the code reads nothing older than what the run before it left. The theorems hold for any number.

`CHECK_DEADLOCK FALSE` is set where the program ends (a function returns, a process
stops); AllocCollector and TyCollector can always be handed another constant or type.

### Fairness
The program is sequential: a loop or recursion that can go on does. `Collect` has
`WF_vars(Next)`; `AllocCollector` and `TyCollector` have weak fairness
of the recursion only, since nothing obliges the compiler to present another constant or
type. The other modules claim no liveness and assume none: in particular the installer and an
invocation of the program may stop anywhere.

## 4. Proofs

All theorems are of the form `Spec => []P` or `Spec => [][A]_vars`, but for the refinement, and hold for
every value of the constants that the named `ASSUME`s of the module admit.

**LinkMapProofs** (from `ResolutionAssumption`, which says of rustc only what its answers are made of). The invariant relates map and
history: an entry for exactly the keys offered, its name among those offered, not
a reify shim's if any other was offered, sources between the offered and those
not from reify shims (all of the offered, with `LINK_INST`). `UpdatePreservesMapInv` shows that one call of `update_link_map`
preserves it, and each action is one or two calls. `LinkMapOnlyGrows` needs no invariant. For `LinkMapClashesReported`
the invariant says that with `LINK_INST` every symbol accepted under a key has the name of the entry, so
two of them agree, and one that is refused (`RefusedClashes`) disagrees with one accepted before it. Whether
rustc reports two symbols for one type and kind is not assumed either way.

**CollectProofs** (from `CollectAssumption`). The invariant says where an item can be
(`OnePlace`: queued, in hand or finished, never two of these, known iff one), that
what is known or still to be enqueued is reachable (`Progress`), and that the
version of every stored item is the number of `body()` calls for its name (`Latest`).
`ItemsOnce`, `LatestBody`, `AllocsExact` and `PanicsJustified` follow;
`StepSimulation` maps each step to a step of `ItemClosure` or a stutter, which gives
`CollectImplementsClosure`; that the delivered set is the least closure is
`CollectLeastClosure`. `CollectConstsListed` is inductive with it: the item in hand is known, and
its constants are enqueued and listed in one step. `CollectDescends` is the part of `Termination` that is within reach of
the prover: every step goes down in the lexicographic order of phase, mono items to come,
unknown names, queue, constants in hand and item in hand. That this order has no infinite descent needs
finitely many names and constants, which no theorem assumes, and an induction.

**AllocCollectorProofs** (from `AllocAssumption`). `NoDuplicates` is inductive with the type
invariant. For `ConstsCollected` and `TypedClosed` the point is that no step loses an id
that is collected or pending (`NothingLost`): a call that leaves the stack has its id in
the map. `AllocWalkDescends` bounds the recursion in the same way: a call collects an id for good or shortens the stack.

**TyCollectorProofs** (from `TyAssumption`). A type in hand has all its parts either known or
still in its frame (`PartsVisited`); the frames above a clean type are of clean types
(`CleanFrames`), so a break, which drops all frames, happens when there is none
(`NoCleanFrame`). That is why breaks leave no gap in the clean part of the type graph.

`NoDuplicates` is proved as well and is no run's property, since the map could not
hold an id twice in any case.

**OutputProofs** (from `EmitAssumption` and `NamesAssumption`). The invariant follows one text
from memory to disk: the file is empty when the write begins (`Create` truncates), holds the
whole of a long text when the writer is closed, and afterwards what `SuccessMeansWritten` allows;
at any time a file has at most one chunk, which is why two runs never mix. The tests are
covered since they only read and delete a file when no invocation is under way.

`OutputReproducible` (also from `CollectedAssumption`) is about two runs that collected the same. The keys are
ordered lexicographically, twice over: `LexOrder` shows that the order of sequences over a strict total order is one,
so both `SeqLt` and `KeyLt` are (`KeysOrdered`). The last tier of two of the keys is the number of a
type, which no two runs share; a list sorted by the whole key is sorted by its content key
(`ContentKeyFirst`). Two lists of one set that are so sorted have the same content key at
every place (`NotBefore`): were it lower in the first at place i, then the first i elements of that list
would all lie among the first i - 1 of the other, and the pigeonhole principle forbids it. No induction is
needed. An element that differs is elsewhere in the list, so its key ties with another's. For the filter,
two lists of one set have the same bag of what is left of their elements (`SameBag`); of the types, whose order the filter
partly keeps, what is left is the same place by place if types of one name look the same to it (`NoTwinTypes`).

**ProvTyProofs** (from the four assumptions of `ProvTy`). The invariant follows the pointer asked about down
the types (`Tracks`): as long as the recursion is at a type in which the pointer at the current offset is the
one of the query, it will answer that pointee; and once a zero-sized field has led it elsewhere it is
`Lost`, at a type with no pointer at all to answer. A field with the largest start at or before an offset contains it
unless its size is zero (`ChosenFieldContains`), since fields do not overlap, so without zero-sized fields
in front the recursion never leaves the pointer. `PointersResolved` is `ResolvesPointers` for every family of types.

**RenderersProofs** (from `TablesAssumption` and `BodiesAssumption`). The invariant is that each renderer has drawn
exactly what belongs to the items before its position, as sets given by comprehension over the items (`DotDrawn`,
`D2Drawn`), so when both are done the two graphs are functions of the crate and can be compared: `RenderersSameGraph` from the
equality of the two matches over terminators (`process_block` and `terminator_targets`), `RenderersCallsLand` from the
uniqueness of symbols, which makes the node of a callee either a block of the one item of that name
or a missing function's, and `RenderersLegendExplains` from the uniqueness of ids.

**InstallerProofs** (from `MaxRunsAssumption`). The invariant says whose the files are
(`Own`: of an older run until the directory is removed, of this run from then on) and how far
the copying has come (`Progress`: which files of the profile in hand are whole, that its
script is not executable yet, and that the profile before it is finished). The script is made
executable last, when everything it refers to is there; what another profile holds
is not touched by a write (`OtherProfile`). `InstallerNoMix`, `InstallerScriptBacked` and
`InstallerSuccessComplete` follow for any number of runs.

Only model-checked: liveness (`Termination` of `Collect`, `WalksEnd` of the two collectors), which rests on fairness
and ENABLED and is out of the prover's reach; what is proved of the first and of the allocations' `WalksEnd` is that
every step descends. The type visitor has no such order on its sets: a type that is no function enters its memo table only
after its parts, so the end of its recursion rests on the structure of types, over which one would have to
do induction. Every other property of a passing run is a theorem.

## 5. Findings

Each of these has a run whose counterexample shows it, and a quotation in `PROJECT.json`.

* `mir_visitor.rs:104`: of several fields that start at the offset the first listed one is
  taken, so a zero-sized field hides the pointer behind it (`ProvTy_field`): the answer is what that field
  has to say, which is nothing unless it is an empty array.
* `index.rs:161` and `292` against ADR 001, line 44: a string is looked for under the name `str`, and the
  type `str` has the name `Str` in the index, so its text is not shown (`Renderers_strings`).
* `mir_visitor.rs:227` against `schema.rs:30`: a body walked twice is not detected, as the
  walk never inserts an id it knows (`Alloc_rewalk`).
* `mir_visitor.rs:227` against `README.md:60` of the repository, "To compensate for any non-determinism in
  the output, the JSON file is first processed to sort the array contents and remove data which changes": an
  allocation keeps the type of its first visitor, which decides whether its pointers are followed, and
  `util.rs:19` takes the bodies in the order of a hash map. Two runs may list different allocations, which sorting
  does not even out (`Alloc_order`). Line 66 of that file, "Some tests have non-deterministic output and are
  therefore expected to fail", names no cause; this is one.

Also seen in the course of modelling, visible in the definitions named, and without a run:

* `link_map.rs:65` (`update_link_map`): without `LINK_INST` a sighting through a reify shim does not
  record its source in an entry that holds another symbol; `SourcesFaithful` allows for exactly this.
* `link_map.rs:69` (`update_link_map`): the branch for "existing is ReifyShim" also replaces an entry
  that is none, by a later shim of another kind.
* `ty_visitor.rs:137` (`EnterFn`) against `types.rs:138`, "opaque function types (fun ptrs, closures, FnDef) are only
  provided to avoid dangling ty references": function types are never recorded, so a recorded struct with a
  function pointer field refers to a type the output does not have.
* `ty_visitor.rs:130` (`Break`): a coroutine witness is not "traversed to gather the types it
  references"; the walk breaks off there.
* `mir_visitor.rs:159` (`Array`): the offset within an array is dropped, so in an array of structs with
  several pointers every pointer gets the type of the first; `ResolvesPointers` leaves such types out. An array of
  length zero is walked into as if it had an element: as the first of two fields that start at the same byte,
  a `[&u8; 0]` answers for the pointer field behind it, with the pointee of its own elements.
* `util.rs:186` (`name_lines_panics`): a name with a multi-byte character at a cut makes both renderers panic.
* `index.rs:161` (`MemoryDescription`): pointers to strings have `str` in their name, so the bytes of the
  pointer are shown as text if they are ASCII.
* `index.rs:164`, `context.rs` (`Concrete`): uninitialised bytes are dropped before a number is read,
  and negative numbers are shown unsigned.
* `index.rs:476`: the offsets of all elements of an array type are listed, whatever its length.
* `link_map.rs:69` (`Clash`): without `LINK_INST` the last of several symbols with a body stays, so which one is in
  the output depends on the order of the work loop.
* `collect.rs:259` (`sort_key`), "sort output vectors by content-derived keys for deterministic output": memory
  allocations with equal bytes and types with one display form are left in the order of the hash map or of their
  numbers (`Reproducible` allows for exactly this), and what was collected may differ as above.
* `normalise-filter.jq:5` and `21` (`Left`): `alloc_id` is removed from the top level of an allocation only and the
  fields of a union are kept, so golden files hold numbers of the run (of allocations in provenance, of types
  in unions and vtables). `Normalise` compares up to these numbers.
* `printer/mod.rs:72` (`Close`): the `BufWriter` is never flushed, and an error of its last write is lost.
* `driver.rs:47` (`CompileError`): the compiler's result is dropped, so a run that wrote nothing may report success.
* `items.rs:100`: the allocations of a static's initialiser are put in the output without being visited.
* `dot.rs:84` (`DotFnPanics`): a function without a body panics before the branch that draws
  "<empty body>".
* `dot.rs:261` (`CallNode`): unknown callees become one node for each type, not one.
* `d2.rs:131` (`render_d2_call_edges`): call targets are named after symbols and containers after
  display names, so most calls of functions of the crate do not lead to their container.

## 6. Not modelled, and why

* rustc, behind `src/compat`: the environment. Its answers are constants. `compat/types.rs` and
  `compat/spans.rs` are queries without state.
* Text: layout and styles of the graphs, places and operators in labels, JSON encoding, log output.
* Debug details (`fn_sources`, foreign modules, the details of an item): copies of what rustc says.
* `visit_span`: an insertion into a map that nothing reads before the output.
* The hash functions: `short_name`, `block_name` and `hash` are taken to be injective; 64 bit
  collisions are out of the question for a crate.
* The memory that array offsets take (`index.rs:476`), and which allocations a
  static's body shares with its initialiser (`items.rs:100`), which is the compiler's choice.
* The scripts of the UI tests, the polling loop of `check-cachix-pin.sh`, Nix files, workflows
  and test data: shell around git, a web service and the program.

## 7. Plan

Done: every part above that is not listed in section 6; every safety property of a passing run is proved.

1. A termination measure for the type visitor, from a rank on types that falls from a type to its
   parts; the loop of `Collect` and the recursion of `AllocCollector` have theirs.
2. A composition of `Collect` with the collectors (one body walk as many steps) if it
   says more than its parts; `AllocCollector` and `Assemble` for `Ty(0)`.
3. The numbers that `normalise-filter.jq` leaves in, as numbers; and `LinkMap` in several runs, as
   `AllocRuns` has the allocations.
4. The scripts of the UI tests: the worktree that `ensure_rustc_commit.sh` leaves behind, and
   the runner's result files.
