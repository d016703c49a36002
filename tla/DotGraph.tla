------------------------------ MODULE DotGraph ------------------------------
(***************************************************************************)
(* SmirJson::to_dot_file (src/src/mk_graph/output/dot.rs): the legends,    *)
(* one node for every function the crate does not define, then, item by    *)
(* item, a node for its locals and for each block, edges between the       *)
(* blocks of a function, and edges from the calls to the first block of    *)
(* the callee, labelled with the arguments.                                *)
(***************************************************************************)
EXTENDS GraphContext

VARIABLES dot_at,      \* 0 before the missing functions, then the index of the next item
          dot_status,  \* "rendering", "done" or "panicked"
          dot_nodes,   \* set of [id, look, label]
          dot_edges    \* set of [kind, item, block, exit, from, to, label]: the edge for
                       \* an exit, or for the call, of a block of an item

dot_vars == <<crate, dot_at, dot_status, dot_nodes, dot_edges>>

DotItem == crate.items[dot_at]

DotInit == dot_at = 0 /\ dot_status = "rendering" /\ dot_nodes = {} /\ dot_edges = {}

\* Fault for the mutation run: display names for symbol names.
MissingByName == FunctionNames \ {item.name : item \in ToSet(crate.items)}

Missing == FunctionNames \ Symbols

DotPanic == dot_status' = "panicked" /\ UNCHANGED <<crate, dot_at, dot_nodes, dot_edges>>

\* Fault for the mutation run: a legend of one line counted as its header.
LegendOfMany ==
  (IF Len(crate.allocs) > 1
   THEN {[id |-> Id("legend", "ALLOCS", 0), look |-> "allocs", label |-> allocs_legend_lines]} ELSE {})
  \cup (IF Cardinality(types_legend_lines) > 1
        THEN {[id |-> Id("legend", "TYPES", 0), look |-> "types", label |-> types_legend_lines]} ELSE {})

\* The legends, each only if it has lines besides its header
Legends ==
  (IF crate.allocs # <<>>
   THEN {[id |-> Id("legend", "ALLOCS", 0), look |-> "allocs", label |-> allocs_legend_lines]} ELSE {})
  \cup (IF types_legend_lines # {}
        THEN {[id |-> Id("legend", "TYPES", 0), look |-> "types", label |-> types_legend_lines]} ELSE {})

\* The legends and the nodes of the functions that are not in the items list
AddMissing ==
  /\ dot_status = "rendering" /\ dot_at = 0
  /\ IF \E f \in Missing : name_lines_panics(f) THEN DotPanic
     ELSE /\ dot_nodes' = Legends
               \cup {[id |-> block_name(f, 0), look |-> "missing", label |-> <<>>] : f \in Missing}
          /\ dot_at' = 1
          /\ UNCHANGED <<crate, dot_status, dot_edges>>

\* Fault for the mutation run: the cleanup edge of inline assembly left out.
NoAsmCleanup(block) ==
  CASE block.kind \in {"Goto", "SwitchInt", "InlineAsm"} -> Exits("target", block.targets)
    [] block.kind \in {"Drop", "Call", "Assert"} ->
         Exits("cleanup", block.cleanup) \cup Exits("target", block.targets)
    [] OTHER -> {}

\* process_block has its own match over the terminators.
process_block(block) ==
  CASE block.kind \in {"Goto", "SwitchInt"} -> Exits("target", block.targets)
    [] block.kind \in {"Drop", "Call", "Assert"} ->
         Exits("cleanup", block.cleanup) \cup Exits("target", block.targets)
    [] block.kind = "InlineAsm" -> Exits("target", block.targets) \cup Exits("cleanup", block.cleanup)
    [] OTHER -> {}

FlowEdges(k, i) ==
  LET item == crate.items[k] IN
  {[kind |-> "flow", item |-> k, block |-> i, exit |-> exit,
    from |-> block_name(item.symbol, i - 1), to |-> block_name(item.symbol, exit.to), label |-> <<>>]
     : exit \in process_block(Blocks(item)[i])}
DotFlow(k) == UNION {FlowEdges(k, i) : i \in DOMAIN Blocks(crate.items[k])}

\* Its label: the arguments of a call are on the call edge.
DotLabel(block) ==
  render_stmts(block)
    \o (IF block.kind \in {"SwitchInt", "Assert"} THEN Rendered(block.operands) ELSE <<>>)

DotBlocks(item) ==
  {[id |-> block_name(item.symbol, i - 1), look |-> "block", label |-> DotLabel(Blocks(item)[i])]
     : i \in DOMAIN Blocks(item)}
Locals(item) ==
  [id |-> Id("locals", item.symbol, 0), look |-> "locals",
   label |-> [i \in DOMAIN item.locals |-> render_type_with_layout(item.locals[i])]]

\* add_call_edges: a call of an unknown constant goes to a node named after its type,
\* a call through a place to a node of its own.
CallNode(item, i) ==
  LET func == Blocks(item)[i].func IN
  IF func.op = "place" THEN Id("place", item.symbol, i - 1)
  ELSE IF IsKnown(func.ty) THEN block_name(FunctionName(func.ty), 0)
  ELSE Id("unknown", func.ty, 0)
Calls(item) == {i \in DOMAIN Blocks(item) : Blocks(item)[i].kind = "Call"}
add_call_edges(k) ==
  LET item == crate.items[k] IN
  {[kind |-> "call", item |-> k, block |-> i, exit |-> CallExit,
    from |-> block_name(item.symbol, i - 1), to |-> CallNode(item, i),
    label |-> Rendered(Blocks(item)[i].operands)] : i \in Calls(item)}

\* A function whose name cannot be cut, or without a body: body.clone().unwrap() comes
\* before the match that would draw "<empty body>".
DotFnPanics == /\ dot_status = "rendering" /\ dot_at \in DOMAIN crate.items
               /\ IsFn(DotItem) /\ (name_lines_panics(DotItem.name) \/ ~HasBody(DotItem))
               /\ DotPanic

DotFn ==
  /\ dot_status = "rendering" /\ dot_at \in DOMAIN crate.items
  /\ IsFn(DotItem) /\ ~name_lines_panics(DotItem.name) /\ HasBody(DotItem)
  /\ dot_nodes' = dot_nodes \cup {Locals(DotItem)} \cup DotBlocks(DotItem)
  /\ dot_edges' = dot_edges \cup DotFlow(dot_at) \cup add_call_edges(dot_at)
  /\ dot_at' = dot_at + 1
  /\ UNCHANGED <<crate, dot_status>>

\* Fault for the mutation run: the item after a static is left out.
StepsOver == /\ dot_status = "rendering" /\ dot_at \in DOMAIN crate.items
             /\ ~IsFn(DotItem)
             /\ dot_nodes' = dot_nodes \cup {[id |-> short_name(DotItem.name), look |-> DotItem.kind,
                                               label |-> <<>>]}
             /\ dot_at' = dot_at + 2
             /\ UNCHANGED <<crate, dot_status, dot_edges>>

\* Statics and global assembly: one node
DotOther == /\ dot_status = "rendering" /\ dot_at \in DOMAIN crate.items
            /\ ~IsFn(DotItem)
            /\ dot_nodes' = dot_nodes \cup {[id |-> short_name(DotItem.name), look |-> DotItem.kind,
                                               label |-> <<>>]}
            /\ dot_at' = dot_at + 1
            /\ UNCHANGED <<crate, dot_status, dot_edges>>

DotDone == /\ dot_status = "rendering" /\ dot_at = Len(crate.items) + 1
           /\ dot_status' = "done"
           /\ UNCHANGED <<crate, dot_at, dot_nodes, dot_edges>>

to_dot_file == AddMissing \/ DotFn \/ DotFnPanics \/ DotOther \/ DotDone
=============================================================================
