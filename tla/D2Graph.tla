------------------------------- MODULE D2Graph -------------------------------
(***************************************************************************)
(* SmirJson::to_d2_file (src/src/mk_graph/output/d2.rs): the legend of the *)
(* allocations and, item by item, a container for each function, named     *)
(* after its display name, with its blocks and the edges between them,     *)
(* followed by its call edges.  A call edge declares its target, which is  *)
(* named after the symbol of the callee.  In D2 a later declaration of an  *)
(* identifier overrides the look of an earlier.                            *)
(***************************************************************************)
EXTENDS GraphContext

VARIABLES d2_at,       \* 0 before the legend, then the index of the next item
          d2_status,   \* "rendering", "done" or "panicked"
          d2_look,     \* partial function from identifiers to the look they end up with
          d2_labels,   \* set of [id, label]: what is written of blocks and allocations
          d2_edges     \* set of [kind, item, block, exit, from, to]

d2_vars == <<crate, d2_at, d2_status, d2_look, d2_labels, d2_edges>>

D2Item == crate.items[d2_at]

D2Init == /\ d2_at = 0 /\ d2_status = "rendering"
          /\ d2_look = [id \in {} |-> ""] /\ d2_labels = {} /\ d2_edges = {}

Declare(looks, ids, look) ==
  [id \in DOMAIN looks \cup ids |-> IF id \in ids THEN look ELSE looks[id]]

D2Legend == Id("legend", "ALLOCS", 0)

\* The legend is written for a crate without allocations too.
render_d2_allocs_legend ==
  /\ d2_status = "rendering" /\ d2_at = 0
  /\ d2_look' = Declare(d2_look, {D2Legend}, "allocs")
  /\ d2_labels' = {[id |-> D2Legend, label |-> allocs_legend_lines]}
  /\ d2_at' = 1
  /\ UNCHANGED <<crate, d2_status, d2_edges>>

D2Block(item, id) == block_name(item.name, id)

\* render_d2_blocks: the statements, then the terminator
render_d2_blocks(item) ==
  {[id |-> D2Block(item, i - 1),
    label |-> [consts |-> render_stmts(Blocks(item)[i]),
               terminator |-> render_terminator(Blocks(item)[i])]] : i \in DOMAIN Blocks(item)}

ExitEdges(k, i) ==
  LET item == crate.items[k] IN
  {[kind |-> "flow", item |-> k, block |-> i, exit |-> exit,
    from |-> D2Block(item, i - 1), to |-> D2Block(item, exit.to)]
     : exit \in terminator_targets(Blocks(item)[i])}
render_d2_block_edges(k) == UNION {ExitEdges(k, i) : i \in DOMAIN Blocks(crate.items[k])}

\* Fault for the mutation run: calls of qualified names drawn too.
AllCallees(item, i) ==
  IF Blocks(item)[i].kind # "Call" THEN {} ELSE resolve_call_target(Blocks(item)[i].func)

\* The callee a call edge is drawn to, if any
DrawnCallee(item, i) ==
  IF Blocks(item)[i].kind # "Call" THEN {}
  ELSE {f \in resolve_call_target(Blocks(item)[i].func) : is_unqualified(f)}

CallEdges(k, i) ==
  LET item == crate.items[k] IN
  {[kind |-> "call", item |-> k, block |-> i, exit |-> CallExit,
    from |-> D2Block(item, i - 1), to |-> short_name(f)] : f \in DrawnCallee(item, i)}
render_d2_call_edges(k) == UNION {CallEdges(k, i) : i \in DOMAIN Blocks(crate.items[k])}
DrawnCallees(item) == UNION {DrawnCallee(item, i) : i \in DOMAIN Blocks(item)}

\* name_lines runs before anything is written.
D2FnPanics == /\ d2_status = "rendering" /\ d2_at \in DOMAIN crate.items
              /\ IsFn(D2Item) /\ name_lines_panics(D2Item.name)
              /\ d2_status' = "panicked"
              /\ UNCHANGED <<crate, d2_at, d2_look, d2_labels, d2_edges>>

\* render_d2_function: a function without a body is an empty container.
render_d2_function ==
  /\ d2_status = "rendering" /\ d2_at \in DOMAIN crate.items
  /\ IsFn(D2Item) /\ ~name_lines_panics(D2Item.name)
  /\ d2_look' = LET container == Declare(d2_look, {short_name(D2Item.name)}, "function")
                    blocks == {D2Block(D2Item, i - 1) : i \in DOMAIN Blocks(D2Item)}
                    callees == {short_name(f) : f \in DrawnCallees(D2Item)}
                IN Declare(Declare(container, blocks, "block"), callees, "callee")
  /\ d2_labels' = d2_labels \cup render_d2_blocks(D2Item)
  /\ d2_edges' = d2_edges \cup render_d2_block_edges(d2_at) \cup render_d2_call_edges(d2_at)
  /\ d2_at' = d2_at + 1
  /\ UNCHANGED <<crate, d2_status>>

\* render_d2_static, render_d2_asm
D2Other == /\ d2_status = "rendering" /\ d2_at \in DOMAIN crate.items
           /\ ~IsFn(D2Item)
           /\ d2_look' = Declare(d2_look, {short_name(D2Item.name)}, D2Item.kind)
           /\ d2_at' = d2_at + 1
           /\ UNCHANGED <<crate, d2_status, d2_labels, d2_edges>>

D2Done == /\ d2_status = "rendering" /\ d2_at = Len(crate.items) + 1
          /\ d2_status' = "done"
          /\ UNCHANGED <<crate, d2_at, d2_look, d2_labels, d2_edges>>

to_d2_file == render_d2_allocs_legend \/ render_d2_function \/ D2FnPanics \/ D2Other \/ D2Done
=============================================================================
