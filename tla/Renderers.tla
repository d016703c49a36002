------------------------------ MODULE Renderers ------------------------------
(***************************************************************************)
(* The two renderers side by side on one crate (src/src/mk_graph).  They   *)
(* share the context but traverse the bodies each in its own way, so what  *)
(* they draw has to be kept in step by hand.                               *)
(***************************************************************************)
EXTENDS DotGraph, D2Graph

d2_state == <<d2_at, d2_status, d2_look, d2_labels, d2_edges>>
dot_state == <<dot_at, dot_status, dot_nodes, dot_edges>>
vars == <<crate, dot_state, d2_state>>

Init == crate \in Crates /\ DotInit /\ D2Init

Next == \/ to_dot_file /\ UNCHANGED d2_state
        \/ to_d2_file /\ UNCHANGED dot_state

Spec == Init /\ [][Next]_vars

-----------------------------------------------------------------------------
\* The symbols of a crate are unique; display names need not be.
NameOf(symbol) == (CHOOSE item \in ToSet(crate.items) : item.symbol = symbol).name
AsD2(id) == block_name(NameOf(id.name), id.nth)

BothDone == dot_status = "done" /\ d2_status = "done"
Edges(edges, kind) == {e \in edges : e.kind = kind}
KnownTarget(e) == e.to \in {block_name(f, 0) : f \in FunctionNames}

\* An edge as a reader of either graph sees it: the exit of a block, and the call of a name
Flow(e, from, to) == [item |-> e.item, block |-> e.block, exit |-> e.exit, from |-> from, to |-> to]
Called(e, from) == [item |-> e.item, block |-> e.block, from |-> from, callee |-> e.to.name]

\* What each of them says of a block: the constants in order, and the known callee
CallsFrom(id) == {e \in dot_edges : e.kind = "call" /\ e.from = id}
CallLabel(id) == IF CallsFrom(id) = {} THEN <<>> ELSE (CHOOSE e \in CallsFrom(id) : TRUE).label
DotBlockText ==
  {[block |-> AsD2(n.id), consts |-> n.label \o CallLabel(n.id),
    callee |-> {ShortName[e.to.name] : e \in {c \in CallsFrom(n.id) : KnownTarget(c)}}]
     : n \in {m \in dot_nodes : m.look = "block"}}
D2BlockText ==
  {[block |-> t.id, consts |-> t.label.consts \o t.label.terminator.operands,
    callee |-> t.label.terminator.callee] : t \in {u \in d2_labels : u.id # D2Legend}}
Mentioned == UNION {ToSet(c.allocs) : c \in
  UNION {{k \in ToSet(text.consts) : k.form = "refs"} : text \in DotBlockText \cup D2BlockText}}
DotLines(look) == UNION {n.label : n \in {m \in dot_nodes : m.look = look}}
D2Lines == (CHOOSE t \in d2_labels : t.id = D2Legend).label
LocalsShown == UNION {ToSet(n.label) : n \in {m \in dot_nodes : m.look = "locals"}}

\* Type invariant.
TypeOK == /\ crate \in Crates
          /\ {dot_at, d2_at} \subseteq 0..(Len(crate.items) + 1)
          /\ {dot_status, d2_status} \subseteq {"rendering", "done", "panicked"}
          /\ \A n \in dot_nodes :
               n.look \in {"allocs", "types", "locals", "missing", "block", "static", "asm"}
          /\ \A id \in DOMAIN d2_look :
               d2_look[id] \in {"allocs", "function", "block", "callee", "static", "asm"}

\* "callee node/body will be added when its body is added, missing ones added before":
\* every known function ends up as exactly one node, the first block of its body when
\* the crate defines it, and every edge but those to unknown callees ends at a node.
CallsLand ==
  dot_status = "done" =>
    /\ \A f \in FunctionNames :
         {n.look : n \in {m \in dot_nodes : m.id = block_name(f, 0)}}
           = {IF f \in Symbols THEN "block" ELSE "missing"}
    /\ \A e \in dot_edges :
         (e.kind = "flow" \/ KnownTarget(e)) => \E n \in dot_nodes : n.id = e.to

\* The two renderers traverse the bodies each with a match of its own, and draw the same
\* graph: the same control flow, edge by edge; in D2 exactly the calls of known functions
\* with an unqualified name that DOT has; and of every block the same constants in the
\* same order and the same callee, which DOT puts on the call edge.
SameGraph ==
  BothDone =>
    /\ {Flow(e, AsD2(e.from), AsD2(e.to)) : e \in Edges(dot_edges, "flow")}
         = {Flow(e, e.from, e.to) : e \in Edges(d2_edges, "flow")}
    /\ {Called(e, AsD2(e.from)) : e \in {c \in Edges(dot_edges, "call") :
                                            KnownTarget(c) /\ is_unqualified(c.to.name)}}
         = {Called(e, e.from) : e \in Edges(d2_edges, "call")}
    /\ DotBlockText = D2BlockText

\* A reader can look up what a label mentions: an allocation has one line in either
\* legend, with the description the label gives, and a struct, union, enum or tuple among
\* the locals has its size in the legend of types.
LegendExplains ==
  BothDone =>
    /\ \A mention \in Mentioned :
         /\ \E n \in dot_nodes : n.look = "allocs"
                                 /\ Cardinality({i \in DOMAIN n.label : n.label[i] = mention}) = 1
         /\ Cardinality({i \in DOMAIN D2Lines : D2Lines[i] = mention}) = 1
    /\ \A t \in ToSet(crate.types) :
         LET shown == render_type_with_layout(t.ty) IN
         (t.variant \in Composite /\ shown \in LocalsShown) =>
           [name |-> shown.name, size |-> [i \in DOMAIN shown.layout |-> shown.layout[i].size]]
             \in DotLines("types")

-----------------------------------------------------------------------------
(* A statement of the documentation that the code does not keep.           *)

\* ADR 001, line 44: "Constants show provenance references with decoded values (strings as
\* ASCII, integers as numeric values)": an initialised ASCII string is described by its text.
ConstantsDecoded ==
  d2_status = "done" =>
    \A a \in ToSet(crate.allocs) :
      (Display[a.ty] = "str" /\ a.kind = "Memory" /\ \A b \in ToSet(a.bytes) : b # Uninit /\ IsAscii(b))
        => \E i \in DOMAIN D2Lines : /\ D2Lines[i].id = a.id
                                     /\ D2Lines[i].description[1].form = "text"
=============================================================================
