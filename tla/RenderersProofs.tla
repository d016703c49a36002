--------------------------- MODULE RenderersProofs ---------------------------
(***************************************************************************)
(* What the two renderers draw, for every crate.  The invariant says that  *)
(* each of them has drawn the legend and then exactly the nodes and edges  *)
(* of the items before the next; what a reader relies on when both are     *)
(* done is a fact about these nodes and edges.                             *)
(***************************************************************************)
EXTENDS Renderers, SequenceTheorems, FiniteSetTheorems, WellFoundedInduction, TLAPS

Items == 1..Len(crate.items)

MissingNodes == {[id |-> block_name(f, 0), look |-> "missing", label |-> <<>>] : f \in Missing}
DotNodesOf(k) ==
  LET item == crate.items[k] IN
  IF IsFn(item) THEN {Locals(item)} \cup DotBlocks(item)
  ELSE {[id |-> short_name(item.name), look |-> item.kind, label |-> <<>>]}
DotEdgesOf(k) == IF IsFn(crate.items[k]) THEN DotFlow(k) \cup add_call_edges(k) ELSE {}

D2LabelsOf(k) == IF IsFn(crate.items[k]) THEN render_d2_blocks(crate.items[k]) ELSE {}
D2EdgesOf(k) ==
  IF IsFn(crate.items[k]) THEN render_d2_block_edges(k) \cup render_d2_call_edges(k) ELSE {}

\* What the DOT renderer has drawn
DotDrawn ==
  /\ dot_at \in 0..(Len(crate.items) + 1)
  /\ dot_status \in {"rendering", "done", "panicked"}
  /\ dot_status = "done" => dot_at = Len(crate.items) + 1
  /\ dot_nodes = IF dot_at = 0 THEN {}
                 ELSE Legends \cup MissingNodes \cup (UNION {DotNodesOf(k) : k \in 1..(dot_at - 1)})
  /\ dot_edges = UNION {DotEdgesOf(k) : k \in 1..(dot_at - 1)}
  /\ \A k \in 1..(dot_at - 1) : IsFn(crate.items[k]) => HasBody(crate.items[k])

\* What the D2 renderer has drawn
D2Drawn ==
  /\ d2_at \in 0..(Len(crate.items) + 1)
  /\ d2_status \in {"rendering", "done", "panicked"}
  /\ d2_status = "done" => d2_at = Len(crate.items) + 1
  /\ \A id \in DOMAIN d2_look : d2_look[id] \in {"allocs", "function", "block", "callee", "static", "asm"}
  /\ d2_labels = IF d2_at = 0 THEN {}
                 ELSE {[id |-> D2Legend, label |-> allocs_legend_lines]}
                        \cup (UNION {D2LabelsOf(k) : k \in 1..(d2_at - 1)})
  /\ d2_edges = UNION {D2EdgesOf(k) : k \in 1..(d2_at - 1)}

IInv == crate \in Crates /\ DotDrawn /\ D2Drawn

-----------------------------------------------------------------------------
(* Lemmas on the crate                                                     *)

LEMMA ItemFacts ==
  ASSUME crate \in Crates
  PROVE  /\ Len(crate.items) \in Nat
         /\ DOMAIN crate.items = Items
         /\ \A k \in Items :
              /\ crate.items[k] \in ToSet(crate.items)
              /\ crate.items[k].kind \in {"fn", "static", "asm"}
              /\ crate.items[k].symbol \in Symbols
         /\ \A j, k \in Items : crate.items[j].symbol = crate.items[k].symbol => j = k
<1>1. crate.items \in Seq(ToSet(crate.items))
  BY BodiesAssumption DEF IsSeq
<1>2. Len(crate.items) \in Nat /\ DOMAIN crate.items = Items
  BY <1>1 DEF Items
<1>3. ASSUME NEW k \in Items
      PROVE  /\ crate.items[k] \in ToSet(crate.items)
             /\ crate.items[k].kind \in {"fn", "static", "asm"}
             /\ crate.items[k].symbol \in Symbols
  <2>1. crate.items[k] \in ToSet(crate.items)
    BY <1>2 DEF ToSet
  <2> QED
    BY <2>1, BodiesAssumption DEF Symbols
<1>4. \A j, k \in Items : crate.items[j].symbol = crate.items[k].symbol => j = k
  BY <1>2, BodiesAssumption
<1> QED
  BY <1>2, <1>3, <1>4

LEMMA SymbolItem ==
  ASSUME crate \in Crates, NEW s \in Symbols
  PROVE  \E k \in Items : crate.items[k].symbol = s
<1>1. PICK item \in ToSet(crate.items) : item.symbol = s
  BY DEF Symbols
<1>2. PICK k \in DOMAIN crate.items : crate.items[k] = item
  BY DEF ToSet
<1> QED
  BY <1>1, <1>2, ItemFacts

\* The name found for a symbol is that of the only item with the symbol.
LEMMA NameOfItem ==
  ASSUME crate \in Crates, NEW k \in Items
  PROVE  NameOf(crate.items[k].symbol) = crate.items[k].name
<1> DEFINE chosen == CHOOSE item \in ToSet(crate.items) : item.symbol = crate.items[k].symbol
<1>1. chosen \in ToSet(crate.items) /\ chosen.symbol = crate.items[k].symbol
  BY ItemFacts
<1>2. PICK j \in DOMAIN crate.items : crate.items[j] = chosen
  BY <1>1 DEF ToSet
<1>3. j = k
  BY <1>1, <1>2, ItemFacts
<1> QED
  BY <1>2, <1>3 DEF NameOf

\* The blocks of a body, and where their exits lead
LEMMA BlockFacts ==
  ASSUME crate \in Crates, NEW k \in Items, HasBody(crate.items[k])
  PROVE  LET blocks == Blocks(crate.items[k]) IN
         /\ Len(blocks) \in Nat \ {0}
         /\ DOMAIN blocks = 1..Len(blocks)
         /\ \A i \in DOMAIN blocks :
              /\ IsSeq(blocks[i].consts) /\ IsSeq(blocks[i].operands)
              /\ blocks[i].kind = "Call" => blocks[i].func.op \in {"const", "place"}
              /\ ToSet(blocks[i].targets) \cup ToSet(blocks[i].cleanup) \subseteq 0..(Len(blocks) - 1)
              /\ \A const \in ToSet(blocks[i].consts) \cup ToSet(blocks[i].operands) :
                   const.kind = "Allocated" =>
                     ToSet(const.ptrs) \subseteq {a.id : a \in ToSet(crate.allocs)}
<1> DEFINE blocks == Blocks(crate.items[k])
<1>1. blocks = crate.items[k].body[1] /\ crate.items[k].body # <<>>
  BY DEF Blocks, HasBody
<1>2. crate.items[k] \in ToSet(crate.items)
  BY ItemFacts
<1>3. IsSeq(blocks) /\ blocks # <<>>
  BY <1>1, <1>2, BodiesAssumption
<1>4. Len(blocks) \in Nat \ {0} /\ DOMAIN blocks = 1..Len(blocks)
  <2> HIDE DEF blocks
  <2>1. blocks \in Seq(ToSet(blocks))
    BY <1>3 DEF IsSeq
  <2> QED
    BY <2>1, <1>3
<1>5. ASSUME NEW i \in DOMAIN blocks
      PROVE  blocks[i] \in ToSet(crate.items[k].body[1])
  BY <1>1 DEF ToSet
<1> QED
  BY <1>1, <1>2, <1>4, <1>5, BodiesAssumption

\* The two matches over the terminators draw the same exits.
LEMMA SameExits ==
  ASSUME NEW block
  PROVE  process_block(block) = terminator_targets(block)
BY DEF process_block, terminator_targets

\* An exit leads to a block.
LEMMA ExitsLand ==
  ASSUME crate \in Crates, NEW k \in Items, HasBody(crate.items[k]),
         NEW i \in DOMAIN Blocks(crate.items[k]),
         NEW exit \in process_block(Blocks(crate.items[k])[i])
  PROVE  exit.to + 1 \in DOMAIN Blocks(crate.items[k]) /\ exit.to \in Nat
<1> DEFINE block == Blocks(crate.items[k])[i]
           n == Len(Blocks(crate.items[k]))
<1>1. exit \in Exits("target", block.targets) \cup Exits("cleanup", block.cleanup)
  BY DEF process_block
<1>2. exit.to \in ToSet(block.targets) \cup ToSet(block.cleanup)
  BY <1>1 DEF Exits, ToSet
<1>3. exit.to \in 0..(n - 1) /\ n \in Nat /\ DOMAIN Blocks(crate.items[k]) = 1..n
  BY <1>2, BlockFacts
<1> QED
  BY <1>3

-----------------------------------------------------------------------------
(* What is drawn when a renderer is done                                   *)

LEMMA DotIsDrawn ==
  ASSUME IInv, dot_status = "done"
  PROVE  /\ dot_nodes = Legends \cup MissingNodes \cup (UNION {DotNodesOf(k) : k \in Items})
         /\ dot_edges = UNION {DotEdgesOf(k) : k \in Items}
         /\ \A k \in Items : IsFn(crate.items[k]) => HasBody(crate.items[k])
<1>1. Len(crate.items) \in Nat
  BY ItemFacts DEF IInv
<1>2. dot_at = Len(crate.items) + 1
  BY DEF IInv, DotDrawn
<1>3. dot_at # 0 /\ 1..(dot_at - 1) = Items
  BY <1>1, <1>2 DEF Items
<1> QED
  BY <1>3 DEF IInv, DotDrawn

LEMMA D2IsDrawn ==
  ASSUME IInv, d2_status = "done"
  PROVE  /\ d2_labels = {[id |-> D2Legend, label |-> allocs_legend_lines]}
                          \cup (UNION {D2LabelsOf(k) : k \in Items})
         /\ d2_edges = UNION {D2EdgesOf(k) : k \in Items}
<1>1. Len(crate.items) \in Nat
  BY ItemFacts DEF IInv
<1>2. d2_at = Len(crate.items) + 1
  BY DEF IInv, D2Drawn
<1>3. d2_at # 0 /\ 1..(d2_at - 1) = Items
  BY <1>1, <1>2 DEF Items
<1> QED
  BY <1>3 DEF IInv, D2Drawn

BlockNode(k, i) ==
  [id |-> block_name(crate.items[k].symbol, i - 1), look |-> "block",
   label |-> DotLabel(Blocks(crate.items[k])[i])]

\* The nodes that look like a block are the blocks of the functions.
LEMMA BlockNodes ==
  ASSUME IInv, dot_status = "done", NEW n
  PROVE  (n \in dot_nodes /\ n.look = "block") <=>
           \E k \in Items : /\ IsFn(crate.items[k])
                            /\ \E i \in DOMAIN Blocks(crate.items[k]) : n = BlockNode(k, i)
<1>1. ASSUME NEW k \in Items, IsFn(crate.items[k]),
             NEW i \in DOMAIN Blocks(crate.items[k]), n = BlockNode(k, i)
      PROVE  n \in dot_nodes /\ n.look = "block"
  <2>1. n \in DotBlocks(crate.items[k])
    BY <1>1 DEF BlockNode, DotBlocks
  <2>2. n \in DotNodesOf(k)
    BY <1>1, <2>1 DEF DotNodesOf
  <2>3. n \in dot_nodes
    BY <2>2, DotIsDrawn
  <2> QED
    BY <2>3, <1>1 DEF BlockNode
<1>2. ASSUME n \in dot_nodes, n.look = "block"
      PROVE  \E k \in Items : /\ IsFn(crate.items[k])
                              /\ \E i \in DOMAIN Blocks(crate.items[k]) : n = BlockNode(k, i)
  <2>1. n \in Legends \/ n \in MissingNodes \/ \E k \in Items : n \in DotNodesOf(k)
    BY <1>2, DotIsDrawn
  <2>2. n \notin Legends /\ n \notin MissingNodes
    BY <1>2 DEF Legends, MissingNodes
  <2>3. PICK k \in Items : n \in DotNodesOf(k)
    BY <2>1, <2>2
  <2>4. crate.items[k].kind # "block"
    BY ItemFacts DEF IInv
  <2>5. IsFn(crate.items[k]) /\ n # Locals(crate.items[k])
    BY <1>2, <2>3, <2>4 DEF DotNodesOf, Locals
  <2>6. n \in DotBlocks(crate.items[k])
    BY <2>3, <2>5 DEF DotNodesOf
  <2> QED
    BY <2>5, <2>6 DEF DotBlocks, BlockNode
<1> QED
  BY <1>1, <1>2

FlowEdge(k, i, exit) ==
  [kind |-> "flow", item |-> k, block |-> i, exit |-> exit,
   from |-> block_name(crate.items[k].symbol, i - 1),
   to |-> block_name(crate.items[k].symbol, exit.to), label |-> <<>>]
CallEdge(k, i) ==
  [kind |-> "call", item |-> k, block |-> i, exit |-> CallExit,
   from |-> block_name(crate.items[k].symbol, i - 1), to |-> CallNode(crate.items[k], i),
   label |-> Rendered(Blocks(crate.items[k])[i].operands)]

LEMMA DotEdgeCases ==
  ASSUME IInv, dot_status = "done", NEW e
  PROVE  /\ (e \in Edges(dot_edges, "flow")) <=>
              \E k \in Items : \E i \in DOMAIN Blocks(crate.items[k]) :
                /\ IsFn(crate.items[k])
                /\ \E exit \in process_block(Blocks(crate.items[k])[i]) : e = FlowEdge(k, i, exit)
         /\ (e \in Edges(dot_edges, "call")) <=>
              \E k \in Items : \E i \in Calls(crate.items[k]) :
                IsFn(crate.items[k]) /\ e = CallEdge(k, i)
<1>1. e \in dot_edges <=>
        \E k \in Items : IsFn(crate.items[k]) /\ (e \in DotFlow(k) \/ e \in add_call_edges(k))
  BY DotIsDrawn DEF DotEdgesOf
<1>2. \A k : e \in DotFlow(k) <=>
        \E i \in DOMAIN Blocks(crate.items[k]) :
          \E exit \in process_block(Blocks(crate.items[k])[i]) : e = FlowEdge(k, i, exit)
  BY DEF DotFlow, FlowEdges, FlowEdge
<1>3. \A k : e \in add_call_edges(k) <=> \E i \in Calls(crate.items[k]) : e = CallEdge(k, i)
  BY DEF add_call_edges, CallEdge
<1>4. \A k, i, exit : FlowEdge(k, i, exit).kind = "flow"
  BY DEF FlowEdge
<1>5. \A k, i : CallEdge(k, i).kind = "call"
  BY DEF CallEdge
<1>6. e \in Edges(dot_edges, "flow") <=> e \in dot_edges /\ e.kind = "flow"
  BY DEF Edges
<1>7. e \in Edges(dot_edges, "call") <=> e \in dot_edges /\ e.kind = "call"
  BY DEF Edges
<1>8. (\E k \in Items : IsFn(crate.items[k]) /\ e \in DotFlow(k)) => e.kind = "flow"
  BY <1>2, <1>4
<1>9. (\E k \in Items : IsFn(crate.items[k]) /\ e \in add_call_edges(k)) => e.kind = "call"
  BY <1>3, <1>5
<1>10. e \in Edges(dot_edges, "flow") <=> \E k \in Items : IsFn(crate.items[k]) /\ e \in DotFlow(k)
  BY <1>1, <1>6, <1>8, <1>9
<1>11. e \in Edges(dot_edges, "call") <=> \E k \in Items : IsFn(crate.items[k]) /\ e \in add_call_edges(k)
  BY <1>1, <1>7, <1>8, <1>9
<1> QED
  BY <1>2, <1>3, <1>10, <1>11

D2Flow(k, i, exit) ==
  [kind |-> "flow", item |-> k, block |-> i, exit |-> exit,
   from |-> D2Block(crate.items[k], i - 1), to |-> D2Block(crate.items[k], exit.to)]
D2Call(k, i, f) ==
  [kind |-> "call", item |-> k, block |-> i, exit |-> CallExit,
   from |-> D2Block(crate.items[k], i - 1), to |-> short_name(f)]

LEMMA D2EdgeCases ==
  ASSUME IInv, d2_status = "done", NEW e
  PROVE  /\ (e \in Edges(d2_edges, "flow")) <=>
              \E k \in Items : \E i \in DOMAIN Blocks(crate.items[k]) :
                /\ IsFn(crate.items[k])
                /\ \E exit \in terminator_targets(Blocks(crate.items[k])[i]) : e = D2Flow(k, i, exit)
         /\ (e \in Edges(d2_edges, "call")) <=>
              \E k \in Items : \E i \in DOMAIN Blocks(crate.items[k]) :
                /\ IsFn(crate.items[k])
                /\ \E f \in DrawnCallee(crate.items[k], i) : e = D2Call(k, i, f)
<1>1. e \in d2_edges <=>
        \E k \in Items : IsFn(crate.items[k])
                         /\ (e \in render_d2_block_edges(k) \/ e \in render_d2_call_edges(k))
  BY D2IsDrawn DEF D2EdgesOf
<1>2. \A k : e \in render_d2_block_edges(k) <=>
        \E i \in DOMAIN Blocks(crate.items[k]) :
          \E exit \in terminator_targets(Blocks(crate.items[k])[i]) : e = D2Flow(k, i, exit)
  BY DEF render_d2_block_edges, ExitEdges, D2Flow
<1>3. \A k : e \in render_d2_call_edges(k) <=>
        \E i \in DOMAIN Blocks(crate.items[k]) :
          \E f \in DrawnCallee(crate.items[k], i) : e = D2Call(k, i, f)
  BY DEF render_d2_call_edges, CallEdges, D2Call
<1>4. \A k, i, exit : D2Flow(k, i, exit).kind = "flow"
  BY DEF D2Flow
<1>5. \A k, i, f : D2Call(k, i, f).kind = "call"
  BY DEF D2Call
<1>6. e \in Edges(d2_edges, "flow") <=> e \in d2_edges /\ e.kind = "flow"
  BY DEF Edges
<1>7. e \in Edges(d2_edges, "call") <=> e \in d2_edges /\ e.kind = "call"
  BY DEF Edges
<1>8. (\E k \in Items : IsFn(crate.items[k]) /\ e \in render_d2_block_edges(k)) => e.kind = "flow"
  BY <1>2, <1>4
<1>9. (\E k \in Items : IsFn(crate.items[k]) /\ e \in render_d2_call_edges(k)) => e.kind = "call"
  BY <1>3, <1>5
<1>10. e \in Edges(d2_edges, "flow") <=>
         \E k \in Items : IsFn(crate.items[k]) /\ e \in render_d2_block_edges(k)
  BY <1>1, <1>6, <1>8, <1>9
<1>11. e \in Edges(d2_edges, "call") <=>
         \E k \in Items : IsFn(crate.items[k]) /\ e \in render_d2_call_edges(k)
  BY <1>1, <1>7, <1>8, <1>9
<1> QED
  BY <1>2, <1>3, <1>10, <1>11

-----------------------------------------------------------------------------
(* Callees                                                                 *)

LEMMA LargestNat ==
  ASSUME NEW n \in Nat, NEW S, S \subseteq 1..n, S # {}
  PROVE  Max(S) \in S
<1> DEFINE R == {ss \in Nat \X Nat : ss[1] < ss[2]}
           T == {d \in Nat : \E x \in S : d = n - x}
<1>1. IsWellFoundedOn(R, Nat)
  BY NatLessThanWellFounded DEF OpToRel
<1>2. T \subseteq Nat /\ T # {}
  <2>1. PICK x \in S : TRUE
    OBVIOUS
  <2>2. n - x \in T
    BY <2>1
  <2> QED
    BY <2>2
<1>3. PICK d \in T : \A e \in T : ~ (<<e, d>> \in R)
  <2> HIDE DEF R, T
  <2> QED
    BY <1>1, <1>2, WFMin
<1>4. \A e \in T : ~ (e < d)
  BY <1>3
<1>5. PICK x \in S : d = n - x
  BY <1>3
<1>6. \A y \in S : x >= y
  <2> SUFFICES ASSUME NEW y \in S PROVE x >= y
    OBVIOUS
  <2>1. n - y \in T
    OBVIOUS
  <2>2. ~ (n - y < n - x)
    BY <2>1, <1>4, <1>5
  <2>3. x \in 1..n /\ y \in 1..n
    BY <1>5
  <2> HIDE DEF T, R
  <2> QED
    BY <2>2, <2>3
<1> HIDE DEF T, R
<1> QED
  BY <1>5, <1>6 DEF Max

\* The name of a known type is that of one of its entries.
LEMMA NameOfEntry ==
  ASSUME crate \in Crates, NEW ty, IsKnown(ty)
  PROVE  /\ ty \in FnTypes
         /\ FunctionName(ty) \in FunctionNames
         /\ \E f \in ToSet(crate.functions) : f.ty = ty /\ f.name = FunctionName(ty)
<1>1. crate.functions \in Seq(ToSet(crate.functions))
  BY BodiesAssumption DEF IsSeq
<1>2. Len(crate.functions) \in Nat /\ DOMAIN crate.functions = 1..Len(crate.functions)
  BY <1>1
<1>3. EntriesOf(ty) \subseteq 1..Len(crate.functions) /\ EntriesOf(ty) # {}
  BY <1>2 DEF EntriesOf, IsKnown
<1>4. Max(EntriesOf(ty)) \in EntriesOf(ty)
  BY <1>2, <1>3, LargestNat
<1> DEFINE f == crate.functions[Max(EntriesOf(ty))]
<1>5. f \in ToSet(crate.functions) /\ f.ty = ty
  BY <1>4 DEF EntriesOf, ToSet
<1>6. f.name = FunctionName(ty)
  BY DEF FunctionName
<1>7. ty \in FnTypes
  BY <1>5, BodiesAssumption
<1>8. FunctionName(ty) \in FunctionNames
  BY <1>5 DEF FunctionNames
<1> QED
  BY <1>5, <1>6, <1>7, <1>8

\* A function the map knows and the crate defines is a function of the crate.
LEMMA DefinedCallee ==
  ASSUME crate \in Crates, NEW f \in FunctionNames, f \in Symbols
  PROVE  \E k \in Items : crate.items[k].symbol = f /\ IsFn(crate.items[k])
<1>1. PICK g \in ToSet(crate.functions) : f = FunctionName(g.ty)
  BY DEF FunctionNames
<1>2. PICK i \in DOMAIN crate.functions : crate.functions[i] = g
  BY DEF ToSet
<1>3. IsKnown(g.ty)
  BY <1>2 DEF IsKnown, EntriesOf
<1>4. PICK h \in ToSet(crate.functions) : h.name = f
  BY <1>1, <1>3, NameOfEntry
<1>5. PICK k \in Items : crate.items[k].symbol = f
  BY SymbolItem
<1>6. crate.items[k].kind = "fn"
  BY <1>4, <1>5, ItemFacts, BodiesAssumption
<1> QED
  BY <1>5, <1>6 DEF IsFn

LEMMA KnownTargetIsBlock ==
  ASSUME NEW e, KnownTarget(e)
  PROVE  e.to.of = "block"
<1>1. PICK f \in FunctionNames : e.to = block_name(f, 0)
  BY DEF KnownTarget
<1> QED
  BY <1>1 DEF block_name, Id

\* The two ways to find the callee of a call agree on what is known of it.
LEMMA KnownCallee ==
  ASSUME crate \in Crates, NEW k \in Items, HasBody(crate.items[k]), NEW i \in Calls(crate.items[k])
  PROVE  LET func == Blocks(crate.items[k])[i].func IN
         /\ KnownTarget(CallEdge(k, i)) => resolve_call_target(func) = {CallEdge(k, i).to.name}
         /\ ~KnownTarget(CallEdge(k, i)) => resolve_call_target(func) = {}
<1> DEFINE func == Blocks(crate.items[k])[i].func
           target == CallNode(crate.items[k], i)
<1>1. func.op \in {"const", "place"}
  BY BlockFacts DEF Calls
<1>2. CallEdge(k, i).to = target
  BY DEF CallEdge
<1>3. CASE func.op = "place"
  <2>1. target.of = "place"
    BY <1>3 DEF CallNode, Id
  <2>2. ~KnownTarget(CallEdge(k, i))
    BY <2>1, <1>2, KnownTargetIsBlock
  <2>3. resolve_call_target(func) = {}
    BY <1>3 DEF resolve_call_target
  <2> QED
    BY <2>2, <2>3
<1>4. CASE func.op = "const" /\ ~IsKnown(func.ty)
  <2>1. target.of = "unknown"
    BY <1>4 DEF CallNode, Id
  <2>2. ~KnownTarget(CallEdge(k, i))
    BY <2>1, <1>2, KnownTargetIsBlock
  <2>3. resolve_call_target(func) = {}
    BY <1>4 DEF resolve_call_target
  <2> QED
    BY <2>2, <2>3
<1>5. CASE func.op = "const" /\ IsKnown(func.ty)
  <2>1. target = block_name(FunctionName(func.ty), 0)
    BY <1>5 DEF CallNode
  <2>2. func.ty \in FnTypes /\ FunctionName(func.ty) \in FunctionNames
    BY <1>5, NameOfEntry
  <2>3. KnownTarget(CallEdge(k, i))
    BY <2>1, <2>2, <1>2 DEF KnownTarget
  <2>4. target.name = FunctionName(func.ty)
    BY <2>1 DEF block_name, Id
  <2>5. resolve_call_target(func) = {FunctionName(func.ty)}
    BY <2>2, <1>5 DEF resolve_call_target
  <2> QED
    BY <2>3, <2>4, <2>5, <1>2
<1> QED
  BY <1>1, <1>3, <1>4, <1>5

\* Every known function ends up as one node, of the look that says where it is.
LEMMA OneNode ==
  ASSUME IInv, dot_status = "done", NEW f \in FunctionNames
  PROVE  {n.look : n \in {m \in dot_nodes : m.id = block_name(f, 0)}}
           = {IF f \in Symbols THEN "block" ELSE "missing"}
<1> DEFINE look == IF f \in Symbols THEN "block" ELSE "missing"
<1>0. crate \in Crates
  BY DEF IInv
<1>1. ASSUME NEW n \in dot_nodes, n.id = block_name(f, 0)
      PROVE  n.look = look
  <2>1. n.id.of = "block" /\ n.id.name = f
    BY <1>1 DEF block_name, Id
  <2>2. CASE n \in Legends
    <3>1. n.id.of = "legend"
      BY <2>2 DEF Legends, Id
    <3> QED
      BY <3>1, <2>1
  <2>3. CASE n \in MissingNodes
    <3>1. PICK g \in Missing : n = [id |-> block_name(g, 0), look |-> "missing", label |-> <<>>]
      BY <2>3 DEF MissingNodes
    <3>2. g = f
      BY <3>1, <2>1 DEF block_name, Id
    <3> QED
      BY <3>1, <3>2 DEF Missing
  <2>4. ASSUME NEW k \in Items, n \in DotNodesOf(k)
        PROVE  n.look = look
    <3>1. crate.items[k].symbol \in Symbols
      BY <1>0, ItemFacts
    <3>2. n # Locals(crate.items[k])
      BY <2>1 DEF Locals, Id
    <3>3. ~IsFn(crate.items[k]) => n.id.of = "name"
      BY <2>4 DEF DotNodesOf, short_name, Id
    <3>4. n \in DotBlocks(crate.items[k])
      BY <2>4, <3>2, <3>3, <2>1 DEF DotNodesOf
    <3>5. n.look = "block" /\ n.id.name = crate.items[k].symbol
      BY <3>4 DEF DotBlocks, block_name, Id
    <3> QED
      BY <3>1, <3>5, <2>1
  <2> QED
    BY <2>2, <2>3, <2>4, DotIsDrawn
<1>2. \E n \in dot_nodes : n.id = block_name(f, 0)
  <2>1. CASE f \in Symbols
    <3>1. PICK k \in Items : crate.items[k].symbol = f /\ IsFn(crate.items[k])
      BY <1>0, <2>1, DefinedCallee
    <3>2. 1 \in DOMAIN Blocks(crate.items[k])
      BY <1>0, <3>1, DotIsDrawn, BlockFacts
    <3>3. BlockNode(k, 1) \in dot_nodes
      BY <3>1, <3>2, BlockNodes
    <3>4. BlockNode(k, 1).id = block_name(f, 0)
      BY <3>1 DEF BlockNode
    <3> QED
      BY <3>3, <3>4
  <2>2. CASE f \notin Symbols
    <3>1. [id |-> block_name(f, 0), look |-> "missing", label |-> <<>>] \in MissingNodes
      BY <2>2 DEF MissingNodes, Missing
    <3> QED
      BY <3>1, DotIsDrawn
  <2> QED
    BY <2>1, <2>2
<1> QED
  BY <1>1, <1>2

LEMMA CallsLandWhenDrawn == IInv => CallsLand
<1> SUFFICES ASSUME IInv, dot_status = "done"
             PROVE  /\ \A f \in FunctionNames :
                         {n.look : n \in {m \in dot_nodes : m.id = block_name(f, 0)}}
                           = {IF f \in Symbols THEN "block" ELSE "missing"}
                    /\ \A e \in dot_edges :
                         (e.kind = "flow" \/ KnownTarget(e)) => \E n \in dot_nodes : n.id = e.to
  BY DEF CallsLand
<1>1. ASSUME NEW e \in dot_edges, e.kind = "flow"
      PROVE  \E n \in dot_nodes : n.id = e.to
  <2>1. e \in Edges(dot_edges, "flow")
    BY <1>1 DEF Edges
  <2> PICK k \in Items : \E i \in DOMAIN Blocks(crate.items[k]) :
          /\ IsFn(crate.items[k])
          /\ \E exit \in process_block(Blocks(crate.items[k])[i]) : e = FlowEdge(k, i, exit)
    BY <2>1, DotEdgeCases
  <2>2. PICK i \in DOMAIN Blocks(crate.items[k]) :
          /\ IsFn(crate.items[k])
          /\ \E exit \in process_block(Blocks(crate.items[k])[i]) : e = FlowEdge(k, i, exit)
    OBVIOUS
  <2>3. PICK exit \in process_block(Blocks(crate.items[k])[i]) : e = FlowEdge(k, i, exit)
    BY <2>2
  <2>4. exit.to + 1 \in DOMAIN Blocks(crate.items[k]) /\ exit.to \in Nat
    BY <2>2, DotIsDrawn, ExitsLand DEF IInv
  <2>5. BlockNode(k, exit.to + 1) \in dot_nodes
    BY <2>2, <2>4, BlockNodes
  <2>6. (exit.to + 1) - 1 = exit.to
    BY <2>4
  <2>7. BlockNode(k, exit.to + 1).id = e.to
    BY <2>3, <2>6 DEF BlockNode, FlowEdge
  <2> QED
    BY <2>5, <2>7
<1>2. ASSUME NEW e \in dot_edges, KnownTarget(e)
      PROVE  \E n \in dot_nodes : n.id = e.to
  <2>1. PICK f \in FunctionNames : e.to = block_name(f, 0)
    BY <1>2 DEF KnownTarget
  <2>2. {n.look : n \in {m \in dot_nodes : m.id = block_name(f, 0)}} # {}
    BY OneNode
  <2> QED
    BY <2>1, <2>2
<1> QED
  BY <1>1, <1>2, OneNode

-----------------------------------------------------------------------------
(* The two graphs                                                          *)

LEMMA AsD2Block ==
  ASSUME crate \in Crates, NEW k \in Items, NEW n
  PROVE  AsD2(block_name(crate.items[k].symbol, n)) = D2Block(crate.items[k], n)
<1>1. block_name(crate.items[k].symbol, n).name = crate.items[k].symbol
      /\ block_name(crate.items[k].symbol, n).nth = n
  BY DEF block_name, Id
<1>2. AsD2(block_name(crate.items[k].symbol, n)) = block_name(NameOf(crate.items[k].symbol), n)
  BY <1>1 DEF AsD2
<1> QED
  BY <1>2, NameOfItem DEF D2Block

LEMMA SameFlow ==
  ASSUME IInv, BothDone
  PROVE  {Flow(e, AsD2(e.from), AsD2(e.to)) : e \in Edges(dot_edges, "flow")}
           = {Flow(e, e.from, e.to) : e \in Edges(d2_edges, "flow")}
<1> DEFINE Dot == {Flow(e, AsD2(e.from), AsD2(e.to)) : e \in Edges(dot_edges, "flow")}
           D2 == {Flow(e, e.from, e.to) : e \in Edges(d2_edges, "flow")}
<1>0. crate \in Crates /\ dot_status = "done" /\ d2_status = "done"
  BY DEF IInv, BothDone
<1>1. ASSUME NEW k \in Items, NEW i, NEW exit
      PROVE  Flow(FlowEdge(k, i, exit), AsD2(FlowEdge(k, i, exit).from), AsD2(FlowEdge(k, i, exit).to))
               = Flow(D2Flow(k, i, exit), D2Flow(k, i, exit).from, D2Flow(k, i, exit).to)
  <2>1. /\ AsD2(FlowEdge(k, i, exit).from) = D2Flow(k, i, exit).from
        /\ AsD2(FlowEdge(k, i, exit).to) = D2Flow(k, i, exit).to
    BY <1>0, AsD2Block DEF FlowEdge, D2Flow
  <2>2. /\ FlowEdge(k, i, exit).item = D2Flow(k, i, exit).item
        /\ FlowEdge(k, i, exit).block = D2Flow(k, i, exit).block
        /\ FlowEdge(k, i, exit).exit = D2Flow(k, i, exit).exit
    BY DEF FlowEdge, D2Flow
  <2> QED
    BY <2>1, <2>2 DEF Flow
<1>2. ASSUME NEW x \in Dot PROVE x \in D2
  <2>1. PICK e \in Edges(dot_edges, "flow") : x = Flow(e, AsD2(e.from), AsD2(e.to))
    OBVIOUS
  <2>2. PICK k \in Items : \E i \in DOMAIN Blocks(crate.items[k]) :
          /\ IsFn(crate.items[k])
          /\ \E exit \in process_block(Blocks(crate.items[k])[i]) : e = FlowEdge(k, i, exit)
    BY <1>0, DotEdgeCases
  <2>3. PICK i \in DOMAIN Blocks(crate.items[k]) :
          /\ IsFn(crate.items[k])
          /\ \E exit \in process_block(Blocks(crate.items[k])[i]) : e = FlowEdge(k, i, exit)
    BY <2>2
  <2>4. PICK exit \in terminator_targets(Blocks(crate.items[k])[i]) : e = FlowEdge(k, i, exit)
    BY <2>3, SameExits
  <2>5. D2Flow(k, i, exit) \in Edges(d2_edges, "flow")
    BY <1>0, <2>3, D2EdgeCases
  <2> QED
    BY <2>1, <2>4, <2>5, <1>1
<1>3. ASSUME NEW x \in D2 PROVE x \in Dot
  <2>1. PICK e \in Edges(d2_edges, "flow") : x = Flow(e, e.from, e.to)
    OBVIOUS
  <2>2. PICK k \in Items : \E i \in DOMAIN Blocks(crate.items[k]) :
          /\ IsFn(crate.items[k])
          /\ \E exit \in terminator_targets(Blocks(crate.items[k])[i]) : e = D2Flow(k, i, exit)
    BY <1>0, D2EdgeCases
  <2>3. PICK i \in DOMAIN Blocks(crate.items[k]) :
          /\ IsFn(crate.items[k])
          /\ \E exit \in terminator_targets(Blocks(crate.items[k])[i]) : e = D2Flow(k, i, exit)
    BY <2>2
  <2>4. PICK exit \in process_block(Blocks(crate.items[k])[i]) : e = D2Flow(k, i, exit)
    BY <2>3, SameExits
  <2>5. FlowEdge(k, i, exit) \in Edges(dot_edges, "flow")
    BY <1>0, <2>3, DotEdgeCases
  <2> QED
    BY <2>1, <2>4, <2>5, <1>1
<1> QED
  BY <1>2, <1>3

LEMMA SameCalls ==
  ASSUME IInv, BothDone
  PROVE  {Called(e, AsD2(e.from)) : e \in {c \in Edges(dot_edges, "call") :
                                             KnownTarget(c) /\ is_unqualified(c.to.name)}}
           = {Called(e, e.from) : e \in Edges(d2_edges, "call")}
<1> DEFINE Dot == {Called(e, AsD2(e.from)) : e \in {c \in Edges(dot_edges, "call") :
                                                     KnownTarget(c) /\ is_unqualified(c.to.name)}}
           D2 == {Called(e, e.from) : e \in Edges(d2_edges, "call")}
<1>0. crate \in Crates /\ dot_status = "done" /\ d2_status = "done"
  BY DEF IInv, BothDone
<1>1. ASSUME NEW k \in Items, NEW i, NEW f, CallEdge(k, i).to.name = f
      PROVE  Called(CallEdge(k, i), AsD2(CallEdge(k, i).from)) = Called(D2Call(k, i, f), D2Call(k, i, f).from)
  <2>1. AsD2(CallEdge(k, i).from) = D2Call(k, i, f).from
    BY <1>0, AsD2Block DEF CallEdge, D2Call
  <2>2. /\ CallEdge(k, i).item = D2Call(k, i, f).item
        /\ CallEdge(k, i).block = D2Call(k, i, f).block
    BY DEF CallEdge, D2Call
  <2>3. D2Call(k, i, f).to.name = f
    BY DEF D2Call, short_name, Id
  <2> QED
    BY <1>1, <2>1, <2>2, <2>3 DEF Called
<1>2. ASSUME NEW x \in Dot PROVE x \in D2
  <2>1. PICK e \in Edges(dot_edges, "call") :
          x = Called(e, AsD2(e.from)) /\ KnownTarget(e) /\ is_unqualified(e.to.name)
    OBVIOUS
  <2>2. PICK k \in Items : \E i \in Calls(crate.items[k]) : IsFn(crate.items[k]) /\ e = CallEdge(k, i)
    BY <1>0, DotEdgeCases
  <2>3. PICK i \in Calls(crate.items[k]) : IsFn(crate.items[k]) /\ e = CallEdge(k, i)
    BY <2>2
  <2>4. e.to.name \in resolve_call_target(Blocks(crate.items[k])[i].func)
    BY <1>0, <2>1, <2>3, DotIsDrawn, KnownCallee
  <2>5. e.to.name \in DrawnCallee(crate.items[k], i) /\ i \in DOMAIN Blocks(crate.items[k])
    BY <2>1, <2>4 DEF DrawnCallee, Calls
  <2>6. D2Call(k, i, e.to.name) \in Edges(d2_edges, "call")
    BY <1>0, <2>3, <2>5, D2EdgeCases
  <2> QED
    BY <2>1, <2>3, <2>6, <1>1
<1>3. ASSUME NEW x \in D2 PROVE x \in Dot
  <2>1. PICK e \in Edges(d2_edges, "call") : x = Called(e, e.from)
    OBVIOUS
  <2>2. PICK k \in Items : \E i \in DOMAIN Blocks(crate.items[k]) :
          IsFn(crate.items[k]) /\ \E f \in DrawnCallee(crate.items[k], i) : e = D2Call(k, i, f)
    BY <1>0, D2EdgeCases
  <2>3. PICK i \in DOMAIN Blocks(crate.items[k]) :
          IsFn(crate.items[k]) /\ \E f \in DrawnCallee(crate.items[k], i) : e = D2Call(k, i, f)
    BY <2>2
  <2>4. PICK f \in DrawnCallee(crate.items[k], i) : e = D2Call(k, i, f)
    BY <2>3
  <2>5. /\ i \in Calls(crate.items[k])
        /\ f \in resolve_call_target(Blocks(crate.items[k])[i].func)
        /\ is_unqualified(f)
    BY DEF DrawnCallee, Calls
  <2>6. KnownTarget(CallEdge(k, i)) /\ CallEdge(k, i).to.name = f
    BY <1>0, <2>3, <2>5, DotIsDrawn, KnownCallee
  <2>7. CallEdge(k, i) \in Edges(dot_edges, "call")
    BY <1>0, <2>3, <2>5, DotEdgeCases
  <2>8. Called(CallEdge(k, i), AsD2(CallEdge(k, i).from)) \in Dot
    BY <2>5, <2>6, <2>7
  <2> QED
    BY <2>1, <2>4, <2>6, <2>8, <1>1
<1> QED
  BY <1>2, <1>3

LEMMA RenderedIsSeq ==
  ASSUME NEW consts, IsSeq(consts)
  PROVE  Rendered(consts) \in Seq({render_const(c) : c \in ToSet(consts)})
<1>1. Len(consts) \in Nat /\ DOMAIN consts = 1..Len(consts)
  <2>1. consts \in Seq(ToSet(consts))
    BY DEF IsSeq
  <2> QED
    BY <2>1
<1> DEFINE R == {render_const(c) : c \in ToSet(consts)}
<1>2. \A i \in 1..Len(consts) : render_const(consts[i]) \in R
  BY <1>1 DEF ToSet
<1> HIDE DEF R
<1>3. [i \in 1..Len(consts) |-> render_const(consts[i])] \in [1..Len(consts) -> R]
  BY <1>2
<1>4. \A n \in Nat : [1..n -> R] \subseteq Seq(R)
  OBVIOUS
<1> QED
  BY <1>1, <1>3, <1>4 DEF Rendered, R

\* In the label and on the call edge, or in the label and the terminator: the same constants.
LEMMA SameConsts ==
  ASSUME NEW block, IsSeq(block.consts), IsSeq(block.operands)
  PROVE  DotLabel(block) \o (IF block.kind = "Call" THEN Rendered(block.operands) ELSE <<>>)
           = render_stmts(block) \o render_terminator(block).operands
<1> DEFINE stmts == render_stmts(block)
           operands == Rendered(block.operands)
<1>1. \A s : (\E T : s \in Seq(T)) => s \o <<>> = s
  BY ConcatEmptySeq
<1>2. (\E T : stmts \in Seq(T)) /\ (\E T : operands \in Seq(T))
  BY RenderedIsSeq DEF render_stmts
<1>3. \E T : stmts \o operands \in Seq(T)
  <2>1. PICK S : stmts \in Seq(S)
    BY <1>2
  <2>2. PICK T : operands \in Seq(T)
    BY <1>2
  <2> HIDE DEF stmts, operands
  <2>3. stmts \in Seq(S \cup T) /\ operands \in Seq(S \cup T)
    BY <2>1, <2>2
  <2>4. stmts \o operands \in Seq(S \cup T)
    BY <2>3
  <2> QED
    BY <2>4
<1>4. stmts \o <<>> = stmts /\ (stmts \o operands) \o <<>> = stmts \o operands
  <2> HIDE DEF stmts, operands
  <2> QED
    BY <1>1, <1>2, <1>3
<1>5. CASE block.kind = "Call"
  <2>1. DotLabel(block) = stmts \o <<>> /\ render_terminator(block).operands = operands
    BY <1>5 DEF DotLabel, render_terminator
  <2> QED
    BY <2>1, <1>4, <1>5
<1>6. CASE block.kind \in {"SwitchInt", "Assert"}
  <2>1. DotLabel(block) = stmts \o operands /\ render_terminator(block).operands = operands
    BY <1>6 DEF DotLabel, render_terminator
  <2> QED
    BY <2>1, <1>4, <1>6
<1>7. CASE block.kind \notin {"Call", "SwitchInt", "Assert"}
  <2>1. DotLabel(block) = stmts \o <<>> /\ render_terminator(block).operands = <<>>
    BY <1>7 DEF DotLabel, render_terminator
  <2> QED
    BY <2>1, <1>4, <1>7
<1> QED
  BY <1>5, <1>6, <1>7

\* A block has one call edge or none.
LEMMA CallsFromBlock ==
  ASSUME IInv, dot_status = "done", NEW k \in Items, IsFn(crate.items[k]),
         NEW i \in DOMAIN Blocks(crate.items[k])
  PROVE  CallsFrom(block_name(crate.items[k].symbol, i - 1))
           = IF i \in Calls(crate.items[k]) THEN {CallEdge(k, i)} ELSE {}
<1> DEFINE id == block_name(crate.items[k].symbol, i - 1)
<1>0. crate \in Crates /\ HasBody(crate.items[k])
  BY DotIsDrawn DEF IInv
<1>1. \A e : e \in CallsFrom(id) <=> e \in Edges(dot_edges, "call") /\ e.from = id
  BY DEF CallsFrom, Edges
<1>2. ASSUME i \in Calls(crate.items[k])
      PROVE  CallEdge(k, i) \in CallsFrom(id)
  <2>1. CallEdge(k, i) \in Edges(dot_edges, "call")
    BY <1>2, DotEdgeCases
  <2>2. CallEdge(k, i).from = id
    BY DEF CallEdge
  <2> QED
    BY <1>1, <2>1, <2>2
<1>3. ASSUME NEW e \in CallsFrom(id)
      PROVE  i \in Calls(crate.items[k]) /\ e = CallEdge(k, i)
  <2>1. e \in Edges(dot_edges, "call") /\ e.from = id
    BY <1>1
  <2>2. PICK j \in Items : \E h \in Calls(crate.items[j]) : IsFn(crate.items[j]) /\ e = CallEdge(j, h)
    BY <2>1, DotEdgeCases
  <2>3. PICK h \in Calls(crate.items[j]) : IsFn(crate.items[j]) /\ e = CallEdge(j, h)
    BY <2>2
  <2>4. block_name(crate.items[j].symbol, h - 1) = block_name(crate.items[k].symbol, i - 1)
    BY <2>1, <2>3 DEF CallEdge
  <2>5. crate.items[j].symbol = crate.items[k].symbol /\ h - 1 = i - 1
    BY <2>4 DEF block_name, Id
  <2>6. j = k
    BY <1>0, <2>5, ItemFacts
  <2>7. h \in Nat /\ i \in Nat
    BY <1>0, <2>3, <2>6, BlockFacts DEF Calls
  <2>8. h = i
    BY <2>5, <2>7
  <2> QED
    BY <2>3, <2>6, <2>8
<1> QED
  BY <1>2, <1>3

\* What both of them say of a block
TextOf(k, i) ==
  LET block == Blocks(crate.items[k])[i] IN
  [block |-> D2Block(crate.items[k], i - 1),
   consts |-> render_stmts(block) \o render_terminator(block).operands,
   callee |-> render_terminator(block).callee]

LEMMA DotTextOf ==
  ASSUME IInv, dot_status = "done", NEW k \in Items, IsFn(crate.items[k]),
         NEW i \in DOMAIN Blocks(crate.items[k])
  PROVE  LET n == BlockNode(k, i) IN
         [block |-> AsD2(n.id), consts |-> n.label \o CallLabel(n.id),
          callee |-> {ShortName[e.to.name] : e \in {c \in CallsFrom(n.id) : KnownTarget(c)}}]
           = TextOf(k, i)
<1> DEFINE n == BlockNode(k, i)
           block == Blocks(crate.items[k])[i]
           callee == {ShortName[e.to.name] : e \in {c \in CallsFrom(n.id) : KnownTarget(c)}}
<1>0. crate \in Crates /\ HasBody(crate.items[k])
  BY DotIsDrawn DEF IInv
<1>1. n.id = block_name(crate.items[k].symbol, i - 1) /\ n.label = DotLabel(block)
  BY DEF BlockNode
<1>2. AsD2(n.id) = D2Block(crate.items[k], i - 1)
  BY <1>0, <1>1, AsD2Block
<1>3. CallsFrom(n.id) = IF i \in Calls(crate.items[k]) THEN {CallEdge(k, i)} ELSE {}
  BY <1>1, CallsFromBlock
<1>4. i \in Calls(crate.items[k]) <=> block.kind = "Call"
  BY DEF Calls
<1>5. CallLabel(n.id) = IF block.kind = "Call" THEN Rendered(block.operands) ELSE <<>>
  <2>1. CallEdge(k, i).label = Rendered(block.operands)
    BY DEF CallEdge
  <2>2. CASE block.kind = "Call"
    <3>1. CallsFrom(n.id) = {CallEdge(k, i)}
      BY <1>3, <1>4, <2>2
    <3>2. (CHOOSE e \in CallsFrom(n.id) : TRUE) = CallEdge(k, i)
      BY <3>1
    <3> QED
      BY <3>1, <3>2, <2>1, <2>2 DEF CallLabel
  <2>3. CASE block.kind # "Call"
    BY <1>3, <1>4, <2>3 DEF CallLabel
  <2> QED
    BY <2>2, <2>3
<1>6. n.label \o CallLabel(n.id) = render_stmts(block) \o render_terminator(block).operands
  <2>1. IsSeq(block.consts) /\ IsSeq(block.operands)
    BY <1>0, BlockFacts
  <2> QED
    BY <2>1, <1>1, <1>5, SameConsts
<1>7. callee = render_terminator(block).callee
  <2>1. CASE block.kind = "Call"
    <3>1. CallsFrom(n.id) = {CallEdge(k, i)}
      BY <1>3, <1>4, <2>1
    <3>2. render_terminator(block).callee = {ShortName[f] : f \in resolve_call_target(block.func)}
      BY <2>1 DEF render_terminator
    <3>3. CASE KnownTarget(CallEdge(k, i))
      <4>1. resolve_call_target(block.func) = {CallEdge(k, i).to.name}
        BY <1>0, <1>4, <2>1, <3>3, KnownCallee
      <4>2. {c \in CallsFrom(n.id) : KnownTarget(c)} = {CallEdge(k, i)}
        BY <3>1, <3>3
      <4>3. callee = {ShortName[CallEdge(k, i).to.name]}
        BY <4>2
      <4> QED
        BY <3>2, <4>1, <4>3
    <3>4. CASE ~KnownTarget(CallEdge(k, i))
      <4>1. resolve_call_target(block.func) = {}
        BY <1>0, <1>4, <2>1, <3>4, KnownCallee
      <4>2. {c \in CallsFrom(n.id) : KnownTarget(c)} = {}
        BY <3>1, <3>4
      <4>3. callee = {}
        BY <4>2
      <4> QED
        BY <3>2, <4>1, <4>3
    <3> QED
      BY <3>3, <3>4
  <2>2. CASE block.kind # "Call"
    <3>1. callee = {}
      BY <1>3, <1>4, <2>2
    <3>2. render_terminator(block).callee = {}
      BY <2>2 DEF render_terminator
    <3> QED
      BY <3>1, <3>2
  <2> QED
    BY <2>1, <2>2
<1> HIDE DEF callee, n, block
<1> QED
  BY <1>2, <1>6, <1>7 DEF TextOf, callee, n, block

LEMMA DotText ==
  ASSUME IInv, dot_status = "done", NEW x
  PROVE  x \in DotBlockText <=>
           \E k \in Items : /\ IsFn(crate.items[k])
                            /\ \E i \in DOMAIN Blocks(crate.items[k]) : x = TextOf(k, i)
<1> DEFINE Says(n) ==
      [block |-> AsD2(n.id), consts |-> n.label \o CallLabel(n.id),
       callee |-> {ShortName[e.to.name] : e \in {c \in CallsFrom(n.id) : KnownTarget(c)}}]
<1>1. x \in DotBlockText <=> \E n : (n \in dot_nodes /\ n.look = "block") /\ x = Says(n)
  BY DEF DotBlockText
<1>2. \A k \in Items : IsFn(crate.items[k]) =>
        \A i \in DOMAIN Blocks(crate.items[k]) : Says(BlockNode(k, i)) = TextOf(k, i)
  BY DotTextOf
<1> HIDE DEF Says
<1> QED
  BY <1>1, <1>2, BlockNodes

LEMMA D2Text ==
  ASSUME IInv, d2_status = "done", NEW x
  PROVE  x \in D2BlockText <=>
           \E k \in Items : /\ IsFn(crate.items[k])
                            /\ \E i \in DOMAIN Blocks(crate.items[k]) : x = TextOf(k, i)
<1> DEFINE Label(k, i) ==
      [id |-> D2Block(crate.items[k], i - 1),
       label |-> [consts |-> render_stmts(Blocks(crate.items[k])[i]),
                  terminator |-> render_terminator(Blocks(crate.items[k])[i])]]
           Says(t) ==
      [block |-> t.id, consts |-> t.label.consts \o t.label.terminator.operands,
       callee |-> t.label.terminator.callee]
<1>1. \A t : t \in d2_labels /\ t.id # D2Legend <=>
        \E k \in Items : /\ IsFn(crate.items[k])
                         /\ \E i \in DOMAIN Blocks(crate.items[k]) : t = Label(k, i)
  <2>1. \A t, k : t \in D2LabelsOf(k) <=>
          /\ IsFn(crate.items[k])
          /\ \E i \in DOMAIN Blocks(crate.items[k]) : t = Label(k, i)
    BY DEF D2LabelsOf, render_d2_blocks
  <2>2. \A k, i : Label(k, i).id # D2Legend
    BY DEF D2Block, D2Legend, block_name, Id
  <2> HIDE DEF Label
  <2>3. \A t : t \in d2_labels <=>
          t = [id |-> D2Legend, label |-> allocs_legend_lines] \/ \E k \in Items : t \in D2LabelsOf(k)
    BY D2IsDrawn
  <2> QED
    BY <2>1, <2>2, <2>3
<1>2. \A k, i : Says(Label(k, i)) = TextOf(k, i)
  BY DEF TextOf
<1>3. x \in D2BlockText <=> \E t : (t \in d2_labels /\ t.id # D2Legend) /\ x = Says(t)
  BY DEF D2BlockText
<1> HIDE DEF Says, Label
<1> QED
  BY <1>1, <1>2, <1>3

LEMMA SameGraphWhenDrawn == IInv => SameGraph
<1> SUFFICES ASSUME IInv, BothDone
             PROVE  DotBlockText = D2BlockText
  BY SameFlow, SameCalls DEF SameGraph
<1>1. \A x : x \in DotBlockText <=> x \in D2BlockText
  BY DotText, D2Text DEF BothDone
<1> QED
  BY <1>1

-----------------------------------------------------------------------------
(* The legends                                                             *)

\* A label that mentions allocations is of a constant with pointers.
LEMMA RefsOfConst ==
  ASSUME NEW const, render_const(const).form = "refs"
  PROVE  /\ const.kind = "Allocated"
         /\ render_const(const).allocs = [j \in DOMAIN const.ptrs |-> describe(const.ptrs[j])]
<1>1. CASE const.kind = "Allocated"
  <2>1. render_const(const) = AllocatedLabel(const)
    BY <1>1 DEF render_const
  <2>2. CASE const.ptrs # <<>>
    BY <1>1, <2>1, <2>2 DEF AllocatedLabel
  <2>3. CASE const.ptrs = <<>>
    <3>1. AllocatedLabel(const).form \in {"number", "const"}
      BY <2>3 DEF AllocatedLabel, Number, Typed
    <3> QED
      BY <2>1, <3>1
  <2> QED
    BY <2>2, <2>3
<1>2. CASE const.kind # "Allocated"
  <2>1. render_const(const).form \in {"fn", "const", "Unevaluated", "Param"}
    BY <1>2 DEF render_const, Typed
  <2> QED
    BY <2>1
<1> QED
  BY <1>1, <1>2

LEMMA SeqOfMore ==
  ASSUME NEW A, NEW B, A \subseteq B, NEW s \in Seq(A)
  PROVE  s \in Seq(B)
OBVIOUS

LEMMA ElementOfConcat ==
  ASSUME NEW S, NEW s \in Seq(S), NEW t \in Seq(S), NEW e \in ToSet(s \o t)
  PROVE  e \in S
<1>1. s \o t \in Seq(S)
  OBVIOUS
<1> DEFINE u == s \o t
<1>2. u \in Seq(S) /\ e \in ToSet(u)
  BY <1>1
<1> HIDE DEF u
<1> QED
  BY <1>2 DEF ToSet

LEMMA MentionIsDescribed ==
  ASSUME IInv, BothDone, NEW mention \in Mentioned
  PROVE  \E j \in DOMAIN crate.allocs : mention = short_description(crate.allocs[j])
<1>0. crate \in Crates /\ dot_status = "done" /\ d2_status = "done"
  BY DEF IInv, BothDone
<1>1. PICK c \in UNION {{x \in ToSet(text.consts) : x.form = "refs"}
                          : text \in DotBlockText \cup D2BlockText} : mention \in ToSet(c.allocs)
  BY DEF Mentioned
<1>2. PICK text \in DotBlockText \cup D2BlockText : c \in ToSet(text.consts) /\ c.form = "refs"
  BY <1>1
<1>3. PICK k \in Items : /\ IsFn(crate.items[k])
                         /\ \E i \in DOMAIN Blocks(crate.items[k]) : text = TextOf(k, i)
  BY <1>0, DotText, D2Text
<1>4. PICK i \in DOMAIN Blocks(crate.items[k]) : text = TextOf(k, i)
  BY <1>3
<1> DEFINE block == Blocks(crate.items[k])[i]
<1>5. HasBody(crate.items[k])
  BY <1>0, <1>3, DotIsDrawn
<1>6. IsSeq(block.consts) /\ IsSeq(block.operands)
  BY <1>0, <1>5, BlockFacts
<1>7. \E const \in ToSet(block.consts) \cup ToSet(block.operands) : c = render_const(const)
  <2> DEFINE S == {render_const(x) : x \in ToSet(block.consts) \cup ToSet(block.operands)}
             stmts == render_stmts(block)
             operands == render_terminator(block).operands
             R(consts) == {render_const(x) : x \in ToSet(consts)}
  <2>0. /\ R(block.consts) \subseteq S /\ R(block.operands) \subseteq S
        /\ stmts \in Seq(R(block.consts)) /\ Rendered(block.operands) \in Seq(R(block.operands))
    BY <1>6, RenderedIsSeq DEF render_stmts
  <2>1. stmts \in Seq(S)
    <3> HIDE DEF S, R, stmts
    <3> QED
      BY <2>0, SeqOfMore
  <2>2. operands \in Seq(S)
    <3>1. Rendered(block.operands) \in Seq(S)
      <4> HIDE DEF S, R
      <4> QED
        BY <2>0, SeqOfMore
    <3>2. operands = Rendered(block.operands) \/ operands = <<>>
      <4>1. block.kind \in {"Call", "SwitchInt", "Assert"} => operands = Rendered(block.operands)
        BY DEF render_terminator
      <4>2. block.kind \notin {"Call", "SwitchInt", "Assert"} => operands = <<>>
        BY DEF render_terminator
      <4> QED
        BY <4>1, <4>2
    <3>3. \A T : <<>> \in Seq(T)
      OBVIOUS
    <3> HIDE DEF S, operands
    <3> QED
      BY <3>1, <3>2, <3>3, Zenon
  <2>3. c \in ToSet(stmts \o operands)
    BY <1>2, <1>4 DEF TextOf
  <2>4. c \in S
    <3> HIDE DEF S, stmts, operands
    <3> QED
      BY <2>1, <2>2, <2>3, ElementOfConcat
  <2> QED
    BY <2>4
<1>8. PICK const \in ToSet(block.consts) \cup ToSet(block.operands) : c = render_const(const)
  BY <1>7
<1>9. const.kind = "Allocated" /\ c.allocs = [j \in DOMAIN const.ptrs |-> describe(const.ptrs[j])]
  BY <1>2, <1>8, RefsOfConst
<1>10. PICK p \in ToSet(const.ptrs) : mention = describe(p)
  BY <1>1, <1>9 DEF ToSet
<1>11. p \in {a.id : a \in ToSet(crate.allocs)}
  BY <1>0, <1>5, <1>9, BlockFacts
<1> DEFINE entries == {a \in ToSet(crate.allocs) : a.id = p}
<1>12. entries # {}
  BY <1>11
<1>13. (CHOOSE a \in entries : TRUE) \in entries
  BY <1>12
<1>14. \E a \in ToSet(crate.allocs) : mention = short_description(a)
  BY <1>10, <1>12, <1>13 DEF describe
<1> QED
  BY <1>14 DEF ToSet

\* The legend has one line for an allocation.
LEMMA OneLine ==
  ASSUME crate \in Crates, NEW j \in DOMAIN crate.allocs
  PROVE  Cardinality({i \in DOMAIN allocs_legend_lines :
                        allocs_legend_lines[i] = short_description(crate.allocs[j])}) = 1
<1>1. DOMAIN allocs_legend_lines = DOMAIN crate.allocs
  BY DEF allocs_legend_lines
<1>2. \A i \in DOMAIN crate.allocs : allocs_legend_lines[i] = short_description(crate.allocs[i])
  BY DEF allocs_legend_lines
<1>3. ASSUME NEW i \in DOMAIN crate.allocs,
             short_description(crate.allocs[i]) = short_description(crate.allocs[j])
      PROVE  i = j
  <2>1. crate.allocs[i].id = crate.allocs[j].id
    BY <1>3 DEF short_description
  <2> QED
    BY <2>1, TablesAssumption
<1>4. {i \in DOMAIN allocs_legend_lines :
         allocs_legend_lines[i] = short_description(crate.allocs[j])} = {j}
  BY <1>1, <1>2, <1>3
<1> QED
  BY <1>4, FS_Singleton

LEMMA LegendExplainsWhenDrawn == IInv => LegendExplains
<1> SUFFICES ASSUME IInv, BothDone
             PROVE  /\ \A mention \in Mentioned :
                         /\ \E n \in dot_nodes : n.look = "allocs"
                              /\ Cardinality({i \in DOMAIN n.label : n.label[i] = mention}) = 1
                         /\ Cardinality({i \in DOMAIN D2Lines : D2Lines[i] = mention}) = 1
                    /\ \A t \in ToSet(crate.types) :
                         LET shown == render_type_with_layout(t.ty) IN
                         (t.variant \in Composite /\ shown \in LocalsShown) =>
                           [name |-> shown.name, size |-> [i \in DOMAIN shown.layout |-> shown.layout[i].size]]
                             \in DotLines("types")
  BY DEF LegendExplains
<1>0. crate \in Crates /\ dot_status = "done" /\ d2_status = "done"
  BY DEF IInv, BothDone
<1>1. D2Lines = allocs_legend_lines
  <2> DEFINE legend == [id |-> D2Legend, label |-> allocs_legend_lines]
  <2>1. legend \in d2_labels
    BY <1>0, D2IsDrawn
  <2>2. ASSUME NEW t \in d2_labels, t.id = D2Legend
        PROVE  t = legend
    <3>1. t = legend \/ \E k \in Items : t \in D2LabelsOf(k)
      BY <1>0, D2IsDrawn
    <3>2. ASSUME NEW k \in Items, t \in D2LabelsOf(k) PROVE FALSE
      <4>1. t \in render_d2_blocks(crate.items[k])
        BY <3>2 DEF D2LabelsOf
      <4>2. t.id.of = "block"
        BY <4>1 DEF render_d2_blocks, D2Block, block_name, Id
      <4> QED
        BY <4>2, <2>2 DEF D2Legend, Id
    <3> QED
      BY <3>1, <3>2
  <2>3. legend.id = D2Legend
    OBVIOUS
  <2>4. (CHOOSE t \in d2_labels : t.id = D2Legend) = legend
    BY <2>1, <2>2, <2>3
  <2>5. legend.label = allocs_legend_lines
    OBVIOUS
  <2> HIDE DEF legend
  <2> QED
    BY <2>4, <2>5 DEF D2Lines
<1>2. ASSUME NEW mention \in Mentioned
      PROVE  /\ \E n \in dot_nodes : n.look = "allocs"
                  /\ Cardinality({i \in DOMAIN n.label : n.label[i] = mention}) = 1
             /\ Cardinality({i \in DOMAIN D2Lines : D2Lines[i] = mention}) = 1
  <2>1. PICK j \in DOMAIN crate.allocs : mention = short_description(crate.allocs[j])
    BY MentionIsDescribed
  <2>2. Cardinality({i \in DOMAIN allocs_legend_lines : allocs_legend_lines[i] = mention}) = 1
    BY <1>0, <2>1, OneLine
  <2>3. crate.allocs # <<>>
    BY <2>1
  <2> DEFINE legend == [id |-> Id("legend", "ALLOCS", 0), look |-> "allocs", label |-> allocs_legend_lines]
  <2>4. legend \in dot_nodes
    BY <1>0, <2>3, DotIsDrawn DEF Legends
  <2>5. legend.look = "allocs" /\ legend.label = allocs_legend_lines
    OBVIOUS
  <2> HIDE DEF legend
  <2> QED
    BY <1>1, <2>2, <2>4, <2>5
<1>3. ASSUME NEW t \in ToSet(crate.types), t.variant \in Composite
      PROVE  [name |-> render_type_with_layout(t.ty).name,
              size |-> [i \in DOMAIN render_type_with_layout(t.ty).layout |->
                          render_type_with_layout(t.ty).layout[i].size]] \in DotLines("types")
  <2>1. \A u \in TypeEntries(t.ty) : u = t
    BY <1>0, TablesAssumption DEF TypeEntries, ToSet
  <2>2. t \in TypeEntries(t.ty)
    BY DEF TypeEntries
  <2>3. (CHOOSE u \in TypeEntries(t.ty) : TRUE) = t
    BY <2>1, <2>2
  <2>4. get_name(t.ty) = EntryName(t) /\ get_layout(t.ty) = EntryLayout(t)
    BY <2>2, <2>3 DEF get_name, get_layout
  <2>5. render_type_with_layout(t.ty).name = EntryName(t)
        /\ render_type_with_layout(t.ty).layout = EntryLayout(t)
    BY <2>4 DEF render_type_with_layout
  <2> DEFINE line == [name |-> EntryName(t), size |-> [i \in DOMAIN EntryLayout(t) |-> EntryLayout(t)[i].size]]
             legend == [id |-> Id("legend", "TYPES", 0), look |-> "types", label |-> types_legend_lines]
  <2>6. line \in types_legend_lines
    BY <1>3 DEF types_legend_lines
  <2>7. legend \in dot_nodes
    <3>1. legend \in Legends
      BY <2>6 DEF Legends
    <3> QED
      BY <1>0, <3>1, DotIsDrawn
  <2>8. line \in DotLines("types")
    <3>1. legend.look = "types" /\ legend.label = types_legend_lines
      OBVIOUS
    <3> HIDE DEF legend, line
    <3> QED
      BY <2>6, <2>7, <3>1 DEF DotLines
  <2> QED
    BY <2>5, <2>8
<1> QED
  BY <1>2, <1>3

-----------------------------------------------------------------------------
(* The invariant                                                           *)

\* What the tables and the context say depends on the crate alone.
LEMMA SameTables ==
  ASSUME crate' = crate
  PROVE  /\ allocs_legend_lines' = allocs_legend_lines
         /\ types_legend_lines' = types_legend_lines
         /\ \A ty : get_name(ty)' = get_name(ty) /\ render_type_with_layout(ty)' = render_type_with_layout(ty)
         /\ \A id : describe(id)' = describe(id)
         /\ Legends' = Legends
<1>2. \A ty : get_name(ty)' = get_name(ty) /\ get_layout(ty)' = get_layout(ty)
  <2> SUFFICES ASSUME NEW ty
               PROVE  get_name(ty)' = get_name(ty) /\ get_layout(ty)' = get_layout(ty)
    OBVIOUS
  <2>1. get_name(ty)' = get_name(ty)
    BY DEF get_name, TypeEntries
  <2>2. get_layout(ty)' = get_layout(ty)
    BY DEF get_layout, TypeEntries
  <2> QED
    BY <2>1, <2>2
<1>3. \A ty : render_type_with_layout(ty)' = render_type_with_layout(ty)
  BY <1>2 DEF render_type_with_layout
<1>4. types_legend_lines' = types_legend_lines
  BY DEF types_legend_lines
<1>5. \A a : MemoryDescription(a)' = MemoryDescription(a)
  BY <1>2 DEF MemoryDescription
<1>6. \A a : short_description(a)' = short_description(a)
  BY <1>5 DEF short_description, from_alloc_info
<1>7. allocs_legend_lines' = allocs_legend_lines
  BY <1>6 DEF allocs_legend_lines
<1>8. \A id : describe(id)' = describe(id)
  BY <1>6 DEF describe
<1>9. Legends' = Legends
  BY <1>4, <1>7 DEF Legends
<1> QED
  BY <1>2, <1>3, <1>4, <1>7, <1>8, <1>9

LEMMA SameContext ==
  ASSUME crate' = crate
  PROVE  /\ \A ty : IsKnown(ty)' = IsKnown(ty) /\ FunctionName(ty)' = FunctionName(ty)
         /\ MissingNodes' = MissingNodes
         /\ \A func : resolve_call_target(func)' = resolve_call_target(func)
         /\ \A consts : Rendered(consts)' = Rendered(consts)
<1>1. \A ty : EntriesOf(ty)' = EntriesOf(ty)
  BY DEF EntriesOf
<1>2. \A ty : IsKnown(ty)' = IsKnown(ty) /\ FunctionName(ty)' = FunctionName(ty)
  BY <1>1 DEF IsKnown, FunctionName
<1>3. MissingNodes' = MissingNodes
  BY <1>2 DEF MissingNodes, Missing, FunctionNames, Symbols
<1>4. \A func : resolve_call_target(func)' = resolve_call_target(func)
  BY <1>2 DEF resolve_call_target
<1>5. \A const : AllocatedLabel(const)' = AllocatedLabel(const)
  <2> SUFFICES ASSUME NEW const PROVE AllocatedLabel(const)' = AllocatedLabel(const)
    OBVIOUS
  <2>1. get_name(const.ty)' = get_name(const.ty)
    BY SameTables
  <2>2. CASE const.ptrs # <<>>
    BY <2>2, SameTables DEF AllocatedLabel
  <2>3. CASE const.ptrs = <<>>
    BY <2>1, <2>3 DEF AllocatedLabel, Typed, Number
  <2> QED
    BY <2>2, <2>3
<1>6. \A const : render_const(const)' = render_const(const)
  <2> SUFFICES ASSUME NEW const PROVE render_const(const)' = render_const(const)
    OBVIOUS
  <2>1. CASE const.kind = "Allocated"
    BY <2>1, <1>5 DEF render_const
  <2>2. CASE const.kind # "Allocated"
    BY <2>2, <1>2, SameTables DEF render_const, Typed
  <2> QED
    BY <2>1, <2>2
<1>7. \A consts : Rendered(consts)' = Rendered(consts)
  BY <1>6 DEF Rendered
<1> QED
  BY <1>2, <1>3, <1>4, <1>7

LEMMA SameDotItem ==
  ASSUME crate' = crate, NEW k
  PROVE  DotNodesOf(k)' = DotNodesOf(k) /\ DotEdgesOf(k)' = DotEdgesOf(k)
<1>1. \A block : DotLabel(block)' = DotLabel(block)
  <2> SUFFICES ASSUME NEW block PROVE DotLabel(block)' = DotLabel(block)
    OBVIOUS
  <2>1. Rendered(block.consts)' = Rendered(block.consts)
        /\ Rendered(block.operands)' = Rendered(block.operands)
    BY SameContext
  <2> QED
    BY <2>1 DEF DotLabel, render_stmts
<1>2. \A item : DotBlocks(item)' = DotBlocks(item)
  BY <1>1 DEF DotBlocks
<1>3. \A item : Locals(item)' = Locals(item)
  BY SameTables DEF Locals
<1>4. DotNodesOf(k)' = DotNodesOf(k)
  BY <1>2, <1>3 DEF DotNodesOf
<1>5. DotFlow(k)' = DotFlow(k)
  BY DEF DotFlow, FlowEdges
<1>6. \A item, i : CallNode(item, i)' = CallNode(item, i)
  BY SameContext DEF CallNode
<1>7. add_call_edges(k)' = add_call_edges(k)
  BY <1>6, SameContext DEF add_call_edges
<1> QED
  BY <1>4, <1>5, <1>7 DEF DotEdgesOf

LEMMA SameD2Item ==
  ASSUME crate' = crate, NEW k
  PROVE  D2LabelsOf(k)' = D2LabelsOf(k) /\ D2EdgesOf(k)' = D2EdgesOf(k)
<1>1. \A block : render_stmts(block)' = render_stmts(block)
  BY SameContext DEF render_stmts
<1>2. \A block : render_terminator(block)' = render_terminator(block)
  BY SameContext DEF render_terminator
<1>3. \A item : render_d2_blocks(item)' = render_d2_blocks(item)
  BY <1>1, <1>2 DEF render_d2_blocks
<1>4. D2LabelsOf(k)' = D2LabelsOf(k)
  BY <1>3 DEF D2LabelsOf
<1>5. render_d2_block_edges(k)' = render_d2_block_edges(k)
  BY DEF render_d2_block_edges, ExitEdges
<1>6. \A item, i : DrawnCallee(item, i)' = DrawnCallee(item, i)
  BY SameContext DEF DrawnCallee
<1>7. render_d2_call_edges(k)' = render_d2_call_edges(k)
  BY <1>6 DEF render_d2_call_edges, CallEdges
<1> QED
  BY <1>4, <1>5, <1>7 DEF D2EdgesOf

LEMMA RenderersInit == Init => IInv
<1> SUFFICES ASSUME Init PROVE IInv
  OBVIOUS
<1>1. crate \in Crates /\ dot_at = 0 /\ dot_status = "rendering" /\ dot_nodes = {} /\ dot_edges = {}
  BY DEF Init, DotInit
<1>2. /\ d2_at = 0 /\ d2_status = "rendering" /\ d2_look = [id \in {} |-> ""]
      /\ d2_labels = {} /\ d2_edges = {}
  BY DEF Init, D2Init
<1>3. Len(crate.items) \in Nat /\ 1..(0 - 1) = {}
  BY <1>1, ItemFacts
<1>4. DotDrawn
  BY <1>1, <1>3 DEF DotDrawn
<1>5. D2Drawn
  BY <1>2, <1>3 DEF D2Drawn
<1> QED
  BY <1>1, <1>4, <1>5 DEF IInv

\* Nothing but the status changes, and the renderer is done only after the last item.
LEMMA DotStays ==
  ASSUME IInv, crate' = crate, dot_at' = dot_at, dot_nodes' = dot_nodes, dot_edges' = dot_edges,
         dot_status' \in {dot_status, "panicked"} \/ (dot_status' = "done" /\ dot_at = Len(crate.items) + 1)
  PROVE  DotDrawn'
<1>1. /\ Legends' = Legends /\ MissingNodes' = MissingNodes
      /\ \A k : DotNodesOf(k)' = DotNodesOf(k) /\ DotEdgesOf(k)' = DotEdgesOf(k)
  BY SameTables, SameContext, SameDotItem
<1>2. \A k : (IsFn(crate.items[k]) => HasBody(crate.items[k]))' <=>
               (IsFn(crate.items[k]) => HasBody(crate.items[k]))
  BY DEF IsFn, HasBody
<1>3. /\ (dot_at \in 0..(Len(crate.items) + 1))'
      /\ (dot_status \in {"rendering", "done", "panicked"})'
      /\ (dot_status = "done" => dot_at = Len(crate.items) + 1)'
  BY DEF IInv, DotDrawn
<1>4. (dot_nodes = IF dot_at = 0 THEN {}
                   ELSE Legends \cup MissingNodes \cup (UNION {DotNodesOf(k) : k \in 1..(dot_at - 1)}))'
  BY <1>1 DEF IInv, DotDrawn
<1>5. (dot_edges = UNION {DotEdgesOf(k) : k \in 1..(dot_at - 1)})'
  BY <1>1 DEF IInv, DotDrawn
<1>6. (\A k \in 1..(dot_at - 1) : IsFn(crate.items[k]) => HasBody(crate.items[k]))'
  BY <1>2 DEF IInv, DotDrawn
<1> QED
  BY <1>3, <1>4, <1>5, <1>6 DEF DotDrawn

LEMMA DotPanics == IInv /\ DotPanic => DotDrawn' /\ crate' = crate
<1> SUFFICES ASSUME IInv, DotPanic PROVE DotDrawn' /\ crate' = crate
  OBVIOUS
<1>1. /\ crate' = crate /\ dot_at' = dot_at /\ dot_nodes' = dot_nodes /\ dot_edges' = dot_edges
      /\ dot_status' \in {dot_status, "panicked"}
  BY DEF DotPanic
<1> QED
  BY <1>1, DotStays

\* One item more is drawn.
LEMMA DotAdvances ==
  ASSUME IInv, crate' = crate, dot_status = "rendering", dot_status' = "rendering",
         dot_at \in Items, dot_at' = dot_at + 1,
         dot_nodes' = dot_nodes \cup DotNodesOf(dot_at),
         dot_edges' = dot_edges \cup DotEdgesOf(dot_at),
         IsFn(crate.items[dot_at]) => HasBody(crate.items[dot_at])
  PROVE  DotDrawn'
<1>0. Len(crate.items) \in Nat
  BY ItemFacts DEF IInv
<1>1. /\ Legends' = Legends /\ MissingNodes' = MissingNodes
      /\ \A k : DotNodesOf(k)' = DotNodesOf(k) /\ DotEdgesOf(k)' = DotEdgesOf(k)
  BY SameTables, SameContext, SameDotItem
<1>2. /\ dot_at # 0 /\ dot_at' # 0 /\ dot_at' \in 0..(Len(crate.items) + 1)
      /\ 1..(dot_at' - 1) = 1..(dot_at - 1) \cup {dot_at}
  BY <1>0 DEF Items
<1> DEFINE next == 1..(dot_at' - 1)
           before == 1..(dot_at - 1)
<1>3. dot_nodes' = Legends \cup MissingNodes \cup (UNION {DotNodesOf(k) : k \in next})
  <2>1. dot_nodes = Legends \cup MissingNodes \cup (UNION {DotNodesOf(k) : k \in before})
    BY <1>2 DEF IInv, DotDrawn
  <2>2. next = before \cup {dot_at}
    BY <1>2
  <2> HIDE DEF next, before
  <2> QED
    BY <2>1, <2>2
<1>4. dot_edges' = UNION {DotEdgesOf(k) : k \in next}
  <2>1. dot_edges = UNION {DotEdgesOf(k) : k \in before}
    BY DEF IInv, DotDrawn
  <2>2. next = before \cup {dot_at}
    BY <1>2
  <2> HIDE DEF next, before
  <2> QED
    BY <2>1, <2>2
<1>5. \A k \in next : IsFn(crate.items[k]) => HasBody(crate.items[k])
  BY <1>2 DEF IInv, DotDrawn
<1>6. \A k : (IsFn(crate.items[k]) => HasBody(crate.items[k]))' <=>
               (IsFn(crate.items[k]) => HasBody(crate.items[k]))
  BY DEF IsFn, HasBody
<1>7. (dot_nodes = IF dot_at = 0 THEN {}
                   ELSE Legends \cup MissingNodes \cup (UNION {DotNodesOf(k) : k \in 1..(dot_at - 1)}))'
  BY <1>1, <1>2, <1>3
<1>8. (dot_edges = UNION {DotEdgesOf(k) : k \in 1..(dot_at - 1)})'
  BY <1>1, <1>4
<1>9. (\A k \in 1..(dot_at - 1) : IsFn(crate.items[k]) => HasBody(crate.items[k]))'
  BY <1>5, <1>6
<1> QED
  BY <1>2, <1>7, <1>8, <1>9 DEF DotDrawn

LEMMA DotNext == IInv /\ to_dot_file => DotDrawn' /\ crate' = crate
<1> SUFFICES ASSUME IInv, to_dot_file PROVE DotDrawn' /\ crate' = crate
  OBVIOUS
<1>0. Len(crate.items) \in Nat /\ DOMAIN crate.items = Items
  BY ItemFacts DEF IInv
<1>1. CASE AddMissing
  <2>1. CASE \E f \in Missing : name_lines_panics(f)
    <3>1. DotPanic
      BY <1>1, <2>1 DEF AddMissing
    <3> QED
      BY <3>1, DotPanics
  <2>2. CASE ~\E f \in Missing : name_lines_panics(f)
    <3>1. /\ dot_status = "rendering" /\ dot_at = 0
          /\ dot_nodes' = Legends \cup MissingNodes
          /\ dot_at' = 1 /\ crate' = crate /\ dot_status' = dot_status /\ dot_edges' = dot_edges
      BY <1>1, <2>2 DEF AddMissing, MissingNodes
    <3>2. Legends' = Legends /\ MissingNodes' = MissingNodes
      BY <3>1, SameTables, SameContext
    <3>3. 1..(0 - 1) = {} /\ 1..(1 - 1) = {}
      OBVIOUS
    <3>4. dot_edges = {}
      BY <3>1, <3>3 DEF IInv, DotDrawn
    <3> QED
      BY <1>0, <3>1, <3>2, <3>3, <3>4 DEF DotDrawn
  <2> QED
    BY <2>1, <2>2
<1>2. CASE DotFn
  <2>1. /\ dot_status = "rendering" /\ dot_at \in Items /\ IsFn(crate.items[dot_at])
        /\ HasBody(crate.items[dot_at])
        /\ dot_at' = dot_at + 1 /\ crate' = crate /\ dot_status' = dot_status
        /\ dot_nodes' = dot_nodes \cup {Locals(crate.items[dot_at])} \cup DotBlocks(crate.items[dot_at])
        /\ dot_edges' = dot_edges \cup DotFlow(dot_at) \cup add_call_edges(dot_at)
    BY <1>0, <1>2 DEF DotFn, DotItem
  <2>2. DotNodesOf(dot_at) = {Locals(crate.items[dot_at])} \cup DotBlocks(crate.items[dot_at])
    BY <2>1 DEF DotNodesOf
  <2>3. DotEdgesOf(dot_at) = DotFlow(dot_at) \cup add_call_edges(dot_at)
    BY <2>1 DEF DotEdgesOf
  <2>4. /\ dot_nodes' = dot_nodes \cup DotNodesOf(dot_at)
        /\ dot_edges' = dot_edges \cup DotEdgesOf(dot_at)
    BY <2>1, <2>2, <2>3
  <2> QED
    BY <2>1, <2>4, DotAdvances
<1>3. CASE DotFnPanics
  BY <1>3, DotPanics DEF DotFnPanics
<1>4. CASE DotOther
  <2>1. /\ dot_status = "rendering" /\ dot_at \in Items /\ ~IsFn(crate.items[dot_at])
        /\ dot_at' = dot_at + 1 /\ crate' = crate /\ dot_status' = dot_status
        /\ dot_nodes' = dot_nodes \cup DotNodesOf(dot_at)
        /\ dot_edges' = dot_edges
    BY <1>0, <1>4 DEF DotOther, DotItem, DotNodesOf
  <2>2. dot_edges' = dot_edges \cup DotEdgesOf(dot_at)
    BY <2>1 DEF DotEdgesOf
  <2> QED
    BY <2>1, <2>2, DotAdvances
<1>5. CASE DotDone
  BY <1>5, DotStays DEF DotDone
<1> QED
  BY <1>1, <1>2, <1>3, <1>4, <1>5 DEF to_dot_file

Looks == {"allocs", "function", "block", "callee", "static", "asm"}

LEMMA DeclareLooks ==
  ASSUME NEW looks, \A id \in DOMAIN looks : looks[id] \in Looks, NEW ids, NEW look \in Looks
  PROVE  \A id \in DOMAIN Declare(looks, ids, look) : Declare(looks, ids, look)[id] \in Looks
BY DEF Declare

LEMMA D2Stays ==
  ASSUME IInv, crate' = crate, d2_at' = d2_at, d2_labels' = d2_labels, d2_edges' = d2_edges,
         d2_look' = d2_look,
         d2_status' \in {d2_status, "panicked"} \/ (d2_status' = "done" /\ d2_at = Len(crate.items) + 1)
  PROVE  D2Drawn'
<1>1. /\ allocs_legend_lines' = allocs_legend_lines
      /\ \A k : D2LabelsOf(k)' = D2LabelsOf(k) /\ D2EdgesOf(k)' = D2EdgesOf(k)
  BY SameTables, SameD2Item
<1>2. /\ (d2_at \in 0..(Len(crate.items) + 1))'
      /\ (d2_status \in {"rendering", "done", "panicked"})'
      /\ (d2_status = "done" => d2_at = Len(crate.items) + 1)'
  BY DEF IInv, D2Drawn
<1>3. (\A id \in DOMAIN d2_look : d2_look[id] \in Looks)'
  BY DEF IInv, D2Drawn, Looks
<1>4. (d2_labels = IF d2_at = 0 THEN {}
                   ELSE {[id |-> D2Legend, label |-> allocs_legend_lines]}
                          \cup (UNION {D2LabelsOf(k) : k \in 1..(d2_at - 1)}))'
  BY <1>1 DEF IInv, D2Drawn, D2Legend, Id
<1>5. (d2_edges = UNION {D2EdgesOf(k) : k \in 1..(d2_at - 1)})'
  BY <1>1 DEF IInv, D2Drawn
<1> QED
  BY <1>2, <1>3, <1>4, <1>5 DEF D2Drawn, Looks

LEMMA D2Advances ==
  ASSUME IInv, crate' = crate, d2_status = "rendering", d2_status' = "rendering",
         d2_at \in Items, d2_at' = d2_at + 1,
         d2_labels' = d2_labels \cup D2LabelsOf(d2_at),
         d2_edges' = d2_edges \cup D2EdgesOf(d2_at),
         \A id \in DOMAIN d2_look' : d2_look'[id] \in Looks
  PROVE  D2Drawn'
<1>0. Len(crate.items) \in Nat
  BY ItemFacts DEF IInv
<1>1. /\ allocs_legend_lines' = allocs_legend_lines
      /\ \A k : D2LabelsOf(k)' = D2LabelsOf(k) /\ D2EdgesOf(k)' = D2EdgesOf(k)
  BY SameTables, SameD2Item
<1>2. /\ d2_at # 0 /\ d2_at' # 0 /\ d2_at' \in 0..(Len(crate.items) + 1)
      /\ 1..(d2_at' - 1) = 1..(d2_at - 1) \cup {d2_at}
  BY <1>0 DEF Items
<1> DEFINE next == 1..(d2_at' - 1)
           before == 1..(d2_at - 1)
           legend == {[id |-> D2Legend, label |-> allocs_legend_lines]}
<1>3. d2_labels' = legend \cup (UNION {D2LabelsOf(k) : k \in next})
  <2>1. d2_labels = legend \cup (UNION {D2LabelsOf(k) : k \in before})
    BY <1>2 DEF IInv, D2Drawn
  <2>2. next = before \cup {d2_at}
    BY <1>2
  <2> HIDE DEF next, before, legend
  <2> QED
    BY <2>1, <2>2
<1>4. d2_edges' = UNION {D2EdgesOf(k) : k \in next}
  <2>1. d2_edges = UNION {D2EdgesOf(k) : k \in before}
    BY DEF IInv, D2Drawn
  <2>2. next = before \cup {d2_at}
    BY <1>2
  <2> HIDE DEF next, before
  <2> QED
    BY <2>1, <2>2
<1>5. (d2_labels = IF d2_at = 0 THEN {}
                   ELSE {[id |-> D2Legend, label |-> allocs_legend_lines]}
                          \cup (UNION {D2LabelsOf(k) : k \in 1..(d2_at - 1)}))'
  BY <1>1, <1>2, <1>3 DEF D2Legend, Id
<1>6. (d2_edges = UNION {D2EdgesOf(k) : k \in 1..(d2_at - 1)})'
  BY <1>1, <1>4
<1> QED
  BY <1>2, <1>5, <1>6 DEF D2Drawn, Looks

LEMMA D2Next == IInv /\ to_d2_file => D2Drawn' /\ crate' = crate
<1> SUFFICES ASSUME IInv, to_d2_file PROVE D2Drawn' /\ crate' = crate
  OBVIOUS
<1>0. /\ Len(crate.items) \in Nat /\ DOMAIN crate.items = Items
      /\ \A id \in DOMAIN d2_look : d2_look[id] \in Looks
  BY ItemFacts DEF IInv, D2Drawn, Looks
<1>1. CASE render_d2_allocs_legend
  <2>1. /\ d2_status = "rendering" /\ d2_at = 0 /\ d2_at' = 1 /\ crate' = crate
        /\ d2_status' = d2_status /\ d2_edges' = d2_edges
        /\ d2_look' = Declare(d2_look, {D2Legend}, "allocs")
        /\ d2_labels' = {[id |-> D2Legend, label |-> allocs_legend_lines]}
    BY <1>1 DEF render_d2_allocs_legend
  <2>2. \A id \in DOMAIN d2_look' : d2_look'[id] \in Looks
    <3>1. "allocs" \in Looks
      BY DEF Looks
    <3> QED
      BY <1>0, <2>1, <3>1, DeclareLooks
  <2>3. allocs_legend_lines' = allocs_legend_lines
    BY <2>1, SameTables
  <2>4. 1..(0 - 1) = {} /\ 1..(1 - 1) = {}
    OBVIOUS
  <2>5. d2_edges = {}
    BY <2>1, <2>4 DEF IInv, D2Drawn
  <2>6. (d2_labels = {[id |-> D2Legend, label |-> allocs_legend_lines]})'
    BY <2>1, <2>3 DEF D2Legend, Id
  <2>7. (d2_labels = IF d2_at = 0 THEN {}
                     ELSE {[id |-> D2Legend, label |-> allocs_legend_lines]}
                            \cup (UNION {D2LabelsOf(k) : k \in 1..(d2_at - 1)}))'
    <3>1. (UNION {D2LabelsOf(k) : k \in 1..(d2_at - 1)})' = {}
      BY <2>1, <2>4
    <3> QED
      BY <2>1, <2>6, <3>1
  <2>8. (d2_edges = UNION {D2EdgesOf(k) : k \in 1..(d2_at - 1)})'
    BY <2>1, <2>4, <2>5
  <2>9. (d2_at \in 0..(Len(crate.items) + 1))' /\ d2_status' = "rendering"
    BY <1>0, <2>1
  <2> QED
    BY <2>1, <2>2, <2>7, <2>8, <2>9 DEF D2Drawn, Looks
<1>2. CASE render_d2_function
  <2> DEFINE item == crate.items[d2_at]
             container == Declare(d2_look, {short_name(item.name)}, "function")
             blocks == {D2Block(item, i - 1) : i \in DOMAIN Blocks(item)}
             callees == {short_name(f) : f \in DrawnCallees(item)}
  <2>1. /\ d2_status = "rendering" /\ d2_at \in Items /\ IsFn(item)
        /\ d2_at' = d2_at + 1 /\ crate' = crate /\ d2_status' = d2_status
        /\ d2_labels' = d2_labels \cup render_d2_blocks(item)
        /\ d2_edges' = d2_edges \cup render_d2_block_edges(d2_at) \cup render_d2_call_edges(d2_at)
        /\ d2_look' = Declare(Declare(container, blocks, "block"), callees, "callee")
    BY <1>0, <1>2 DEF render_d2_function, D2Item
  <2>2. \A id \in DOMAIN d2_look' : d2_look'[id] \in Looks
    <3>1. {"function", "block", "callee"} \subseteq Looks
      BY DEF Looks
    <3>2. \A id \in DOMAIN container : container[id] \in Looks
      BY <1>0, <3>1, DeclareLooks
    <3> HIDE DEF container, blocks, callees
    <3> DEFINE declared == Declare(container, blocks, "block")
    <3>3. \A id \in DOMAIN declared : declared[id] \in Looks
      BY <3>1, <3>2, DeclareLooks
    <3> HIDE DEF declared
    <3>4. \A id \in DOMAIN Declare(declared, callees, "callee") :
             Declare(declared, callees, "callee")[id] \in Looks
      BY <3>1, <3>3, DeclareLooks
    <3> QED
      BY <2>1, <3>4 DEF declared
  <2>3. /\ d2_labels' = d2_labels \cup D2LabelsOf(d2_at)
        /\ d2_edges' = d2_edges \cup D2EdgesOf(d2_at)
    BY <2>1 DEF D2LabelsOf, D2EdgesOf
  <2> QED
    BY <2>1, <2>2, <2>3, D2Advances
<1>3. CASE D2FnPanics
  <2>1. /\ crate' = crate /\ d2_at' = d2_at /\ d2_labels' = d2_labels /\ d2_edges' = d2_edges
        /\ d2_look' = d2_look /\ d2_status' \in {d2_status, "panicked"}
    BY <1>3 DEF D2FnPanics
  <2> QED
    BY <2>1, D2Stays
<1>4. CASE D2Other
  <2>1. /\ d2_status = "rendering" /\ d2_at \in Items /\ ~IsFn(crate.items[d2_at])
        /\ d2_at' = d2_at + 1 /\ crate' = crate /\ d2_status' = d2_status
        /\ d2_labels' = d2_labels /\ d2_edges' = d2_edges
        /\ d2_look' = Declare(d2_look, {short_name(crate.items[d2_at].name)}, crate.items[d2_at].kind)
    BY <1>0, <1>4 DEF D2Other, D2Item
  <2>2. crate.items[d2_at].kind \in Looks
    <3>1. crate.items[d2_at].kind \in {"fn", "static", "asm"}
      BY <2>1, ItemFacts DEF IInv
    <3> QED
      BY <2>1, <3>1 DEF IsFn, Looks
  <2>3. \A id \in DOMAIN d2_look' : d2_look'[id] \in Looks
    BY <1>0, <2>1, <2>2, DeclareLooks
  <2>4. /\ d2_labels' = d2_labels \cup D2LabelsOf(d2_at)
        /\ d2_edges' = d2_edges \cup D2EdgesOf(d2_at)
    BY <2>1 DEF D2LabelsOf, D2EdgesOf
  <2> QED
    BY <2>1, <2>3, <2>4, D2Advances
<1>5. CASE D2Done
  <2>1. /\ crate' = crate /\ d2_at' = d2_at /\ d2_labels' = d2_labels /\ d2_edges' = d2_edges
        /\ d2_look' = d2_look /\ d2_status' = "done" /\ d2_at = Len(crate.items) + 1
    BY <1>5 DEF D2Done
  <2> QED
    BY <2>1, D2Stays
<1> QED
  BY <1>1, <1>2, <1>3, <1>4, <1>5 DEF to_d2_file

LEMMA RenderersNext == IInv /\ [Next]_vars => IInv'
<1> SUFFICES ASSUME IInv, [Next]_vars PROVE IInv'
  OBVIOUS
<1>1. CASE to_dot_file /\ UNCHANGED d2_state
  <2>1. DotDrawn' /\ crate' = crate
    BY <1>1, DotNext
  <2>2. D2Drawn'
    <3>1. /\ d2_at' = d2_at /\ d2_status' = d2_status /\ d2_look' = d2_look
          /\ d2_labels' = d2_labels /\ d2_edges' = d2_edges
      BY <1>1 DEF d2_state
    <3> QED
      BY <2>1, <3>1, D2Stays
  <2> QED
    BY <2>1, <2>2 DEF IInv
<1>2. CASE to_d2_file /\ UNCHANGED dot_state
  <2>1. D2Drawn' /\ crate' = crate
    BY <1>2, D2Next
  <2>2. DotDrawn'
    <3>1. /\ dot_at' = dot_at /\ dot_status' = dot_status /\ dot_nodes' = dot_nodes
          /\ dot_edges' = dot_edges
      BY <1>2 DEF dot_state
    <3> QED
      BY <2>1, <3>1, DotStays
  <2> QED
    BY <2>1, <2>2 DEF IInv
<1>3. CASE UNCHANGED vars
  <2>1. /\ crate' = crate
        /\ dot_at' = dot_at /\ dot_status' = dot_status /\ dot_nodes' = dot_nodes
        /\ dot_edges' = dot_edges
        /\ d2_at' = d2_at /\ d2_status' = d2_status /\ d2_look' = d2_look
        /\ d2_labels' = d2_labels /\ d2_edges' = d2_edges
    BY <1>3 DEF vars, dot_state, d2_state
  <2>2. DotDrawn' /\ D2Drawn'
    BY <2>1, DotStays, D2Stays
  <2> QED
    BY <2>1, <2>2 DEF IInv
<1> QED
  BY <1>1, <1>2, <1>3 DEF Next

\* The nodes of a legend, a missing function or an item have one of the looks there are.
LEMMA TypeOKWhenDrawn == IInv => TypeOK
<1> SUFFICES ASSUME IInv PROVE TypeOK
  OBVIOUS
<1> DEFINE looks == {"allocs", "types", "locals", "missing", "block", "static", "asm"}
<1>1. Len(crate.items) \in Nat
  BY ItemFacts DEF IInv
<1>2. ASSUME NEW n \in dot_nodes
      PROVE  n.look \in looks
  <2>1. dot_at # 0
    BY DEF IInv, DotDrawn
  <2>2. dot_at - 1 <= Len(crate.items) /\ dot_at \in Nat
    BY <1>1, <2>1 DEF IInv, DotDrawn
  <2>3. n \in Legends \/ n \in MissingNodes \/ \E k \in 1..(dot_at - 1) : n \in DotNodesOf(k)
    BY <2>1 DEF IInv, DotDrawn
  <2>4. CASE n \in Legends \/ n \in MissingNodes
    BY <2>4 DEF Legends, MissingNodes
  <2>5. ASSUME NEW k \in 1..(dot_at - 1), n \in DotNodesOf(k)
        PROVE  n.look \in looks
    <3>1. k \in Items
      BY <1>1, <2>2 DEF Items
    <3>2. crate.items[k].kind \in {"fn", "static", "asm"}
      BY <3>1, ItemFacts DEF IInv
    <3>3. CASE IsFn(crate.items[k])
      BY <2>5, <3>3 DEF DotNodesOf, Locals, DotBlocks
    <3>4. CASE ~IsFn(crate.items[k])
      BY <2>5, <3>2, <3>4 DEF DotNodesOf, IsFn
    <3> QED
      BY <3>3, <3>4
  <2> QED
    BY <2>3, <2>4, <2>5
<1>3. {dot_at, d2_at} \subseteq 0..(Len(crate.items) + 1)
  BY DEF IInv, DotDrawn, D2Drawn
<1>4. {dot_status, d2_status} \subseteq {"rendering", "done", "panicked"}
  BY DEF IInv, DotDrawn, D2Drawn
<1> QED
  BY <1>2, <1>3, <1>4 DEF TypeOK, IInv, D2Drawn

-----------------------------------------------------------------------------
(* The theorems                                                            *)

THEOREM RenderersInvariant == Spec => []IInv
<1>1. Init => IInv
  BY RenderersInit
<1>2. IInv /\ [Next]_vars => IInv'
  BY RenderersNext
<1> QED
  BY <1>1, <1>2, PTL DEF Spec

\* What is drawn has one of the looks there are, and the renderers stay within the items.
THEOREM RenderersTyped == Spec => []TypeOK
BY RenderersInvariant, TypeOKWhenDrawn, PTL

\* to_dot_file draws every known function as one node and no edge into the void, but for
\* the calls of unknown callees.
THEOREM RenderersCallsLand == Spec => []CallsLand
BY RenderersInvariant, CallsLandWhenDrawn, PTL

\* to_dot_file and to_d2_file draw the same control flow, calls and labels.
THEOREM RenderersSameGraph == Spec => []SameGraph
BY RenderersInvariant, SameGraphWhenDrawn, PTL

\* The legends have exactly one line for every allocation a label mentions, and the size of
\* every composite type.
THEOREM RenderersLegendExplains == Spec => []LegendExplains
BY RenderersInvariant, LegendExplainsWhenDrawn, PTL
=============================================================================
