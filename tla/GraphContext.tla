---------------------------- MODULE GraphContext ----------------------------
(***************************************************************************)
(* What the two graph renderers share (src/src/mk_graph/context.rs and     *)
(* util.rs): the map from function types to names, the constants of a      *)
(* label, the identifiers of nodes, the names they can print, and the      *)
(* successors of a block.                                                  *)
(*                                                                         *)
(* An item is [kind, symbol, name, locals, body]; locals are the types of  *)
(* its locals, body is a sequence of at most one body, and a body the      *)
(* sequence of its blocks.  A block is                                     *)
(* [consts, kind, targets, cleanup, func, operands]: the constants of its  *)
(* statements and then its terminator, where cleanup has at most one       *)
(* element, func is what a call calls, [op, ty], and operands are the      *)
(* constants it switches on, asserts or passes.  A constant is             *)
(* [kind, ty, bytes, ptrs].  Of a label everything but its constants and   *)
(* the callee is left out: places and operators are printed as they are.   *)
(***************************************************************************)
EXTENDS GraphIndex

CONSTANTS Qualified,    \* names that contain "::"
          ShortName,    \* [names -> names]: short_fn_name, the last part of a path
          Words,        \* [names -> Seq(Seq(1..4))]: the words of a name, each the sequence
                        \* of the widths of its characters in UTF-8
          FnTypes       \* types of functions: TyKind::is_fn

LineBytes == 25

IsSeq(s) == s \in Seq(ToSet(s))

\* Symbols are unique, an entry of smir.functions is of a function and is found in the
\* items by a symbol that is the function's, bodies have blocks and their terminators stay
\* in the body, and the allocations that constants point to were collected.
ASSUME BodiesAssumption ==
  \A c \in Crates :
    /\ IsSeq(c.items) /\ IsSeq(c.functions)
    /\ \A i, j \in DOMAIN c.items : c.items[i].symbol = c.items[j].symbol => i = j
    /\ \A f \in ToSet(c.functions) :
         /\ f.ty \in FnTypes
         /\ \A item \in ToSet(c.items) : item.symbol = f.name => item.kind = "fn"
    /\ \A item \in ToSet(c.items) :
         /\ item.kind \in {"fn", "static", "asm"}
         /\ item.body # <<>> =>
              /\ IsSeq(item.body[1]) /\ item.body[1] # <<>>
              /\ \A block \in ToSet(item.body[1]) :
                   /\ IsSeq(block.consts) /\ IsSeq(block.operands)
                   /\ block.kind = "Call" => block.func.op \in {"const", "place"}
                   /\ ToSet(block.targets) \cup ToSet(block.cleanup) \subseteq 0..(Len(item.body[1]) - 1)
                   /\ \A const \in ToSet(block.consts) \cup ToSet(block.operands) :
                        const.kind = "Allocated" =>
                          ToSet(const.ptrs) \subseteq {a.id : a \in ToSet(c.allocs)}

Symbols == {item.symbol : item \in ToSet(crate.items)}
HasBody(item) == item.body # <<>>
Blocks(item) == IF HasBody(item) THEN item.body[1] ELSE <<>>
IsFn(item) == item.kind = "fn"

-----------------------------------------------------------------------------
(***************************************************************************)
(* GraphContext::functions: the entries of smir.functions collected in a   *)
(* HashMap by their type alone; the last one of a type wins.               *)
(***************************************************************************)
EntriesOf(ty) == {i \in DOMAIN crate.functions : crate.functions[i].ty = ty}
IsKnown(ty) == EntriesOf(ty) # {}
FunctionName(ty) == crate.functions[Max(EntriesOf(ty))].name
FunctionNames == {FunctionName(f.ty) : f \in ToSet(crate.functions)}

\* resolve_call_target: the name of the callee, if it is a known constant
resolve_call_target(func) ==
  IF func.op = "const" /\ func.ty \in FnTypes /\ IsKnown(func.ty) THEN {FunctionName(func.ty)} ELSE {}

\* render_const
Typed(form, const) == [form |-> form, name |-> get_name(const.ty)]
AllocatedLabel(const) ==
  LET concrete == Concrete(const.bytes) IN
  IF const.ptrs # <<>>
  THEN [form |-> "refs", allocs |-> [i \in DOMAIN const.ptrs |-> describe(const.ptrs[i])]]
  ELSE IF Len(concrete) \in 1..NumberBytes THEN Number(get_name(const.ty), concrete)
  ELSE Typed("const", const)
render_const(const) ==
  CASE const.kind = "Allocated" -> AllocatedLabel(const)
    [] const.kind = "ZeroSized" /\ const.ty \in FnTypes /\ IsKnown(const.ty) ->
         [form |-> "fn", name |-> ShortName[FunctionName(const.ty)]]
    [] const.kind \in {"Unevaluated", "Param"} -> Typed(const.kind, const)
    [] OTHER -> Typed("const", const)

Rendered(consts) == [i \in DOMAIN consts |-> render_const(consts[i])]

\* render_stmt, render_rvalue, render_intrinsic: every constant operand of every statement
render_stmts(block) == Rendered(block.consts)

\* render_terminator: what it shows of the callee and of the operands
render_terminator(block) ==
  CASE block.kind = "Call" ->
         [callee |-> {ShortName[f] : f \in resolve_call_target(block.func)},
          operands |-> Rendered(block.operands)]
    [] block.kind \in {"SwitchInt", "Assert"} ->
         [callee |-> {}, operands |-> Rendered(block.operands)]
    [] OTHER -> [callee |-> {}, operands |-> <<>>]

is_unqualified(name) == name \notin Qualified

\* Identifiers.  Both are made from a 64 bit hash of the name, taken to be injective, and
\* differ in form from each other and from those made up for legends and unknown callees.
Id(of, name, nth) == [of |-> of, name |-> name, nth |-> nth]
short_name(name) == Id("name", name, 0)
block_name(name, id) == Id("block", name, id)

\* name_lines cuts each word into pieces of LineBytes bytes, and panics if a cut falls
\* inside a character.
Ends(word) ==
  LET End[k \in 0..Len(word)] == IF k = 0 THEN 0 ELSE End[k - 1] + word[k]
  IN {End[k] : k \in 0..Len(word)}
CutsBetweenCharacters(word) ==
  \A cut \in 1..Max(Ends(word)) : cut % LineBytes = 0 => cut \in Ends(word)
name_lines_panics(name) == ~\A word \in ToSet(Words[name]) : CutsBetweenCharacters(word)

\* The ways out of a block, each the target it takes in the role it takes it
Exits(role, targets) == {[role |-> role, nth |-> j, to |-> targets[j]] : j \in DOMAIN targets}

\* The call itself, which is no exit to a block
CallExit == [role |-> "call", nth |-> 1, to |-> 0]

\* terminator_targets
terminator_targets(block) ==
  CASE block.kind \in {"Goto", "SwitchInt"} -> Exits("target", block.targets)
    [] block.kind \in {"Drop", "Call", "Assert", "InlineAsm"} ->
         Exits("target", block.targets) \cup Exits("cleanup", block.cleanup)
    [] OTHER -> {}
=============================================================================
