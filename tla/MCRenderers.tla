----------------------------- MODULE MCRenderers -----------------------------
(***************************************************************************)
(* Crates with a function f (its symbol is mangled), an exported function  *)
(* g (its symbol is its name) and a static, over all terminators of f's    *)
(* first block and several bodies of both.  The link map has one entry per *)
(* type, or a second one for f as LINK_INST adds them.  The constants are  *)
(* of every kind, and point to allocations of every kind.                  *)
(***************************************************************************)
EXTENDS Renderers

CONSTANTS FNames,    \* display names of f
          GBodies    \* "all" or "some": whether g may lack a body

Const(kind, ty, bytes, ptrs) == [kind |-> kind, ty |-> ty, bytes |-> bytes, ptrs |-> ptrs]
Pointer == [i \in 1..8 |-> 0]
ToStr == Const("Allocated", "&str", Pointer \o <<3>> \o Tail(Pointer), <<7>>)
ToAll == Const("Allocated", "(&u8, fn(), &dyn T, &[u8; 9])", Pointer \o Pointer \o Pointer, <<9, 8, 5, 4>>)
ToRefs == Const("Allocated", "&[&str; 2]", Pointer, <<6>>)
MinusOne == Const("Allocated", "i16", <<255, 255>>, <<>>)
Padded == Const("Allocated", "(u8, u32)", <<1, Uninit, Uninit, Uninit, 2, 0, 0, 0>>, <<>>)
Long == Const("Allocated", "[u8; 9]", Pointer \o <<1>>, <<>>)
FnConst(ty) == Const("ZeroSized", ty, <<>>, <<>>)
Other(kind) == Const(kind, "i16", <<>>, <<>>)
Unit == Const("ZeroSized", "()", <<>>, <<>>)

Alloc(id, ty, kind, bytes, name) == [id |-> id, ty |-> ty, kind |-> kind, bytes |-> bytes, name |-> name]
Str == Alloc(7, "str", "Memory", <<49, 50, 51>>, "")
Allocs == <<Str, Alloc(6, "[&str; 2]", "Memory", FlattenSeq(<<Pointer, Pointer, Pointer, Pointer>>), ""), Alloc(5, "u8", "Static", <<>>, "S"),
            Alloc(9, "Ext", "Function", <<>>, "ext"), Alloc(8, "dyn T", "VTable", <<>>, "T"),
            Alloc(4, "[u8; 9]", "Memory", Pointer \o <<200>>, "")>>

Type(ty, variant, layout) == [ty |-> ty, variant |-> variant, layout |-> layout]
Types == <<Type("str", "PrimitiveType", <<>>), Type("i16", "PrimitiveType", <<>>),
           Type("(u8, u32)", "TupleType", <<[size |-> 8, align |-> 4]>>),
           Type("()", "TupleType", <<[size |-> 0, align |-> 1]>>),
           Type("!", "VoidType", <<>>), Type("[&str; 2]", "ArrayType", <<[size |-> 32, align |-> 8]>>),
           Type("[u8; 9]", "ArrayType", <<>>)>>
TypeNames == {t.ty : t \in ToSet(Types)} \cup {"&str", "(&u8, fn(), &dyn T, &[u8; 9])", "&[&str; 2]", "u8", "Ext", "F", "dyn T"}
MCDisplay == [ty \in TypeNames |-> ty]
MCDebug == [ty \in TypeNames |-> CASE ty = "str" -> "Str" [] ty = "i16" -> "Int(I16)" [] OTHER -> ty]

Block(consts, kind, targets, cleanup, func, operands) ==
  [consts |-> consts, kind |-> kind, targets |-> targets, cleanup |-> cleanup, func |-> func,
   operands |-> operands]
Term(kind, targets, cleanup, func) == Block(<<>>, kind, targets, cleanup, func, <<>>)
NoFunc == [op |-> "none", ty |-> "none"]
Fun(ty) == [op |-> "const", ty |-> ty]
Place == [op |-> "place", ty |-> "none"]
Return == Term("Return", <<>>, <<>>, NoFunc)

FirstBlocks ==
  {Block(<<ToStr, ToAll>>, "Return", <<>>, <<>>, NoFunc, <<>>),
   Block(<<MinusOne, Padded, Long>>, "Goto", <<1>>, <<>>, NoFunc, <<>>),
   Block(<<Unit>>, "SwitchInt", <<1, 1, 0>>, <<>>, NoFunc, <<Other("Ty")>>),
   Block(<<FnConst("F"), FnConst("Ext")>>, "Drop", <<1>>, <<0>>, NoFunc, <<>>),
   Block(<<>>, "Assert", <<1>>, <<>>, NoFunc, <<Other("Param")>>),
   Block(<<Other("Unevaluated")>>, "InlineAsm", <<1>>, <<0>>, NoFunc, <<ToStr>>),
   Term("InlineAsm", <<>>, <<1>>, NoFunc),
   Block(<<ToStr>>, "Call", <<1>>, <<0>>, Fun("F"), <<ToRefs, MinusOne>>),
   Block(<<>>, "Call", <<>>, <<1>>, Fun("G"), <<ToAll>>),
   Term("Call", <<1>>, <<>>, Fun("Ext")), Term("Call", <<1>>, <<>>, Fun("fn()")),
   Block(<<>>, "Call", <<1>>, <<>>, Place, <<ToStr>>)}
SecondBlocks == {Term("Call", <<>>, <<>>, Fun("Lib")), Term("Call", <<>>, <<>>, Fun("F"))}
BodiesOfG == {<<<<Return>>>>, <<<<Term("Call", <<>>, <<>>, Fun("fn(u8)"))>>>>}
             \cup (IF GBodies = "all" THEN {<<>>} ELSE {})

Entry(ty, name) == [ty |-> ty, name |-> name]
Functions == <<Entry("Ext", "ext"), Entry("F", "_f"), Entry("G", "g"), Entry("Lib", "lib::init")>>
MCFnTypes == {"Ext", "F", "G", "Lib", "fn()", "fn(u8)"}

Item(kind, symbol, name, locals, body) ==
  [kind |-> kind, symbol |-> symbol, name |-> name, locals |-> locals, body |-> body]

\* A crate that points to one string has one allocation.
AllocsOf(block) == IF ToAll \in ToSet(block.consts \o block.operands) \/ ToRefs \in ToSet(block.operands)
                   THEN Allocs
                   ELSE IF ToStr \in ToSet(block.consts \o block.operands) THEN <<Str>> ELSE <<>>

MCCrates ==
  {[items |-> <<Item("fn", "_f", f, <<"()", "(u8, u32)", "!", "[&str; 2]", "u8">>, <<<<first, second>>>>),
                Item("fn", "g", "g", <<"()">>, g), Item("static", "_S", "S", <<>>, <<>>)>>,
    functions |-> functions, allocs |-> AllocsOf(first), types |-> types]
     : f \in FNames, first \in FirstBlocks, second \in SecondBlocks, g \in BodiesOfG,
       functions \in {Functions, <<Entry("F", "_f_shim")>> \o Functions},
       types \in {Types, <<Type("str", "PrimitiveType", <<>>)>>}}

\* 24 one byte characters and one of two bytes: the first piece ends inside the latter.
Narrow(n) == [i \in 1..n |-> 1]
Names == {"f", "ext", "_f", "_f_shim", "g", "lib::init", "wide"}
MCWords == [name \in Names |->
  CASE name = "wide" -> <<Narrow(3), Narrow(24) \o <<2>>>>
    [] name = "ext"  -> <<Narrow(25) \o <<2>>>>
    [] OTHER -> <<Narrow(4)>>]
MCShortName == [name \in Names |-> IF name = "lib::init" THEN "init" ELSE name]
=============================================================================
