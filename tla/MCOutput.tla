------------------------------- MODULE MCOutput -------------------------------
(***************************************************************************)
(* Five sources: a small crate whose collection follows the pointer of an  *)
(* allocation or does not, as its first visitor has it; a big one with     *)
(* names that cannot be drawn; one whose assembly panics, one that does    *)
(* not compile, and a query of the compiler.                               *)
(***************************************************************************)
EXTENDS Output

Nothing == [allocs |-> {}, functions |-> {}, items |-> {}, types |-> {}, spans |-> {}, consts |-> {}]

Alloc(id, kind, name, bytes) == [id |-> id, kind |-> kind, name |-> name, bytes |-> bytes, ptrs |-> <<>>]
Fn(ty, kind, symbol) == [ty |-> ty, kind |-> kind, symbol |-> symbol]
Type(ty, kind, rest) == [ty |-> ty, kind |-> kind, rest |-> rest]
MCTyDisplay == [ty \in {"t1", "t2", "t3", "t4"} |-> CASE ty = "t1" -> 2 [] ty = "t4" -> 1 [] OTHER -> 3]

Pointing == [Alloc("a", "Memory", 0, <<1>>) EXCEPT !.ptrs = <<<<0, "c">>>>]
\* The pointer was followed; the first two allocations have one content key.
Deep ==
  [Nothing EXCEPT
     !.allocs = {Pointing, Alloc("b", "Memory", 0, <<1>>), Alloc("c", "Memory", 0, <<0, 2>>)},
     !.types = {Type("t1", "Coroutine", ""), Type("t4", "Str", "")}]
\* It was not.
Shallow == [Nothing EXCEPT !.allocs = {Pointing}, !.types = {Type("t1", "Coroutine", ""), Type("t4", "Str", "")}]
\* Every list has an order, but for two types that only their numbers tell apart in it.
Full ==
  [allocs |-> {Alloc("a", "Memory", 0, <<2>>), Alloc("b", "Memory", 0, <<0>>), Alloc("c", "Static", 2, <<>>)},
   functions |-> {Fn("t2", <<1>>, 1), Fn("t2", <<>>, 2), Fn("t3", <<>>, 3)},
   items |-> {[symbol |-> 2, name |-> 1], [symbol |-> 1, name |-> 2]},
   types |-> {Type("t2", "Union", "4"), Type("t3", "Union", "8")},
   spans |-> {[id |-> "s", source |-> 1], [id |-> "r", source |-> 2]},
   consts |-> {[id |-> "k", symbol |-> 1]}]

Unevaluated == [Nothing EXCEPT !.types = {Type("t1", "Array of unevaluated length", "")}]

Source(collections, outcome, drawable, big) ==
  [collections |-> collections, outcome |-> outcome, drawable |-> drawable, big |-> big]
MCCrate ==
  [small |-> Source({Deep, Shallow}, "crate", TRUE, FALSE),
   big |-> Source({Full}, "crate", FALSE, TRUE),
   panics |-> Source({Unevaluated}, "crate", TRUE, FALSE),
   broken |-> Source({Nothing}, "error", TRUE, FALSE),
   version |-> Source({Nothing}, "query", TRUE, FALSE)]
MCSources == DOMAIN MCCrate
=============================================================================
