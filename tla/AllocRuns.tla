----------------------------- MODULE AllocRuns -----------------------------
(***************************************************************************)
(* One run of the collector after another on one crate.  A run walks every *)
(* constant of the bodies once, in the order in which the work loop takes  *)
(* the bodies from a hash map (src/src/printer/util.rs, take_any), and     *)
(* hands its allocations to assemble_smir.                                 *)
(***************************************************************************)
EXTENDS AllocCollector, FiniteSets

VARIABLE outputs   \* history: the sets of allocations the finished runs handed over

Analyze == /\ \/ \E c \in Const \ Walked : VisitConst(c)
              \/ collect_alloc
           /\ UNCHANGED outputs

\* AllocMap::into_entries; the next run is another process.
Finish == /\ calls = <<>> /\ Walked = Const
          /\ outputs' = outputs \cup {DOMAIN visited_allocs}
          /\ visited_allocs' = [a \in {} |-> Placeholder]
          /\ duplicate_ids' = {}
          /\ walks' = [c \in Const |-> 0]
          /\ UNCHANGED calls

RunsInit == Init /\ outputs = {}
RunsSpec == RunsInit /\ [][Analyze \/ Finish]_<<vars, outputs>>

-----------------------------------------------------------------------------
(* A statement of the documentation that the code does not keep.           *)

\* README.md:60 "To compensate for any non-determinism in the output, the JSON file is
\* first processed to sort the array contents and remove data which changes": neither
\* sorting nor removing parts of each element changes how many there are, so two runs on
\* one crate would have to list equally many allocations.
SameReach == \A a, b \in outputs : Cardinality(a) = Cardinality(b)
=============================================================================
