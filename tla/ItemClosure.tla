---------------------------- MODULE ItemClosure ----------------------------
(***************************************************************************)
(* What the collection of items promises (src/src/printer/collect.rs): the *)
(* crate's mono items and, transitively, the items behind the unevaluated  *)
(* constants of their bodies, no fewer and no more, in whatever order they *)
(* are found; or no output at all when the walk of one of them panics.     *)
(***************************************************************************)
CONSTANTS Name,      \* symbol names
          Initial,   \* the mono items the compiler lists
          Uses,      \* [Name -> SUBSET Name]: items behind the constants of a body
          MayPanic   \* items whose body perhaps cannot be walked

VARIABLES found, outcome

avars == <<found, outcome>>

Closed(S) == \A n \in S : Uses[n] \subseteq S

AInit == found = Initial /\ outcome = "running"

Discover == /\ outcome = "running"
            /\ \E m \in found : \E n \in Uses[m] \ found : found' = found \cup {n}
            /\ UNCHANGED outcome

Deliver == outcome = "running" /\ Closed(found) /\ outcome' = "done" /\ UNCHANGED found

GiveUp == /\ outcome = "running"
          /\ found \cap MayPanic # {}
          /\ outcome' = "panicked"
          /\ UNCHANGED found

ANext == Discover \/ Deliver \/ GiveUp

ASpec == AInit /\ [][ANext]_avars

-----------------------------------------------------------------------------
\* The delivered items are the least set that holds the mono items and is closed
\* under the unevaluated constants: the result does not depend on the order.
LeastClosure ==
  outcome = "done" =>
    /\ Initial \subseteq found /\ Closed(found)
    /\ \A S \in SUBSET Name : (Initial \subseteq S /\ Closed(S)) => found \subseteq S
=============================================================================
