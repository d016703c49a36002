---------------------------- MODULE MCAllocRuns ----------------------------
(***************************************************************************)
(* Several runs on the crate of MCAllocCollector, whose third memory       *)
(* allocation an untyped constant reaches before or after the typed one.   *)
(***************************************************************************)
EXTENDS AllocRuns, MCAllocCollector
=============================================================================
