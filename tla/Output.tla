-------------------------------- MODULE Output --------------------------------
(***************************************************************************)
(* The program and what surrounds it: people run it by hand, and the       *)
(* integration tests (src/Makefile, integration-test and golden) run it,   *)
(* compare or record the JSON it leaves, normalised, and delete it.  A     *)
(* test says nothing ("silent") or reports a failure.                      *)
(*                                                                         *)
(* One test file is modelled.  Its source changes between runs, as does    *)
(* its .expected file when somebody makes golden files.  What is compared  *)
(* are the outputs as normalise-filter.jq leaves them.                     *)
(***************************************************************************)
EXTENDS Emit, Normalise

CONSTANTS Empty, Missing   \* an .expected file without contents, and none at all

VARIABLES mode,      \* who runs the program: "by hand", "check" or "golden"
          verdict,   \* "none", "running", "silent" or "reported"
          expected,  \* what the .expected file holds: a filtered output, Empty or Missing
          judged     \* the text this test compared or recorded, <<>> if none has

harness == <<mode, verdict, expected, judged>>
all == <<vars, harness>>

Target == "smir.json"
Forms == {normalise_filter(smir) : smir \in Smirs}
Expectations == Forms \cup {Empty, Missing}
ASSUME NamesAssumption == Empty # Missing /\ Empty \notin Forms /\ Missing \notin Forms

\* What the filter makes of a text: nothing, if it is not whole
Normalised(content) ==
  IF Len(content) = 1 /\ content[1].whole THEN normalise_filter(content[1].smir) ELSE Empty

OutputInit == Init /\ mode = "by hand" /\ verdict = "none" /\ expected = Missing /\ judged = <<>>

ByHand(source, flag, to_stdout) ==
  /\ verdict # "running"
  /\ Start(source, flag, to_stdout)
  /\ mode' = "by hand" /\ verdict' = "none" /\ judged' = <<>>
  /\ UNCHANGED expected

\* cargo run -- "-Zno-codegen" --out-dir dir test.rs
RunTest(source, m) ==
  /\ verdict # "running"
  /\ Start(source, "-Zno-codegen", FALSE)
  /\ mode' = m /\ verdict' = "running" /\ judged' = <<>>
  /\ UNCHANGED expected

Ended == step = "exited" /\ verdict = "running"
Report(ok) == verdict' = IF ok THEN "silent" ELSE "reported"
Keep == UNCHANGED <<files, exists>>
Delete == files' = [files EXCEPT ![Target] = <<>>] /\ exists' = exists \ {Target}

\* Fault for the mutation run: a failed conversion reported only if nothing is left of it.
IgnoresStatus ==
  /\ Ended /\ Target \in exists
  /\ LET new == Normalised(files[Target])
         fine == IF mode = "check" THEN new = expected ELSE new # Empty
     IN /\ expected' = IF mode = "golden" THEN new ELSE expected
        /\ IF fine THEN Delete ELSE Keep
        /\ Report(fine)
  /\ judged' = files[Target]
  /\ UNCHANGED <<mode, step, run, text, status, assembled>>

NoTarget == /\ Ended /\ Target \notin exists
            /\ Report(FALSE)
            /\ UNCHANGED <<mode, expected, judged, vars>>

\* NORMALIZE | diff, or NORMALIZE > .expected, then rm unless it failed
Judge ==
  /\ Ended /\ Target \in exists
  /\ LET new == Normalised(files[Target])
         fine == IF mode = "check" THEN new = expected ELSE new # Empty
     IN /\ expected' = IF mode = "golden" THEN new ELSE expected
        /\ IF fine THEN Delete ELSE Keep
        /\ Report(fine /\ status = "ok")
  /\ judged' = files[Target]
  /\ UNCHANGED <<mode, step, run, text, status, assembled>>

Next == \/ \E source \in Sources, flag \in Flags, to_stdout \in BOOLEAN : ByHand(source, flag, to_stdout)
        \/ \E source \in Sources, m \in {"check", "golden"} :
             Crate[source].outcome # "query" /\ RunTest(source, m)
        \/ Step /\ UNCHANGED harness
        \/ NoTarget \/ Judge

Spec == OutputInit /\ [][Next]_all

-----------------------------------------------------------------------------
\* Type invariant.
TypeOK ==
  /\ step \in Steps /\ text \in BOOLEAN
  /\ run \in Invocations
  /\ files \in [Paths -> Seq(Chunk)] /\ exists \in SUBSET Paths
  /\ status \in {"running", "ok", "failed", "killed"} /\ (status = "running") = (step # "exited")
  /\ mode \in {"by hand", "check", "golden"} /\ verdict \in {"none", "running", "silent", "reported"}
  /\ expected \in Expectations /\ judged \in Seq(Chunk)

\* Types that only their numbers tell apart in the sort are the same to the filter.
NoTwinTypes(collected) ==
  \A t, u \in Entities(collected, "types") :
    TyDisplay[t.ty] = TyDisplay[u.ty] => Left("types", t) = Left("types", u)

\* "sort output vectors by content-derived keys for deterministic output": given what was
\* collected, the outputs do not depend on the order of the hash maps nor on the numbers
\* rustc gives the types.  Place by place two lists have the same content key and differ
\* only among elements whose keys tie, and the filter of the integration tests makes them
\* equal.  What is collected may itself differ from run to run: a source has several
\* collections.
Reproducible ==
  \A a, b \in assembled : (a # b /\ a.collected = b.collected) =>
    /\ \A section \in Sections :
         LET Key(e) == content_key(section, e)
             s == a.smir[section]
             t == b.smir[section]
         IN /\ Len(s) = Len(t)
            /\ \A i \in DOMAIN s :
                 /\ Key(s[i]) = Key(t[i])
                 /\ s[i] = t[i] \/ \E j \in DOMAIN s \ {i} : Key(s[j]) = Key(s[i])
    /\ NoTwinTypes(a.collected) => normalise_filter(a.smir) = normalise_filter(b.smir)

Ran == step = "exited" /\ Crate[run.source].outcome = "crate" /\ run.path \in Paths

\* An invocation that got to its callback and reports success has written its own text, all
\* of it, except that a text that fits the buffer may be cut short: File::create and write!
\* are checked, the flush when the BufWriter is dropped is not.
SuccessMeansWritten ==
  (Ran /\ run.n > 0 /\ status = "ok" /\ verdict \in {"none", "running"}) =>
    /\ run.path \in exists
    /\ \/ files[run.path] = MyChunk(TRUE)
       \/ ~Crate[run.source].big /\ files[run.path] \in {<<>>, MyChunk(FALSE)}

\* Texts of two runs never mix in a file, whatever failed or was killed.
OneRunPerFile ==
  \A p \in Paths : \A i, j \in DOMAIN files[p] : files[p][i].by = files[p][j].by

\* A run that fails in the compiler, in collecting or in rendering leaves the outputs of
\* earlier runs alone: an output file changes only while the whole text of this run is in
\* memory, and only the file of the chosen emitter; the tests delete their JSON only.
TouchesOnlyOwn ==
  [][\A p \in Paths :
       (files'[p] # files[p] \/ (p \in exists') # (p \in exists)) =>
         \/ p = run.path /\ text /\ step # "exited"
         \/ p = Target /\ Ended]_all

\* A test that reports nothing has compared or recorded the whole text of its own run, which
\* succeeded.  Two cases escape it: rustc stopped with an error that the driver dropped, and
\* an older text is still there; or the text was lost in the buffer and nothing is expected.
SilentMeansFresh ==
  verdict = "silent" =>
    /\ status = "ok"
    /\ \/ judged = MyChunk(TRUE)
       \/ Crate[run.source].outcome = "error"
       \/ ~Crate[run.source].big /\ Normalised(judged) = Empty /\ mode = "check" /\ expected = Empty
=============================================================================
