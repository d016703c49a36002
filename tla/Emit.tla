--------------------------------- MODULE Emit ---------------------------------
(***************************************************************************)
(* One invocation after another of stable_mir_json: main picks an emitter  *)
(* (src/src/main.rs), rustc runs it as a callback after its analysis       *)
(* (driver.rs), and the emitter collects, renders and writes one file      *)
(* (printer/mod.rs, mk_graph/mod.rs, compat/output.rs).  Every system call *)
(* may fail and the process may be killed between any two steps; what a    *)
(* run leaves behind is what the next one finds.                           *)
(*                                                                         *)
(* What is compiled is a source; Crate gives its collections, outcome,     *)
(* drawable and big.  collections are what collecting may deliver: which   *)
(* of them a run gets depends on the order in which the work loop takes    *)
(* the items from a hash map.  outcome is what the compiler makes of it:   *)
(*   "query"   there is nothing to compile (-vV), no callback runs;        *)
(*   "error"   it does not pass the analysis, no callback runs;            *)
(*   "crate"   the callback runs.                                          *)
(* drawable says whether its names can be cut (name_lines), big whether    *)
(* the text fills the buffer of a BufWriter.                               *)
(***************************************************************************)
EXTENDS Assemble

CONSTANTS Sources,   \* what may be compiled
          Crate,     \* [Sources -> [collections, outcome, drawable, big]]
          Flags,     \* first arguments that choose an emitter, or "none"
          MaxRuns    \* bound of this model on the number of invocations

ASSUME EmitAssumption == Sources # {} /\ MaxRuns \in Nat
ASSUME CollectedAssumption ==
  \A source \in Sources : /\ Crate[source].collections # {}
                          /\ \A collected \in Crate[source].collections : IsCollected(collected)

VARIABLES step,      \* the step the current invocation is at, "exited" between invocations
          run,       \* the current invocation: [n, source, path, smir]; path is the file it
                     \* will write, or Stdout, and smir what it assembled
          files,     \* [Paths -> Seq(Chunk)]: what is in the output files
          exists,    \* the output files that exist
          text,      \* whether the whole text to write is in memory
          status,    \* exit status: "ok", "failed", "killed", or "running"
          assembled  \* history: [collected, smir] of each run, what it collected and assembled

vars == <<step, run, files, exists, text, status, assembled>>

Paths == {"smir.json", "smir.dot", "smir.d2"}
Stdout == "stdout"
\* What the runs may assemble
Collections == UNION {Crate[source].collections : source \in Sources}
Smirs == UNION {assemble_smir(collected) : collected \in Collections}
NoSmir == [section \in Sections |-> <<>>]
\* A chunk of text, by the n-th run from what it assembled; whole if it is all of its text.
Chunk == [by : 1..MaxRuns, smir : Smirs, whole : BOOLEAN]
\* An invocation: the n-th run of the program, and what it assembled if it has
Invocations == [n : 0..MaxRuns, source : Sources, path : Paths \cup {Stdout}, smir : Smirs \cup {NoSmir}]
Steps == {"exited", "compiling", "collecting", "rendering", "opening", "writing", "closing",
          "continuing"}

\* Fault for the mutation run: the D2 graph in a file of another name.
ShortExtension(flag) == CASE flag = "--dot" -> "smir.dot"
                          [] flag = "--d2" -> "d2"
                          [] OTHER -> "smir.json"

\* main: the extension of the file the chosen emitter writes
Extension(flag) == CASE flag = "--dot" -> "smir.dot"
                     [] flag = "--d2" -> "smir.d2"
                     [] OTHER -> "smir.json"

MyChunk(whole) == <<[by |-> run.n, smir |-> run.smir, whole |-> whole]>>

Init == /\ step = "exited" /\ status = "ok"
        /\ run = [n |-> 0, source |-> CHOOSE s \in Sources : TRUE, path |-> Stdout, smir |-> NoSmir]
        /\ files = [p \in Paths |-> <<>>] /\ exists = {}
        /\ text = FALSE /\ assembled = {}

\* main, stable_mir_driver: to_stdout if the compiler's own output goes there (-o -).
Start(source, flag, to_stdout) ==
  /\ step = "exited" /\ run.n < MaxRuns
  /\ run' = [n |-> run.n + 1, source |-> source,
             path |-> IF to_stdout THEN Stdout ELSE Extension(flag), smir |-> NoSmir]
  /\ step' = "compiling" /\ status' = "running" /\ text' = FALSE
  /\ UNCHANGED <<files, exists, assembled>>

Exit(with) == step' = "exited" /\ status' = with

\* The analysis fails: rustc unwinds from a fatal error, or returns one, and what
\* RunCompiler::run returns is dropped.
CompileError ==
  /\ step = "compiling" /\ Crate[run.source].outcome = "error"
  /\ \E with \in {"ok", "failed"} : Exit(with)
  /\ UNCHANGED <<run, files, exists, text, assembled>>

Query == /\ step = "compiling" /\ Crate[run.source].outcome = "query"
         /\ Exit("ok")
         /\ UNCHANGED <<run, files, exists, text, assembled>>

\* Fault for the mutation run: the file opened before there is anything to write.
OpensFirst == /\ step = "compiling" /\ Crate[run.source].outcome = "crate"
              /\ step' = "collecting"
              /\ files' = [p \in Paths |-> IF p = run.path THEN <<>> ELSE files[p]]
              /\ UNCHANGED <<run, exists, text, status, assembled>>

after_analysis == /\ step = "compiling" /\ Crate[run.source].outcome = "crate"
                  /\ step' = "collecting"
                  /\ UNCHANGED <<run, files, exists, text, status, assembled>>

\* collect_smir.  A panic of the callback unwinds through rustc.
Collect ==
  /\ step = "collecting"
  /\ \E collected \in Crate[run.source].collections :
       \/ AssemblePanics(collected) /\ Exit("failed") /\ UNCHANGED <<run, assembled>>
       \/ /\ ~AssemblePanics(collected) /\ step' = "rendering" /\ UNCHANGED status
          /\ \E smir \in assemble_smir(collected) :
               /\ run' = [run EXCEPT !.smir = smir]
               /\ assembled' = assembled \cup {[collected |-> collected, smir |-> smir]}
  /\ UNCHANGED <<files, exists, text>>

\* serde_json::to_string, to_dot_file, to_d2_file
Drawn == run.path \in {"smir.dot", "smir.d2"}
Render ==
  /\ step = "rendering"
  /\ \/ Drawn /\ ~Crate[run.source].drawable /\ Exit("failed") /\ UNCHANGED text
     \/ (Drawn => Crate[run.source].drawable) /\ step' = "opening" /\ text' = TRUE /\ UNCHANGED status
  /\ UNCHANGED <<run, files, exists, assembled>>

\* Fault for the mutation run: the file opened without truncation.
Appends ==
  /\ step = "opening" /\ run.path \in Paths
  /\ \/ Exit("failed") /\ UNCHANGED <<files, exists>>
     \/ /\ UNCHANGED files
        /\ exists' = exists \cup {run.path}
        /\ step' = "writing" /\ UNCHANGED status
  /\ UNCHANGED <<run, text, assembled>>

\* File::create truncates; its failure is a panic.
Create ==
  /\ step = "opening" /\ run.path \in Paths
  /\ \/ Exit("failed") /\ UNCHANGED <<files, exists>>
     \/ /\ files' = [files EXCEPT ![run.path] = <<>>]
        /\ exists' = exists \cup {run.path}
        /\ step' = "writing" /\ UNCHANGED status
  /\ UNCHANGED <<run, text, assembled>>

WriteStdout ==
  /\ step = "opening" /\ run.path = Stdout
  /\ \/ Exit("failed")
     \/ step' = "continuing" /\ UNCHANGED status
  /\ UNCHANGED <<run, files, exists, text, assembled>>

\* What a write that fails may have left: nothing, or a part
Leaves(path, chunks) == files' = [files EXCEPT ![path] = @ \o chunks]

\* Fault for the mutation run: a failed write is only logged.
IgnoresErrors ==
  /\ step = "writing"
  /\ IF Crate[run.source].big
     THEN \E part \in {<<>>, MyChunk(FALSE), MyChunk(TRUE)} :
            Leaves(run.path, part) /\ step' = "closing" /\ UNCHANGED status
     ELSE step' = "closing" /\ UNCHANGED <<files, status>>
  /\ UNCHANGED <<run, exists, text, assembled>>

\* write!: a text as long as the buffer goes straight to the file, and an error is a
\* panic; a shorter one stays in the buffer.
Write ==
  /\ step = "writing"
  /\ IF Crate[run.source].big
     THEN \/ Leaves(run.path, MyChunk(TRUE)) /\ step' = "closing" /\ UNCHANGED status
          \/ \E part \in {<<>>, MyChunk(FALSE)} : Leaves(run.path, part) /\ Exit("failed")
     ELSE step' = "closing" /\ UNCHANGED <<files, status>>
  /\ UNCHANGED <<run, exists, text, assembled>>

\* The BufWriter is dropped: it writes what is in the buffer and ignores an error.
Close ==
  /\ step = "closing" /\ step' = "continuing"
  /\ IF Crate[run.source].big THEN UNCHANGED files
     ELSE \E part \in {<<>>, MyChunk(FALSE), MyChunk(TRUE)} : Leaves(run.path, part)
  /\ UNCHANGED <<run, exists, text, status, assembled>>

\* Compilation::Continue: the compiler goes on, and may still fail.
Continue == /\ step = "continuing"
            /\ \E with \in {"ok", "failed"} : Exit(with)
            /\ UNCHANGED <<run, files, exists, text, assembled>>

\* A kill in the middle of the one write leaves a part of the text.
WritesNow == step = (IF Crate[run.source].big THEN "writing" ELSE "closing")
Kill == /\ step # "exited" /\ Exit("killed")
        /\ \/ UNCHANGED files
           \/ WritesNow /\ Leaves(run.path, MyChunk(FALSE))
        /\ UNCHANGED <<run, exists, text, assembled>>

Step == \/ CompileError \/ Query \/ after_analysis \/ Collect \/ Render \/ Create \/ WriteStdout
        \/ Write \/ Close \/ Continue \/ Kill
=============================================================================
