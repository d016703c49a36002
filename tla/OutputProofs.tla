----------------------------- MODULE OutputProofs -----------------------------
(***************************************************************************)
(* Proofs about Output, for every set of sources and flags and any number  *)
(* of invocations: what the output files hold, what a silent test has      *)
(* seen, and, from the section on sorting onwards, in what the outputs of  *)
(* two runs may differ.                                                    *)
(***************************************************************************)
EXTENDS Output, TLAPS, FiniteSetTheorems, WellFoundedInduction

Big == Crate[run.source].big
Outcome == Crate[run.source].outcome
File == files[run.path]

\* The file as a run leaves it that noticed no error.
Written == /\ run.path \in exists
           /\ \/ File = MyChunk(TRUE)
              \/ ~Big /\ File \in {<<>>, MyChunk(FALSE)}

\* The file is created before it is written, and written at once.
Phases ==
  /\ step # "exited" => run.n # 0 /\ verdict \in {"none", "running"}
  /\ step \notin {"exited", "compiling"} => Outcome = "crate"
  /\ step \notin {"exited", "compiling", "collecting"} => run.smir \in Smirs
  /\ step \in {"opening", "writing", "closing", "continuing"} => text
  /\ step \in {"writing", "closing"} => run.path \in Paths /\ run.path \in exists
  /\ step = "writing" => File = <<>>
  /\ step = "closing" => File = IF Big THEN MyChunk(TRUE) ELSE <<>>
  /\ step = "continuing" => run.path = Stdout \/ Written

\* Until a test judges it.
Ends == (step = "exited" /\ status = "ok" /\ run.n # 0 /\ verdict \in {"none", "running"}) =>
          \/ Outcome \in {"error", "query"}
          \/ run.path = Stdout
          \/ Written

Tests == verdict = "running" => run.path = Target /\ Outcome # "query" /\ run.n # 0

Short == \A p \in Paths : files[p] = <<>> \/ Len(files[p]) = 1

IInv == TypeOK /\ Phases /\ Ends /\ Tests /\ Short /\ SilentMeansFresh

-----------------------------------------------------------------------------
LEMMA OneChunk ==
  ASSUME run \in Invocations, run.n # 0, run.smir \in Smirs,
         NEW whole \in BOOLEAN
  PROVE  MyChunk(whole) \in Seq(Chunk) /\ Len(MyChunk(whole)) = 1
<1>1. run.n \in 1..MaxRuns
  BY EmitAssumption DEF Invocations
<1>2. [by |-> run.n, smir |-> run.smir, whole |-> whole] \in Chunk
  BY <1>1 DEF Chunk
<1>. QED BY <1>2 DEF MyChunk

LEMMA FirstOfOne == ASSUME NEW S, NEW s \in Seq(S), Len(s) = 1 PROVE s[1] \in S
OBVIOUS

LEMMA SameIndex == ASSUME NEW S, NEW s \in Seq(S), s = <<>> \/ Len(s) = 1,
                          NEW i \in DOMAIN s, NEW j \in DOMAIN s
                   PROVE  i = j
OBVIOUS

LEMMA EmptySeq == ASSUME NEW S PROVE <<>> \in Seq(S) /\ Len(<<>>) = 0
OBVIOUS

LEMMA ZeroRuns == 0 \in 0..MaxRuns
BY EmitAssumption

LEMMA PositiveRuns == \A n \in 0..MaxRuns : n > 0 => n # 0
BY EmitAssumption

LEMMA OneMore == ASSUME NEW n \in 0..MaxRuns, n < MaxRuns
                 PROVE  n + 1 \in 0..MaxRuns /\ n + 1 # 0
BY EmitAssumption

LEMMA EmptyConcat == ASSUME NEW S, NEW s \in Seq(S) PROVE <<>> \o s = s
OBVIOUS

LEMMA NormalisedType == ASSUME NEW content \in Seq(Chunk)
                        PROVE  Normalised(content) \in Forms \cup {Empty}
<1>1. Len(content) = 1 => content[1] \in Chunk
  BY FirstOfOne
<1>. QED BY <1>1 DEF Normalised, Chunk, Forms

\* What Leaves makes of an empty file.
LEMMA LeavesFacts ==
  ASSUME files \in [Paths -> Seq(Chunk)], NEW p \in Paths, files[p] = <<>>,
         NEW chunks \in Seq(Chunk), Leaves(p, chunks)
  PROVE  /\ files' \in [Paths -> Seq(Chunk)] /\ files'[p] = chunks
         /\ \A q \in Paths \ {p} : files'[q] = files[q]
BY EmptyConcat DEF Leaves

\* The parts a write may leave.
LEMMA PartFacts ==
  ASSUME run \in Invocations, run.n # 0, run.smir \in Smirs,
         NEW part \in {<<>>, MyChunk(FALSE), MyChunk(TRUE)}
  PROVE  part \in Seq(Chunk) /\ (part = <<>> \/ Len(part) = 1)
<1>1. <<>> \in Seq(Chunk)
  BY EmptySeq
<1>. QED BY <1>1, OneChunk

-----------------------------------------------------------------------------
LEMMA InitInv == OutputInit => IInv
<1>. SUFFICES ASSUME OutputInit PROVE IInv
  OBVIOUS
<1>1. /\ step = "exited" /\ status = "ok" /\ text = FALSE /\ exists = {}
      /\ files = [p \in Paths |-> <<>>] /\ mode = "by hand" /\ verdict = "none"
      /\ expected = Missing /\ judged = <<>> /\ run.n = 0
  BY DEF OutputInit, Init
<1>2. run \in Invocations
  <2>1. (CHOOSE s \in Sources : TRUE) \in Sources /\ 0 \in 0..MaxRuns
    BY EmitAssumption, ZeroRuns
  <2>. QED BY <2>1 DEF OutputInit, Init, Invocations
<1>3. files \in [Paths -> Seq(Chunk)] /\ judged \in Seq(Chunk) /\ Short
  <2>1. <<>> \in Seq(Chunk)
    BY EmptySeq
  <2>. QED BY <1>1, <2>1 DEF Short
<1>4. TypeOK
  BY <1>1, <1>2, <1>3 DEF TypeOK, Steps, Expectations
<1>5. Phases /\ Tests /\ SilentMeansFresh
  BY <1>1 DEF Phases, Tests, SilentMeansFresh
<1>6. Ends
  BY <1>1 DEF Ends
<1>. QED BY <1>3, <1>4, <1>5, <1>6 DEF IInv

\* An invocation begins.
LEMMA StartInv ==
  ASSUME IInv, NEW source \in Sources, NEW flag, NEW to_stdout \in BOOLEAN,
         Start(source, flag, to_stdout), UNCHANGED expected, judged' = <<>>,
         \/ mode' = "by hand" /\ verdict' = "none"
         \/ /\ mode' \in {"check", "golden"} /\ verdict' = "running"
            /\ Extension(flag) = Target /\ ~to_stdout /\ Crate[source].outcome # "query"
  PROVE  IInv'
<1>. USE DEF IInv
<1>1. Extension(flag) \in Paths
  BY DEF Extension, Paths
<1>2. run' \in Invocations /\ run'.n # 0
      /\ run'.source = source /\ (~to_stdout => run'.path = Extension(flag))
  <2>1. run.n \in 0..MaxRuns /\ run.n < MaxRuns
    BY DEF Start, TypeOK, Invocations
  <2>2. run.n + 1 \in 0..MaxRuns /\ run.n + 1 # 0
    BY <2>1, OneMore
  <2>. QED BY <1>1, <2>2 DEF Start, Invocations
<1>3. TypeOK'
  BY <1>2, EmptySeq DEF Start, TypeOK, Steps, Invocations
<1>4. Phases' /\ Ends' /\ Short'
  BY <1>2 DEF Start, Phases, Ends, Short
<1>5. Tests'
  BY <1>2 DEF Start, Tests, Outcome
<1>6. SilentMeansFresh'
  BY DEF SilentMeansFresh
<1>. QED BY <1>3, <1>4, <1>5, <1>6

\* An invocation in progress takes a step that leaves the files alone and goes on.
LEMMA GoesOnInv ==
  ASSUME IInv, step # "exited", UNCHANGED <<run, files, exists, status, harness>>,
         step' \in {"collecting", "opening", "continuing"},
         step' # "collecting" => run.smir \in Smirs,
         Outcome = "crate", text' \in BOOLEAN, step' \in {"opening", "continuing"} => text',
         step' = "continuing" => run.path = Stdout \/ Written
  PROVE  IInv'
<1>. USE DEF harness
<1>1. TypeOK'
  BY DEF IInv, TypeOK, Steps
<1>2. Phases'
  BY DEF IInv, Phases, Written, File, Big, Outcome, MyChunk
<1>3. Ends' /\ Tests' /\ Short'
  BY DEF IInv, Phases, Ends, Tests, Short, Outcome
<1>4. SilentMeansFresh'
  BY DEF IInv, Phases, SilentMeansFresh
<1>. QED BY <1>1, <1>2, <1>3, <1>4 DEF IInv

\* The collection succeeds: what was assembled is one of the outputs the source may have.
LEMMA CollectedInv ==
  ASSUME IInv, UNCHANGED harness, Collect, step' = "rendering" /\ UNCHANGED status
  PROVE  IInv'
<1>. USE DEF harness
<1>1. UNCHANGED <<files, exists, text, status>> /\ step = "collecting"
  BY DEF Collect
<1>2. \E collected \in Crate[run.source].collections :
        \E smir \in assemble_smir(collected) : run' = [run EXCEPT !.smir = smir]
  BY DEF Collect, Exit
<1>3. run \in Invocations
  BY DEF IInv, TypeOK, Invocations
<1>4. PICK smir \in Smirs : run' = [run EXCEPT !.smir = smir]
  BY <1>2, <1>3 DEF Smirs, Collections, Invocations
<1>5. /\ run' \in Invocations /\ run'.smir \in Smirs /\ run'.n = run.n
      /\ run'.source = run.source /\ run'.path = run.path
  BY <1>3, <1>4 DEF Invocations
<1>6. TypeOK'
  BY <1>1, <1>5 DEF IInv, TypeOK, Steps, Invocations
<1>7. Phases' /\ Ends' /\ Tests' /\ Short'
  BY <1>1, <1>5 DEF IInv, Phases, Ends, Tests, Short, Outcome
<1>8. SilentMeansFresh'
  BY <1>1 DEF IInv, Phases, SilentMeansFresh
<1>. QED BY <1>6, <1>7, <1>8 DEF IInv

\* An invocation in progress ends.
LEMMA ExitInv ==
  ASSUME IInv, step # "exited", UNCHANGED <<run, exists, text, harness>>,
         NEW with \in {"ok", "failed", "killed"}, Exit(with),
         files' \in [Paths -> Seq(Chunk)], Short',
         with = "ok" => Outcome \in {"error", "query"} \/ run.path = Stdout \/ Written'
  PROVE  IInv'
<1>. USE DEF harness, Exit
<1>1. TypeOK'
  BY DEF IInv, TypeOK, Steps
<1>2. Phases' /\ Tests'
  BY DEF IInv, Phases, Tests, Outcome
<1>3. Ends'
  BY DEF IInv, Ends, Outcome
<1>4. SilentMeansFresh'
  BY DEF IInv, Phases, SilentMeansFresh
<1>. QED BY <1>1, <1>2, <1>3, <1>4 DEF IInv

-----------------------------------------------------------------------------
\* The steps that leave the output files alone.
LEMMA QuietStepInv ==
  ASSUME IInv, UNCHANGED harness,
         CompileError \/ Query \/ after_analysis \/ Collect \/ Render \/ WriteStdout \/ Continue
  PROVE  IInv'
<1>1. files \in [Paths -> Seq(Chunk)] /\ Short
  BY DEF IInv, TypeOK
<1>2. ASSUME NEW with \in {"ok", "failed"}, Exit(with), step # "exited",
             UNCHANGED <<run, files, exists, text>>,
             with = "ok" => Outcome \in {"error", "query"} \/ run.path = Stdout \/ Written
      PROVE  IInv'
  <2>1. Short' /\ files' \in [Paths -> Seq(Chunk)]
    BY <1>1, <1>2 DEF Short
  <2>2. Written => Written'
    BY <1>2 DEF Written, File, Big, MyChunk
  <2>. QED BY <1>2, <2>1, <2>2, ExitInv
<1>3. CASE CompileError
  <2>1. PICK with \in {"ok", "failed"} : Exit(with)
    BY <1>3 DEF CompileError
  <2>. QED BY <1>3, <2>1, <1>2 DEF CompileError, Outcome
<1>4. CASE Query
  BY <1>4, <1>2 DEF Query, Outcome
<1>5. CASE after_analysis
  BY <1>5, GoesOnInv DEF after_analysis, Outcome, IInv, TypeOK
<1>6. CASE Collect
  <2>1. CASE Exit("failed") /\ UNCHANGED run
    BY <1>6, <2>1, <1>2 DEF Collect
  <2>2. CASE step' = "rendering" /\ UNCHANGED status
    BY <1>6, <2>2, CollectedInv
  <2>. QED BY <1>6, <2>1, <2>2 DEF Collect
<1>7. CASE Render
  <2>1. CASE Exit("failed") /\ UNCHANGED text
    BY <1>7, <2>1, <1>2 DEF Render
  <2>2. CASE step' = "opening" /\ text' = TRUE /\ UNCHANGED status
    BY <1>7, <2>2, GoesOnInv DEF Render, IInv, Phases
  <2>. QED BY <1>7, <2>1, <2>2 DEF Render
<1>8. CASE WriteStdout
  <2>1. CASE Exit("failed")
    BY <1>8, <2>1, <1>2 DEF WriteStdout
  <2>2. CASE step' = "continuing" /\ UNCHANGED status
    BY <1>8, <2>2, GoesOnInv DEF WriteStdout, IInv, TypeOK, Phases
  <2>. QED BY <1>8, <2>1, <2>2 DEF WriteStdout
<1>9. CASE Continue
  <2>1. PICK with \in {"ok", "failed"} : Exit(with)
    BY <1>9 DEF Continue
  <2>. QED BY <1>9, <2>1, <1>2 DEF Continue, IInv, Phases
<1>. QED BY <1>3, <1>4, <1>5, <1>6, <1>7, <1>8, <1>9

\* File::create
LEMMA CreateInv == ASSUME IInv, UNCHANGED harness, Create PROVE IInv'
<1>1. files \in [Paths -> Seq(Chunk)] /\ Short /\ run.path \in Paths /\ <<>> \in Seq(Chunk)
  BY EmptySeq DEF IInv, TypeOK, Create
<1>2. CASE Exit("failed") /\ UNCHANGED <<files, exists>>
  <2>1. Short' /\ files' \in [Paths -> Seq(Chunk)]
    BY <1>1, <1>2 DEF Short
  <2>. QED BY <1>2, <2>1, ExitInv DEF Create
<1>3. CASE /\ files' = [files EXCEPT ![run.path] = <<>>] /\ exists' = exists \cup {run.path}
           /\ step' = "writing" /\ UNCHANGED status
  <2>. USE <1>1, <1>3 DEF Create, harness
  <2>1. files' \in [Paths -> Seq(Chunk)] /\ Short' /\ File' = <<>>
    BY DEF Short, File
  <2>2. TypeOK'
    BY <2>1 DEF IInv, TypeOK, Steps
  <2>3. Phases' /\ Ends' /\ Tests'
    BY <2>1 DEF IInv, Phases, Ends, Tests, Outcome
  <2>4. SilentMeansFresh'
    BY DEF IInv, Phases, SilentMeansFresh
  <2>. QED BY <2>1, <2>2, <2>3, <2>4 DEF IInv
<1>. QED BY <1>2, <1>3 DEF Create

\* The one write, at "writing" if the text is big and at "closing" otherwise: what it
\* leaves in the empty file.
LEMMA WriteFacts ==
  ASSUME IInv, step = IF Big THEN "writing" ELSE "closing",
         NEW part \in {<<>>, MyChunk(FALSE), MyChunk(TRUE)}, Leaves(run.path, part)
  PROVE  files' \in [Paths -> Seq(Chunk)] /\ Short' /\ files'[run.path] = part
<1>1. run.path \in Paths /\ files[run.path] = <<>> /\ run.n # 0 /\ run.smir \in Smirs
  BY DEF IInv, Phases, File
<1>2. files \in [Paths -> Seq(Chunk)] /\ Short
      /\ run \in Invocations
  BY DEF IInv, TypeOK, Invocations
<1>3. part \in Seq(Chunk) /\ (part = <<>> \/ Len(part) = 1)
  BY <1>1, <1>2, PartFacts
<1>4. /\ files' \in [Paths -> Seq(Chunk)] /\ files'[run.path] = part
      /\ \A q \in Paths \ {run.path} : files'[q] = files[q]
  BY <1>1, <1>2, <1>3, LeavesFacts
<1>. QED BY <1>2, <1>3, <1>4 DEF Short

\* A step to "closing" or "continuing" after which the file is as it should be.
LEMMA WroteInv ==
  ASSUME IInv, step \in {"writing", "closing"}, UNCHANGED <<run, exists, text, status, harness>>,
         files' \in [Paths -> Seq(Chunk)], Short',
         \/ step' = "closing" /\ File' = IF Big THEN MyChunk(TRUE) ELSE <<>>
         \/ step' = "continuing" /\ Written'
  PROVE  IInv'
<1>. USE DEF harness
<1>1. TypeOK'
  BY DEF IInv, TypeOK, Steps
<1>2. Big' = Big /\ MyChunk(TRUE)' = MyChunk(TRUE)
  BY DEF Big, MyChunk
<1>3. Phases'
  BY <1>2 DEF IInv, Phases, Outcome
<1>4. Ends' /\ Tests'
  BY DEF IInv, Phases, Ends, Tests, Outcome
<1>5. SilentMeansFresh'
  BY DEF IInv, Phases, SilentMeansFresh
<1>. QED BY <1>1, <1>3, <1>4, <1>5 DEF IInv

LEMMA WriteInv == ASSUME IInv, UNCHANGED harness, Write PROVE IInv'
<1>1. files \in [Paths -> Seq(Chunk)] /\ Short /\ step = "writing" /\ File = <<>>
  BY DEF IInv, TypeOK, Phases, Write
<1>2. CASE ~Big
  BY <1>1, <1>2, WroteInv DEF Write, Big, Short, File
<1>3. CASE Big /\ Leaves(run.path, MyChunk(TRUE)) /\ step' = "closing" /\ UNCHANGED status
  <2>1. files' \in [Paths -> Seq(Chunk)] /\ Short' /\ files'[run.path] = MyChunk(TRUE)
    BY <1>1, <1>3, WriteFacts
  <2>. QED BY <1>1, <1>3, <2>1, WroteInv DEF Write, File
<1>4. CASE Big /\ \E part \in {<<>>, MyChunk(FALSE)} : Leaves(run.path, part) /\ Exit("failed")
  <2>1. files' \in [Paths -> Seq(Chunk)] /\ Short'
    BY <1>1, <1>4, WriteFacts
  <2>. QED BY <1>1, <1>4, <2>1, ExitInv DEF Write
<1>. QED BY <1>2, <1>3, <1>4 DEF Write, Big

\* Close
LEMMA CloseInv == ASSUME IInv, UNCHANGED harness, Close PROVE IInv'
<1>1. files \in [Paths -> Seq(Chunk)] /\ Short /\ step = "closing" /\ run.path \in exists
  BY DEF IInv, TypeOK, Phases, Close
<1>2. UNCHANGED <<run, exists, text, status>> /\ step' = "continuing"
  BY DEF Close
<1>3. CASE Big
  <2>1. UNCHANGED files
    BY <1>3 DEF Close, Big
  <2>2. File = MyChunk(TRUE)
    BY <1>1, <1>3 DEF IInv, Phases
  <2>3. Written'
    BY <1>1, <1>2, <2>1, <2>2 DEF Written, File, MyChunk
  <2>. QED BY <1>1, <1>2, <2>1, <2>3, WroteInv DEF Short
<1>4. CASE ~Big
  <2>1. PICK part \in {<<>>, MyChunk(FALSE), MyChunk(TRUE)} : Leaves(run.path, part)
    BY <1>4 DEF Close, Big
  <2>2. files' \in [Paths -> Seq(Chunk)] /\ Short' /\ files'[run.path] = part
    BY <1>1, <1>4, <2>1, WriteFacts
  <2>3. Written'
    BY <1>1, <1>2, <1>4, <2>2 DEF Written, File, Big, MyChunk
  <2>. QED BY <1>1, <1>2, <2>2, <2>3, WroteInv
<1>. QED BY <1>3, <1>4

\* Kill
LEMMA KillInv == ASSUME IInv, UNCHANGED harness, Kill PROVE IInv'
<1>1. files \in [Paths -> Seq(Chunk)] /\ Short
  BY DEF IInv, TypeOK
<1>2. files' \in [Paths -> Seq(Chunk)] /\ Short'
  <2>1. CASE UNCHANGED files
    BY <1>1, <2>1 DEF Short
  <2>2. CASE WritesNow /\ Leaves(run.path, MyChunk(FALSE))
    BY <2>2, WriteFacts DEF WritesNow, Big
  <2>. QED BY <2>1, <2>2 DEF Kill
<1>. QED BY <1>2, ExitInv DEF Kill

-----------------------------------------------------------------------------
\* A test that finds no file
LEMMA NoTargetInv == ASSUME IInv, NoTarget PROVE IInv'
<1>. USE DEF NoTarget, Ended, Report, vars
<1>1. TypeOK'
  BY DEF IInv, TypeOK
<1>2. Phases' /\ Ends' /\ Tests' /\ Short' /\ SilentMeansFresh'
  BY DEF IInv, Phases, Ends, Tests, Short, SilentMeansFresh
<1>. QED BY <1>1, <1>2 DEF IInv

\* A test is judged: a silent one has the text of a run that wrote it, or a failed one of
\* an exception.
LEMMA JudgeInv == ASSUME IInv, Judge PROVE IInv'
<1>1. /\ files \in [Paths -> Seq(Chunk)] /\ Short /\ Target \in Paths /\ Target \in exists
      /\ step = "exited" /\ verdict = "running" /\ run.path = Target /\ <<>> \in Seq(Chunk)
  BY EmptySeq DEF IInv, TypeOK, Tests, Judge, Ended, Target, Paths
<1>2. UNCHANGED <<mode, step, run, text, status, assembled>> /\ judged' = files[Target]
      /\ verdict' \in {"silent", "reported"}
  BY DEF Judge, Report
<1>3. files' \in [Paths -> Seq(Chunk)] /\ Short' /\ exists' \subseteq exists
  <2>1. Keep \/ Delete
    BY DEF Judge
  <2>2. CASE Keep
    BY <1>1, <2>2 DEF Keep, Short
  <2>3. CASE Delete
    BY <1>1, <2>3 DEF Delete, Short
  <2>. QED BY <2>1, <2>2, <2>3
<1>4. expected' \in Expectations
  BY <1>1, NormalisedType DEF Judge, IInv, TypeOK, Expectations
<1>5. TypeOK'
  BY <1>1, <1>2, <1>3, <1>4 DEF IInv, TypeOK
<1>6. Phases' /\ Ends' /\ Tests'
  BY <1>1, <1>2 DEF Phases, Ends, Tests
<1>7. ASSUME verdict' = "silent"
      PROVE  /\ status = "ok"
             /\ \/ judged' = MyChunk(TRUE)
                \/ Outcome = "error"
                \/ ~Big /\ Normalised(judged') = Empty /\ mode = "check" /\ expected' = Empty
  <2>1. status = "ok"
        /\ IF mode = "check" THEN Normalised(files[Target]) = expected /\ expected' = expected
                             ELSE Normalised(files[Target]) # Empty
    BY <1>7 DEF Judge, Report
  <2>2. Outcome = "error" \/ Written
    BY <1>1, <2>1 DEF IInv, Ends, Tests, Target, Stdout
  <2>3. \A chunks \in {<<>>, MyChunk(FALSE)} : Normalised(chunks) = Empty
    BY EmptySeq DEF Normalised, MyChunk
  <2>. QED BY <1>1, <1>2, <2>1, <2>2, <2>3 DEF Written, File
<1>8. SilentMeansFresh'
  BY <1>2, <1>7 DEF SilentMeansFresh, Outcome, Big, MyChunk, Normalised
<1>. QED BY <1>3, <1>5, <1>6, <1>8 DEF IInv

-----------------------------------------------------------------------------
LEMMA NextInv == IInv /\ [Next]_all => IInv'
<1>. SUFFICES ASSUME IInv, [Next]_all PROVE IInv'
  OBVIOUS
<1>1. CASE \E source \in Sources, flag \in Flags, to_stdout \in BOOLEAN : ByHand(source, flag, to_stdout)
  BY <1>1, StartInv DEF ByHand
<1>2. CASE \E source \in Sources, m \in {"check", "golden"} :
             Crate[source].outcome # "query" /\ RunTest(source, m)
  <2>1. PICK source \in Sources, m \in {"check", "golden"} :
          Crate[source].outcome # "query" /\ RunTest(source, m)
    BY <1>2
  <2>2. Extension("-Zno-codegen") = Target
    BY DEF Extension, Target
  <2>. QED BY <2>1, <2>2, StartInv DEF RunTest
<1>3. CASE Step /\ UNCHANGED harness
  BY <1>3, QuietStepInv, CreateInv, WriteInv, CloseInv, KillInv DEF Step
<1>4. CASE NoTarget
  BY <1>4, NoTargetInv
<1>5. CASE Judge
  BY <1>5, JudgeInv
<1>6. CASE UNCHANGED all
  <2>1. UNCHANGED <<step, run, files, exists, text, status, mode, verdict, expected, judged>>
    BY <1>6 DEF all, vars, harness
  <2>2. TypeOK' /\ Short'
    BY <2>1 DEF IInv, TypeOK, Short
  <2>3. Phases' /\ Ends' /\ Tests'
    BY <2>1 DEF IInv, Phases, Ends, Tests, Written, File, Big, Outcome, MyChunk
  <2>4. SilentMeansFresh'
    BY <2>1 DEF IInv, SilentMeansFresh, MyChunk, Normalised
  <2>. QED BY <2>2, <2>3, <2>4 DEF IInv
<1>. QED BY <1>1, <1>2, <1>3, <1>4, <1>5, <1>6 DEF Next

LEMMA OutputInv == Spec => []IInv
BY InitInv, NextInv, PTL DEF Spec

\* The type invariant of the invocations, the output files and the tests.
THEOREM OutputTyped == Spec => []TypeOK
<1>1. IInv => TypeOK
  BY DEF IInv
<1>. QED BY <1>1, OutputInv, PTL

\* Whatever fails or is killed: reported success of an invocation that got to its callback
\* means that its text was written, up to what the flush of a short text may lose.
THEOREM OutputSuccessMeansWritten == Spec => []SuccessMeansWritten
<1>1. IInv => SuccessMeansWritten
  <2>. SUFFICES ASSUME IInv, Ran, run.n > 0, status = "ok", verdict \in {"none", "running"}
                PROVE  /\ run.path \in exists
                       /\ \/ files[run.path] = MyChunk(TRUE)
                          \/ ~Crate[run.source].big /\ files[run.path] \in {<<>>, MyChunk(FALSE)}
    BY DEF SuccessMeansWritten
  <2>1. run.n \in 0..MaxRuns
    BY DEF IInv, TypeOK, Invocations
  <2>2. run.n # 0
    BY <2>1, PositiveRuns
  <2>3. Stdout \notin Paths
    BY DEF Stdout, Paths
  <2>. QED BY <2>2, <2>3 DEF IInv, Ends, Ran, Written, File, Big, Outcome
<1>. QED BY <1>1, OutputInv, PTL

\* Texts of two runs never mix in a file, over any number of failed and killed runs.
THEOREM OutputOneRunPerFile == Spec => []OneRunPerFile
<1>1. IInv => OneRunPerFile
  <2>. SUFFICES ASSUME IInv, NEW p \in Paths, NEW i \in DOMAIN files[p], NEW j \in DOMAIN files[p]
                PROVE  files[p][i].by = files[p][j].by
    BY DEF OneRunPerFile
  <2>1. files[p] \in Seq(Chunk) /\ (files[p] = <<>> \/ Len(files[p]) = 1)
    BY DEF IInv, TypeOK, Short
  <2>2. i = j
    BY <2>1, SameIndex
  <2>. QED BY <2>2
<1>. QED BY <1>1, OutputInv, PTL

\* An output file changes only when the whole text of the run is in memory, and only the
\* file of the chosen emitter, or when a test deletes its JSON.
THEOREM OutputTouchesOnlyOwn == Spec => TouchesOnlyOwn
<1>. DEFINE Owned == \A p \in Paths :
       (files'[p] # files[p] \/ (p \in exists') # (p \in exists)) =>
         \/ p = run.path /\ text /\ step # "exited"
         \/ p = Target /\ Ended
<1>1. IInv /\ [Next]_all => [Owned]_all
  <2>. SUFFICES ASSUME IInv, Next, NEW p \in Paths,
                       files'[p] # files[p] \/ (p \in exists') # (p \in exists)
                PROVE  \/ p = run.path /\ text /\ step # "exited"
                       \/ p = Target /\ Ended
    OBVIOUS
  <2>1. files \in [Paths -> Seq(Chunk)]
    BY DEF IInv, TypeOK
  <2>2. CASE Create
    BY <2>1, <2>2 DEF Create, Exit, IInv, Phases
  <2>3. ASSUME step \in {"writing", "closing"}, UNCHANGED exists,
               \E part : Leaves(run.path, part)
        PROVE  p = run.path /\ text /\ step # "exited"
    BY <2>1, <2>3 DEF Leaves, IInv, Phases
  <2>4. CASE Write
    BY <2>3, <2>4 DEF Write
  <2>5. CASE Close
    BY <2>3, <2>5 DEF Close
  <2>6. CASE Kill
    BY <2>3, <2>6 DEF Kill, WritesNow
  <2>7. CASE CompileError \/ Query \/ after_analysis \/ Collect \/ Render \/ WriteStdout \/ Continue
    BY <2>7 DEF CompileError, Query, after_analysis, Collect, Render, WriteStdout, Continue
  <2>8. CASE NoTarget
    BY <2>8 DEF NoTarget, vars
  <2>9. CASE Judge
    BY <2>1, <2>9 DEF Judge, Keep, Delete, Target, Paths
  <2>10. CASE \E source \in Sources, flag \in Flags, to_stdout \in BOOLEAN : ByHand(source, flag, to_stdout)
    BY <2>10 DEF ByHand, Start
  <2>11. CASE \E source \in Sources, m \in {"check", "golden"} :
                Crate[source].outcome # "query" /\ RunTest(source, m)
    BY <2>11 DEF RunTest, Start
  <2>. QED BY <2>2, <2>4, <2>5, <2>6, <2>7, <2>8, <2>9, <2>10, <2>11 DEF Next, Step
<1>. QED BY <1>1, OutputInv, PTL DEF Spec, TouchesOnlyOwn

\* A test that reports nothing has judged the whole text of its own, successful run, apart
\* from the two cases in which the program hides an error.
THEOREM OutputSilentMeansFresh == Spec => []SilentMeansFresh
<1>1. IInv => SilentMeansFresh
  BY DEF IInv
<1>. QED BY <1>1, OutputInv, PTL

-----------------------------------------------------------------------------
(* Sorting: what the order of keys has in common with that of numbers.     *)

StrictOrder(V, R) ==
  /\ \A x \in V : <<x, x>> \notin R
  /\ \A x, y \in V : x # y => <<x, y>> \in R \/ <<y, x>> \in R
  /\ \A x, y, z \in V : <<x, y>> \in R /\ <<y, z>> \in R => <<x, z>> \in R

\* Below, with the order of the elements as a set of pairs
Before(s, t, R) ==
  \E n \in 0..Len(s) :
    /\ n <= Len(t) /\ \A i \in 1..n : s[i] = t[i]
    /\ \/ n = Len(s) /\ n < Len(t)
       \/ n < Len(s) /\ n < Len(t) /\ <<s[n + 1], t[n + 1]>> \in R
Lex(V, R) == {p \in Seq(V) \X Seq(V) : Before(p[1], p[2], R)}

LEMMA LeastNat ==
  ASSUME NEW T, T \subseteq Nat, T # {}
  PROVE  \E x \in T : \A y \in T : x <= y
<1> DEFINE R == {ss \in Nat \X Nat : ss[1] < ss[2]}
<1>1. IsWellFoundedOn(R, Nat)
  BY NatLessThanWellFounded DEF OpToRel
<1> HIDE DEF R
<1>2. PICK x \in T : \A y \in T : ~ (<<y, x>> \in R)
  BY <1>1, WFMin
<1>3. \A y \in T : ~ (y < x)
  BY <1>2 DEF R
<1> QED
  BY <1>3

LEMMA BeforeAt ==
  ASSUME NEW s, NEW t, NEW R, NEW n \in 0..Len(s), n <= Len(t), \A i \in 1..n : s[i] = t[i],
         \/ n = Len(s) /\ n < Len(t)
         \/ n < Len(s) /\ n < Len(t) /\ <<s[n + 1], t[n + 1]>> \in R
  PROVE  Before(s, t, R)
BY Zenon DEF Before

LEMMA BeforeTotal ==
  ASSUME NEW V, NEW R, StrictOrder(V, R), NEW s \in Seq(V), NEW t \in Seq(V), s # t
  PROVE  Before(s, t, R) \/ Before(t, s, R)
<1> DEFINE Diff == {i \in Nat : i >= 1 /\ i <= Len(s) /\ i <= Len(t) /\ s[i] # t[i]}
<1>0. Len(s) \in Nat /\ Len(t) \in Nat
  OBVIOUS
<1>1. CASE Diff = {}
  <2>1. \A i \in Nat : i >= 1 /\ i <= Len(s) /\ i <= Len(t) => s[i] = t[i]
    BY <1>1
  <2>2. CASE Len(s) < Len(t)
    <3>1. /\ Len(s) \in 0..Len(s) /\ Len(s) <= Len(t)
          /\ \A i \in 1..Len(s) : s[i] = t[i]
      BY <2>1, <2>2, <1>0
    <3> HIDE DEF Diff
    <3> QED
      BY <3>1, <2>2, BeforeAt
  <2>3. CASE Len(t) < Len(s)
    <3>1. /\ Len(t) \in 0..Len(t) /\ Len(t) <= Len(s)
          /\ \A i \in 1..Len(t) : t[i] = s[i]
      BY <2>1, <2>3, <1>0
    <3> HIDE DEF Diff
    <3> QED
      BY <3>1, <2>3, BeforeAt
  <2>4. CASE Len(s) = Len(t)
    <3>1. s = t
      BY <2>1, <2>4
    <3> QED
      BY <3>1
  <2> QED
    BY <2>2, <2>3, <2>4, <1>0
<1>2. CASE Diff # {}
  <2>1. PICK k \in Diff : \A y \in Diff : k <= y
    <3>1. Diff \subseteq Nat
      OBVIOUS
    <3> HIDE DEF Diff
    <3> QED
      BY <3>1, <1>2, LeastNat
  <2> DEFINE n == k - 1
  <2>2. k \in Nat /\ k >= 1 /\ k <= Len(s) /\ k <= Len(t) /\ s[k] # t[k]
    OBVIOUS
  <2>3. /\ n \in 0..Len(s) /\ n \in 0..Len(t) /\ n < Len(s) /\ n < Len(t) /\ n <= Len(t)
        /\ n <= Len(s) /\ n + 1 = k
    BY <2>2, <1>0
  <2>4. \A i \in 1..n : s[i] = t[i]
    <3> SUFFICES ASSUME NEW i \in 1..n, s[i] # t[i] PROVE FALSE
      OBVIOUS
    <3>1. i \in Diff /\ i < k
      BY <2>2, <1>0
    <3> QED
      BY <3>1, <2>1, <2>2
  <2>5. s[k] \in V /\ t[k] \in V
    BY <2>2
  <2>6. <<s[k], t[k]>> \in R \/ <<t[k], s[k]>> \in R
    BY <2>5, <2>2 DEF StrictOrder
  <2> HIDE DEF n, Diff
  <2>7. CASE <<s[k], t[k]>> \in R
    BY <2>3, <2>4, <2>7 DEF Before
  <2>8. CASE <<t[k], s[k]>> \in R
    <3>1. \A i \in 1..n : t[i] = s[i]
      BY <2>4
    <3> QED
      BY <2>3, <3>1, <2>8 DEF Before
  <2> QED
    BY <2>6, <2>7, <2>8
<1> QED
  BY <1>1, <1>2

LEMMA BeforeTransitive ==
  ASSUME NEW V, NEW R, StrictOrder(V, R),
         NEW s \in Seq(V), NEW t \in Seq(V), NEW u \in Seq(V),
         Before(s, t, R), Before(t, u, R)
  PROVE  Before(s, u, R)
<1>0. Len(s) \in Nat /\ Len(t) \in Nat /\ Len(u) \in Nat
  OBVIOUS
<1>1. PICK n \in 0..Len(s) :
        /\ n <= Len(t) /\ \A i \in 1..n : s[i] = t[i]
        /\ \/ n = Len(s) /\ n < Len(t)
           \/ n < Len(s) /\ n < Len(t) /\ <<s[n + 1], t[n + 1]>> \in R
  BY DEF Before
<1>2. PICK m \in 0..Len(t) :
        /\ m <= Len(u) /\ \A i \in 1..m : t[i] = u[i]
        /\ \/ m = Len(t) /\ m < Len(u)
           \/ m < Len(t) /\ m < Len(u) /\ <<t[m + 1], u[m + 1]>> \in R
  BY DEF Before
<1>3. CASE n < m
  <2>1. n < Len(u) /\ n <= Len(u) /\ \A i \in 1..n : s[i] = u[i]
    BY <1>0, <1>1, <1>2, <1>3
  <2>2. t[n + 1] = u[n + 1]
    BY <1>0, <1>1, <1>2, <1>3
  <2> QED
    BY <1>1, <2>1, <2>2 DEF Before
<1>4. CASE m < n
  <2>1. m \in 0..Len(s) /\ m < Len(s) /\ m < Len(t) /\ m < Len(u) /\ m <= Len(u)
    BY <1>0, <1>1, <1>2, <1>4
  <2>2. \A i \in 1..m : s[i] = u[i]
    BY <1>0, <1>1, <1>2, <1>4
  <2>3. s[m + 1] = t[m + 1]
    BY <1>0, <1>1, <1>2, <1>4
  <2>4. <<t[m + 1], u[m + 1]>> \in R
    BY <1>2, <2>1
  <2> QED
    BY <2>1, <2>2, <2>3, <2>4 DEF Before
<1>5. CASE n = m
  <2>1. n < Len(u) /\ n <= Len(u) /\ n < Len(t) /\ <<t[n + 1], u[n + 1]>> \in R
    BY <1>0, <1>1, <1>2, <1>5
  <2>2. \A i \in 1..n : s[i] = u[i]
    BY <1>1, <1>2, <1>5
  <2>3. CASE n = Len(s)
    BY <1>1, <2>1, <2>2, <2>3 DEF Before
  <2>4. CASE n < Len(s)
    <3>1. <<s[n + 1], t[n + 1]>> \in R
      BY <1>1, <2>4
    <3>2. s[n + 1] \in V /\ t[n + 1] \in V /\ u[n + 1] \in V
      BY <1>0, <1>1, <2>1, <2>4
    <3>3. <<s[n + 1], u[n + 1]>> \in R
      BY <3>1, <3>2, <2>1 DEF StrictOrder
    <3> QED
      BY <1>1, <2>1, <2>2, <2>4, <3>3 DEF Before
  <2> QED
    BY <1>0, <1>1, <2>3, <2>4
<1> QED
  BY <1>0, <1>1, <1>2, <1>3, <1>4, <1>5

LEMMA LexOrder ==
  ASSUME NEW V, NEW R, StrictOrder(V, R)
  PROVE  StrictOrder(Seq(V), Lex(V, R))
<1>1. \A x, y \in Seq(V) : <<x, y>> \in Lex(V, R) <=> Before(x, y, R)
  BY DEF Lex
<1>4. ASSUME NEW x \in Seq(V) PROVE <<x, x>> \notin Lex(V, R)
  <2> SUFFICES ASSUME Before(x, x, R) PROVE FALSE
    BY <1>1
  <2>1. PICK n \in 0..Len(x) :
          \/ n = Len(x) /\ n < Len(x)
          \/ n < Len(x) /\ <<x[n + 1], x[n + 1]>> \in R
    BY DEF Before
  <2>2. n < Len(x) => x[n + 1] \in V
    OBVIOUS
  <2>3. n \in Nat /\ Len(x) \in Nat
    OBVIOUS
  <2> QED
    BY <2>1, <2>2, <2>3 DEF StrictOrder
<1>2. \A x, y \in Seq(V) : x # y => <<x, y>> \in Lex(V, R) \/ <<y, x>> \in Lex(V, R)
  BY <1>1, BeforeTotal
<1>3. \A x, y, z \in Seq(V) :
        <<x, y>> \in Lex(V, R) /\ <<y, z>> \in Lex(V, R) => <<x, z>> \in Lex(V, R)
  BY <1>1, BeforeTransitive
<1> QED
  BY <1>2, <1>3, <1>4 DEF StrictOrder

NatLt == {p \in Nat \X Nat : p[1] < p[2]}
SeqOrder == Lex(Nat, NatLt)
KeyOrder == Lex(Seq(Nat), SeqOrder)

LEMMA KeysOrdered == StrictOrder(Seq(Seq(Nat)), KeyOrder)
<1>1. StrictOrder(Nat, NatLt)
  BY DEF StrictOrder, NatLt
<1>2. StrictOrder(Seq(Nat), SeqOrder)
  BY <1>1, LexOrder DEF SeqOrder
<1> QED
  BY <1>2, LexOrder DEF KeyOrder

LEMMA SeqLtOrder ==
  ASSUME NEW s \in Seq(Nat), NEW t \in Seq(Nat)
  PROVE  SeqLt(s, t) <=> <<s, t>> \in SeqOrder
<1>1. \A n \in 0..Len(s) : n < Len(s) /\ n < Len(t) =>
        (s[n + 1] < t[n + 1] <=> <<s[n + 1], t[n + 1]>> \in NatLt)
  BY DEF NatLt
<1>2. SeqLt(s, t) <=>
        \E n \in 0..Len(s) :
          /\ n <= Len(t) /\ \A i \in 1..n : s[i] = t[i]
          /\ \/ n = Len(s) /\ n < Len(t)
             \/ n < Len(s) /\ n < Len(t) /\ s[n + 1] < t[n + 1]
  BY Zenon DEF SeqLt, Below
<1>3. SeqLt(s, t) <=> Before(s, t, NatLt)
  BY Zenon, <1>1, <1>2 DEF Before
<1> QED
  BY <1>3 DEF SeqOrder, Lex

LEMMA KeyLtOrder ==
  ASSUME NEW s \in Seq(Seq(Nat)), NEW t \in Seq(Seq(Nat))
  PROVE  KeyLt(s, t) <=> <<s, t>> \in KeyOrder
<1>1. \A n \in 0..Len(s) : n < Len(s) /\ n < Len(t) => s[n + 1] \in Seq(Nat) /\ t[n + 1] \in Seq(Nat)
  OBVIOUS
<1>2. \A n \in 0..Len(s) : n < Len(s) /\ n < Len(t) =>
        (SeqLt(s[n + 1], t[n + 1]) <=> <<s[n + 1], t[n + 1]>> \in SeqOrder)
  BY <1>1, SeqLtOrder
<1>3. KeyLt(s, t) <=>
        \E n \in 0..Len(s) :
          /\ n <= Len(t) /\ \A i \in 1..n : s[i] = t[i]
          /\ \/ n = Len(s) /\ n < Len(t)
             \/ n < Len(s) /\ n < Len(t) /\ SeqLt(s[n + 1], t[n + 1])
  BY Zenon DEF KeyLt, Below
<1>4. KeyLt(s, t) <=> Before(s, t, SeqOrder)
  BY Zenon, <1>2, <1>3 DEF Before
<1> QED
  BY <1>4 DEF KeyOrder, Lex

-----------------------------------------------------------------------------
(* Two sorted lists of one set                                             *)

Sorted(s, v, R) == \A i, j \in DOMAIN s : i < j => <<v[s[j]], v[s[i]]>> \notin R

LEMMA Permutation ==
  ASSUME NEW E, IsFiniteSet(E), NEW s \in SetToSeqs(E)
  PROVE  /\ Cardinality(E) \in Nat
         /\ DOMAIN s = 1..Cardinality(E)
         /\ s \in Seq(E)
         /\ Len(s) = Cardinality(E)
         /\ \A i, j \in DOMAIN s : s[i] = s[j] => i = j
         /\ \A e \in E : \E i \in DOMAIN s : s[i] = e
<1>1. Cardinality(E) \in Nat
  BY FS_CardinalityType
<1> DEFINE D == 1..Cardinality(E)
<1>2. s \in [D -> E] /\ \A i, j \in D : i # j => s[i] # s[j]
  BY DEF SetToSeqs
<1>3. IsFiniteSet(D) /\ Cardinality(D) = Cardinality(E)
  BY <1>1, FS_Interval
<1>4. s \in Injection(D, E)
  BY <1>2 DEF Injection, IsInjective
<1>5. s \in Surjection(D, E)
  BY <1>3, <1>4, FS_Injection
<1>6. \A e \in E : \E i \in D : s[i] = e
  BY <1>5 DEF Surjection
<1>7. s \in Seq(E) /\ Len(s) = Cardinality(E)
  BY <1>1, <1>2
<1> QED
  BY <1>1, <1>2, <1>6, <1>7

\* The counting argument: if the key at i were lower in s than in t, then the first i
\* elements of s were among the first i - 1 of t.
LEMMA NotBefore ==
  ASSUME NEW V, NEW R, StrictOrder(V, R), NEW E, IsFiniteSet(E), NEW v \in [E -> V],
         NEW s \in SetToSeqs(E), Sorted(s, v, R), NEW t \in SetToSeqs(E), Sorted(t, v, R),
         NEW i \in DOMAIN s
  PROVE  <<v[s[i]], v[t[i]]>> \notin R
<1> SUFFICES ASSUME <<v[s[i]], v[t[i]]>> \in R PROVE FALSE
  OBVIOUS
<1> DEFINE N == Cardinality(E)
<1>1. /\ N \in Nat /\ DOMAIN s = 1..N /\ DOMAIN t = 1..N
      /\ \A j \in 1..N : s[j] \in E /\ t[j] \in E /\ v[s[j]] \in V /\ v[t[j]] \in V
      /\ \A j, k \in 1..N : s[j] = s[k] => j = k
      /\ \A e \in E : \E l \in 1..N : t[l] = e
  <2>1. s \in [1..N -> E] /\ t \in [1..N -> E]
    BY DEF SetToSeqs
  <2>2. \A j \in 1..N : s[j] \in E /\ t[j] \in E
    BY <2>1
  <2>3. \A e \in E : v[e] \in V
    OBVIOUS
  <2>4. N \in Nat /\ DOMAIN s = 1..N /\ DOMAIN t = 1..N
    BY Permutation
  <2>5. \A j, k \in 1..N : s[j] = s[k] => j = k
    BY <2>4, Permutation
  <2>7. \A e \in E : \E l \in DOMAIN t : t[l] = e
    BY Permutation
  <2>6. \A e \in E : \E l \in 1..N : t[l] = e
    BY <2>4, <2>7
  <2> HIDE DEF N
  <2> QED
    BY <2>2, <2>3, <2>4, <2>5, <2>6
<1> DEFINE Place == [j \in 1..i |-> CHOOSE l \in 1..N : t[l] = s[j]]
<1> HIDE DEF N
<1>2. i \in Nat /\ 1 <= i /\ i <= N /\ i \in 1..N
  BY <1>1
<1>3. \A j \in 1..i : j \in 1..N /\ Place[j] \in 1..N /\ t[Place[j]] = s[j]
  <2> SUFFICES ASSUME NEW j \in 1..i
               PROVE  j \in 1..N /\ Place[j] \in 1..N /\ t[Place[j]] = s[j]
    OBVIOUS
  <2>1. j \in 1..N
    BY <1>1, <1>2
  <2>2. \E l \in 1..N : t[l] = s[j]
    BY <2>1, <1>1
  <2>3. Place[j] = CHOOSE l \in 1..N : t[l] = s[j]
    OBVIOUS
  <2> HIDE DEF Place
  <2> QED
    BY <2>1, <2>2, <2>3
<1>4. ASSUME NEW j \in 1..i, Place[j] >= i PROVE FALSE
  <2> DEFINE l == Place[j]
             x == v[s[j]]
             k == v[s[i]]
             m == v[t[i]]
  <2>1. j \in 1..N /\ l \in 1..N /\ t[l] = s[j] /\ x = v[t[l]]
    BY <1>3
  <2> HIDE DEF l, Place
  <2>2. j < i => <<k, x>> \notin R
    BY <2>1, <1>1, <1>2 DEF Sorted
  <2>3. i < l => <<x, m>> \notin R
    BY <2>1, <1>1, <1>2 DEF Sorted
  <2>4. x \in V /\ k \in V /\ m \in V /\ <<k, m>> \in R
    BY <2>1, <1>1, <1>2
  <2>5. (j < i \/ x = k) /\ (i < l \/ x = m)
    BY <2>1, <1>2, <1>4 DEF l
  <2> HIDE DEF x, k, m
  <2>6. <<k, x>> \notin R /\ <<x, m>> \notin R
    BY <2>2, <2>3, <2>4, <2>5 DEF StrictOrder
  <2> QED
    BY <2>4, <2>6 DEF StrictOrder
<1>5. Place \in [1..i -> 1..(i - 1)]
  <2>1. \A j \in 1..i : Place[j] \in 1..(i - 1)
    <3> SUFFICES ASSUME NEW j \in 1..i PROVE Place[j] \in 1..(i - 1)
      OBVIOUS
    <3>1. Place[j] \in 1..N /\ ~(Place[j] >= i)
      BY <1>3, <1>4
    <3> HIDE DEF Place
    <3>2. N \in Nat
      BY <1>1
    <3> QED
      BY <3>1, <3>2, <1>2
  <2> QED
    BY <2>1
<1>6. \E x, y \in 1..i : x # y /\ Place[x] = Place[y]
  <2>1. IsFiniteSet(1..i) /\ Cardinality(1..i) = i
    BY <1>2, FS_Interval
  <2>2. IsFiniteSet(1..(i - 1)) /\ Cardinality(1..(i - 1)) = i - 1
    <3>1. 1 \in Int /\ i - 1 \in Int /\ (1 > i - 1 => i - 1 = 0) /\ (i - 1) - 1 + 1 = i - 1
      BY <1>2
    <3>2. IsFiniteSet(1..(i - 1)) /\ Cardinality(1..(i - 1)) = IF 1 > i - 1 THEN 0 ELSE (i - 1) - 1 + 1
      BY <3>1, FS_Interval
    <3> QED
      BY <3>1, <3>2
  <2>3. Cardinality(1..(i - 1)) < Cardinality(1..i)
    BY <2>1, <2>2, <1>2
  <2> HIDE DEF Place
  <2> QED
    BY <2>1, <2>2, <2>3, <1>5, FS_PigeonHole
<1>7. PICK x \in 1..i, y \in 1..i : x # y /\ Place[x] = Place[y]
  BY <1>6
<1> HIDE DEF Place
<1>8. s[x] = s[y] /\ x \in 1..N /\ y \in 1..N
  BY <1>3, <1>7
<1> QED
  BY <1>1, <1>7, <1>8

LEMMA SameElements ==
  ASSUME NEW E, IsFiniteSet(E), NEW s \in SetToSeqs(E), NEW t \in SetToSeqs(E)
  PROVE  /\ Len(s) = Len(t) /\ DOMAIN s = DOMAIN t
         /\ \A i \in DOMAIN s : s[i] \in E /\ t[i] \in E
         /\ \A i \in DOMAIN s : \E j \in DOMAIN s : s[j] = t[i]
<1>1. DOMAIN s = DOMAIN t /\ Len(s) = Len(t) /\ s \in Seq(E) /\ t \in Seq(E)
  BY Permutation
<1>2. \A i \in DOMAIN s : t[i] \in E /\ s[i] \in E
  BY <1>1
<1>3. \A i \in DOMAIN s : \E j \in DOMAIN s : s[j] = t[i]
  BY <1>2, Permutation
<1> QED
  BY <1>1, <1>2, <1>3

LEMMA SameKeys ==
  ASSUME NEW V, NEW R, StrictOrder(V, R), NEW E, IsFiniteSet(E), NEW v \in [E -> V],
         NEW s \in SetToSeqs(E), Sorted(s, v, R), NEW t \in SetToSeqs(E), Sorted(t, v, R),
         NEW i \in DOMAIN s
  PROVE  v[s[i]] = v[t[i]]
<1>1. i \in DOMAIN t /\ s[i] \in E /\ t[i] \in E
  BY SameElements
<1>2. <<v[s[i]], v[t[i]]>> \notin R
  BY NotBefore
<1>3. <<v[t[i]], v[s[i]]>> \notin R
  BY <1>1, NotBefore
<1>4. v[s[i]] \in V /\ v[t[i]] \in V
  BY <1>1
<1> QED
  BY <1>2, <1>3, <1>4 DEF StrictOrder

-----------------------------------------------------------------------------
(* The sections of the output                                              *)

LEMMA FiniteImage ==
  ASSUME NEW S, IsFiniteSet(S), NEW f, DOMAIN f = S
  PROVE  IsFiniteSet({f[x] : x \in S})
<1> DEFINE T == {f[x] : x \in S}
           g == [x \in S |-> f[x]]
<1>1. g \in Surjection(S, T)
  BY DEF Surjection
<1> QED
  BY <1>1, FS_Surjection

LEMMA EntitiesFinite ==
  ASSUME NEW c, IsCollected(c), NEW section \in Sections
  PROVE  IsFiniteSet(Entities(c, section))
<1>1. CASE section # "types"
  BY <1>1 DEF Entities, IsCollected
<1>2. CASE section = "types"
  <2> DEFINE m == [t \in c.types |-> mk_type_metadata(t)]
             M == {m[t] : t \in c.types}
  <2>1. IsFiniteSet(c.types)
    BY DEF IsCollected, Sections
  <2>2. IsFiniteSet(M)
    BY <2>1, FiniteImage
  <2>3. \A t \in c.types : IsFiniteSet(mk_type_metadata(t))
    <3> SUFFICES ASSUME NEW t \in c.types PROVE IsFiniteSet(mk_type_metadata(t))
      OBVIOUS
    <3>1. \A v, w \in Variants(t.kind) : v = w
      BY DEF Variants, Primitive
    <3>2. \A x, y \in mk_type_metadata(t) : x = y
      BY <3>1 DEF mk_type_metadata
    <3>3. mk_type_metadata(t) = {} \/ \E x : mk_type_metadata(t) = {x}
      BY <3>2
    <3> QED
      BY <3>3, FS_EmptySet, FS_Singleton
  <2>4. \A T \in M : IsFiniteSet(T)
    BY <2>3
  <2>5. IsFiniteSet(UNION M)
    <3> HIDE DEF M
    <3> QED
      BY <2>2, <2>4, FS_UNION
  <2>6. UNION M = Entities(c, section)
    <3>1. M = {mk_type_metadata(t) : t \in c.types}
      OBVIOUS
    <3> HIDE DEF M, m
    <3> QED
      BY <3>1, <1>2 DEF Entities
  <2> QED
    BY <2>5, <2>6
<1> QED
  BY <1>1, <1>2

\* What the keys are computed from
LEMMA EntityTyped ==
  ASSUME NEW c, IsCollected(c), NEW section \in Sections, NEW e \in Entities(c, section)
  PROVE  /\ section = "allocs" => /\ e.kind \in {"Memory", "Static", "VTable", "Function"}
                                  /\ e.name \in Nat /\ e.bytes \in Seq(Nat)
         /\ section = "functions" => e.kind \in Seq(Nat) /\ TyDisplay[e.ty] \in Nat
         /\ section = "types" => TyDisplay[e.ty] \in Nat
         /\ section = "items" => e.symbol \in Nat /\ e.name \in Nat
         /\ section = "spans" => e.source \in Nat
         /\ section = "consts" => e.symbol \in Nat
<1>1. CASE section # "types"
  BY <1>1 DEF Entities, IsCollected
<1>2. CASE section = "types"
  <2>1. PICK t \in c.types : e \in mk_type_metadata(t)
    BY <1>2 DEF Entities
  <2>2. e.ty = t.ty
    BY <2>1 DEF mk_type_metadata
  <2>3. TyDisplay[t.ty] \in Nat
    BY DEF IsCollected
  <2> QED
    BY <1>2, <2>2, <2>3
<1> QED
  BY <1>1, <1>2

LEMMA ContentKeyTyped ==
  ASSUME NEW c, IsCollected(c), NEW section \in Sections, NEW e \in Entities(c, section)
  PROVE  content_key(section, e) \in Seq(Seq(Nat))
<1>1. \A n \in Nat : <<n>> \in Seq(Nat)
  OBVIOUS
<1>2. \A x, y, z \in Seq(Nat) :
        <<x>> \in Seq(Seq(Nat)) /\ <<x, y>> \in Seq(Seq(Nat)) /\ <<x, y, z>> \in Seq(Seq(Nat))
  OBVIOUS
<1>3. CASE section = "allocs"
  <2>1. alloc_sort_tag[e.kind] \in Nat
    BY <1>3, EntityTyped DEF alloc_sort_tag
  <2>2. alloc_content_key(e) \in Seq(Nat) /\ alloc_bytes(e) \in Seq(Nat)
    BY <1>3, <1>1, EntityTyped DEF alloc_content_key, alloc_bytes
  <2> QED
    BY <1>1, <1>2, <1>3, <2>1, <2>2 DEF content_key
<1>4. CASE section = "functions"
  BY <1>1, <1>2, <1>4, EntityTyped DEF content_key
<1>5. CASE section = "items"
  BY <1>1, <1>2, <1>5, EntityTyped DEF content_key
<1>6. CASE section = "types"
  BY <1>1, <1>2, <1>6, EntityTyped DEF content_key
<1>7. CASE section = "spans"
  BY <1>1, <1>2, <1>7, EntityTyped DEF content_key
<1>8. CASE section = "consts"
  BY <1>1, <1>2, <1>8, EntityTyped DEF content_key
<1> QED
  BY <1>3, <1>4, <1>5, <1>6, <1>7, <1>8 DEF Sections

\* Keys that end alike or not decide by what they begin with.
LEMMA LongerKeys ==
  ASSUME NEW a, NEW b, NEW x, NEW y, Len(a) \in Nat, Len(a) = Len(b),
         Len(x) \in Nat, Len(y) \in Nat, Len(a) <= Len(x), Len(b) <= Len(y),
         \A i \in 1..Len(a) : x[i] = a[i] /\ y[i] = b[i], KeyLt(a, b)
  PROVE  KeyLt(x, y)
<1>1. \A s, t : KeyLt(s, t) <=>
        \E n \in 0..Len(s) :
          /\ n <= Len(t) /\ \A i \in 1..n : s[i] = t[i]
          /\ \/ n = Len(s) /\ n < Len(t)
             \/ n < Len(s) /\ n < Len(t) /\ SeqLt(s[n + 1], t[n + 1])
  BY Zenon DEF KeyLt, Below
<1>2. PICK n \in 0..Len(a) :
        /\ n <= Len(b) /\ \A i \in 1..n : a[i] = b[i]
        /\ \/ n = Len(a) /\ n < Len(b)
           \/ n < Len(a) /\ n < Len(b) /\ SeqLt(a[n + 1], b[n + 1])
  BY <1>1
<1>3. n \in 0..Len(x) /\ n <= Len(y) /\ n < Len(x) /\ n < Len(y) /\ n + 1 \in 1..Len(a)
  BY <1>2
<1>4. \A i \in 1..n : x[i] = y[i]
  BY <1>2
<1>5. SeqLt(x[n + 1], y[n + 1])
  <2>1. x[n + 1] = a[n + 1] /\ y[n + 1] = b[n + 1]
    BY <1>3
  <2> QED
    BY <1>2, <2>1
<1> QED
  BY Zenon, <1>1, <1>3, <1>4, <1>5

LEMMA OneTierMore ==
  ASSUME NEW S, NEW a \in Seq(S), NEW b \in Seq(S), Len(a) = Len(b), NEW m, NEW n, KeyLt(a, b)
  PROVE  KeyLt(Append(a, m), Append(b, n))
<1> DEFINE x == Append(a, m)
           y == Append(b, n)
<1>1. /\ Len(a) \in Nat /\ Len(x) = Len(a) + 1 /\ Len(y) = Len(a) + 1
      /\ \A i \in 1..Len(a) : x[i] = a[i] /\ y[i] = b[i]
  OBVIOUS
<1> HIDE DEF x, y
<1>2. Len(x) \in Nat /\ Len(y) \in Nat /\ Len(a) <= Len(x) /\ Len(b) <= Len(y)
  BY <1>1
<1>3. KeyLt(x, y)
  BY <1>1, <1>2, LongerKeys
<1> QED
  BY <1>3 DEF x, y

LEMMA SameTiers ==
  ASSUME NEW section \in Sections, NEW e, NEW f
  PROVE  Len(content_key(section, e)) = Len(content_key(section, f))
BY DEF content_key, Sections

LEMMA ContentKeyFirst ==
  ASSUME NEW c, IsCollected(c), NEW section \in Sections,
         NEW e \in Entities(c, section), NEW f \in Entities(c, section), NEW to_index,
         KeyLt(content_key(section, e), content_key(section, f))
  PROVE  KeyLt(sort_key(section, e, to_index), sort_key(section, f, to_index))
<1>1. CASE section \notin {"functions", "types"}
  BY <1>1 DEF sort_key
<1>2. CASE section \in {"functions", "types"}
  <2> DEFINE a == content_key(section, e)
             b == content_key(section, f)
             m == <<to_index[e.ty]>>
             n == <<to_index[f.ty]>>
  <2>1. a \in Seq(Seq(Nat)) /\ b \in Seq(Seq(Nat))
    BY ContentKeyTyped
  <2>2. Len(a) = Len(b)
    BY SameTiers
  <2>3. sort_key(section, e, to_index) = Append(a, m) /\ sort_key(section, f, to_index) = Append(b, n)
    BY <1>2 DEF sort_key
  <2> HIDE DEF a, b, m, n
  <2>4. KeyLt(a, b)
    BY DEF a, b
  <2>5. KeyLt(Append(a, m), Append(b, n))
    BY <2>1, <2>2, <2>4, OneTierMore
  <2> QED
    BY <2>3, <2>5
<1> QED
  BY <1>1, <1>2

\* The lists that two runs may make of one section
LEMMA SectionsAgree ==
  ASSUME NEW c, IsCollected(c), NEW section \in Sections, NEW p, NEW q,
         NEW s \in SortedSection(c, section, p), NEW t \in SortedSection(c, section, q)
  PROVE  /\ Len(s) = Len(t)
         /\ \A i \in DOMAIN s :
              /\ content_key(section, s[i]) = content_key(section, t[i])
              /\ s[i] = t[i] \/ \E j \in DOMAIN s \ {i} : content_key(section, s[j]) = content_key(section, s[i])
<1> DEFINE E == Entities(c, section)
           v == [e \in E |-> content_key(section, e)]
<1>1. IsFiniteSet(E)
  BY EntitiesFinite
<1>2. v \in [E -> Seq(Seq(Nat))]
  BY ContentKeyTyped
<1>3. ASSUME NEW to_index, NEW l \in SortedSection(c, section, to_index)
      PROVE  l \in SetToSeqs(E) /\ Sorted(l, v, KeyOrder)
  <2>1. /\ l \in SetToSeqs(E)
        /\ \A i, j \in DOMAIN l : i < j =>
             ~KeyLt(sort_key(section, l[j], to_index), sort_key(section, l[i], to_index))
    BY DEF SortedSection
  <2>2. \A i \in DOMAIN l : l[i] \in E
    BY <2>1, <1>1, Permutation
  <2>3. ASSUME NEW i \in DOMAIN l, NEW j \in DOMAIN l, i < j
        PROVE  <<v[l[j]], v[l[i]]>> \notin KeyOrder
    <3>1. ~KeyLt(content_key(section, l[j]), content_key(section, l[i]))
      BY <2>1, <2>2, <2>3, ContentKeyFirst DEF E
    <3>2. v[l[j]] = content_key(section, l[j]) /\ v[l[i]] = content_key(section, l[i])
      BY <2>2
    <3>3. v[l[j]] \in Seq(Seq(Nat)) /\ v[l[i]] \in Seq(Seq(Nat))
      BY <1>2, <2>2
    <3> HIDE DEF v
    <3> QED
      BY <3>1, <3>2, <3>3, KeyLtOrder
  <2> QED
    BY <2>1, <2>3 DEF Sorted
<1>4. s \in SetToSeqs(E) /\ t \in SetToSeqs(E) /\ Sorted(s, v, KeyOrder) /\ Sorted(t, v, KeyOrder)
  BY <1>3
<1> DEFINE V == Seq(Seq(Nat))
<1>9. v \in [E -> V] /\ StrictOrder(V, KeyOrder)
  BY <1>2, KeysOrdered
<1> HIDE DEF v, E, V
<1>5. /\ Len(s) = Len(t)
      /\ \A i \in DOMAIN s : s[i] \in E /\ t[i] \in E
      /\ \A i \in DOMAIN s : \E j \in DOMAIN s : s[j] = t[i]
  BY <1>1, <1>4, SameElements
<1>6. ASSUME NEW i \in DOMAIN s PROVE v[s[i]] = v[t[i]]
  BY <1>1, <1>4, <1>9, SameKeys
<1>7. \A i \in DOMAIN s : content_key(section, s[i]) = content_key(section, t[i])
  BY <1>5, <1>6 DEF v
<1>8. ASSUME NEW i \in DOMAIN s, s[i] # t[i]
      PROVE  \E j \in DOMAIN s \ {i} : content_key(section, s[j]) = content_key(section, s[i])
  <2>1. PICK j \in DOMAIN s : s[j] = t[i]
    BY <1>5
  <2>2. j # i
    BY <2>1, <1>8
  <2>3. content_key(section, s[j]) = content_key(section, s[i])
    BY <2>1, <1>7
  <2> QED
    BY <2>2, <2>3
<1> QED
  BY <1>5, <1>7, <1>8

-----------------------------------------------------------------------------
LEMMA RecordSections ==
  ASSUME NEW c, NEW smir \in assemble_smir(c)
  PROVE  /\ DOMAIN smir = Sections
         /\ \A section \in Sections : \E to_index : smir[section] \in SortedSection(c, section, to_index)
<1>1. PICK to_index \in Interned(c) :
        smir \in [allocs : SortedSection(c, "allocs", to_index),
                  functions : SortedSection(c, "functions", to_index),
                  items : SortedSection(c, "items", to_index),
                  types : SortedSection(c, "types", to_index),
                  spans : SortedSection(c, "spans", to_index),
                  consts : SortedSection(c, "consts", to_index)]
  BY DEF assemble_smir
<1>2. DOMAIN smir = Sections
  BY <1>1 DEF Sections
<1>3. \A section \in Sections : smir[section] \in SortedSection(c, section, to_index)
  BY <1>1 DEF Sections
<1> QED
  BY <1>2, <1>3

\* What each run assembled is one of the outputs of what it collected.
Assembled == \A a \in assembled : IsCollected(a.collected) /\ a.smir \in assemble_smir(a.collected)

LEMMA AssembledInit == OutputInit => Assembled
BY DEF OutputInit, Init, Assembled

LEMMA AssembledNext == ASSUME TypeOK, Assembled, [Next]_all PROVE Assembled'
<1>1. CASE UNCHANGED assembled
  BY <1>1 DEF Assembled
<1>2. CASE Collect
  <2>1. CASE UNCHANGED assembled
    BY <2>1, <1>1
  <2>2. CASE ~UNCHANGED assembled
    <3>1. PICK collected \in Crate[run.source].collections :
            \E smir \in assemble_smir(collected) :
              assembled' = assembled \cup {[collected |-> collected, smir |-> smir]}
      BY <1>2, <2>2 DEF Collect
    <3>2. PICK smir \in assemble_smir(collected) :
            assembled' = assembled \cup {[collected |-> collected, smir |-> smir]}
      BY <3>1
    <3>3. IsCollected(collected)
      BY <3>1, CollectedAssumption DEF TypeOK, Invocations
    <3>. QED BY <3>2, <3>3 DEF Assembled
  <2> QED
    BY <2>1, <2>2
<1>3. CASE Step /\ UNCHANGED harness
  BY <1>1, <1>2, <1>3 DEF Step, CompileError, Query, after_analysis, Render, Create,
     WriteStdout, Write, Close, Continue, Kill
<1>4. CASE \E source \in Sources, flag \in Flags, to_stdout \in BOOLEAN : ByHand(source, flag, to_stdout)
  BY <1>1, <1>4 DEF ByHand, Start
<1>5. CASE \E source \in Sources, m \in {"check", "golden"} :
              Crate[source].outcome # "query" /\ RunTest(source, m)
  BY <1>1, <1>5 DEF RunTest, Start
<1>6. CASE NoTarget \/ Judge
  BY <1>1, <1>6 DEF NoTarget, Judge, vars
<1>7. CASE UNCHANGED all
  BY <1>1, <1>7 DEF all, vars
<1> QED
  BY <1>3, <1>4, <1>5, <1>6, <1>7 DEF Next

\* The filter: a list that jq sorts is told by its bag, and two lists of one set have the
\* same bag of what is left of their elements.
LEMMA SameCount ==
  ASSUME NEW E, IsFiniteSet(E), NEW s \in SetToSeqs(E), NEW P \in SUBSET E
  PROVE  Cardinality({i \in DOMAIN s : s[i] \in P}) = Cardinality(P)
<1> DEFINE D == {i \in DOMAIN s : s[i] \in P}
           f == [i \in D |-> s[i]]
<1>1. /\ \A i, j \in DOMAIN s : s[i] = s[j] => i = j
      /\ \A e \in E : \E i \in DOMAIN s : s[i] = e
  BY Permutation
<1>2. f \in Bijection(D, P)
  <2>1. f \in [D -> P]
    OBVIOUS
  <2>2. \A i, j \in D : f[i] = f[j] => i = j
    BY <1>1
  <2>3. \A e \in P : \E i \in D : f[i] = e
    BY <1>1
  <2> HIDE DEF f, D
  <2> QED
    BY <2>1, <2>2, <2>3 DEF Bijection, Injection, Surjection, IsInjective
<1>3. IsFiniteSet(D)
  <2>1. D \in SUBSET (1..Cardinality(E)) /\ Cardinality(E) \in Int
    BY Permutation
  <2> QED
    BY <2>1, FS_Interval, FS_Subset
<1>4. ExistsBijection(D, P)
  BY <1>2 DEF ExistsBijection
<1> HIDE DEF D, f
<1>5. Cardinality(D) = Cardinality(P)
  BY <1>3, <1>4, FS_Bijection
<1> QED
  BY <1>5 DEF D

LEMMA SameBag ==
  ASSUME NEW E, IsFiniteSet(E), NEW section,
         NEW s \in SetToSeqs(E), NEW t \in SetToSeqs(E)
  PROVE  ToBag(Remains(section, s)) = ToBag(Remains(section, t))
<1> DEFINE N(x) == {e \in E : Left(section, e) = x}
           M == {Left(section, e) : e \in E}
<1>1. ASSUME NEW u \in SetToSeqs(E)
      PROVE  ToBag(Remains(section, u)) = [x \in M |-> Cardinality(N(x))]
  <2> DEFINE r == Remains(section, u)
  <2>1. /\ DOMAIN r = DOMAIN u /\ \A i \in DOMAIN u : r[i] = Left(section, u[i])
    BY DEF Remains
  <2>2. /\ \A i \in DOMAIN u : u[i] \in E
        /\ \A e \in E : \E i \in DOMAIN u : u[i] = e
    BY Permutation
  <2> HIDE DEF r
  <2>3. Range(r) = M
    BY <2>1, <2>2 DEF Range
  <2>4. ASSUME NEW x PROVE Cardinality({i \in DOMAIN r : r[i] = x}) = Cardinality(N(x))
    <3>1. {i \in DOMAIN r : r[i] = x} = {i \in DOMAIN u : u[i] \in N(x)}
      BY <2>1, <2>2
    <3>2. N(x) \in SUBSET E
      OBVIOUS
    <3> HIDE DEF N
    <3> QED
      BY <3>1, <3>2, SameCount
  <2> HIDE DEF N, M
  <2>5. ToBag(r) = [x \in M |-> Cardinality(N(x))]
    BY <2>3, <2>4 DEF ToBag
  <2> QED
    BY <2>5 DEF r
<1> HIDE DEF N, M
<1> QED
  BY <1>1

\* The filter keeps the order of some of the types; place by place they are left the same.
LEMMA SameTypes ==
  ASSUME NEW c, IsCollected(c), NoTwinTypes(c), NEW p, NEW q,
         NEW s \in SortedSection(c, "types", p), NEW t \in SortedSection(c, "types", q)
  PROVE  Remains("types", s) = Remains("types", t)
<1>1. /\ Len(s) = Len(t)
      /\ \A i \in DOMAIN s : content_key("types", s[i]) = content_key("types", t[i])
  BY SectionsAgree DEF Sections
<1>2. IsFiniteSet(Entities(c, "types"))
  BY EntitiesFinite DEF Sections
<1>3. s \in SetToSeqs(Entities(c, "types")) /\ t \in SetToSeqs(Entities(c, "types"))
  BY DEF SortedSection
<1>4. /\ DOMAIN s = DOMAIN t
      /\ \A i \in DOMAIN s : s[i] \in Entities(c, "types") /\ t[i] \in Entities(c, "types")
  BY <1>2, <1>3, SameElements
<1>5. ASSUME NEW i \in DOMAIN s PROVE Left("types", s[i]) = Left("types", t[i])
  <2>1. TyDisplay[s[i].ty] = TyDisplay[t[i].ty]
    BY <1>1, <1>5 DEF content_key
  <2> QED
    BY <1>4, <1>5, <2>1 DEF NoTwinTypes
<1> QED
  BY <1>4, <1>5 DEF Remains

LEMMA FilterAgrees ==
  ASSUME NEW c, IsCollected(c), NoTwinTypes(c), NEW a \in assemble_smir(c), NEW b \in assemble_smir(c)
  PROVE  normalise_filter(a) = normalise_filter(b)
<1>1. ASSUME NEW section \in Sections
      PROVE  ToBag(Remains(section, a[section])) = ToBag(Remains(section, b[section]))
  <2>1. IsFiniteSet(Entities(c, section))
    BY EntitiesFinite
  <2>2. a[section] \in SetToSeqs(Entities(c, section)) /\ b[section] \in SetToSeqs(Entities(c, section))
    BY RecordSections DEF SortedSection
  <2> QED
    BY <2>1, <2>2, SameBag
<1>2. Remains("types", a["types"]) = Remains("types", b["types"])
  BY RecordSections, SameTypes DEF Sections
<1>3. /\ ToBag(Remains("allocs", a.allocs)) = ToBag(Remains("allocs", b.allocs))
      /\ ToBag(Remains("functions", a.functions)) = ToBag(Remains("functions", b.functions))
      /\ ToBag(Remains("items", a.items)) = ToBag(Remains("items", b.items))
      /\ Remains("types", a.types) = Remains("types", b.types)
  BY <1>1, <1>2 DEF Sections
<1> QED
  BY Zenon, <1>3 DEF normalise_filter

LEMMA AssembledReproducible == Assembled => Reproducible
<1> SUFFICES ASSUME Assembled, NEW a \in assembled, NEW b \in assembled, a # b, a.collected = b.collected
             PROVE  /\ \A section \in Sections :
                         /\ Len(a.smir[section]) = Len(b.smir[section])
                         /\ \A i \in DOMAIN a.smir[section] :
                              /\ content_key(section, a.smir[section][i]) = content_key(section, b.smir[section][i])
                              /\ \/ a.smir[section][i] = b.smir[section][i]
                                 \/ \E j \in DOMAIN a.smir[section] \ {i} :
                                      content_key(section, a.smir[section][j])
                                        = content_key(section, a.smir[section][i])
                    /\ NoTwinTypes(a.collected) => normalise_filter(a.smir) = normalise_filter(b.smir)
  BY DEF Reproducible
<1> DEFINE c == a.collected
<1>1. IsCollected(c) /\ a.smir \in assemble_smir(c) /\ b.smir \in assemble_smir(c)
  BY DEF Assembled
<1>2. NoTwinTypes(c) => normalise_filter(a.smir) = normalise_filter(b.smir)
  <2> HIDE DEF c
  <2> QED
    BY <1>1, FilterAgrees
<1>3. ASSUME NEW section \in Sections
      PROVE  /\ Len(a.smir[section]) = Len(b.smir[section])
             /\ \A i \in DOMAIN a.smir[section] :
                  /\ content_key(section, a.smir[section][i]) = content_key(section, b.smir[section][i])
                  /\ \/ a.smir[section][i] = b.smir[section][i]
                     \/ \E j \in DOMAIN a.smir[section] \ {i} :
                          content_key(section, a.smir[section][j]) = content_key(section, a.smir[section][i])
  <2> HIDE DEF c
  <2>1. PICK p : a.smir[section] \in SortedSection(c, section, p)
    BY <1>1, RecordSections
  <2>2. PICK q : b.smir[section] \in SortedSection(c, section, q)
    BY <1>1, RecordSections
  <2> QED
    BY <1>1, <2>1, <2>2, SectionsAgree
<1> QED
  BY <1>2, <1>3

\* Given what was collected, two runs assemble lists of the same content keys, place by place,
\* that differ only where keys tie, and the filter makes them equal, in every order of the maps
\* and for all numbers rustc may give the types.
THEOREM OutputReproducible == Spec => []Reproducible
<1>1. Assembled /\ TypeOK /\ [Next]_all => Assembled'
  BY AssembledNext
<1> QED
  BY <1>1, AssembledInit, AssembledReproducible, OutputTyped, PTL DEF Spec
=============================================================================
