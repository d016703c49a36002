--------------------------- MODULE InstallerProofs ---------------------------
(***************************************************************************)
(* Proofs about Installer, for any number of runs, each over the remains   *)
(* of the one before it.                                                   *)
(***************************************************************************)
EXTENDS Installer, TLAPS

Copying == {"profile", "rlib", "bin", "script", "permissions"}
Before == {"arguments", "remove"}

\* A file this run has finished, and the files of a profile it has not come to.
Got(p, file) == <<p, file>> \in DOMAIN dir /\ dir[<<p, file>>].run = run /\ dir[<<p, file>>].whole
Files == {"dir", "rlib", "bin", "sh"}
Untouched(p) == \A file \in Files : <<p, file>> \notin DOMAIN dir
Done(p) == IF Has(p, "rlib") THEN Complete(p) /\ Runnable(p) ELSE Untouched(p)

\* Whose the files are: those of an older run until the directory is removed, of this run
\* from then on.
Own == /\ pc \in Before => \A q \in DOMAIN dir : dir[q].run # run
       /\ pc \in {"create", "library path"} => DOMAIN dir = {}
       /\ pc \notin Stopped => run # 0
       /\ pc \notin Before \cup Stopped \cup {"create"} => present
       /\ pc \notin Before \cup Stopped \/ pc = "installed" => \A q \in DOMAIN dir : dir[q].run = run

\* How far the copying is.
Progress ==
  /\ pc \notin Copying \cup Stopped => profile = "debug"
  /\ pc = "check" => \A p \in Profile : Untouched(p)
  /\ pc \in Copying => /\ \E p \in Profile : Has(p, "rlib")
                       /\ IF profile = "debug" THEN Untouched("release") ELSE Done("debug")
  /\ pc = "profile" => Untouched(profile)
  /\ pc \in {"rlib", "bin", "script", "permissions"} => Has(profile, "rlib") /\ Got(profile, "dir")
  /\ pc \in {"bin", "script", "permissions"} => Got(profile, "rlib")
  /\ pc \in {"script", "permissions"} => Got(profile, "bin")
  /\ pc = "permissions" => Got(profile, "sh")
  /\ pc \in {"rlib", "bin", "script", "permissions"} => ~Runnable(profile)

IInv == TypeOK /\ Own /\ Progress /\ NoMix /\ ScriptBacked /\ SuccessComplete

-----------------------------------------------------------------------------
LEMMA WrittenFacts ==
  ASSUME NEW path, NEW whole \in BOOLEAN, NEW exec \in BOOLEAN, dir' = Written(path, whole, exec)
  PROVE  /\ DOMAIN dir' = DOMAIN dir \cup {path}
         /\ dir'[path] = [run |-> run, whole |-> whole, exec |-> exec]
         /\ dir'[path].run = run /\ dir'[path].whole = whole /\ dir'[path].exec = exec
         /\ \A q \in DOMAIN dir : q # path => dir'[q] = dir[q]
<1>1. /\ DOMAIN dir' = DOMAIN dir \cup {path}
      /\ dir'[path] = [run |-> run, whole |-> whole, exec |-> exec]
      /\ \A q \in DOMAIN dir : q # path => dir'[q] = dir[q]
  BY DEF Written
<1>. DEFINE file == [run |-> run, whole |-> whole, exec |-> exec]
<1>2. file.run = run /\ file.whole = whole /\ file.exec = exec
  OBVIOUS
<1>3. dir'[path] = file
  BY <1>1
<1>. HIDE DEF file
<1>. QED BY <1>1, <1>2, <1>3

\* The runs of the files precede the next run.
LEMMA Older == ASSUME NEW n \in Nat, NEW r \in 1..n PROVE r # n + 1 /\ r \in 1..(n + 1)
OBVIOUS

LEMMA NextRun == ASSUME NEW n \in 0..MaxRuns, n < MaxRuns
                 PROVE  n \in Nat /\ n + 1 \in 0..MaxRuns
BY MaxRunsAssumption

LEMMA ThisRun == ASSUME NEW n \in 0..MaxRuns, n # 0 PROVE n \in 1..n
BY MaxRunsAssumption

-----------------------------------------------------------------------------
LEMMA InitInv == Init => IInv
<1>. SUFFICES ASSUME Init PROVE IInv
  OBVIOUS
<1>1. run = 0 /\ DOMAIN dir = {} /\ pc = "idle" /\ profile = "debug" /\ built = {} /\ present = FALSE
  BY DEF Init, Empty
<1>2. 0 \in 0..MaxRuns
  BY MaxRunsAssumption
<1>3. TypeOK
  BY <1>1, <1>2 DEF TypeOK, Profile, Stopped
<1>4. Own /\ Progress /\ NoMix /\ ScriptBacked /\ SuccessComplete
  BY <1>1 DEF Own, Before, Stopped, Progress, Copying, NoMix, ScriptBacked, Runnable, SuccessComplete
<1>. QED BY <1>3, <1>4 DEF IInv

\* A new run finds older files only.
LEMMA StartInv == ASSUME IInv, Start PROVE IInv'
<1>1. /\ run' = run + 1 /\ run \in 0..MaxRuns /\ run < MaxRuns /\ run \in Nat /\ run' \in 0..MaxRuns
      /\ UNCHANGED <<present, dir>> /\ pc' = "arguments" /\ profile' = "debug"
      /\ built' \subseteq Profile \X {"rlib", "bin"}
  BY NextRun DEF Start, IInv, TypeOK
<1>2. \A q \in DOMAIN dir : dir[q] \in [run : 1..run, whole : BOOLEAN, exec : BOOLEAN]
  BY DEF IInv, TypeOK
<1>3. \A q \in DOMAIN dir : dir[q].run # run' /\ dir[q] \in [run : 1..run', whole : BOOLEAN, exec : BOOLEAN]
  BY <1>1, <1>2, Older
<1>4. TypeOK'
  BY <1>1, <1>3 DEF IInv, TypeOK, Stopped, Profile
<1>5. Own' /\ Progress'
  BY <1>1, <1>3 DEF Own, Before, Stopped, Progress, Copying
<1>6. NoMix'
  BY <1>1 DEF IInv, NoMix
<1>7. ScriptBacked' /\ SuccessComplete'
  BY <1>1, <1>3 DEF ScriptBacked, Runnable, SuccessComplete
<1>. QED BY <1>4, <1>5, <1>6, <1>7 DEF IInv

\* A step that leaves the directory alone and stops the run.
LEMMA StopInv ==
  ASSUME IInv, UNCHANGED <<run, profile, built, present, dir>>, pc' \in {"failed", "killed"}
  PROVE  IInv'
<1>1. TypeOK'
  BY DEF IInv, TypeOK, Stopped
<1>2. Own' /\ Progress'
  BY DEF IInv, Own, Before, Stopped, Progress, Copying
<1>3. NoMix' /\ SuccessComplete'
  BY DEF IInv, NoMix, SuccessComplete
<1>4. ScriptBacked'
  BY DEF IInv, ScriptBacked, Runnable, Complete
<1>. QED BY <1>1, <1>2, <1>3, <1>4 DEF IInv

LEMMA CheckArgumentsInv == ASSUME IInv, CheckArguments PROVE IInv'
<1>1. CASE pc' = "failed"
  BY <1>1, StopInv DEF CheckArguments
<1>2. CASE pc' = IF present THEN "remove" ELSE "create"
  <2>. USE <1>2 DEF CheckArguments
  <2>1. TypeOK'
    BY DEF IInv, TypeOK, Stopped
  <2>2. ~present => DOMAIN dir = {}
    BY DEF IInv, TypeOK
  <2>3. Own'
    BY <2>2 DEF IInv, Own, Before, Stopped
  <2>4. Progress' /\ NoMix' /\ SuccessComplete'
    BY DEF IInv, Progress, Copying, Stopped, NoMix, SuccessComplete
  <2>5. ScriptBacked'
    BY DEF IInv, ScriptBacked, Runnable, Complete
  <2>. QED BY <2>1, <2>3, <2>4, <2>5 DEF IInv
<1>. QED BY <1>1, <1>2 DEF CheckArguments

\* What remove_dir_all leaves is older.
LEMMA RemoveInv == ASSUME IInv, Remove PROVE IInv'
<1>1. CASE present' = FALSE /\ dir' = Empty /\ pc' = "create"
  <2>1. DOMAIN dir' = {} /\ UNCHANGED <<run, profile, built>> /\ profile = "debug" /\ run # 0
    BY <1>1 DEF Empty, Remove, IInv, Own, Progress, Copying, Stopped
  <2>2. TypeOK'
    BY <1>1, <2>1 DEF IInv, TypeOK, Stopped
  <2>3. Own' /\ Progress' /\ NoMix' /\ ScriptBacked' /\ SuccessComplete'
    BY <1>1, <2>1 DEF Own, Before, Stopped, Progress, Copying, NoMix, ScriptBacked, Runnable, SuccessComplete
  <2>. QED BY <2>2, <2>3 DEF IInv
<1>2. CASE /\ \E keep \in SUBSET DOMAIN dir : dir' = [q \in keep |-> dir[q]]
           /\ pc' \in {"failed", "killed"} /\ UNCHANGED present
  <2>1. PICK keep \in SUBSET DOMAIN dir : dir' = [q \in keep |-> dir[q]]
    BY <1>2
  <2>2. DOMAIN dir' \subseteq DOMAIN dir /\ \A q \in DOMAIN dir' : dir'[q] = dir[q]
    BY <2>1
  <2>3. UNCHANGED <<run, profile, built>> /\ \A q \in DOMAIN dir : dir[q].run # run
    BY DEF Remove, IInv, Own, Before
  <2>4. TypeOK'
    BY <1>2, <2>2, <2>3 DEF IInv, TypeOK, Stopped
  <2>5. Own' /\ Progress' /\ SuccessComplete'
    BY <1>2 DEF Own, Before, Stopped, Progress, Copying, SuccessComplete
  <2>6. NoMix'
    BY <2>2 DEF IInv, NoMix
  <2>7. ScriptBacked'
    BY <2>2, <2>3 DEF ScriptBacked, Runnable
  <2>. QED BY <2>4, <2>5, <2>6, <2>7 DEF IInv
<1>. QED BY <1>1, <1>2 DEF Remove

LEMMA CreateInv == ASSUME IInv, Create PROVE IInv'
<1>1. CASE Fail
  BY <1>1, StopInv DEF Fail
<1>2. CASE present' = TRUE /\ pc' = "library path" /\ UNCHANGED <<run, profile, built, dir>>
  <2>1. DOMAIN dir = {} /\ UNCHANGED <<run, profile, built, dir>> /\ profile = "debug" /\ run # 0
    BY <1>2 DEF Create, IInv, Own, Progress, Copying, Stopped
  <2>2. TypeOK'
    BY <1>2, <2>1 DEF IInv, TypeOK, Stopped
  <2>3. Own' /\ Progress' /\ NoMix' /\ ScriptBacked' /\ SuccessComplete'
    BY <1>2, <2>1 DEF Own, Before, Stopped, Progress, Copying, NoMix, ScriptBacked, Runnable, SuccessComplete
  <2>. QED BY <2>2, <2>3 DEF IInv
<1>. QED BY <1>1, <1>2 DEF Create

-----------------------------------------------------------------------------
\* A file of this run is written: what holds whichever it is.
LEMMA WriteFacts ==
  ASSUME IInv, pc \in {"library path"} \cup Copying, NEW path \in Path,
         NEW whole \in BOOLEAN, NEW exec \in BOOLEAN, dir' = Written(path, whole, exec),
         UNCHANGED <<run, built, present>>, profile' \in Profile,
         pc' \in Copying \cup {"check", "installed", "failed"}
  PROVE  TypeOK' /\ Own' /\ NoMix'
<1>1. /\ DOMAIN dir' = DOMAIN dir \cup {path}
      /\ dir'[path] = [run |-> run, whole |-> whole, exec |-> exec] /\ dir'[path].run = run
      /\ \A q \in DOMAIN dir : q # path => dir'[q] = dir[q]
  BY WrittenFacts
<1>2. present /\ run # 0 /\ \A q \in DOMAIN dir : dir[q].run = run
  BY DEF IInv, Own, Copying, Before, Stopped
<1>3. run \in 1..run
  BY <1>2, ThisRun DEF IInv, TypeOK
<1>4. TypeOK'
  <2>1. DOMAIN dir' \subseteq Path
    BY <1>1, <1>2 DEF IInv, TypeOK
  <2>2. ASSUME NEW q \in DOMAIN dir'
        PROVE  dir'[q] \in [run : 1..run, whole : BOOLEAN, exec : BOOLEAN]
    <3>1. CASE q = path
      <4>1. [run |-> run, whole |-> whole, exec |-> exec] \in [run : 1..run, whole : BOOLEAN, exec : BOOLEAN]
        BY <1>3
      <4>. QED BY <1>1, <3>1, <4>1
    <3>2. CASE q # path
      BY <1>1, <3>2 DEF IInv, TypeOK
    <3>. QED BY <3>1, <3>2
  <2>. QED BY <1>2, <2>1, <2>2 DEF IInv, TypeOK, Copying, Stopped
<1>5. ASSUME NEW q \in DOMAIN dir' PROVE dir'[q].run = run
  <2>1. CASE q = path
    BY <1>1, <2>1
  <2>2. CASE q # path
    BY <1>1, <1>2, <2>2
  <2>. QED BY <2>1, <2>2
<1>6. Own'
  BY <1>2, <1>5 DEF Own, Copying, Before, Stopped
<1>7. NoMix'
  BY <1>5 DEF NoMix
<1>. QED BY <1>4, <1>6, <1>7

\* A file of one profile is written: nothing changes for the other one.
LEMMA OtherProfile ==
  ASSUME NEW p \in Profile, NEW other \in Profile, p # other, NEW file,
         NEW whole \in BOOLEAN, NEW exec \in BOOLEAN,
         dir' = Written(<<p, file>>, whole, exec), UNCHANGED <<run, built>>
  PROVE  /\ Untouched(other)' = Untouched(other)
         /\ Complete(other)' = Complete(other)
         /\ Runnable(other)' = Runnable(other)
         /\ Has(other, "rlib")' = Has(other, "rlib")
<1>1. /\ DOMAIN dir' = DOMAIN dir \cup {<<p, file>>}
      /\ \A q \in DOMAIN dir : q # <<p, file>> => dir'[q] = dir[q]
  BY WrittenFacts
<1>2. ASSUME NEW f
      PROVE  /\ <<other, f>> \in DOMAIN dir' <=> <<other, f>> \in DOMAIN dir
             /\ <<other, f>> \in DOMAIN dir => dir'[<<other, f>>] = dir[<<other, f>>]
  <2>1. <<other, f>> # <<p, file>>
    OBVIOUS
  <2>. QED BY <1>1, <2>1
<1>3. Untouched(other)' = Untouched(other)
  BY <1>2 DEF Untouched
<1>4. Complete(other)' = Complete(other)
  BY <1>2 DEF Complete
<1>5. Runnable(other)' = Runnable(other)
  BY <1>2 DEF Runnable
<1>. QED BY <1>3, <1>4, <1>5 DEF Has

\* What a written file does to the others of its profile.
LEMMA SameProfile ==
  ASSUME NEW p \in Profile, NEW file, NEW whole \in BOOLEAN, NEW exec \in BOOLEAN,
         dir' = Written(<<p, file>>, whole, exec), UNCHANGED run
  PROVE  /\ \A f : f # file /\ Got(p, f) => Got(p, f)'
         /\ whole => Got(p, file)'
         /\ file = "sh" => (Runnable(p)' <=> exec)
         /\ file # "sh" => Runnable(p)' = Runnable(p)
<1>1. /\ DOMAIN dir' = DOMAIN dir \cup {<<p, file>>}
      /\ dir'[<<p, file>>].run = run /\ dir'[<<p, file>>].whole = whole
      /\ dir'[<<p, file>>].exec = exec
      /\ \A q \in DOMAIN dir : q # <<p, file>> => dir'[q] = dir[q]
  BY WrittenFacts
<1>2. \A f : f # file => <<p, f>> # <<p, file>>
  OBVIOUS
<1>3. ASSUME NEW f, f # file, Got(p, f) PROVE Got(p, f)'
  BY <1>1, <1>2, <1>3 DEF Got
<1>4. ASSUME whole PROVE Got(p, file)'
  BY <1>1, <1>4 DEF Got
<1>5. file = "sh" => (Runnable(p)' <=> exec)
  BY <1>1 DEF Runnable
<1>6. file # "sh" => Runnable(p)' = Runnable(p)
  BY <1>1, <1>2 DEF Runnable
<1>. QED BY <1>3, <1>4, <1>5, <1>6

LEMMA RecordLibraryPathInv == ASSUME IInv, RecordLibraryPath PROVE IInv'
<1>1. CASE Fail
  BY <1>1, StopInv DEF Fail
<1>2. CASE /\ \E whole \in BOOLEAN : /\ dir' = Written(<<"ld_library_path">>, whole, FALSE)
                                     /\ pc' = IF whole THEN "check" ELSE "failed"
           /\ UNCHANGED <<run, profile, built, present>>
  <2>1. PICK whole \in BOOLEAN : /\ dir' = Written(<<"ld_library_path">>, whole, FALSE)
                                 /\ pc' = IF whole THEN "check" ELSE "failed"
    BY <1>2
  <2>2. TypeOK' /\ Own' /\ NoMix'
    BY <1>2, <2>1, WriteFacts DEF RecordLibraryPath, Path, IInv, TypeOK
  <2>3. DOMAIN dir = {} /\ DOMAIN dir' = {<<"ld_library_path">>} /\ profile' = "debug"
    BY <1>2, <2>1, WrittenFacts DEF RecordLibraryPath, IInv, Own, Progress, Copying, Stopped
  <2>4. \A p, file : <<p, file>> \notin DOMAIN dir'
    BY <2>3
  <2>5. Progress'
    BY <2>1, <2>3, <2>4 DEF Progress, Copying, Untouched
  <2>6. ScriptBacked' /\ SuccessComplete'
    BY <2>1, <2>4 DEF ScriptBacked, Runnable, SuccessComplete
  <2>. QED BY <2>2, <2>5, <2>6 DEF IInv
<1>. QED BY <1>1, <1>2 DEF RecordLibraryPath

LEMMA CheckInv == ASSUME IInv, Check PROVE IInv'
<1>1. CASE pc' = "failed"
  BY <1>1, StopInv DEF Check
<1>2. CASE pc' = "profile" /\ \E p \in Profile : Has(p, "rlib")
  <2>. USE <1>2 DEF Check
  <2>1. TypeOK' /\ Own'
    BY DEF IInv, TypeOK, Own, Before, Stopped
  <2>2. \A p \in Profile : Untouched(p)
    BY DEF IInv, Progress
  <2>3. \A p \in Profile : Untouched(p)' /\ (Has(p, "rlib")' = Has(p, "rlib"))
    BY <2>2 DEF Untouched, Has
  <2>4. profile' \in Profile /\ "release" \in Profile /\ profile = "debug"
    BY DEF IInv, TypeOK, Profile, Progress, Copying, Stopped
  <2>5. Progress'
    BY <2>3, <2>4 DEF Progress, Copying
  <2>6. NoMix' /\ SuccessComplete'
    BY DEF IInv, NoMix, SuccessComplete
  <2>7. ScriptBacked'
    BY DEF IInv, ScriptBacked, Runnable, Complete
  <2>. QED BY <2>1, <2>5, <2>6, <2>7 DEF IInv
<1>. QED BY <1>1, <1>2 DEF Check

-----------------------------------------------------------------------------
\* The state of the other profile, before and after a step that writes a file of this one.
OtherDone == IF profile = "debug" THEN Untouched("release") ELSE Done("debug")

LEMMA OtherStays ==
  ASSUME profile \in Profile, NEW file, NEW whole \in BOOLEAN, NEW exec \in BOOLEAN,
         dir' = Written(<<profile, file>>, whole, exec), UNCHANGED <<run, built>>, OtherDone
  PROVE  IF profile = "debug" THEN Untouched("release")' ELSE Done("debug")'
<1>1. CASE profile = "debug"
  BY <1>1, OtherProfile DEF OtherDone, Profile
<1>2. CASE profile # "debug"
  <2>1. /\ Untouched("debug")' = Untouched("debug") /\ Complete("debug")' = Complete("debug")
        /\ Runnable("debug")' = Runnable("debug") /\ Has("debug", "rlib")' = Has("debug", "rlib")
    BY <1>2, OtherProfile DEF Profile
  <2>. QED BY <1>2, <2>1 DEF OtherDone, Done
<1>. QED BY <1>1, <1>2

\* A file of this run is written and the profile is not finished by it.
LEMMA CopyStepInv ==
  ASSUME IInv, Has(profile, "rlib"), NEW file \in Files, NEW whole \in BOOLEAN, NEW exec \in BOOLEAN,
         dir' = Written(<<profile, file>>, whole, exec), file = "sh" => ~exec,
         UNCHANGED <<run, profile, built, present>>,
         \/ pc = "profile" /\ file = "dir" /\ whole /\ pc' = "rlib"
         \/ pc = "rlib" /\ file = "rlib" /\ pc' = IF whole THEN "bin" ELSE "failed"
         \/ pc = "bin" /\ file = "bin" /\ pc' = IF whole THEN "script" ELSE "failed"
         \/ pc = "script" /\ file = "sh" /\ pc' = IF whole THEN "permissions" ELSE "failed"
  PROVE  IInv'
<1>1. profile \in Profile /\ pc \in Copying /\ <<profile, file>> \in Path
  BY DEF IInv, TypeOK, Copying, Path, Files
<1>2. TypeOK' /\ Own' /\ NoMix'
  BY <1>1, WriteFacts DEF Copying
<1>3. ~Runnable(profile)
  BY DEF IInv, Progress, Untouched, Runnable, Files
<1>4. /\ \A f : f # file /\ Got(profile, f) => Got(profile, f)'
      /\ whole => Got(profile, file)' /\ ~Runnable(profile)'
  BY <1>1, <1>3, SameProfile
<1>5. IF profile = "debug" THEN Untouched("release")' ELSE Done("debug")'
  BY <1>1, OtherStays DEF IInv, Progress, OtherDone
<1>6. Has(profile, "rlib")' /\ (\E p \in Profile : Has(p, "rlib"))'
  BY <1>1 DEF Has
<1>7. Progress'
  BY <1>4, <1>5, <1>6 DEF IInv, Progress, Copying, Stopped
<1>8. ScriptBacked'
  <2>1. ASSUME NEW p \in Profile, p # profile, Runnable(p)' PROVE Complete(p)'
    <3>1. Runnable(p) /\ Complete(p)' = Complete(p)
      BY <1>1, <2>1, OtherProfile
    <3>2. dir[<<p, "sh">>].run = run
      BY <1>1, <3>1 DEF IInv, Own, Before, Stopped, Copying, Runnable
    <3>. QED BY <3>1, <3>2 DEF IInv, ScriptBacked
  <2>2. ASSUME NEW p \in Profile, p = profile, Runnable(p)' PROVE FALSE
    BY <1>3, <2>2, SameProfile
  <2>. QED BY <2>1, <2>2 DEF ScriptBacked
<1>9. SuccessComplete'
  BY DEF SuccessComplete
<1>. QED BY <1>2, <1>7, <1>8, <1>9 DEF IInv

LEMMA MakeDirInv == ASSUME IInv, MakeDir PROVE IInv'
<1>1. CASE Fail
  BY <1>1, StopInv DEF Fail
<1>2. CASE /\ dir' = Written(<<profile, "dir">>, TRUE, TRUE) /\ pc' = "rlib"
           /\ UNCHANGED <<run, profile, built, present>>
  BY <1>2, CopyStepInv DEF MakeDir, Files
<1>. QED BY <1>1, <1>2 DEF MakeDir

LEMMA CopyInv == ASSUME IInv, CopyRlib \/ CopyBin \/ CreateScript PROVE IInv'
<1>1. CASE Fail
  BY <1>1, StopInv DEF Fail
<1>2. CASE CopyRlib /\ ~Fail
  BY <1>2, CopyStepInv DEF CopyRlib, Copy, Files, IInv, Progress
<1>3. CASE CopyBin /\ ~Fail
  BY <1>3, CopyStepInv DEF CopyBin, Copy, Files, IInv, Progress
<1>4. CASE CreateScript /\ ~Fail
  BY <1>4, CopyStepInv DEF CreateScript, Files, IInv, Progress
<1>. QED BY <1>1, <1>2, <1>3, <1>4

\* A profile is finished, or passed over: the next one, or the end.
LEMMA NextProfileInv ==
  ASSUME IInv, pc \in Copying, NEW p \in Profile, p = profile, NextProfile, UNCHANGED <<run, built>>,
         TypeOK', Own', NoMix', Done(p)',
         IF p = "debug" THEN Untouched("release")' ELSE Done("debug")',
         \A q \in Profile : Runnable(q)' => Complete(q)'
  PROVE  IInv'
<1>1. profile' = "release" /\ pc' = (IF p = "debug" THEN "profile" ELSE "installed")
  BY DEF NextProfile
<1>2. (\E q \in Profile : Has(q, "rlib"))'
  BY DEF IInv, Progress, Has
<1>3. Progress'
  <2>1. CASE p = "debug"
    BY <1>1, <1>2, <2>1 DEF Progress, Copying, Stopped, Untouched
  <2>2. CASE p # "debug"
    BY <1>1, <2>2 DEF Progress, Copying, Stopped
  <2>. QED BY <2>1, <2>2
<1>4. ScriptBacked'
  BY DEF ScriptBacked
<1>5. ASSUME pc' = "installed" PROVE \A q \in Profile : Done(q)'
  BY <1>1, <1>5 DEF Profile
<1>6. SuccessComplete'
  BY <1>2, <1>5 DEF SuccessComplete, Own, Done, Untouched, Files
<1>. QED BY <1>3, <1>4, <1>6 DEF IInv

LEMMA SkipProfileInv == ASSUME IInv, SkipProfile PROVE IInv'
<1>1. TypeOK' /\ Own' /\ NoMix'
  BY DEF SkipProfile, NextProfile, IInv, TypeOK, Own, NoMix, Profile, Before, Stopped
<1>2. PICK p \in Profile : p = profile
  BY DEF IInv, TypeOK
<1>3. pc \in Copying /\ UNCHANGED <<run, built, dir>> /\ NextProfile
  BY DEF SkipProfile, Copying
<1>4. /\ Done(p) /\ IF p = "debug" THEN Untouched("release") ELSE Done("debug")
      /\ \A q \in Profile : Runnable(q) => Complete(q)
  BY <1>2 DEF SkipProfile, IInv, Progress, Copying, Done, Own, Before, Stopped, ScriptBacked, Runnable
<1>5. \A q : /\ Untouched(q)' = Untouched(q) /\ Complete(q)' = Complete(q)
             /\ Runnable(q)' = Runnable(q) /\ Has(q, "rlib")' = Has(q, "rlib")
  BY <1>3 DEF Untouched, Runnable, Complete, Has
<1>6. /\ Done(p)' /\ IF p = "debug" THEN Untouched("release")' ELSE Done("debug")'
      /\ \A q \in Profile : Runnable(q)' => Complete(q)'
  BY <1>4, <1>5 DEF Done
<1>. QED BY <1>1, <1>2, <1>3, <1>6, NextProfileInv

\* The script is made executable last: the profile is complete by then.
LEMMA SetPermissionsInv == ASSUME IInv, SetPermissions PROVE IInv'
<1>1. CASE Fail
  BY <1>1, StopInv DEF Fail
<1>2. CASE dir' = Written(<<profile, "sh">>, TRUE, TRUE) /\ NextProfile /\ UNCHANGED <<run, built, present>>
  <2>1. PICK p \in Profile : p = profile
    BY DEF IInv, TypeOK
  <2>2. /\ dir' = Written(<<p, "sh">>, TRUE, TRUE) /\ UNCHANGED <<run, built>> /\ <<p, "sh">> \in Path
        /\ pc \in Copying /\ profile' \in Profile /\ pc' \in Copying \cup {"installed"}
    BY <1>2, <2>1 DEF SetPermissions, NextProfile, Copying, Profile, Path
  <2>3. TypeOK' /\ Own' /\ NoMix'
    BY <1>2, <2>2, WriteFacts
  <2>4. Has(p, "rlib") /\ \A file \in Files : Got(p, file)
    BY <2>1 DEF SetPermissions, IInv, Progress, Files
  <2>5. (\A file \in Files : Got(p, file)') /\ Runnable(p)'
    BY <2>2, <2>4, SameProfile DEF Files
  <2>6. Complete(p)' /\ Done(p)'
    <3>1. Has(p, "rlib")'
      BY <2>2, <2>4 DEF Has
    <3>2. Complete(p)'
      BY <2>5 DEF Complete, Got, Files
    <3>. QED BY <2>5, <3>1, <3>2 DEF Done
  <2>7. IF p = "debug" THEN Untouched("release")' ELSE Done("debug")'
    <3>1. CASE p = "debug"
      <4>1. Untouched("release")
        BY <2>1, <2>2, <3>1 DEF IInv, Progress
      <4>. QED BY <2>2, <3>1, <4>1, OtherProfile DEF Profile
    <3>2. CASE p # "debug"
      <4>1. Done("debug")
        BY <2>1, <2>2, <3>2 DEF IInv, Progress
      <4>2. /\ Untouched("debug")' = Untouched("debug") /\ Complete("debug")' = Complete("debug")
            /\ Runnable("debug")' = Runnable("debug") /\ Has("debug", "rlib")' = Has("debug", "rlib")
        BY <2>2, <3>2, OtherProfile DEF Profile
      <4>. QED BY <3>2, <4>1, <4>2 DEF Done
    <3>. QED BY <3>1, <3>2
  <2>8. ASSUME NEW q \in Profile, Runnable(q)' PROVE Complete(q)'
    <3>1. CASE q # p
      <4>1. Runnable(q) /\ Complete(q)' = Complete(q)
        BY <2>2, <2>8, <3>1, OtherProfile
      <4>2. dir[<<q, "sh">>].run = run
        BY <2>2, <4>1 DEF IInv, Own, Before, Stopped, Copying, Runnable
      <4>. QED BY <4>1, <4>2 DEF IInv, ScriptBacked
    <3>. QED BY <2>6, <3>1
  <2>. QED BY <1>2, <2>1, <2>2, <2>3, <2>6, <2>7, <2>8, NextProfileInv
<1>. QED BY <1>1, <1>2 DEF SetPermissions

LEMMA KillInv == ASSUME IInv, Kill PROVE IInv'
BY StopInv DEF Kill

-----------------------------------------------------------------------------
LEMMA NextInv == IInv /\ [Next]_vars => IInv'
<1>. SUFFICES ASSUME IInv, [Next]_vars PROVE IInv'
  OBVIOUS
<1>1. CASE Next
  BY <1>1, StartInv, CheckArgumentsInv, RemoveInv, CreateInv, RecordLibraryPathInv, CheckInv,
     SkipProfileInv, MakeDirInv, CopyInv, SetPermissionsInv, KillInv DEF Next
<1>2. CASE UNCHANGED vars
  <2>. USE <1>2 DEF vars, IInv
  <2>1. TypeOK' /\ Own' /\ NoMix'
    BY DEF TypeOK, Own, NoMix
  <2>2. Progress'
    BY DEF Progress, Untouched, Done, Complete, Runnable, Got, Has
  <2>3. ScriptBacked' /\ SuccessComplete'
    BY DEF ScriptBacked, SuccessComplete, Complete, Runnable, Has
  <2>. QED BY <2>1, <2>2, <2>3
<1>. QED BY <1>1, <1>2

LEMMA Invariance == Spec => []IInv
BY InitInv, NextInv, PTL DEF Spec

\* The state has its types: nothing lies in a directory that does not exist.
THEOREM InstallerTyped == Spec => []TypeOK
<1>1. IInv => TypeOK
  BY DEF IInv
<1>. QED BY Invariance, <1>1, PTL

\* Artefacts of two runs of cargo_stable_mir_json are never mixed, wherever it is cut short.
THEOREM InstallerNoMix == Spec => []NoMix
<1>1. IInv => NoMix
  BY DEF IInv
<1>. QED BY Invariance, <1>1, PTL

\* A run script that this run made executable has a complete profile behind it, also when
\* the run fails or is killed later on.
THEOREM InstallerScriptBacked == Spec => []ScriptBacked
<1>1. IInv => ScriptBacked
  BY DEF IInv
<1>. QED BY Invariance, <1>1, PTL

\* A run that reports success has installed every profile that has a library, at least
\* one, and nothing else is left.
THEOREM InstallerSuccessComplete == Spec => []SuccessComplete
<1>1. IInv => SuccessComplete
  BY DEF IInv
<1>. QED BY Invariance, <1>1, PTL
=============================================================================
