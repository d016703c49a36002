----------------------------- MODULE Installer -----------------------------
(***************************************************************************)
(* cargo_stable_mir_json (src/src/bin/cargo_stable_mir_json.rs): installs  *)
(* the build artefacts of a repository in a directory .stable-mir-json,    *)
(* replacing what an earlier run left there.  One step per system call;    *)
(* every call may fail, the process may be killed between two of them, and *)
(* the user may build again and run it again.                              *)
(*                                                                         *)
(* The directory is a partial function from paths to [run, whole, exec]:   *)
(* the run that wrote the file, whether it was written to its end, and the *)
(* permission to execute it.                                               *)
(***************************************************************************)
EXTENDS Naturals

CONSTANT MaxRuns    \* a bound on the number of runs

ASSUME MaxRunsAssumption == MaxRuns \in Nat \ {0}

Profile == {"debug", "release"}
Path == {<<"ld_library_path">>} \cup (Profile \X {"dir", "rlib", "bin", "sh"})

VARIABLES run,       \* number of the run
          pc,        \* the next system call, or "idle", "installed", "failed", "killed"
          profile,   \* the profile being copied
          built,     \* SUBSET (Profile \X {"rlib", "bin"}): what the repository's target/ holds
          present,   \* does .stable-mir-json exist?
          dir        \* its contents

vars == <<run, pc, profile, built, present, dir>>

Stopped == {"idle", "installed", "failed", "killed"}
Has(p, file) == <<p, file>> \in built

Empty == [path \in {} |-> 0]
Written(path, whole, exec) ==
  [q \in DOMAIN dir \cup {path} |->
     IF q = path THEN [run |-> run, whole |-> whole, exec |-> exec] ELSE dir[q]]

Fail == pc' = "failed" /\ UNCHANGED <<run, profile, built, present, dir>>

-----------------------------------------------------------------------------
Init == /\ run = 0 /\ pc = "idle" /\ profile = "debug"
        /\ built = {} /\ present = FALSE /\ dir = Empty

\* The user builds some profiles, perhaps without the binary, and runs the program.
Start == /\ pc \in Stopped /\ run < MaxRuns
         /\ run' = run + 1
         /\ built' \in SUBSET (Profile \X {"rlib", "bin"})
         /\ pc' = "arguments" /\ profile' = "debug"
         /\ UNCHANGED <<present, dir>>

\* Fault for the mutation runs: what is there is left in place.
KeepsOld == /\ pc = "arguments"
            /\ pc' = "create"
            /\ UNCHANGED <<run, profile, built, present, dir>>

\* main and smir_json_dir bail out before anything is touched.
CheckArguments == /\ pc = "arguments"
                  /\ \/ pc' = IF present THEN "remove" ELSE "create"
                     \/ pc' = "failed"
                  /\ UNCHANGED <<run, profile, built, present, dir>>

\* Fault for the mutation run: the directory is not created again.
ForgetsCreate == /\ pc = "remove"
                 /\ present' = FALSE /\ dir' = Empty /\ pc' = "library path"
                 /\ UNCHANGED <<run, profile, built>>

\* remove_dir_all deletes the entries one by one, in any order.
Remove == /\ pc = "remove"
          /\ \/ /\ present' = FALSE /\ dir' = Empty /\ pc' = "create"
             \/ /\ \E keep \in SUBSET DOMAIN dir :
                     /\ \A p \in Profile : (<<p, "rlib">> \in keep \/ <<p, "bin">> \in keep)
                                             => <<p, "dir">> \in keep
                     /\ dir' = [q \in keep |-> dir[q]]
                /\ pc' \in {"failed", "killed"}
                /\ UNCHANGED present
          /\ UNCHANGED <<run, profile, built>>

Create == /\ pc = "create"
          /\ \/ present' = TRUE /\ pc' = "library path" /\ UNCHANGED <<run, profile, built, dir>>
             \/ Fail

\* record_ld_library_path, which may also fail before it creates the file
RecordLibraryPath ==
  /\ pc = "library path"
  /\ \/ Fail
     \/ \E whole \in BOOLEAN :
          /\ dir' = Written(<<"ld_library_path">>, whole, FALSE)
          /\ pc' = IF whole THEN "check" ELSE "failed"
     /\ UNCHANGED <<run, profile, built, present>>

\* copy_artefacts: with no library in target/ there is nothing to install.
Check == /\ pc = "check"
         /\ pc' = IF \E p \in Profile : Has(p, "rlib") THEN "profile" ELSE "failed"
         /\ UNCHANGED <<run, profile, built, present, dir>>

\* Debug, then release; a profile without a library is passed over.
NextProfile == /\ profile' = "release"
               /\ pc' = IF profile = "debug" THEN "profile" ELSE "installed"
SkipProfile == /\ pc = "profile" /\ ~Has(profile, "rlib")
               /\ NextProfile
               /\ UNCHANGED <<run, built, present, dir>>

\* create_dir fails when the directory exists.
MakeDir == /\ pc = "profile" /\ Has(profile, "rlib")
           /\ \/ /\ <<profile, "dir">> \notin DOMAIN dir
                 /\ dir' = Written(<<profile, "dir">>, TRUE, TRUE)
                 /\ pc' = "rlib"
                 /\ UNCHANGED <<run, profile, built, present>>
              \/ <<profile, "dir">> \in DOMAIN dir /\ Fail
              \/ Fail

\* fs::copy of a file of target/; the copy has the permissions of the original.
Copy(file, exec, next) ==
  /\ pc = file
  /\ \/ Fail
     \/ /\ Has(profile, file)
        /\ \E whole \in BOOLEAN : /\ dir' = Written(<<profile, file>>, whole, exec)
                                  /\ pc' = IF whole THEN next ELSE "failed"
        /\ UNCHANGED <<run, profile, built, present>>

CopyRlib == Copy("rlib", FALSE, "bin")

\* Faults for the mutation runs: a missing binary is passed over; a copy that failed
\* midway is taken to be whole.
PassesOverBin == \/ Copy("bin", TRUE, "script")
                 \/ /\ pc = "bin" /\ ~Has(profile, "bin") /\ pc' = "script"
                    /\ UNCHANGED <<run, profile, built, present, dir>>

TakesPartialForWhole ==
  /\ pc = "bin" /\ Has(profile, "bin")
  /\ \E whole \in BOOLEAN : dir' = Written(<<profile, "bin">>, whole, TRUE)
  /\ pc' = "script"
  /\ UNCHANGED <<run, profile, built, present>>

CopyBin == Copy("bin", TRUE, "script")

\* add_run_script: the script is created, filled line by line, then made executable.
CreateScript == /\ pc = "script"
                /\ \/ Fail
                   \/ \E whole \in BOOLEAN :
                        /\ dir' = Written(<<profile, "sh">>, whole, FALSE)
                        /\ pc' = IF whole THEN "permissions" ELSE "failed"
                        /\ UNCHANGED <<run, profile, built, present>>

SetPermissions == /\ pc = "permissions"
                  /\ \/ Fail
                     \/ /\ dir' = Written(<<profile, "sh">>, TRUE, TRUE)
                        /\ NextProfile
                        /\ UNCHANGED <<run, built, present>>

Kill == /\ pc \notin Stopped
        /\ pc' = "killed"
        /\ UNCHANGED <<run, profile, built, present, dir>>

Next == \/ Start \/ CheckArguments \/ Remove \/ Create \/ RecordLibraryPath \/ Check
        \/ SkipProfile \/ MakeDir \/ CopyRlib \/ CopyBin \/ CreateScript \/ SetPermissions
        \/ Kill

Spec == Init /\ [][Next]_vars

-----------------------------------------------------------------------------
Complete(p) == \A file \in {"dir", "rlib", "bin", "sh"} :
                 /\ <<p, file>> \in DOMAIN dir
                 /\ dir[<<p, file>>].run = run /\ dir[<<p, file>>].whole
Runnable(p) == <<p, "sh">> \in DOMAIN dir /\ dir[<<p, "sh">>].exec

\* Type invariant.
TypeOK == /\ run \in 0..MaxRuns /\ profile \in Profile /\ present \in BOOLEAN
          /\ built \subseteq Profile \X {"rlib", "bin"}
          /\ pc \in Stopped \cup {"arguments", "remove", "create", "library path", "check",
                                "profile", "rlib", "bin", "script", "permissions"}
          /\ DOMAIN dir \subseteq (IF present THEN Path ELSE {})
          /\ \A q \in DOMAIN dir : dir[q] \in [run : 1..run, whole : BOOLEAN, exec : BOOLEAN]

\* Artefacts of two runs are never mixed, whichever step of whichever run was cut short.
NoMix == \A q, r \in DOMAIN dir : dir[q].run = dir[r].run

\* A script that this run made executable has a complete profile behind it, also when
\* the run fails or is killed later on.
ScriptBacked ==
  \A p \in Profile : (Runnable(p) /\ dir[<<p, "sh">>].run = run) => Complete(p)

\* A run that reports success has installed every profile that has a library, at least
\* one, and left nothing of an earlier run.
SuccessComplete ==
  pc = "installed" =>
    /\ \E p \in Profile : Has(p, "rlib")
    /\ \A p \in Profile : IF Has(p, "rlib") THEN Complete(p) /\ Runnable(p)
                           ELSE \A file \in {"dir", "rlib", "bin", "sh"} : <<p, file>> \notin DOMAIN dir
    /\ \A q \in DOMAIN dir : dir[q].run = run
=============================================================================
