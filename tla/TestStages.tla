----------------------------- MODULE TestStages -----------------------------
(***************************************************************************)
(* The stages of modules/test-structure, as TestTerraformSshExample uses   *)
(* them: setup creates a key pair, saves it and the Terraform options in   *)
(* .test-data and applies; validate and the deferred teardown load them.   *)
(* SKIP_ variables let a developer spread the stages over processes that   *)
(* share the original folder; without any, a process works on a copy of    *)
(* its own. Each process may be killed at any point and each call fail.    *)
(***************************************************************************)
EXTENDS Naturals, Sequences

CONSTANTS
  MaxRuns,    \* bound: processes the developer starts
  None,       \* no value
  Absent, Empty, Corrupt   \* what a file may hold instead of a value

ASSUME TestStagesAssumption ==
  MaxRuns \in Nat /\ {None, Absent, Empty, Corrupt} \intersect (1 .. MaxRuns) = {}

Stages == {"setup", "validate", "teardown"}
Keys == {"options", "keyPair"}
Folders == {"original", "temp"}

\* A setup names all it makes with one unique id: the number of its process.
Ids == 1 .. MaxRuns

\* What a file of .test-data holds. WriteFile truncates before it writes: a kill
\* in between leaves it empty, a failing write corrupt.
Contents == Ids \union {Absent, Empty, Corrupt}

VARIABLES
  runs,       \* processes started so far
  alive,      \* whether the last one still runs
  skip,       \* the stages whose SKIP_ variable it has
  todo,       \* the calls it still has to make
  memory,     \* the options and the key pair its setup has made
  faults,     \* the calls that failed in it
  killed,     \* whether it was killed
  files,      \* .test-data of each folder
  state,      \* terraform.tfstate of each folder: what is deployed from it
  deployed,   \* the deployments that exist in AWS
  keyPairs    \* the key pairs that exist in AWS

processVars == <<runs, skip>>
awsVars == <<deployed, keyPairs>>
vars == <<processVars, alive, todo, memory, faults, killed, files, state, awsVars>>

\* SkipStageEnvVarSet decides where a process works.
Folder == IF skip = {} THEN "temp" ELSE "original"

Call(stage, name, key) == [stage |-> stage, name |-> name, key |-> key]

-----------------------------------------------------------------------------

Setup_SavesLast ==
  <<Call("setup", "create", "keyPair"), Call("setup", "apply", "options"),
    Call("setup", "save", "options"), Call("setup", "write", "options"),
    Call("setup", "save", "keyPair"), Call("setup", "write", "keyPair")>>

\* The calls of the setup stage.
Setup ==
  <<Call("setup", "create", "keyPair"),
    Call("setup", "save", "options"), Call("setup", "write", "options"),
    Call("setup", "save", "keyPair"), Call("setup", "write", "keyPair"),
    Call("setup", "apply", "options")>>

Validate ==
  <<Call("validate", "load", "options"), Call("validate", "load", "keyPair"),
    Call("validate", "check", "options")>>

Teardown ==
  <<Call("teardown", "load", "options"), Call("teardown", "destroy", "options"),
    Call("teardown", "load", "keyPair"), Call("teardown", "delete", "keyPair")>>

\* RunTestStage runs a stage that is not skipped.
Unless(stage, skipped, calls) == IF stage \in skipped THEN <<>> ELSE calls

\* The teardown is deferred: it runs after the others, however they end.
Deferred(skipped) == Unless("teardown", skipped, Teardown)

CallsOf(skipped) ==
  Unless("setup", skipped, Setup) \o Unless("validate", skipped, Validate) \o Deferred(skipped)

Init ==
  /\ runs = 0
  /\ alive = FALSE
  /\ skip = {}
  /\ todo = <<>>
  /\ memory = [k \in Keys |-> None]
  /\ faults = {}
  /\ killed = FALSE
  /\ files = [f \in Folders |-> [k \in Keys |-> Absent]]
  /\ state = [f \in Folders |-> None]
  /\ deployed = {}
  /\ keyPairs = {}

\* The developer starts the test. She sets up in the original folder only when
\* nothing is deployed from it: SaveTestData warns that it overwrites.
\* CopyTerraformFolderToTemp copies neither .test-data nor the state.
StartTest(skipped) ==
  /\ ~alive
  /\ runs < MaxRuns
  /\ skipped # {} /\ "setup" \notin skipped => state["original"] = None
  /\ runs' = runs + 1
  /\ alive' = TRUE
  /\ skip' = skipped
  /\ todo' = CallsOf(skipped)
  /\ memory' = [k \in Keys |-> None]
  /\ faults' = {}
  /\ killed' = FALSE
  /\ IF skipped = {}
     THEN /\ files' = [files EXCEPT !["temp"] = [k \in Keys |-> Absent]]
          /\ state' = [state EXCEPT !["temp"] = None]
     ELSE UNCHANGED <<files, state>>
  /\ UNCHANGED awsVars

-----------------------------------------------------------------------------

\* The next call of the process is a call named n.
Doing(n) == alive /\ todo # <<>> /\ Head(todo).name = n

Done ==
  /\ todo' = Tail(todo)
  /\ UNCHANGED <<processVars, alive, faults, killed>>

Fail_NotDeferred ==
  /\ todo' = <<>>
  /\ faults' = faults \union {Head(todo).name}
  /\ UNCHANGED <<processVars, alive, killed>>

\* t.Fatal ends the test at this call, and the deferred teardown still runs.
Fail ==
  /\ todo' = IF Head(todo).stage = "teardown" THEN <<>> ELSE Deferred(skip)
  /\ faults' = faults \union {Head(todo).name}
  /\ UNCHANGED <<processVars, alive, killed>>

\* configureTerraformOptions creates the key pair in AWS.
Create ==
  /\ Doing("create")
  /\ \/ /\ Done
        /\ memory' = [k \in Keys |-> runs]
        /\ keyPairs' = keyPairs \union {runs}
     \/ Fail /\ UNCHANGED <<memory, keyPairs>>
  /\ UNCHANGED <<files, state, deployed>>

Content(k) == files[Folder][k]

Put(k, content) == files' = [files EXCEPT ![Folder][k] = content]

\* SaveTestData, to the point where WriteFile has opened the file. A value that is
\* there must parse, isEmptyJSON lets an empty file pass.
Save ==
  /\ Doing("save")
  /\ \/ /\ Content(Head(todo).key) # Corrupt
        /\ Done /\ Put(Head(todo).key, Empty)
     \/ Fail /\ UNCHANGED files
  /\ UNCHANGED <<memory, state, awsVars>>

\* The write itself.
Write ==
  /\ Doing("write")
  /\ LET k == Head(todo).key
     IN  \/ Done /\ Put(k, memory[k])
         \/ Fail /\ \E content \in {Empty, Corrupt} : Put(k, content)
  /\ UNCHANGED <<memory, state, awsVars>>

Load_Lenient ==
  /\ Doing("load")
  /\ LET k == Head(todo).key
     IN  /\ Content(k) # Absent
         /\ memory' = [memory EXCEPT ![k] = IF Content(k) \in Ids THEN Content(k) ELSE None]
         /\ Done
  /\ UNCHANGED <<files, state, awsVars>>

\* LoadTestData fails on a file that is absent or no JSON.
Load ==
  /\ Doing("load")
  /\ LET k == Head(todo).key
     IN  \/ /\ Content(k) \in Ids
            /\ memory' = [memory EXCEPT ![k] = Content(k)]
            /\ Done
         \/ Fail /\ UNCHANGED memory
  /\ UNCHANGED <<files, state, awsVars>>

\* InitAndApply needs the key pair; when it fails it may have deployed a part.
Apply ==
  /\ Doing("apply")
  /\ \/ /\ memory["keyPair"] \in keyPairs
        /\ Done \/ Fail
        /\ state' = [state EXCEPT ![Folder] = memory["options"]]
        /\ deployed' = deployed \union {memory["options"]}
     \/ Fail /\ UNCHANGED <<state, deployed>>
  /\ UNCHANGED <<memory, files, keyPairs>>

\* The SSH checks of validate.
Check ==
  /\ Doing("check")
  /\ Done \/ Fail
  /\ UNCHANGED <<memory, files, state, awsVars>>

\* terraform destroy takes away what the state of the folder lists, with the
\* region and names of the options. Where they are another setup's it fails.
Destroy ==
  /\ Doing("destroy")
  /\ \/ /\ state[Folder] \in {None, memory["options"]}
        /\ Done
        /\ state' = [state EXCEPT ![Folder] = None]
        /\ deployed' = deployed \ {state[Folder]}
     \/ Fail /\ UNCHANGED <<state, deployed>>
  /\ UNCHANGED <<memory, files, keyPairs>>

\* DeleteEC2KeyPair, which a key pair that does not exist does not trouble.
Delete ==
  /\ Doing("delete")
  /\ \/ Done /\ keyPairs' = keyPairs \ {memory["keyPair"]}
     \/ Fail /\ UNCHANGED keyPairs
  /\ UNCHANGED <<memory, files, state, deployed>>

Exit ==
  /\ alive /\ todo = <<>>
  /\ alive' = FALSE
  /\ UNCHANGED <<processVars, todo, memory, faults, killed, files, state, awsVars>>

\* The process dies, by a signal or the timeout of go test: nothing deferred runs.
Kill ==
  /\ alive
  /\ alive' = FALSE
  /\ killed' = TRUE
  /\ todo' = <<>>
  /\ UNCHANGED <<processVars, memory, faults, files, state, awsVars>>

Next ==
  \/ \E skipped \in SUBSET Stages : StartTest(skipped)
  \/ Create \/ Save \/ Write \/ Load \/ Apply \/ Check \/ Destroy \/ Delete
  \/ Exit \/ Kill

Spec == Init /\ [][Next]_vars

-----------------------------------------------------------------------------

TypeOK ==
  /\ runs \in 0 .. MaxRuns
  /\ alive \in BOOLEAN /\ killed \in BOOLEAN
  /\ skip \subseteq Stages
  /\ todo \in Seq([stage : Stages, key : Keys,
                   name : {"create", "save", "write", "load", "apply", "check", "destroy", "delete"}])
  /\ memory \in [Keys -> Ids \union {None}]
  /\ \A i \in DOMAIN todo :
       todo[i].name \in {"write", "apply", "destroy", "delete"}
       /\ (\A j \in 1 .. i - 1 : todo[j].name \notin {"create", "load"})
       => memory[todo[i].key] # None
  /\ faults \subseteq {"create", "save", "write", "load", "apply", "check", "destroy", "delete"}
  /\ files \in [Folders -> [Keys -> Contents]]
  /\ state \in [Folders -> Ids \union {None}]
  /\ deployed \subseteq Ids /\ keyPairs \subseteq Ids

\* What is deployed from the original folder can be torn down by any later
\* process: its options and its key pair are in .test-data and the key pair still
\* exists, whichever stages ran, failed or were killed ("so later test stages can
\* use them", terraform_ssh_example_test.go:40; save_test_data.go:20-21).
DeploymentIsRecorded ==
  state["original"] # None =>
    /\ \A k \in Keys : files["original"][k] = state["original"]
    /\ state["original"] \in keyPairs

\* A process that skips nothing, is not killed and whose teardown succeeds leaves
\* nothing in AWS, though its apply or its checks have failed: the teardown is
\* deferred before the other stages start.
FailuresAreCleanedUp ==
  runs > 0 /\ ~alive /\ ~killed /\ skip = {} /\ faults \subseteq {"apply", "check"} =>
    runs \notin deployed \union keyPairs

=============================================================================
