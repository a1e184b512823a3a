----------------------------- MODULE Terraform -----------------------------
(***************************************************************************)
(* The calls of modules/terraform that run one or more commands in a       *)
(* folder: each command through the retry loop, the next one only after it *)
(* has succeeded. The folder belongs to the test, if it has copied it, or  *)
(* another test works in it too.                                           *)
(***************************************************************************)
EXTENDS Integers, Sequences, FiniteSets

CONSTANTS
  TfRetries,    \* MaxRetries of the options
  Workspaces,   \* names of workspaces
  MatchedBy     \* MatchedBy[n]: the names that match n as a regular expression

Default == "default"

\* The commands of each call; in terraform/plan.go, apply.go and so on. The one
\* with -detailed-exitcode is not retried.
InitAndApply == <<"init", "get", "apply">>
InitAndPlan == <<"init", "get", "plan">>
InitAndPlanWithExitCode == <<"init", "planExit">>
WorkspaceSelectOrNew == <<"list", "selectOrNew", "show">>
Destroy == <<"destroy">>
TgApplyAll == <<"apply">>
TgDestroyAll == <<"destroy">>
TgPlanAllExitCode == <<"planExit">>
Output == <<"output">>

Program ==
  [initAndApply |-> InitAndApply, initAndPlan |-> InitAndPlan,
   initAndPlanExit |-> InitAndPlanWithExitCode, workspace |-> WorkspaceSelectOrNew,
   destroy |-> Destroy, tgApplyAll |-> TgApplyAll, tgDestroyAll |-> TgDestroyAll,
   tgPlanAllExit |-> TgPlanAllExitCode, output |-> Output,
   outputRequired |-> Output, outputList |-> Output]

\* The terragrunt calls want the binary terragrunt.
OfTerragrunt == {"tgApplyAll", "tgDestroyAll", "tgPlanAllExit"}

\* These look at the output before they return it.
Reads == {"outputRequired", "outputList"}

VARIABLES
  tfOp,         \* the call
  name,         \* the workspace it is for
  terragrunt,   \* whether the binary of the options is terragrunt
  sharedFolder, \* whether another test works in the folder
  folder,       \* what terraform keeps there
  done,         \* how many commands have succeeded
  attempts,     \* attempts of the current one
  last,         \* what its last attempt came to
  listed,       \* the output of workspace list
  tfAnswer      \* the output (an exit code, a workspace) and the error

tfCallVars == <<tfOp, name, terragrunt, sharedFolder>>
tfVars == <<tfCallVars, folder, done, attempts, last, listed, tfAnswer>>

NoTfAnswer == [out |-> "none", err |-> "none"]

TfInit ==
  /\ tfOp \in DOMAIN Program
  /\ name \in Workspaces
  /\ terragrunt \in BOOLEAN /\ sharedFolder \in BOOLEAN
  /\ folder \in [initialised : BOOLEAN, workspaces : {w \in SUBSET Workspaces : Default \in w},
                 current : {Default}, applied : {{}, {Default}}]
  /\ done = 0 /\ attempts = 0 /\ last = "none" /\ listed = {} /\ tfAnswer = NoTfAnswer

\* isExistingWorkspace: a line of the list matches the name, taken as a regular
\* expression.
IsExistingWorkspace(list, n) == list \intersect MatchedBy[n] # {}

Current == Program[tfOp][done + 1]

TfReturn(out, err) == tfAnswer' = [out |-> out, err |-> err]

\* What the command does to the folder if it succeeds, and whether it can.
Effect(cmd) ==
  CASE cmd = "init" -> [folder EXCEPT !.initialised = TRUE]
    [] cmd = "apply" -> [folder EXCEPT !.applied = @ \union {folder.current}]
    [] cmd = "destroy" -> [folder EXCEPT !.applied = @ \ {folder.current}]
    [] cmd = "selectOrNew" -> [folder EXCEPT !.workspaces = @ \union {name}, !.current = name]
    [] OTHER -> folder

\* terragrunt initialises a folder by itself. A match selects the name itself,
\* and no match makes a workspace of that name.
Possible(cmd) ==
  CASE cmd \in {"apply", "destroy", "plan", "planExit", "output"} -> folder.initialised \/ terragrunt
    [] cmd = "selectOrNew" -> IsExistingWorkspace(listed, name) <=> name \in folder.workspaces
    [] OTHER -> TRUE

\* TgApplyAllE and the like return before they run anything.
RefuseBinary ==
  /\ tfAnswer = NoTfAnswer /\ tfOp \in OfTerragrunt /\ ~terragrunt
  /\ TfReturn("", "error")
  /\ UNCHANGED <<tfCallVars, folder, done, attempts, last, listed>>

\* RunTerraformCommandE is about to run its command once more.
MayRun ==
  /\ tfAnswer = NoTfAnswer /\ done < Len(Program[tfOp])
  /\ tfOp \in OfTerragrunt => terragrunt

Proceed == done' = done + 1 /\ attempts' = 0 /\ last' = "ok"

\* An attempt succeeds; the last command's output is the answer.
Succeeds ==
  /\ MayRun /\ Current # "planExit" /\ Possible(Current)
  /\ folder' = Effect(Current)
  /\ listed' = IF Current = "list" THEN folder.workspaces ELSE listed
  /\ Proceed
  /\ IF done + 1 = Len(Program[tfOp]) /\ tfOp \notin Reads
     THEN TfReturn(IF Current = "show" THEN folder.current ELSE "text", "nil")
     ELSE UNCHANGED tfAnswer
  /\ UNCHANGED tfCallVars

Fails_Ignored ==
  /\ MayRun /\ Current # "planExit"
  /\ Proceed
  /\ IF done + 1 = Len(Program[tfOp]) THEN TfReturn("text", "nil") ELSE UNCHANGED tfAnswer
  /\ UNCHANGED <<tfCallVars, folder, listed>>

\* It fails, with an error worth a retry or not; apply and destroy may have done
\* their work by then.
Fails ==
  /\ MayRun /\ Current # "planExit"
  /\ attempts' = attempts + 1
  /\ last' \in {"retryable", "error"}
  /\ folder' \in {folder} \union (IF Current \in {"apply", "destroy"} /\ Possible(Current)
                                  THEN {Effect(Current)} ELSE {})
  /\ IF last' = "error" \/ attempts' > TfRetries THEN TfReturn("", "error") ELSE UNCHANGED tfAnswer
  /\ UNCHANGED <<tfCallVars, done, listed>>

\* GetExitCodeForTerraformCommandE: one attempt, whose exit code is the answer;
\* for an error that is no exit status, like a binary that is not there,
\* GetExitCodeForRunCommandError returns 0 and no error.
PlanExitCode ==
  /\ MayRun /\ Current = "planExit"
  /\ \/ \E code \in {"0", "1", "2"} :
          /\ ~Possible(Current) => code = "1"
          /\ TfReturn(code, "nil") /\ last' = code
     \/ TfReturn("0", "nil") /\ last' = "noExit"
  /\ done' = done + 1
  /\ UNCHANGED <<tfCallVars, folder, attempts, listed>>

\* The output of a key: for a list as JSON, in Terraform 0.11 in an object around
\* it. The null of a key without a value has no type, which panics.
OutputForms(op) ==
  IF op = "outputRequired"
  THEN {"text", "empty"}
  ELSE {"list", "objectWithList", "objectWithOther", "objectWithoutValue", "scalar", "null", "no JSON"}

OutputRequired(out) == IF out = "text" THEN "text" ELSE "error"

ParseOutputList(form) ==
  CASE form \in {"list", "objectWithList"} -> "list"
    [] form = "null" -> "panic"
    [] OTHER -> "error"

ReadOutput ==
  /\ tfOp \in Reads /\ done = 1 /\ tfAnswer = NoTfAnswer
  /\ \E form \in OutputForms(tfOp) :
       LET value == IF tfOp = "outputList" THEN ParseOutputList(form) ELSE OutputRequired(form)
       IN  /\ last' = form
           /\ IF value \in {"panic", "error"} THEN TfReturn("", value) ELSE TfReturn(value, "nil")
  /\ UNCHANGED <<tfCallVars, folder, done, attempts, listed>>

\* The other test makes, selects or deletes workspaces between two commands.
OtherTest ==
  /\ sharedFolder /\ tfAnswer = NoTfAnswer
  /\ \E w \in Workspaces :
       \/ folder' = [folder EXCEPT !.workspaces = @ \union {w}, !.current = w]
       \/ /\ w \notin {Default, folder.current}
          /\ folder' = [folder EXCEPT !.workspaces = @ \ {w}]
  /\ UNCHANGED <<tfCallVars, done, attempts, last, listed, tfAnswer>>

TfNext ==
  \/ RefuseBinary \/ Succeeds \/ Fails \/ PlanExitCode \/ ReadOutput \/ OtherTest

-----------------------------------------------------------------------------

\* A call without an error has run every command of its program to a success,
\* each after what it needs: it has planned or applied a folder that was
\* initialised, its exit code is that of the plan, unless the plan did not even
\* start, and it is in the workspace it asked for, though another one's name
\* may match its name, and though commands before that may have failed and been
\* retried: provided that the test has its folder to itself.
TerraformIsDone ==
  tfAnswer.err = "nil" =>
    /\ done = Len(Program[tfOp])
    /\ tfOp \in {"initAndApply", "initAndPlan", "initAndPlanExit"} => folder.initialised
    /\ tfOp \in {"initAndPlanExit", "tgPlanAllExit"} /\ last # "noExit" => tfAnswer.out = last
    /\ ~sharedFolder => /\ tfOp \in {"initAndApply", "tgApplyAll"} => folder.current \in folder.applied
                        /\ tfOp \in {"destroy", "tgDestroyAll"} => folder.current \notin folder.applied
                        /\ tfOp = "workspace" => tfAnswer.out = name /\ folder.current = name

=============================================================================
