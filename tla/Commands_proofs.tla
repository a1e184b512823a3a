-------------------------- MODULE Commands_proofs --------------------------
(***************************************************************************)
(* Proofs about the calls that run commands, for any set of workspaces, of *)
(* artifacts, of remote files and of lines, and any number of retries.     *)
(***************************************************************************)
EXTENDS Commands, OrderLemmas

-----------------------------------------------------------------------------
(* Terraform *)

FolderType ==
  [initialised : BOOLEAN, workspaces : SUBSET Workspaces,
   current : Workspaces, applied : SUBSET Workspaces]

\* The commands that have succeeded are a beginning of the program.
ProgramCounted ==
  /\ tfOp \in DOMAIN Program /\ name \in Workspaces
  /\ folder \in FolderType
  /\ done \in 0 .. Len(Program[tfOp])

\* What the commands so far have brought about stays, however the next ones
\* fail: another test neither undoes an init, nor works in a folder that is not
\* shared.
DoneLasts ==
  /\ tfOp \in {"initAndApply", "initAndPlan", "initAndPlanExit"} /\ done > 0 => folder.initialised
  /\ ~sharedFolder /\ tfOp = "workspace" /\ done > 1 => folder.current = name

TfIInv == ProgramCounted /\ DoneLasts /\ TerraformIsDone

\* The programs: at most three commands, the plan with an exit code comes last
\* only, and the other commands stand where the invariant relies on them.
LEMMA ProgramShape ==
  ASSUME NEW op \in DOMAIN Program
  PROVE  /\ Len(Program[op]) \in 1 .. 3
         /\ op \in {"initAndApply", "initAndPlan", "initAndPlanExit"} =>
              Len(Program[op]) > 1 /\ Program[op][1] = "init"
         /\ op \in {"initAndPlanExit", "tgPlanAllExit"} =>
              Program[op][Len(Program[op])] = "planExit"
         /\ op \in {"initAndApply", "tgApplyAll"} => Program[op][Len(Program[op])] = "apply"
         /\ op \in {"destroy", "tgDestroyAll"} => Program[op][Len(Program[op])] = "destroy"
         /\ op = "workspace" => Program[op] = <<"list", "selectOrNew", "show">>
         /\ op \in Reads => Len(Program[op]) = 1
         /\ \A i \in 1 .. Len(Program[op]) : Program[op][i] = "planExit" => i = Len(Program[op])
<1> DEFINE names == {"initAndApply", "initAndPlan", "initAndPlanExit", "workspace", "destroy",
                     "tgApplyAll", "tgDestroyAll", "tgPlanAllExit", "output", "outputRequired",
                     "outputList"}
<1>1. op \in names
  BY DEF Program
<1>2. CASE op = "initAndApply"
  BY <1>2 DEF Program, InitAndApply, Reads
<1>8. CASE op = "initAndPlan"
  BY <1>8 DEF Program, InitAndPlan, Reads
<1>3. CASE op = "initAndPlanExit"
  BY <1>3 DEF Program, InitAndPlanWithExitCode, Reads
<1>4. CASE op = "workspace"
  BY <1>4 DEF Program, WorkspaceSelectOrNew, Reads
<1>5. CASE op \in {"destroy", "tgApplyAll", "tgDestroyAll"}
  BY <1>5 DEF Program, Destroy, TgApplyAll, TgDestroyAll, Reads
<1>6. CASE op = "tgPlanAllExit"
  BY <1>6 DEF Program, TgPlanAllExitCode, Reads
<1>7. CASE op \in {"output", "outputRequired", "outputList"}
  BY <1>7 DEF Program, Output, Reads
<1> QED BY <1>1, <1>2, <1>3, <1>4, <1>5, <1>6, <1>7, <1>8

LEMMA EffectKeepsFolder ==
  ASSUME folder \in FolderType, name \in Workspaces, NEW cmd
  PROVE  /\ Effect(cmd) \in FolderType
         /\ folder.initialised => Effect(cmd).initialised
         /\ cmd = "init" => Effect(cmd).initialised
         /\ cmd = "apply" => folder.current \in Effect(cmd).applied
         /\ cmd = "destroy" => folder.current \notin Effect(cmd).applied
         /\ cmd = "selectOrNew" => Effect(cmd).current = name
         /\ cmd # "selectOrNew" => Effect(cmd).current = folder.current
<1>1. CASE cmd = "init"
  BY <1>1 DEF Effect, FolderType
<1>2. CASE cmd = "apply"
  BY <1>2 DEF Effect, FolderType
<1>3. CASE cmd = "destroy"
  BY <1>3 DEF Effect, FolderType
<1>4. CASE cmd = "selectOrNew"
  <2>1. Effect(cmd) = [folder EXCEPT !.workspaces = folder.workspaces \union {name},
                                     !.current = name]
    BY <1>4 DEF Effect
  <2>2. Effect(cmd) = [initialised |-> folder.initialised,
                       workspaces |-> folder.workspaces \union {name},
                       current |-> name, applied |-> folder.applied]
    BY <2>1 DEF FolderType
  <2> QED BY <1>4, <2>2 DEF FolderType
<1>5. CASE cmd \notin {"init", "apply", "destroy", "selectOrNew"}
  BY <1>5 DEF Effect
<1> QED BY <1>1, <1>2, <1>3, <1>4, <1>5

LEMMA TfStart == TfInit => TfIInv
<1> SUFFICES ASSUME TfInit PROVE TfIInv
  OBVIOUS
<1>1. Default \in Workspaces /\ folder \in FolderType
  BY DEF TfInit, FolderType
<1>2. tfOp \in DOMAIN Program /\ done = 0 /\ tfAnswer.err = "none" /\ name \in Workspaces
  BY DEF TfInit, NoTfAnswer
<1>3. Len(Program[tfOp]) \in Nat
  BY <1>2, ProgramShape
<1> QED BY <1>1, <1>2, <1>3 DEF TfIInv, ProgramCounted, DoneLasts, TerraformIsDone

\* An answer is final: TerraformIsDone is about the step that gives one.
LEMMA TfStep == TfIInv /\ TfNext => TfIInv'
<1> SUFFICES ASSUME TfIInv, TfNext PROVE TfIInv'
  OBVIOUS
<1> USE DEF TfIInv
<1>1. /\ tfOp \in DOMAIN Program /\ name \in Workspaces /\ folder \in FolderType
      /\ done \in 0 .. Len(Program[tfOp])
  BY DEF ProgramCounted
<1>2. UNCHANGED tfCallVars /\ UNCHANGED <<tfOp, name, terragrunt, sharedFolder>>
  BY DEF TfNext, RefuseBinary, Succeeds, Fails, PlanExitCode, ReadOutput, OtherTest, tfCallVars
<1>3. tfAnswer = NoTfAnswer /\ tfAnswer.err # "nil"
  <2>1. tfAnswer = NoTfAnswer
    BY DEF TfNext, RefuseBinary, Succeeds, Fails, PlanExitCode, ReadOutput, OtherTest, MayRun
  <2> QED BY <2>1 DEF NoTfAnswer
<1> DEFINE len == Len(Program[tfOp])
<1>4. len \in 1 .. 3
  BY <1>1, ProgramShape
<1>5. CASE RefuseBinary
  <2>1. UNCHANGED <<folder, done>> /\ tfAnswer'.err = "error"
    BY <1>5 DEF RefuseBinary, TfReturn
  <2> QED BY <1>1, <1>2, <2>1 DEF ProgramCounted, DoneLasts, TerraformIsDone
<1>6. CASE Succeeds
  <2>1. /\ done < len /\ Current = Program[tfOp][done + 1] /\ Current # "planExit"
        /\ folder' = Effect(Current) /\ done' = done + 1
    BY <1>6 DEF Succeeds, MayRun, Current, Proceed
  <2>2. done \in Nat /\ done' \in 1 .. len
    BY <1>1, <1>4, <2>1
  <2>3. ProgramCounted'
    BY <1>1, <1>2, <2>1, <2>2, EffectKeepsFolder DEF ProgramCounted
  <2>4. DoneLasts'
    <3>1. ASSUME tfOp \in {"initAndApply", "initAndPlan", "initAndPlanExit"}
          PROVE  folder'.initialised
      <4>1. CASE done = 0
        BY <1>1, <2>1, <3>1, <4>1, ProgramShape, EffectKeepsFolder
      <4>2. CASE done > 0
        BY <1>1, <2>1, <3>1, <4>2, EffectKeepsFolder DEF DoneLasts
      <4> QED BY <2>2, <4>1, <4>2
    <3>2. ASSUME ~sharedFolder, tfOp = "workspace", done' > 1 PROVE folder'.current = name
      <4>1. Program[tfOp] = <<"list", "selectOrNew", "show">>
        BY <1>1, <3>2, ProgramShape
      <4>2. CASE done = 1
        BY <1>1, <2>1, <4>1, <4>2, EffectKeepsFolder
      <4>3. CASE done = 2
        <5>1. Current = "show" /\ folder.current = name
          BY <2>1, <3>2, <4>1, <4>3 DEF DoneLasts
        <5> QED BY <1>1, <2>1, <5>1, EffectKeepsFolder
      <4> QED BY <2>1, <2>2, <3>2, <4>1, <4>2, <4>3
    <3> QED BY <1>2, <3>1, <3>2 DEF DoneLasts
  <2>5. TerraformIsDone'
    <3> SUFFICES ASSUME tfAnswer'.err = "nil" PROVE TerraformIsDone'
      BY DEF TerraformIsDone
    <3>1. /\ done + 1 = len
          /\ tfAnswer' = [out |-> IF Current = "show" THEN folder.current ELSE "text", err |-> "nil"]
      BY <1>3, <1>6 DEF Succeeds, TfReturn
    <3>2. Current = Program[tfOp][len]
      BY <2>1, <3>1
    <3>3. tfOp \notin {"initAndPlanExit", "tgPlanAllExit"}
      BY <1>1, <2>1, <3>2, ProgramShape
    <3>4. tfOp \in {"initAndApply", "initAndPlan", "initAndPlanExit"} => folder'.initialised
      BY <1>2, <2>2, <2>4 DEF DoneLasts
    <3>5. tfOp \in {"initAndApply", "tgApplyAll"} => folder'.current \in folder'.applied
      BY <1>1, <2>1, <3>2, ProgramShape, EffectKeepsFolder
    <3>6. tfOp \in {"destroy", "tgDestroyAll"} => folder'.current \notin folder'.applied
      BY <1>1, <2>1, <3>2, ProgramShape, EffectKeepsFolder
    <3>7. ~sharedFolder /\ tfOp = "workspace" => tfAnswer'.out = name /\ folder'.current = name
      <4> SUFFICES ASSUME ~sharedFolder, tfOp = "workspace"
                   PROVE  tfAnswer'.out = name /\ folder'.current = name
        OBVIOUS
      <4>1. Program[tfOp] = <<"list", "selectOrNew", "show">>
        BY <1>1, ProgramShape
      <4>2. Current = "show" /\ done = 2
        BY <2>1, <2>2, <3>1, <3>2, <4>1
      <4> QED BY <1>1, <2>1, <3>1, <4>2, EffectKeepsFolder DEF DoneLasts
    <3> QED BY <1>2, <2>1, <3>1, <3>3, <3>4, <3>5, <3>6, <3>7 DEF TerraformIsDone
  <2> QED BY <2>3, <2>4, <2>5
<1>7. CASE Fails
  <2>1. done' = done /\ (folder' = folder \/ (folder' = Effect(Current) /\ Current \in {"apply", "destroy"}))
    BY <1>7 DEF Fails
  <2>2. tfAnswer'.err # "nil"
    <3>1. tfAnswer' = tfAnswer \/ tfAnswer' = [out |-> "", err |-> "error"]
      BY <1>7 DEF Fails, TfReturn
    <3>2. [out |-> "", err |-> "error"].err # "nil"
      OBVIOUS
    <3>3. CASE tfAnswer' = tfAnswer
      BY <1>3, <3>3
    <3>4. CASE tfAnswer' = [out |-> "", err |-> "error"]
      BY <3>2, <3>4
    <3> QED BY <3>1, <3>3, <3>4
  <2>3. /\ folder' \in FolderType /\ folder'.current = folder.current
        /\ folder.initialised => folder'.initialised
    BY <1>1, <2>1, EffectKeepsFolder
  <2> QED BY <1>1, <1>2, <2>1, <2>2, <2>3 DEF ProgramCounted, DoneLasts, TerraformIsDone
<1>8. CASE PlanExitCode
  <2>1. /\ done < len /\ Program[tfOp][done + 1] = "planExit"
        /\ folder' = folder /\ done' = done + 1
    BY <1>8 DEF PlanExitCode, MayRun, Current
  <2>2. done + 1 = len
    BY <1>1, <1>4, <2>1, ProgramShape
  <2>3. tfAnswer'.err = "nil" /\ (last' # "noExit" => tfAnswer'.out = last')
    BY <1>8 DEF PlanExitCode, TfReturn
  <2>4. tfOp \notin {"initAndApply", "tgApplyAll", "destroy", "tgDestroyAll", "workspace"}
    <3>1. Program[tfOp][len] = "planExit"
      BY <2>1, <2>2
    <3>2. <<"list", "selectOrNew", "show">>[Len(<<"list", "selectOrNew", "show">>)] # "planExit"
      OBVIOUS
    <3> QED BY <1>1, <3>1, <3>2, ProgramShape
  <2>5. tfOp \in {"initAndApply", "initAndPlan", "initAndPlanExit"} => folder.initialised
    <3>1. tfOp \in {"initAndApply", "initAndPlan", "initAndPlanExit"} => done > 0
      BY <1>1, <1>4, <2>2, ProgramShape
    <3> QED BY <3>1 DEF DoneLasts
  <2>6. ProgramCounted'
    BY <1>1, <1>2, <1>4, <2>1, <2>2 DEF ProgramCounted
  <2>7. DoneLasts'
    BY <1>2, <2>1, <2>4, <2>5 DEF DoneLasts
  <2>8. TerraformIsDone'
    BY <1>2, <2>1, <2>2, <2>3, <2>4, <2>5 DEF TerraformIsDone
  <2> QED BY <2>6, <2>7, <2>8
<1>9. CASE ReadOutput
  <2>1. tfOp \in Reads /\ done = 1 /\ UNCHANGED <<folder, done>>
    BY <1>9 DEF ReadOutput
  <2>2. len = 1
    BY <1>1, <2>1, ProgramShape
  <2> QED BY <1>1, <1>2, <2>1, <2>2 DEF ProgramCounted, DoneLasts, TerraformIsDone, Reads
<1>10. CASE OtherTest
  <2>1. sharedFolder /\ done' = done /\ tfAnswer' = tfAnswer
    BY <1>10 DEF OtherTest
  <2>2. folder' \in FolderType /\ folder'.initialised = folder.initialised
    <3>1. PICK w \in Workspaces :
            \/ folder' = [folder EXCEPT !.workspaces = @ \union {w}, !.current = w]
            \/ folder' = [folder EXCEPT !.workspaces = @ \ {w}]
      BY <1>10 DEF OtherTest
    <3>2. CASE folder' = [folder EXCEPT !.workspaces = @ \union {w}, !.current = w]
      <4>1. folder' = [initialised |-> folder.initialised,
                       workspaces |-> folder.workspaces \union {w},
                       current |-> w, applied |-> folder.applied]
        BY <1>1, <3>2 DEF FolderType
      <4> QED BY <1>1, <3>1, <4>1 DEF FolderType
    <3>3. CASE folder' = [folder EXCEPT !.workspaces = @ \ {w}]
      BY <1>1, <3>3 DEF FolderType
    <3> QED BY <3>1, <3>2, <3>3
  <2> QED BY <1>1, <1>2, <1>3, <2>1, <2>2 DEF ProgramCounted, DoneLasts, TerraformIsDone
<1> QED BY <1>5, <1>6, <1>7, <1>8, <1>9, <1>10 DEF TfNext

-----------------------------------------------------------------------------
(* Packer *)

BuilderStates == {"building", "failed", "appending", "built", "mapping", "leaving", "done"}

PackerTypes ==
  /\ builder \in [Artifacts -> BuilderStates]
  /\ readOf \in [Artifacts -> SUBSET Artifacts]

Unfinished == {a \in Artifacts : builder[a] # "done"}

\* Those that have written their error or their entry of the map.
Wrote == {a \in Artifacts : builder[a] \in {"leaving", "done"}}

FailedSoFar ==
  \A a \in Artifacts : /\ builder[a] \in {"failed", "appending"} => a \in failed
                       /\ builder[a] \in {"building", "built", "mapping"} => a \notin failed

\* What is written, and what a goroutine has read to write it back, are the
\* errors of builds that failed and the entries of builds that did not; and the
\* last writer keeps at least its own.
WritesAreTheirs ==
  /\ errors \subseteq Wrote \intersect failed
  /\ ids \subseteq Wrote \ failed
  /\ \A a \in Artifacts : /\ builder[a] = "appending" => readOf[a] \subseteq Wrote \intersect failed
                          /\ builder[a] = "mapping" => readOf[a] \subseteq Wrote \ failed
  /\ Wrote \intersect failed # {} => errors # {}
  /\ Wrote \ failed # {} => ids # {}

PackerIInv ==
  /\ PackerTypes
  /\ failed \subseteq Artifacts
  /\ waiting = Cardinality(Unfinished)
  /\ FailedSoFar
  /\ WritesAreTheirs
  /\ BuildsAreAnswered

LEMMA PackerStart == PackerInit => PackerIInv
<1> SUFFICES ASSUME PackerInit PROVE PackerIInv
  OBVIOUS
<1>1. PackerTypes /\ failed = {} /\ errors = {} /\ ids = {} /\ buildAnswer = "none"
  BY DEF PackerInit, PackerTypes, BuilderStates
<1>2. \A a \in Artifacts : builder[a] = "building"
  BY DEF PackerInit
<1>3. Unfinished = Artifacts /\ Wrote = {}
  BY <1>2 DEF Unfinished, Wrote
<1>4. waiting = Cardinality(Artifacts)
  BY DEF PackerInit
<1> QED BY <1>1, <1>2, <1>3, <1>4
        DEF PackerIInv, FailedSoFar, WritesAreTheirs, BuildsAreAnswered

\* A goroutine goes on by one step: where the others are, and how many of them
\* are still waited for.
LEMMA BuilderMoves ==
  ASSUME PackerTypes, NEW a \in Artifacts, NEW where \in BuilderStates, GoTo(a, where)
  PROVE  /\ builder' \in [Artifacts -> BuilderStates]
         /\ builder'[a] = where
         /\ \A b \in Artifacts : b # a => builder'[b] = builder[b]
         /\ builder[a] # "done" /\ where # "done" => Unfinished' = Unfinished
         /\ where = "done" => Unfinished' = Unfinished \ {a}
         /\ where = "leaving" => Wrote' = Wrote \union {a}
         /\ builder[a] = "leaving" /\ where = "done" => Wrote' = Wrote
         /\ builder[a] \notin {"leaving", "done"} /\ where \notin {"leaving", "done"} =>
              Wrote' = Wrote
<1>1. /\ builder' \in [Artifacts -> BuilderStates]
      /\ builder'[a] = where
      /\ \A b \in Artifacts : b # a => builder'[b] = builder[b]
  BY DEF PackerTypes, GoTo
<1> QED BY <1>1 DEF Unfinished, Wrote

LEMMA PackerStep == PackerIInv /\ PackerNext => PackerIInv'
<1> SUFFICES ASSUME PackerIInv, PackerNext PROVE PackerIInv'
  OBVIOUS
<1>1. /\ PackerTypes /\ failed \subseteq Artifacts /\ waiting = Cardinality(Unfinished)
      /\ FailedSoFar /\ WritesAreTheirs /\ buildAnswer = "none"
  BY DEF PackerIInv, PackerNext
<1>2. IsFiniteSet(Unfinished) /\ Unfinished \subseteq Artifacts
  BY PackerAssumption, FS_Subset DEF Unfinished
<1>3. ASSUME NEW a \in Artifacts,
             \/ BuildFails(a) \/ ReadErrors(a) \/ AppendError(a)
             \/ BuildArtifact(a) \/ BeginMapWrite(a) \/ EndMapWrite(a)
             \/ BuilderDone(a)
      PROVE  PackerIInv'
  <2>1. CASE BuildFails(a)
    <3>1. /\ builder[a] = "building" /\ GoTo(a, "failed") /\ failed' = failed \union {a}
          /\ UNCHANGED <<readOf, errors, ids, waiting, buildAnswer>>
      BY <2>1 DEF BuildFails
    <3>2. /\ builder' \in [Artifacts -> BuilderStates] /\ builder'[a] = "failed"
          /\ \A b \in Artifacts : b # a => builder'[b] = builder[b]
          /\ Unfinished' = Unfinished /\ Wrote' = Wrote
      BY <1>1, <3>1, BuilderMoves DEF BuilderStates
    <3>3. a \notin Wrote
      BY <3>1 DEF Wrote
    <3>4. FailedSoFar'
      BY <1>1, <3>1, <3>2 DEF FailedSoFar
    <3>5. WritesAreTheirs'
      BY <1>1, <3>1, <3>2, <3>3 DEF WritesAreTheirs
    <3> QED BY <1>1, <3>1, <3>2, <3>4, <3>5 DEF PackerIInv, PackerTypes, BuildsAreAnswered
  <2>2. CASE ReadErrors(a)
    <3>1. /\ builder[a] = "failed" /\ GoTo(a, "appending")
          /\ readOf' = [readOf EXCEPT ![a] = errors]
          /\ UNCHANGED <<failed, errors, ids, waiting, buildAnswer>>
      BY <2>2 DEF ReadErrors
    <3>2. /\ builder' \in [Artifacts -> BuilderStates] /\ builder'[a] = "appending"
          /\ \A b \in Artifacts : b # a => builder'[b] = builder[b]
          /\ Unfinished' = Unfinished /\ Wrote' = Wrote
      BY <1>1, <3>1, BuilderMoves DEF BuilderStates
    <3>3. /\ readOf' \in [Artifacts -> SUBSET Artifacts] /\ readOf'[a] = errors
          /\ \A b \in Artifacts : b # a => readOf'[b] = readOf[b]
      BY <1>1, <3>1 DEF PackerTypes, WritesAreTheirs
    <3>4. FailedSoFar'
      BY <1>1, <3>1, <3>2 DEF FailedSoFar
    <3>5. WritesAreTheirs'
      BY <1>1, <3>1, <3>2, <3>3 DEF WritesAreTheirs
    <3> QED BY <1>1, <3>1, <3>2, <3>3, <3>4, <3>5 DEF PackerIInv, PackerTypes, BuildsAreAnswered
  <2>3. CASE AppendError(a)
    <3>1. /\ builder[a] = "appending" /\ GoTo(a, "leaving")
          /\ errors' = readOf[a] \union {a}
          /\ buildAnswer' \in {"none", "undefined"}
          /\ UNCHANGED <<failed, readOf, ids, waiting>>
      BY <1>1, <2>3 DEF AppendError
    <3>2. /\ builder' \in [Artifacts -> BuilderStates] /\ builder'[a] = "leaving"
          /\ \A b \in Artifacts : b # a => builder'[b] = builder[b]
          /\ Unfinished' = Unfinished /\ Wrote' = Wrote \union {a}
      BY <1>1, <3>1, BuilderMoves DEF BuilderStates
    <3>3. a \in failed
      BY <1>1, <3>1 DEF FailedSoFar
    <3>4. FailedSoFar'
      BY <1>1, <3>1, <3>2 DEF FailedSoFar
    <3>5. WritesAreTheirs'
      BY <1>1, <3>1, <3>2, <3>3 DEF WritesAreTheirs
    <3> QED BY <1>1, <3>1, <3>2, <3>4, <3>5 DEF PackerIInv, PackerTypes, BuildsAreAnswered
  <2>4. CASE BuildArtifact(a)
    <3>1. /\ builder[a] = "building" /\ GoTo(a, "built")
          /\ UNCHANGED <<failed, readOf, errors, ids, waiting, buildAnswer>>
      BY <2>4 DEF BuildArtifact
    <3>2. /\ builder' \in [Artifacts -> BuilderStates] /\ builder'[a] = "built"
          /\ \A b \in Artifacts : b # a => builder'[b] = builder[b]
          /\ Unfinished' = Unfinished /\ Wrote' = Wrote
      BY <1>1, <3>1, BuilderMoves DEF BuilderStates
    <3>4. FailedSoFar'
      BY <1>1, <3>1, <3>2 DEF FailedSoFar
    <3>5. WritesAreTheirs'
      BY <1>1, <3>1, <3>2 DEF WritesAreTheirs
    <3> QED BY <1>1, <3>1, <3>2, <3>4, <3>5 DEF PackerIInv, PackerTypes, BuildsAreAnswered
  <2>5. CASE BeginMapWrite(a)
    <3>1. /\ builder[a] = "built" /\ GoTo(a, "mapping")
          /\ readOf' = [readOf EXCEPT ![a] = ids]
          /\ buildAnswer' \in {"none", "crashed"}
          /\ UNCHANGED <<failed, errors, ids, waiting>>
      BY <1>1, <2>5 DEF BeginMapWrite
    <3>2. /\ builder' \in [Artifacts -> BuilderStates] /\ builder'[a] = "mapping"
          /\ \A b \in Artifacts : b # a => builder'[b] = builder[b]
          /\ Unfinished' = Unfinished /\ Wrote' = Wrote
      BY <1>1, <3>1, BuilderMoves DEF BuilderStates
    <3>3. /\ readOf' \in [Artifacts -> SUBSET Artifacts] /\ readOf'[a] = ids
          /\ \A b \in Artifacts : b # a => readOf'[b] = readOf[b]
      BY <1>1, <3>1 DEF PackerTypes, WritesAreTheirs, Wrote
    <3>4. FailedSoFar'
      BY <1>1, <3>1, <3>2 DEF FailedSoFar
    <3>5. WritesAreTheirs'
      BY <1>1, <3>1, <3>2, <3>3 DEF WritesAreTheirs
    <3> QED BY <1>1, <3>1, <3>2, <3>3, <3>4, <3>5 DEF PackerIInv, PackerTypes, BuildsAreAnswered
  <2>6. CASE EndMapWrite(a)
    <3>1. /\ builder[a] = "mapping" /\ GoTo(a, "leaving")
          /\ ids' = ids \union {a} \/ ids' = readOf[a] \union {a}
          /\ UNCHANGED <<failed, readOf, errors, waiting, buildAnswer>>
      BY <2>6 DEF EndMapWrite
    <3>2. /\ builder' \in [Artifacts -> BuilderStates] /\ builder'[a] = "leaving"
          /\ \A b \in Artifacts : b # a => builder'[b] = builder[b]
          /\ Unfinished' = Unfinished /\ Wrote' = Wrote \union {a}
      BY <1>1, <3>1, BuilderMoves DEF BuilderStates
    <3>3. a \notin failed
      BY <1>1, <3>1 DEF FailedSoFar
    <3>4. FailedSoFar'
      BY <1>1, <3>1, <3>2 DEF FailedSoFar
    <3>5. WritesAreTheirs'
      BY <1>1, <3>1, <3>2, <3>3 DEF WritesAreTheirs
    <3> QED BY <1>1, <3>1, <3>2, <3>4, <3>5 DEF PackerIInv, PackerTypes, BuildsAreAnswered
  <2>7. CASE BuilderDone(a)
    <3>1. /\ builder[a] = "leaving" /\ GoTo(a, "done") /\ waiting' = waiting - 1
          /\ UNCHANGED <<failed, readOf, errors, ids, buildAnswer>>
      BY <2>7 DEF BuilderDone
    <3>2. /\ builder' \in [Artifacts -> BuilderStates] /\ builder'[a] = "done"
          /\ \A b \in Artifacts : b # a => builder'[b] = builder[b]
          /\ Unfinished' = Unfinished \ {a} /\ Wrote' = Wrote
      BY <1>1, <3>1, BuilderMoves DEF BuilderStates
    <3>3. waiting' = Cardinality(Unfinished')
      <4>1. a \in Unfinished
        BY <3>1 DEF Unfinished
      <4>2. Cardinality(Unfinished \ {a}) = Cardinality(Unfinished) - 1
        BY <1>2, <4>1, FS_RemoveElement
      <4> QED BY <1>1, <3>1, <3>2, <4>2
    <3>4. FailedSoFar'
      BY <1>1, <3>1, <3>2 DEF FailedSoFar
    <3>5. WritesAreTheirs'
      BY <1>1, <3>1, <3>2 DEF WritesAreTheirs
    <3> QED BY <1>1, <3>1, <3>2, <3>3, <3>4, <3>5 DEF PackerIInv, PackerTypes, BuildsAreAnswered
  <2> QED BY <1>3, <2>1, <2>2, <2>3, <2>4, <2>5, <2>6, <2>7
<1>4. ASSUME BuildArtifactsReturns PROVE PackerIInv'
  <2>1. /\ waiting = 0 /\ buildAnswer' = (IF errors = {} THEN "nil" ELSE "error")
        /\ UNCHANGED <<builder, failed, readOf, errors, ids, waiting>>
    BY <1>4 DEF BuildArtifactsReturns
  <2>2. /\ PackerTypes' /\ FailedSoFar' /\ WritesAreTheirs'
        /\ Unfinished' = Unfinished /\ failed' = failed /\ waiting' = waiting
    BY <1>1, <2>1 DEF PackerTypes, FailedSoFar, WritesAreTheirs, Unfinished, Wrote
  <2>3. Wrote = Artifacts
    <3>1. Unfinished = {}
      BY <1>1, <1>2, <2>1, FS_EmptySet
    <3> QED BY <3>1 DEF Unfinished, Wrote
  <2>4. /\ errors \subseteq failed /\ (failed # {} => errors # {})
        /\ ids \subseteq Artifacts \ failed /\ (Artifacts \ failed # {} => ids # {})
    BY <1>1, <2>3 DEF WritesAreTheirs
  <2>5. ASSUME NEW S \in SUBSET Artifacts, NEW T \in SUBSET S, Cardinality(S) = 1, S # {} => T # {}
        PROVE  T = S
    <3>1. IsFiniteSet(S)
      BY PackerAssumption, FS_Subset
    <3>2. PICK x : S = {x}
      BY <2>5, <3>1, FS_Singleton
    <3> QED BY <2>5, <3>2
  <2>6. /\ Cardinality(failed) = 1 => errors = failed
        /\ Cardinality(Artifacts \ failed) = 1 => ids = Artifacts \ failed
    BY <1>1, <2>4, <2>5
  <2>7. BuildsAreAnswered'
    BY <2>1, <2>4, <2>6 DEF BuildsAreAnswered
  <2> QED BY <1>1, <2>2, <2>7 DEF PackerIInv
<1> QED BY <1>3, <1>4 DEF PackerNext

-----------------------------------------------------------------------------
(* Ssh *)

Resources == {"jumpClient", "virtualConn", "hostConn", "client", "session"}

AgentNames == {"overrideAgent", "sshAgent"}

SshTypes ==
  /\ sshOp \in {"command", "upload", "download", "fetch", "private", "copyDir"}
  /\ agents \in SUBSET AgentNames
  /\ at \in {"auth", "listing", "copying", "running", "cleanup", "done"} \union Resources
  /\ at \in {"listing", "copying"} => sshOp = "copyDir"
  /\ refers \in [Resources -> Nat]
  /\ remote \in Nat
  /\ copied \in Seq({"copied", "notRead", "error"})

\* What is open is what the SshSession refers to, which Cleanup will close,
\* or a client of an earlier file of a directory; a session of a directory is
\* closed with its file.
Referred(r) ==
  /\ r[1] \in Resources
  /\ r[2] \in 1 .. refers[r[1]]
  /\ r[2] # refers[r[1]] => sshOp = "copyDir" /\ r[1] = "client"
  /\ sshOp = "copyDir" /\ r[1] = "session" => at = "running"
  /\ at = "done" => r[2] # refers[r[1]]

OpenIsReferred ==
  \A r \in open : /\ r = <<r[1], r[2]>>
                  /\ \/ r[1] \in AgentNames
                     \/ sshOp = "copyDir" /\ r[1] = "localFile"
                     \/ Referred(r)

\* In a call that connects once, what is to be opened has not been opened yet.
NotYetOpen ==
  /\ at \in {"auth", "listing", "jumpClient"} => refers = Nil
  /\ sshOp # "copyDir" =>
       /\ at \in {"virtualConn"} => refers["virtualConn"] = 0
       /\ at \in {"virtualConn", "hostConn"} => refers["hostConn"] = 0
       /\ at \in {"virtualConn", "hostConn", "client"} => refers["client"] = 0
       /\ at \in {"virtualConn", "hostConn", "client", "session"} => refers["session"] = 0

CopyProgress ==
  sshOp = "copyDir" =>
    /\ sshResult = "nil" => /\ Len(copied) = remote /\ remote > 0
                            /\ \A i \in DOMAIN copied : copied[i] # "error"
    /\ at \notin {"cleanup", "done"} => sshResult = "none"
    /\ at \in {"copying", "running"} \union Resources => remote > 0 /\ Len(copied) <= remote
    /\ at \in {"running"} \union Resources => Len(copied) < remote
    /\ at \in {"auth", "listing"} => copied = <<>>

SshIInv == SshTypes /\ OpenIsReferred /\ NotYetOpen /\ CopyProgress

LEMMA NilIsNothing == Nil \in [Resources -> Nat] /\ (\A x \in Resources : Nil[x] = 0)
BY DEF Nil, Resources

LEMMA OpensInOrder ==
  ASSUME NEW op
  PROVE  /\ op = "private" =>
              /\ {Opens(op)[i] : i \in DOMAIN Opens(op)} =
                   {"jumpClient", "virtualConn", "hostConn", "session"}
              /\ Opens(op)[1] = "jumpClient"
              /\ After(op, "jumpClient") = "virtualConn" /\ After(op, "virtualConn") = "hostConn"
              /\ After(op, "hostConn") = "session" /\ After(op, "session") = "running"
         /\ op # "private" =>
              /\ {Opens(op)[i] : i \in DOMAIN Opens(op)} = {"client", "session"}
              /\ Opens(op)[1] = "client"
              /\ After(op, "client") = "session" /\ After(op, "session") = "running"
<1>1. ASSUME op = "private"
      PROVE  /\ {Opens(op)[i] : i \in DOMAIN Opens(op)} =
                  {"jumpClient", "virtualConn", "hostConn", "session"}
             /\ Opens(op)[1] = "jumpClient"
             /\ After(op, "jumpClient") = "virtualConn" /\ After(op, "virtualConn") = "hostConn"
             /\ After(op, "hostConn") = "session" /\ After(op, "session") = "running"
  <2> DEFINE o == Opens(op)
  <2>1. /\ o[1] = "jumpClient" /\ o[2] = "virtualConn" /\ o[3] = "hostConn" /\ o[4] = "session"
        /\ DOMAIN o = 1 .. 4 /\ Len(o) = 4
    BY <1>1 DEF Opens
  <2>2. ASSUME NEW k \in 1 .. 4
        PROVE  After(op, o[k]) = IF k = 4 THEN "running" ELSE o[k + 1]
    <3>1. (CHOOSE j \in DOMAIN o : o[j] = o[k]) = k
      <4> HIDE DEF o
      <4>1. \A j \in DOMAIN o : o[j] = o[k] => j = k
        BY <2>1
      <4> QED BY <2>1, <4>1
    <3> QED BY <2>1, <3>1 DEF After
  <2>3. {o[i] : i \in DOMAIN o} = {"jumpClient", "virtualConn", "hostConn", "session"}
    <3> HIDE DEF o
    <3> QED BY <2>1
  <2>4. /\ After(op, o[1]) = o[2] /\ After(op, o[2]) = o[3]
        /\ After(op, o[3]) = o[4] /\ After(op, o[4]) = "running"
    <3> HIDE DEF o
    <3> QED BY <2>2
  <2> HIDE DEF o
  <2>5. o[1] = "jumpClient"
    BY <2>1
  <2>6. /\ After(op, "jumpClient") = "virtualConn" /\ After(op, "virtualConn") = "hostConn"
        /\ After(op, "hostConn") = "session" /\ After(op, "session") = "running"
    BY <2>1, <2>4
  <2> QED BY <2>3, <2>5, <2>6 DEF o
<1>2. ASSUME op # "private"
      PROVE  /\ {Opens(op)[i] : i \in DOMAIN Opens(op)} = {"client", "session"}
             /\ Opens(op)[1] = "client"
             /\ After(op, "client") = "session" /\ After(op, "session") = "running"
  <2> DEFINE o == Opens(op)
  <2>1. o[1] = "client" /\ o[2] = "session" /\ DOMAIN o = 1 .. 2 /\ Len(o) = 2
    BY <1>2 DEF Opens
  <2>2. ASSUME NEW k \in 1 .. 2
        PROVE  After(op, o[k]) = IF k = 2 THEN "running" ELSE o[k + 1]
    <3>1. (CHOOSE j \in DOMAIN o : o[j] = o[k]) = k
      <4> HIDE DEF o
      <4>1. \A j \in DOMAIN o : o[j] = o[k] => j = k
        BY <2>1
      <4> QED BY <2>1, <4>1
    <3> QED BY <2>1, <3>1 DEF After
  <2>3. {o[i] : i \in DOMAIN o} = {"client", "session"}
    <3> HIDE DEF o
    <3> QED BY <2>1
  <2>4. After(op, o[1]) = o[2] /\ After(op, o[2]) = "running"
    <3> HIDE DEF o
    <3> QED BY <2>2
  <2> HIDE DEF o
  <2>5. o[1] = "client" /\ After(op, "client") = "session" /\ After(op, "session") = "running"
    BY <2>1, <2>4
  <2> QED BY <2>3, <2>5 DEF o
<1> QED BY <1>1, <1>2

\* The calls of a directory are right by what is copied, all by what is open.
LEMMA SshEnds == SshIInv => SshCallsEndWell
<1> SUFFICES ASSUME SshIInv PROVE SshCallsEndWell
  OBVIOUS
<1>1. SessionIsReleased
  <2> SUFFICES ASSUME at = "done", NEW r \in open
               PROVE  \/ r[1] \in {"overrideAgent", "sshAgent"}
                      \/ sshOp = "copyDir" /\ r[1] = "localFile"
                      \/ sshOp = "copyDir" /\ r[1] = "client" /\ r[2] < refers["client"]
    BY DEF SessionIsReleased
  <2>1. CASE Referred(r)
    <3>1. r[1] \in Resources /\ r[2] \in 1 .. refers[r[1]] /\ r[2] # refers[r[1]]
      BY <2>1 DEF Referred
    <3>2. sshOp = "copyDir" /\ r[1] = "client"
      BY <2>1, <3>1 DEF Referred
    <3>3. refers["client"] \in Nat
      BY DEF SshIInv, SshTypes, Resources
    <3> QED BY <3>1, <3>2, <3>3
  <2> QED BY <2>1 DEF SshIInv, OpenIsReferred, AgentNames
<1>2. EveryFileIsTried
  BY DEF SshIInv, CopyProgress, EveryFileIsTried
<1> QED BY <1>1, <1>2 DEF SshCallsEndWell

LEMMA SshStart == SshInit => SshIInv
<1> SUFFICES ASSUME SshInit PROVE SshIInv
  OBVIOUS
<1>1. <<>> \in Seq({"copied", "notRead", "error"})
  <2>1. \A S : <<>> \in Seq(S)
    OBVIOUS
  <2> QED BY <2>1
<1>2. SshTypes
  BY <1>1, NilIsNothing DEF SshInit, SshTypes, AgentNames
<1>3. OpenIsReferred /\ NotYetOpen
  BY DEF SshInit, OpenIsReferred, NotYetOpen
<1>4. CopyProgress
  BY DEF SshInit, CopyProgress, Resources
<1> QED BY <1>2, <1>3, <1>4 DEF SshIInv

\* What was open stays referred to while the SshSession does not change, unless
\* the call ends here or leaves the session of a file open.
LEMMA SameSession ==
  ASSUME OpenIsReferred, UNCHANGED <<sshOp, refers>>, open' \subseteq open,
         at = "running" => at' = "running" \/ sshOp # "copyDir"
                                           \/ (\A r \in open' : r[1] # "session"),
         at' # "done"
  PROVE  OpenIsReferred'
<1>1. ASSUME NEW r \in open', Referred(r) PROVE Referred(r)'
  <2>1. /\ r[1] \in Resources /\ r[2] \in 1 .. refers[r[1]]
        /\ r[2] # refers[r[1]] => sshOp = "copyDir" /\ r[1] = "client"
        /\ sshOp = "copyDir" /\ r[1] = "session" => at = "running"
    BY <1>1 DEF Referred
  <2> QED BY <2>1 DEF Referred
<1>2. ASSUME NEW r \in open'
      PROVE  /\ r = <<r[1], r[2]>>
             /\ \/ r[1] \in AgentNames
                \/ sshOp' = "copyDir" /\ r[1] = "localFile"
                \/ Referred(r)'
  BY <1>1, <1>2 DEF OpenIsReferred
<1> QED BY <1>2 DEF OpenIsReferred

LEMMA DialKeeps ==
  ASSUME SshTypes, OpenIsReferred, UNCHANGED <<sshOp, refers>>,
         at \in {"auth", "listing"}, refers = Nil, NEW n, DialAgents(n)
  PROVE  OpenIsReferred'
<1>1. PICK dialed \in {{}, agents \intersect {"overrideAgent"}, agents} :
        open' = open \union {<<a, n>> : a \in dialed}
  BY DEF DialAgents
<1>2. dialed \subseteq AgentNames
  BY <1>1 DEF SshTypes
<1>3. ASSUME NEW r \in open
      PROVE  /\ r = <<r[1], r[2]>>
             /\ \/ r[1] \in AgentNames
                \/ sshOp' = "copyDir" /\ r[1] = "localFile"
  <2>1. ~Referred(r)
    BY NilIsNothing DEF Referred
  <2> QED BY <1>3, <2>1 DEF OpenIsReferred
<1>4. ASSUME NEW a \in dialed PROVE <<a, n>>[1] \in AgentNames /\ <<a, n>> = <<<<a, n>>[1], <<a, n>>[2]>>
  BY <1>2
<1> QED BY <1>1, <1>3, <1>4 DEF OpenIsReferred

LEMMA SshAuthStep == SshIInv /\ CreateAuthMethods => SshIInv'
<1> SUFFICES ASSUME SshIInv, CreateAuthMethods PROVE SshIInv'
  OBVIOUS
<1>1. SshTypes /\ OpenIsReferred /\ NotYetOpen /\ CopyProgress
  BY DEF SshIInv
<1>2. /\ at = "auth" /\ UNCHANGED <<sshOp, agents, refers, remote, copied>>
      /\ DialAgents(hosts)
      /\ \/ /\ at' \in {"auth", Opens(sshOp)[1]} \/ (sshOp = "copyDir" /\ at' = "listing")
            /\ sshOp = "copyDir" => at' \in {"auth", "listing"}
            /\ sshResult' = sshResult
         \/ at' = "done" /\ sshResult' = "error"
  BY DEF CreateAuthMethods
<1>3. /\ at' \in {"auth", "listing", "jumpClient", "client", "done"} /\ refers = Nil
      /\ at' = "listing" => sshOp = "copyDir"
  BY <1>1, <1>2, OpensInOrder DEF NotYetOpen
<1>4. SshTypes'
  BY <1>1, <1>2, <1>3 DEF SshTypes, Resources
<1>5. OpenIsReferred'
  BY <1>1, <1>2, <1>3, DialKeeps
<1>6. NotYetOpen'
  <2>1. Nil["client"] = 0 /\ Nil["session"] = 0
    BY NilIsNothing DEF Resources
  <2> QED BY <1>2, <1>3, <2>1 DEF NotYetOpen
<1>7. CopyProgress'
  BY <1>1, <1>2, <1>3 DEF CopyProgress, Resources
<1> QED BY <1>4, <1>5, <1>6, <1>7 DEF SshIInv

LEMMA SshListStep == SshIInv /\ ListFiles => SshIInv'
<1> SUFFICES ASSUME SshIInv, ListFiles PROVE SshIInv'
  OBVIOUS
<1>1. SshTypes /\ OpenIsReferred /\ NotYetOpen /\ CopyProgress
  BY DEF SshIInv
<1>2. /\ at = "listing" /\ UNCHANGED <<sshOp, agents, refers, copied>> /\ DialAgents(0)
      /\ \/ remote' \in 1 .. MaxRemoteFiles /\ at' = "copying" /\ sshResult' = sshResult
         \/ sshResult' \in {"error", "panic"} /\ at' = "cleanup" /\ remote' = remote
  BY DEF ListFiles
<1>3. refers = Nil
  BY <1>1, <1>2 DEF NotYetOpen
<1>4. SshTypes'
  BY <1>1, <1>2 DEF SshTypes
<1>5. OpenIsReferred'
  BY <1>1, <1>2, <1>3, DialKeeps
<1>6. NotYetOpen'
  BY <1>2 DEF NotYetOpen
<1>7. CopyProgress'
  <2> SUFFICES ASSUME sshOp = "copyDir" PROVE CopyProgress'
    BY <1>2 DEF CopyProgress
  <2>1. copied = <<>> /\ Len(copied) = 0 /\ sshResult = "none"
    BY <1>1, <1>2 DEF CopyProgress
  <2>2. CASE remote' \in 1 .. MaxRemoteFiles /\ at' = "copying" /\ sshResult' = sshResult
    BY <1>2, <2>1, <2>2 DEF CopyProgress, Resources
  <2>3. CASE sshResult' \in {"error", "panic"} /\ at' = "cleanup" /\ remote' = remote
    BY <1>2, <2>1, <2>3 DEF CopyProgress, Resources
  <2> QED BY <1>2, <2>2, <2>3
<1> QED BY <1>4, <1>5, <1>6, <1>7 DEF SshIInv

LEMMA SshFileStep == SshIInv /\ NextFile => SshIInv'
<1> SUFFICES ASSUME SshIInv, NextFile PROVE SshIInv'
  OBVIOUS
<1>1. SshTypes /\ OpenIsReferred /\ NotYetOpen /\ CopyProgress
  BY DEF SshIInv
<1>2. at = "copying" /\ UNCHANGED <<sshOp, agents, hosts, refers, remote, copied>>
      /\ sshOp = "copyDir"
  BY <1>1 DEF NextFile, SshTypes
<1>3. Len(copied) \in Nat /\ remote \in Nat /\ remote > 0 /\ Len(copied) <= remote
      /\ sshResult = "none"
  BY <1>1, <1>2 DEF SshTypes, CopyProgress
<1>4. CASE /\ Len(copied) < remote
           /\ open' = open \union {<<"localFile", Len(copied) + 1>>}
           /\ at' = Opens(sshOp)[1]
           /\ sshResult' = sshResult
  <2>1. at' = "client"
    BY <1>2, <1>4, OpensInOrder
  <2>2. SshTypes' /\ NotYetOpen'
    BY <1>1, <1>2, <2>1 DEF SshTypes, NotYetOpen, Resources
  <2>3. OpenIsReferred'
    <3>1. ASSUME NEW r \in open, Referred(r) PROVE Referred(r)'
      BY <1>2, <2>1, <3>1 DEF Referred
    <3> QED BY <1>1, <1>2, <1>4, <3>1 DEF OpenIsReferred
  <2>4. CopyProgress'
    BY <1>2, <1>3, <1>4, <2>1 DEF CopyProgress, Resources
  <2> QED BY <2>2, <2>3, <2>4 DEF SshIInv
<1>5. CASE /\ at' = "cleanup" /\ open' = open
           /\ sshResult' = IF Len(copied) < remote \/ \E i \in DOMAIN copied : copied[i] = "error"
                           THEN "error" ELSE "nil"
  <2>1. SshTypes' /\ NotYetOpen'
    BY <1>1, <1>2, <1>5 DEF SshTypes, NotYetOpen
  <2>2. OpenIsReferred'
    BY <1>1, <1>2, <1>5, SameSession
  <2>3. CopyProgress'
    BY <1>2, <1>3, <1>5 DEF CopyProgress, Resources
  <2> QED BY <2>1, <2>2, <2>3 DEF SshIInv
<1> QED BY <1>4, <1>5 DEF NextFile

\* The call, or a file of a directory, ends without anything else being opened.
LEMMA FileEnds ==
  ASSUME SshTypes, NotYetOpen, CopyProgress,
         at \in {"running"} \union Resources,
         UNCHANGED <<sshOp, agents, refers, remote>>,
         NEW r, NEW fileResult \in {"copied", "notRead", "error"}, EndFile(r, fileResult)
  PROVE  /\ SshTypes' /\ NotYetOpen' /\ CopyProgress'
         /\ at' = (IF sshOp = "copyDir" THEN "copying" ELSE "cleanup")
<1>1. /\ copied' = Append(copied, fileResult)
      /\ at' = (IF sshOp = "copyDir" THEN "copying" ELSE "cleanup")
      /\ sshOp = "copyDir" => sshResult' = sshResult
  BY DEF EndFile
<1>2. SshTypes'
  BY <1>1 DEF SshTypes
<1>3. NotYetOpen'
  BY <1>1 DEF NotYetOpen
<1>4. CopyProgress'
  <2> SUFFICES ASSUME sshOp = "copyDir" PROVE CopyProgress'
    BY DEF CopyProgress
  <2>1. at \notin {"cleanup", "done"}
    BY DEF Resources
  <2>2. sshResult = "none" /\ remote > 0 /\ Len(copied) < remote
    BY <2>1 DEF CopyProgress
  <2>3. Len(copied') = Len(copied) + 1 /\ Len(copied) \in Nat /\ remote \in Nat
    BY <1>1 DEF SshTypes
  <2> QED BY <1>1, <2>2, <2>3 DEF CopyProgress, Resources
<1> QED BY <1>1, <1>2, <1>3, <1>4

LEMMA SshOpenStep == SshIInv /\ OpenNext => SshIInv'
<1> SUFFICES ASSUME SshIInv, OpenNext PROVE SshIInv'
  OBVIOUS
<1>1. SshTypes /\ OpenIsReferred /\ NotYetOpen /\ CopyProgress
  BY DEF SshIInv
<1>2. /\ at \in {Opens(sshOp)[i] : i \in DOMAIN Opens(sshOp)}
      /\ UNCHANGED <<sshOp, agents, hosts, remote>>
  BY DEF OpenNext
<1>3. /\ at \in Resources
      /\ sshOp = "private" => at \in {"jumpClient", "virtualConn", "hostConn", "session"}
      /\ sshOp # "private" => at \in {"client", "session"}
  BY <1>2, OpensInOrder DEF Resources
<1> DEFINE new == IF at = "hostConn" THEN {"hostConn", "client"} ELSE {at}
<1>4. CASE /\ open' = open \union {<<x, refers[x] + 1>> : x \in new}
           /\ refers' = Store(new)
           /\ at' = After(sshOp, at)
           /\ UNCHANGED <<copied, sshResult>>
  <2>1. new \subseteq Resources
    BY <1>3 DEF Resources
  <2>2. /\ refers' \in [Resources -> Nat]
        /\ \A x \in Resources : refers'[x] = IF x \in new THEN refers[x] + 1 ELSE refers[x]
    BY <1>1, <1>4 DEF Store, SshTypes
  <2>3. /\ at = "jumpClient" => at' = "virtualConn"
        /\ at = "virtualConn" => at' = "hostConn"
        /\ at = "hostConn" => at' = "session"
        /\ at = "client" => at' = "session"
        /\ at = "session" => at' = "running"
    BY <1>3, <1>4, OpensInOrder
  <2>4. at' \in {"virtualConn", "hostConn", "session", "running"}
    BY <1>3, <2>3
  <2>5. SshTypes'
    BY <1>1, <1>2, <1>4, <2>2, <2>4 DEF SshTypes, Resources
  <2>6. OpenIsReferred'
    <3>1. ASSUME NEW r \in open, Referred(r) PROVE Referred(r)'
      <4>1. /\ r[1] \in Resources /\ r[2] \in 1 .. refers[r[1]]
            /\ r[2] # refers[r[1]] => sshOp = "copyDir" /\ r[1] = "client"
            /\ sshOp = "copyDir" => r[1] # "session"
        BY <1>3, <3>1 DEF Referred, Resources
      <4>2. refers[r[1]] \in Nat /\ refers[r[1]] # 0
        BY <1>1, <4>1 DEF SshTypes
      <4>3. CASE r[1] \in new
        <5>1. sshOp = "copyDir" /\ r[1] = "client"
          <6>1. Nil["jumpClient"] = 0
            BY NilIsNothing DEF Resources
          <6>2. sshOp = "copyDir"
            BY <1>1, <1>3, <4>1, <4>2, <4>3, <6>1 DEF NotYetOpen, Resources
          <6> QED BY <1>3, <4>1, <4>3, <6>2
        <5>2. refers'["client"] = refers["client"] + 1
          BY <2>2, <4>1, <4>3, <5>1
        <5>3. r[2] \in 1 .. refers'["client"]
          BY <4>1, <4>2, <5>1, <5>2
        <5> QED BY <1>2, <2>4, <4>1, <5>1, <5>3 DEF Referred
      <4>4. CASE r[1] \notin new
        <5>1. refers'[r[1]] = refers[r[1]]
          BY <2>2, <4>1, <4>4
        <5> QED BY <1>2, <2>4, <4>1, <5>1 DEF Referred
      <4> QED BY <4>3, <4>4
    <3>2. ASSUME NEW r \in open
          PROVE  /\ r = <<r[1], r[2]>>
                 /\ \/ r[1] \in AgentNames
                    \/ sshOp' = "copyDir" /\ r[1] = "localFile"
                    \/ Referred(r)'
      BY <1>1, <1>2, <3>1, <3>2 DEF OpenIsReferred
    <3>3. ASSUME NEW x \in new, NEW r, r = <<x, refers[x] + 1>>
          PROVE  r = <<r[1], r[2]>> /\ Referred(r)'
      <4>1. r[1] = x /\ r[2] = refers[x] + 1 /\ x \in Resources
        BY <2>1, <3>3
      <4>2. refers[x] \in Nat /\ refers'[x] = refers[x] + 1
        BY <1>1, <2>2, <4>1 DEF SshTypes
      <4>3. r[2] \in 1 .. refers'[x] /\ r[2] = refers'[x]
        BY <4>1, <4>2
      <4>4. sshOp = "copyDir" /\ x = "session" => at' = "running"
        BY <1>3, <2>3
      <4> QED BY <1>2, <2>4, <3>3, <4>1, <4>3, <4>4 DEF Referred
    <3>4. ASSUME NEW r \in open'
          PROVE  /\ r = <<r[1], r[2]>>
                 /\ \/ r[1] \in AgentNames
                    \/ sshOp' = "copyDir" /\ r[1] = "localFile"
                    \/ Referred(r)'
      <4>1. CASE r \in open
        BY <3>2, <4>1
      <4>2. CASE r \notin open
        <5>1. PICK x \in new : r = <<x, refers[x] + 1>>
          BY <1>4, <3>4, <4>2
        <5> QED BY <3>3, <5>1
      <4> QED BY <4>1, <4>2
    <3> QED BY <3>4 DEF OpenIsReferred
  <2>7. NotYetOpen'
    <3> SUFFICES ASSUME sshOp # "copyDir" PROVE NotYetOpen'
      BY <1>2, <2>4 DEF NotYetOpen
    <3>1. CASE at = "jumpClient"
      <4>1. /\ refers["virtualConn"] = 0 /\ refers["hostConn"] = 0
            /\ refers["client"] = 0 /\ refers["session"] = 0
        BY <1>1, <3>1, NilIsNothing DEF NotYetOpen, Resources
      <4> QED BY <2>2, <2>3, <3>1, <4>1 DEF NotYetOpen, Resources
    <3>2. CASE at = "virtualConn"
      BY <1>1, <2>2, <2>3, <3>2 DEF NotYetOpen, Resources
    <3>3. CASE at = "hostConn"
      BY <1>1, <2>2, <2>3, <3>3 DEF NotYetOpen, Resources
    <3>4. CASE at = "client"
      BY <1>1, <2>2, <2>3, <3>4 DEF NotYetOpen, Resources
    <3>5. CASE at = "session"
      BY <2>3, <3>5 DEF NotYetOpen
    <3> QED BY <1>3, <3>1, <3>2, <3>3, <3>4, <3>5 DEF Resources
  <2>8. CopyProgress'
    BY <1>1, <1>2, <1>3, <1>4, <2>4 DEF CopyProgress, Resources
  <2> QED BY <2>5, <2>6, <2>7, <2>8 DEF SshIInv
<1>5. CASE EndFile("error", "error") /\ UNCHANGED <<open, refers>>
  <2>1. /\ SshTypes' /\ NotYetOpen' /\ CopyProgress'
        /\ at' = (IF sshOp = "copyDir" THEN "copying" ELSE "cleanup")
    BY <1>1, <1>2, <1>3, <1>5, FileEnds
  <2>2. OpenIsReferred'
    BY <1>1, <1>2, <1>3, <1>5, <2>1, SameSession DEF Resources
  <2> QED BY <2>1, <2>2 DEF SshIInv
<1> QED BY <1>4, <1>5 DEF OpenNext

LEMMA SshRunStep == SshIInv /\ (RunCommand \/ CopyFile) => SshIInv'
<1> SUFFICES ASSUME SshIInv, RunCommand \/ CopyFile PROVE SshIInv'
  OBVIOUS
<1>1. SshTypes /\ OpenIsReferred /\ NotYetOpen /\ CopyProgress
  BY DEF SshIInv
<1>2. at = "running" /\ UNCHANGED <<sshOp, agents, hosts, refers, remote>>
  BY DEF RunCommand, CopyFile
<1>3. CASE RunCommand
  <2>1. /\ sshOp # "copyDir" /\ at' = "cleanup" /\ UNCHANGED <<open, copied>>
    BY <1>3 DEF RunCommand
  <2>2. OpenIsReferred'
    BY <1>1, <1>2, <2>1, SameSession
  <2>3. SshTypes' /\ NotYetOpen' /\ CopyProgress'
    BY <1>1, <1>2, <2>1 DEF SshTypes, NotYetOpen, CopyProgress
  <2> QED BY <2>2, <2>3 DEF SshIInv
<1>4. CASE CopyFile
  <2>1. /\ EndFile("nil", "copied") \/ EndFile("nil", "notRead") \/ EndFile("error", "error")
        /\ open' = open \ {<<"session", refers["session"]>>}
    BY <1>4 DEF CopyFile
  <2>2. /\ SshTypes' /\ NotYetOpen' /\ CopyProgress'
        /\ at' = (IF sshOp = "copyDir" THEN "copying" ELSE "cleanup")
    BY <1>1, <1>2, <2>1, FileEnds
  <2>3. ASSUME sshOp = "copyDir", NEW r \in open', r[1] = "session" PROVE FALSE
    <3>1. r \in open /\ r # <<"session", refers["session"]>>
      BY <2>1, <2>3
    <3>2. r = <<r[1], r[2]>> /\ Referred(r)
      BY <1>1, <2>3, <3>1 DEF OpenIsReferred, AgentNames
    <3> QED BY <2>3, <3>1, <3>2 DEF Referred
  <2>4. OpenIsReferred'
    BY <1>1, <1>2, <2>1, <2>2, <2>3, SameSession
  <2> QED BY <2>2, <2>4 DEF SshIInv
<1> QED BY <1>3, <1>4

\* Cleanup closes all that is referred to.
LEMMA SshCleanupStep == SshIInv /\ Cleanup => SshIInv'
<1> SUFFICES ASSUME SshIInv, Cleanup PROVE SshIInv'
  OBVIOUS
<1>1. SshTypes /\ OpenIsReferred /\ NotYetOpen /\ CopyProgress
  BY DEF SshIInv
<1>2. /\ at = "cleanup" /\ UNCHANGED <<sshOp, agents, copied>>
      /\ open' = open \ {<<x, refers[x]>> : x \in DOMAIN refers}
      /\ FetchContentsOfFiles
  BY DEF Cleanup
<1>3. ASSUME NEW r \in open'
      PROVE  /\ r \in open /\ r = <<r[1], r[2]>>
             /\ Referred(r) => sshOp = "copyDir" /\ r[1] = "client" /\ r[2] # refers[r[1]]
  <2>1. r \in open /\ r \notin {<<x, refers[x]>> : x \in Resources}
    BY <1>1, <1>2, <1>3 DEF SshTypes
  <2>2. r = <<r[1], r[2]>>
    BY <1>1, <2>1 DEF OpenIsReferred
  <2>3. Referred(r) => r[2] # refers[r[1]]
    BY <2>1, <2>2 DEF Referred
  <2> QED BY <2>1, <2>2, <2>3 DEF Referred
<1>4. CASE sshOp = "fetch" /\ sshResult = "nil" /\ remote > 1
  <2>1. at' = "auth" /\ refers' = Nil /\ remote' = remote - 1
    BY <1>2, <1>4 DEF FetchContentsOfFiles
  <2>2. SshTypes'
    BY <1>1, <1>2, <1>4, <2>1, NilIsNothing DEF SshTypes
  <2>3. OpenIsReferred'
    BY <1>1, <1>2, <1>3, <1>4 DEF OpenIsReferred
  <2>4. NotYetOpen' /\ CopyProgress'
    BY <1>2, <1>4, <2>1 DEF NotYetOpen, CopyProgress
  <2> QED BY <2>2, <2>3, <2>4 DEF SshIInv
<1>5. CASE ~(sshOp = "fetch" /\ sshResult = "nil" /\ remote > 1)
  <2>1. at' = "done" /\ UNCHANGED <<refers, remote, sshResult>>
    BY <1>2, <1>5 DEF FetchContentsOfFiles
  <2>2. SshTypes'
    BY <1>1, <1>2, <2>1 DEF SshTypes
  <2>3. OpenIsReferred'
    <3>1. ASSUME NEW r \in open', Referred(r) PROVE Referred(r)'
      <4>1. /\ r[1] \in Resources /\ r[2] \in 1 .. refers[r[1]] /\ r[1] = "client"
            /\ sshOp = "copyDir" /\ r[2] # refers[r[1]]
        BY <1>3, <3>1 DEF Referred
      <4> QED BY <1>2, <2>1, <4>1 DEF Referred
    <3>2. ASSUME NEW r \in open'
          PROVE  /\ r = <<r[1], r[2]>>
                 /\ \/ r[1] \in AgentNames
                    \/ sshOp' = "copyDir" /\ r[1] = "localFile"
                    \/ Referred(r)'
      BY <1>1, <1>2, <1>3, <3>1, <3>2 DEF OpenIsReferred
    <3> QED BY <3>2 DEF OpenIsReferred
  <2>4. NotYetOpen' /\ CopyProgress'
    BY <1>1, <1>2, <2>1 DEF NotYetOpen, CopyProgress, Resources
  <2> QED BY <2>2, <2>3, <2>4 DEF SshIInv
<1> QED BY <1>4, <1>5

LEMMA SshStep == SshIInv /\ SshNext => SshIInv'
BY SshAuthStep, SshListStep, SshFileStep, SshOpenStep, SshRunStep, SshCleanupStep DEF SshNext

-----------------------------------------------------------------------------
(* Shell *)

Got(s, q) == Cardinality(Own(s, q))

\* The lines of a stream stand in a sequence in their order, each once.
Numbered(s, q) ==
  \A k \in 1 .. Got(s, q) :
    Places(s, q, k) # {} /\ \A i \in Places(s, q, k) : q[i].n = k

LEMMA OwnIsFinite ==
  ASSUME NEW q \in Seq(Lines), NEW s
  PROVE  IsFiniteSet(Own(s, q)) /\ Got(s, q) \in Nat /\ Own(s, q) \subseteq 1 .. Len(q)
<1>1. Own(s, q) \subseteq 1 .. Len(q) /\ IsFiniteSet(1 .. Len(q))
  <2>1. IsFiniteSet(1 .. Len(q))
    BY FS_Interval
  <2> QED BY <2>1 DEF Own
<1>2. IsFiniteSet(Own(s, q))
  BY <1>1, FS_Subset
<1> QED BY <1>1, <1>2, FS_CardinalityType DEF Got

LEMMA NumbersInOrder ==
  ASSUME NEW q \in Seq(Lines), NEW s, Numbered(s, q)
  PROVE  NumbersOf(s, q) = Contract!UpTo(Got(s, q))
<1>1. ASSUME NEW k \in 1 .. Got(s, q)
      PROVE  q[CHOOSE i \in Places(s, q, k) : TRUE].n = k
  <2>1. Places(s, q, k) # {} /\ \A i \in Places(s, q, k) : q[i].n = k
    BY DEF Numbered
  <2> QED BY <2>1
<1> QED BY <1>1 DEF NumbersOf, Contract!UpTo, Got

LEMMA NothingIsNumbered ==
  ASSUME NEW s
  PROVE  Numbered(s, <<>>) /\ Got(s, <<>>) = 0
<1>1. Own(s, <<>>) = {}
  BY DEF Own
<1>2. Got(s, <<>>) = 0
  BY <1>1, FS_EmptySet DEF Got
<1> QED BY <1>2 DEF Numbered

\* The next line of the stream keeps the order; a line of the other stream
\* changes nothing.
LEMMA NumberedAppend ==
  ASSUME NEW q \in Seq(Lines), NEW l \in Lines, NEW s, Numbered(s, q),
         l.stream = s => l.n = Got(s, q) + 1
  PROVE  /\ Numbered(s, Append(q, l))
         /\ l.stream = s => Got(s, Append(q, l)) = Got(s, q) + 1
         /\ l.stream # s => Got(s, Append(q, l)) = Got(s, q)
<1> DEFINE r == Append(q, l)
<1>1. /\ r \in Seq(Lines) /\ DOMAIN r = 1 .. Len(q) + 1 /\ r[Len(q) + 1] = l
      /\ DOMAIN q = 1 .. Len(q) /\ Len(q) \in Nat
      /\ \A i \in 1 .. Len(q) : r[i] = q[i]
  OBVIOUS
<1> HIDE DEF r
<1>2. IsFiniteSet(Own(s, q)) /\ Got(s, q) \in Nat /\ Own(s, q) \subseteq 1 .. Len(q)
  BY OwnIsFinite
<1>3. CASE l.stream # s
  <2>1. Own(s, r) = Own(s, q)
    BY <1>1, <1>3 DEF Own
  <2>2. \A k : Places(s, r, k) = Places(s, q, k)
    BY <2>1 DEF Places
  <2>3. ASSUME NEW k, NEW i \in Places(s, q, k) PROVE r[i] = q[i]
    BY <1>1, <1>2, <2>3 DEF Places
  <2>4. Got(s, r) = Got(s, q)
    BY <2>1 DEF Got
  <2>5. Numbered(s, r)
    BY <2>2, <2>3, <2>4 DEF Numbered
  <2> QED BY <1>3, <2>4, <2>5 DEF r
<1>4. CASE l.stream = s
  <2>1. Own(s, r) = Own(s, q) \union {Len(q) + 1}
    BY <1>1, <1>4 DEF Own
  <2>2. Len(q) + 1 \notin Own(s, q)
    BY <1>1, <1>2
  <2>3. Got(s, r) = Got(s, q) + 1
    BY <1>2, <2>1, <2>2, FS_AddElement DEF Got
  <2>4. ASSUME NEW i \in Own(s, q)
        PROVE  {j \in Own(s, r) : j <= i} = {j \in Own(s, q) : j <= i}
    BY <1>1, <1>2, <2>1
  <2>5. {j \in Own(s, r) : j <= Len(q) + 1} = Own(s, r)
    BY <1>1, <1>2, <2>1
  <2>6. ASSUME NEW k \in 1 .. Got(s, q) PROVE Places(s, r, k) = Places(s, q, k)
    <3>1. Len(q) + 1 \notin Places(s, r, k)
      <4>1. Cardinality({j \in Own(s, r) : j <= Len(q) + 1}) = Got(s, r)
        BY <2>5 DEF Got
      <4>2. Got(s, r) # k
        BY <1>2, <2>3
      <4> QED BY <4>1, <4>2 DEF Places
    <3>2. ASSUME NEW i \in Own(s, q) PROVE i \in Places(s, r, k) <=> i \in Places(s, q, k)
      BY <2>1, <2>4 DEF Places
    <3>3. Places(s, r, k) \subseteq Own(s, r) /\ Places(s, q, k) \subseteq Own(s, q)
      BY DEF Places
    <3> QED BY <2>1, <3>1, <3>2, <3>3
  <2>7. Places(s, r, Got(s, q) + 1) = {Len(q) + 1}
    <3>1. Len(q) + 1 \in Places(s, r, Got(s, q) + 1)
      BY <2>1, <2>3, <2>5 DEF Places, Got
    <3>2. ASSUME NEW i \in Own(s, q) PROVE i \notin Places(s, r, Got(s, q) + 1)
      <4> DEFINE upTo == {j \in Own(s, q) : j <= i}
      <4>1. Cardinality(upTo) <= Got(s, q) /\ Cardinality(upTo) \in Nat
        <5>1. upTo \subseteq Own(s, q)
          OBVIOUS
        <5> HIDE DEF upTo
        <5>2. IsFiniteSet(upTo) /\ Cardinality(upTo) <= Cardinality(Own(s, q))
          BY <1>2, <5>1, FS_Subset
        <5> QED BY <5>2, FS_CardinalityType DEF Got
      <4>2. Cardinality({j \in Own(s, r) : j <= i}) # Got(s, q) + 1
        <5>1. Cardinality({j \in Own(s, r) : j <= i}) = Cardinality(upTo)
          BY <2>4
        <5>2. \A m, n \in Nat : m <= n => m # n + 1
          OBVIOUS
        <5> HIDE DEF upTo
        <5> QED BY <1>2, <4>1, <5>1, <5>2
      <4> QED BY <4>2 DEF Places
    <3>3. Places(s, r, Got(s, q) + 1) \subseteq Own(s, r)
      BY DEF Places
    <3> QED BY <2>1, <3>1, <3>2, <3>3
  <2>8. ASSUME NEW k \in 1 .. Got(s, r)
        PROVE  Places(s, r, k) # {} /\ \A i \in Places(s, r, k) : r[i].n = k
    <3>1. CASE k = Got(s, q) + 1
      BY <1>1, <1>4, <2>7, <3>1
    <3>2. CASE k \in 1 .. Got(s, q)
      <4>1. Places(s, q, k) # {} /\ \A i \in Places(s, q, k) : q[i].n = k
        BY <3>2 DEF Numbered
      <4>2. \A i \in Places(s, q, k) : r[i] = q[i]
        BY <1>1, <1>2 DEF Places
      <4> QED BY <2>6, <3>2, <4>1, <4>2
    <3> QED BY <1>2, <2>3, <3>1, <3>2
  <2>9. Numbered(s, r)
    BY <2>8 DEF Numbered
  <2> QED BY <1>4, <2>3, <2>9 DEF r
<1> QED BY <1>3, <1>4

Taken(s) == written[s] - Len(pipe[s])
GotOf(s) == Got(s, stored[SliceOf(s)])

\* A pipe holds the lines after those that were taken from it.
PipesInOrder ==
  \A s \in Streams :
    /\ Len(pipe[s]) <= written[s]
    /\ \A i \in 1 .. Len(pipe[s]) : pipe[s][i].stream = s /\ pipe[s][i].n = Taken(s) + i

OutputInOrder == \A s \in Streams : Numbered(s, stored[SliceOf(s)]) /\ Numbered(s, printed)

\* A line that was taken is held, then printed, then stored.
LinesCounted ==
  \A s \in Streams :
    /\ scan[s] \in {"off", "scanning", "eof"} => Taken(s) = GotOf(s) /\ Got(s, printed) = GotOf(s)
    /\ scan[s] \in {"printing", "failed"} => Taken(s) = GotOf(s) + 1 /\ Got(s, printed) = GotOf(s)
    /\ scan[s] \in {"locking", "storing"} =>
         Taken(s) = GotOf(s) + 1 /\ Got(s, printed) = GotOf(s) + 1
    /\ scan[s] \in {"printing", "locking", "storing"} => held[s].stream = s /\ held[s].n = Taken(s)

\* One goroutine at a time reads the slice and writes the longer one back.
Locked ==
  \A s \in Streams : scan[s] = "storing" => mutex = s /\ slice[s] = stored[SliceOf(s)]

\* The goroutines run while the caller waits for them, and the child while the
\* pipes are open.
Phases ==
  /\ pc = "waiting" => \A s \in Streams : scan[s] = "eof"
  /\ child \in Streams => written[child] < MaxLines
  /\ \A s \in Streams :
       /\ scan[s] \in {"scanning", "printing", "locking", "storing"} => pc = "reading"
       /\ pc = "new" => scan[s] = "off"
       /\ scan[s] = "off" => child = "none" /\ written[s] = 0
       /\ scan[s] = "eof" => pipe[s] = <<>> /\ child \in {"exited", "reaped"}

ShellIInv ==
  TypeOK /\ PipesInOrder /\ OutputInOrder /\ LinesCounted /\ Locked /\ Phases

LEMMA ShellStart == Init => ShellIInv
<1> SUFFICES ASSUME Init PROVE ShellIInv
  OBVIOUS
<1>1. <<>> \in Seq(Lines)
  <2>1. \A S : <<>> \in Seq(S)
    OBVIOUS
  <2> QED BY <2>1
<1>2. NoLine \in Lines
  BY ShellAssumption DEF NoLine, Lines, Streams
<1>3. TypeOK
  BY <1>1, <1>2, ShellAssumption DEF Init, TypeOK
<1>4. /\ \A s \in Streams : written[s] = 0 /\ pipe[s] = <<>> /\ scan[s] = "off" /\ stored[s] = <<>>
      /\ \A s \in Streams : SliceOf(s) \in Streams
      /\ printed = <<>> /\ pc = "new" /\ child = "none"
  BY DEF Init, SliceOf, Streams
<1>5. PipesInOrder
  BY <1>4 DEF PipesInOrder
<1>6. OutputInOrder /\ LinesCounted
  BY <1>4, NothingIsNumbered DEF OutputInOrder, LinesCounted, Taken, GotOf
<1>7. Locked /\ Phases
  BY <1>4 DEF Locked, Phases, Streams
<1> QED BY <1>3, <1>5, <1>6, <1>7 DEF ShellIInv

LEMMA SlicesAreStreams == \A s \in Streams : SliceOf(s) \in Streams
BY DEF SliceOf, Streams

LEMMA CountsAreNumbers ==
  ASSUME TypeOK, NEW s \in Streams
  PROVE  GotOf(s) \in Nat /\ Got(s, printed) \in Nat
<1>1. stored[SliceOf(s)] \in Seq(Lines) /\ printed \in Seq(Lines)
  BY SlicesAreStreams DEF TypeOK
<1> QED BY <1>1, OwnIsFinite DEF GotOf

\* The steps of the caller and of the child's exit leave lines and pipes alone.
LEMMA ShellCallerStep ==
  ShellIInv /\ (Start \/ EndReading \/ WaitForChild \/ ExitChild) => ShellIInv'
<1> SUFFICES ASSUME ShellIInv, Start \/ EndReading \/ WaitForChild \/ ExitChild PROVE ShellIInv'
  OBVIOUS
<1>1. TypeOK /\ PipesInOrder /\ OutputInOrder /\ LinesCounted /\ Locked /\ Phases
  BY DEF ShellIInv
<1>2. /\ UNCHANGED <<shared, written, pipe, held, mutex, slice, stored, printed>>
      /\ \A s \in Streams : SliceOf(s)' = SliceOf(s) /\ Taken(s)' = Taken(s) /\ GotOf(s)' = GotOf(s)
  <2>1. UNCHANGED <<shared, written, pipe, held, mutex, slice, stored, printed>>
    BY DEF Start, EndReading, WaitForChild, ExitChild, scanVars, childVars, callVars
  <2> QED BY <2>1 DEF SliceOf, Taken, GotOf
<1>3. PipesInOrder' /\ OutputInOrder'
  BY <1>1, <1>2 DEF PipesInOrder, OutputInOrder
<1>4. CASE Start
  <2>1. /\ pc = "new" /\ code' = code
        /\ \/ /\ pc' = "reading" /\ child' = "running" /\ result' = result
              /\ scan' = [s \in Streams |-> "scanning"]
           \/ pc' = "returned" /\ result' = "startError" /\ UNCHANGED <<child, scan>>
    BY <1>4 DEF Start, Return
  <2>2. TypeOK'
    BY <1>1, <1>2, <2>1 DEF TypeOK
  <2>3. \A s \in Streams : scan[s] = "off" /\ scan'[s] \in {"off", "scanning"}
    BY <1>1, <2>1 DEF Phases
  <2>4. LinesCounted' /\ Locked'
    BY <1>1, <1>2, <2>3 DEF LinesCounted, Locked
  <2>5. Phases'
    BY <1>1, <1>2, <2>1, <2>3 DEF Phases, Streams
  <2> QED BY <1>3, <2>2, <2>4, <2>5 DEF ShellIInv
<1>5. CASE EndReading
  <2>1. /\ pc = "reading" /\ \A s \in Streams : scan[s] \in {"eof", "failed"}
        /\ UNCHANGED <<child, code, scan>>
        /\ \/ pc' = "returned" /\ result' = "scanError"
           \/ pc' = "waiting" /\ result' = result /\ \A s \in Streams : scan[s] # "failed"
    BY <1>5 DEF EndReading, Return, Finished, childVars, scanVars
  <2>2. TypeOK'
    BY <1>1, <1>2, <2>1 DEF TypeOK
  <2>3. LinesCounted' /\ Locked'
    BY <1>1, <1>2, <2>1 DEF LinesCounted, Locked
  <2>4. Phases'
    BY <1>1, <1>2, <2>1 DEF Phases
  <2> QED BY <1>3, <2>2, <2>3, <2>4 DEF ShellIInv
<1>6. CASE WaitForChild \/ ExitChild
  <2>1. /\ scan' = scan
        /\ \/ /\ pc = "waiting" /\ child = "exited" /\ child' = "reaped" /\ code' = code
              /\ pc' = "returned" /\ result' \in {"nil", "exitError"}
           \/ /\ child = "running" /\ child' = "exited" /\ code' \in {0, 1}
              /\ UNCHANGED <<pc, result>>
    BY <1>6 DEF WaitForChild, ExitChild, Return, callVars, scanVars
  <2>2. TypeOK'
    BY <1>1, <1>2, <2>1 DEF TypeOK
  <2>3. LinesCounted' /\ Locked'
    BY <1>1, <1>2, <2>1 DEF LinesCounted, Locked
  <2>4. Phases'
    BY <1>1, <1>2, <2>1 DEF Phases, Streams
  <2> QED BY <1>3, <2>2, <2>3, <2>4 DEF ShellIInv
<1> QED BY <1>4, <1>5, <1>6

\* The child writes the next line to a pipe, behind those that are in it.
LEMMA ShellChildStep ==
  ASSUME ShellIInv, NEW s \in Streams, BeginWrite(s) \/ WriteLine(s)
  PROVE  ShellIInv'
<1>1. TypeOK /\ PipesInOrder /\ OutputInOrder /\ LinesCounted /\ Locked /\ Phases
  BY DEF ShellIInv
<1>2. /\ UNCHANGED <<shared, pc, result, code, scan, held, mutex, slice, stored, printed>>
      /\ \A t \in Streams : SliceOf(t)' = SliceOf(t) /\ GotOf(t)' = GotOf(t)
      /\ child \in {"running"} \union Streams
  <2>1. /\ UNCHANGED <<shared, pc, result, code, scan, held, mutex, slice, stored, printed>>
        /\ child \in {"running"} \union Streams
    BY DEF BeginWrite, WriteLine, callVars, scanVars
  <2> QED BY <2>1 DEF SliceOf, GotOf
<1>3. OutputInOrder' /\ Locked'
  BY <1>1, <1>2 DEF OutputInOrder, Locked
<1>4. \A t \in Streams : scan[t] # "off" /\ scan[t] # "eof"
  BY <1>1, <1>2 DEF Phases, Streams
<1>5. CASE BeginWrite(s)
  <2>1. written[s] < MaxLines /\ child' = s /\ UNCHANGED <<written, pipe>>
    BY <1>5 DEF BeginWrite
  <2>2. TypeOK'
    BY <1>1, <1>2, <2>1 DEF TypeOK
  <2>3. PipesInOrder' /\ LinesCounted'
    BY <1>1, <1>2, <2>1 DEF PipesInOrder, LinesCounted, Taken
  <2>4. Phases'
    BY <1>1, <1>2, <1>4, <2>1 DEF Phases
  <2> QED BY <1>3, <2>2, <2>3, <2>4 DEF ShellIInv
<1>6. CASE WriteLine(s)
  <2>1. /\ child = s /\ child' = "running" /\ written' = [written EXCEPT ![s] = @ + 1]
        /\ \E long \in {FALSE, LongLines} :
             pipe' = [pipe EXCEPT ![s] = Append(@, [stream |-> s, n |-> written'[s], long |-> long])]
    BY <1>6 DEF WriteLine
  <2>2. /\ written \in [Streams -> 0 .. MaxLines] /\ pipe \in [Streams -> Seq(Lines)]
        /\ written[s] < MaxLines /\ MaxLines \in Nat
    BY <1>1, <2>1, ShellAssumption DEF TypeOK, Phases
  <2>3. /\ written'[s] = written[s] + 1 /\ written' \in [Streams -> 0 .. MaxLines]
        /\ \A t \in Streams : t # s => written'[t] = written[t] /\ pipe'[t] = pipe[t]
    BY <2>1, <2>2
  <2>4. PICK l \in Lines : /\ l.stream = s /\ l.n = written[s] + 1
                           /\ pipe' = [pipe EXCEPT ![s] = Append(pipe[s], l)]
    <3>1. PICK long \in {FALSE, LongLines} :
            pipe' = [pipe EXCEPT ![s] = Append(@, [stream |-> s, n |-> written'[s], long |-> long])]
      BY <2>1
    <3>2. [stream |-> s, n |-> written'[s], long |-> long] \in Lines
      <4>1. written'[s] \in 1 .. MaxLines
        BY <2>2, <2>3
      <4>2. long \in BOOLEAN
        BY ShellAssumption
      <4> QED BY <4>1, <4>2 DEF Lines
    <3> QED BY <2>3, <3>1, <3>2
  <2>5. pipe' \in [Streams -> Seq(Lines)] /\ pipe'[s] = Append(pipe[s], l)
    BY <2>2, <2>4
  <2>6. /\ Len(pipe'[s]) = Len(pipe[s]) + 1 /\ Len(pipe[s]) \in Nat
        /\ pipe'[s][Len(pipe[s]) + 1] = l
        /\ \A i \in 1 .. Len(pipe[s]) : pipe'[s][i] = pipe[s][i]
    BY <2>2, <2>5
  <2>7. ASSUME NEW t \in Streams PROVE Taken(t)' = Taken(t)
    <3>1. CASE t # s
      BY <2>3, <3>1 DEF Taken
    <3>2. written[s] \in Nat
      BY <2>2
    <3>3. written'[s] - Len(pipe'[s]) = written[s] - Len(pipe[s])
      <4>1. \A a, b \in Nat : (a + 1) - (b + 1) = a - b
        OBVIOUS
      <4>2. written'[s] = written[s] + 1 /\ Len(pipe'[s]) = Len(pipe[s]) + 1 /\ Len(pipe[s]) \in Nat
        BY <2>3, <2>6
      <4> QED BY <3>2, <4>1, <4>2
    <3> QED BY <3>1, <3>3 DEF Taken
  <2>8. TypeOK'
    BY <1>1, <1>2, <2>1, <2>3, <2>5 DEF TypeOK
  <2>9. PipesInOrder'
    <3> SUFFICES ASSUME NEW t \in Streams
                 PROVE  /\ Len(pipe'[t]) <= written'[t]
                        /\ \A i \in 1 .. Len(pipe'[t]) :
                             pipe'[t][i].stream = t /\ pipe'[t][i].n = Taken(t)' + i
      BY DEF PipesInOrder
    <3>1. CASE t # s
      BY <1>1, <2>3, <2>7, <3>1 DEF PipesInOrder
    <3>2. CASE t = s
      <4>1. /\ Len(pipe[s]) <= written[s] /\ written[s] \in Nat
            /\ \A i \in 1 .. Len(pipe[s]) : pipe[s][i].stream = s /\ pipe[s][i].n = Taken(s) + i
        BY <1>1, <2>2 DEF PipesInOrder
      <4>2. Len(pipe'[s]) <= written'[s]
        BY <2>3, <2>6, <4>1
      <4>3. Taken(s) + (Len(pipe[s]) + 1) = written[s] + 1
        BY <2>6, <4>1 DEF Taken
      <4>4. ASSUME NEW i \in 1 .. Len(pipe'[s])
            PROVE  pipe'[s][i].stream = s /\ pipe'[s][i].n = Taken(s) + i
        <5>1. CASE i = Len(pipe[s]) + 1
          BY <2>4, <2>6, <4>3, <5>1
        <5>2. CASE i \in 1 .. Len(pipe[s])
          BY <2>6, <4>1, <5>2
        <5> QED BY <2>6, <5>1, <5>2
      <4> QED BY <2>7, <3>2, <4>2, <4>4
    <3> QED BY <3>1, <3>2
  <2>10. LinesCounted'
    BY <1>1, <1>2, <2>7 DEF LinesCounted
  <2>11. Phases'
    BY <1>1, <1>2, <1>4, <2>1 DEF Phases, Streams
  <2> QED BY <1>3, <2>8, <2>9, <2>10, <2>11 DEF ShellIInv
<1> QED BY <1>5, <1>6

\* A goroutine takes a line from its pipe, or finds its end.
LEMMA ShellScanStep ==
  ASSUME ShellIInv, NEW s \in Streams, ScanLine(s) \/ ScanEnd(s)
  PROVE  ShellIInv'
<1>1. TypeOK /\ PipesInOrder /\ OutputInOrder /\ LinesCounted /\ Locked /\ Phases
  BY DEF ShellIInv
<1>2. /\ scan[s] = "scanning"
      /\ UNCHANGED <<shared, pc, result, child, code, written, mutex, slice, stored, printed>>
      /\ \A t \in Streams : SliceOf(t)' = SliceOf(t) /\ GotOf(t)' = GotOf(t)
  <2>1. /\ scan[s] = "scanning"
        /\ UNCHANGED <<shared, pc, result, child, code, written, mutex, slice, stored, printed>>
    BY DEF ScanLine, ScanEnd, callVars, childVars
  <2> QED BY <2>1 DEF SliceOf, GotOf
<1>3. OutputInOrder'
  BY <1>1, <1>2 DEF OutputInOrder
<1>4. /\ scan \in [Streams -> {"off", "scanning", "printing", "locking", "storing", "eof", "failed"}]
      /\ pipe \in [Streams -> Seq(Lines)] /\ held \in [Streams -> Lines]
      /\ written \in [Streams -> 0 .. MaxLines] /\ MaxLines \in Nat
  BY <1>1, ShellAssumption DEF TypeOK
<1>5. Taken(s) = GotOf(s) /\ Got(s, printed) = GotOf(s) /\ GotOf(s) \in Nat
  BY <1>1, <1>2, CountsAreNumbers DEF LinesCounted
<1>6. CASE ScanLine(s)
  <2>1. /\ pipe[s] # <<>> /\ held' = [held EXCEPT ![s] = Head(pipe[s])]
        /\ \E where \in {"failed", "printing"} : scan' = [scan EXCEPT ![s] = where]
        /\ pipe' = [pipe EXCEPT ![s] = Tail(pipe[s])]
    BY <1>6 DEF ScanLine
  <2>2. PICK where \in {"failed", "printing"} : scan' = [scan EXCEPT ![s] = where]
    BY <2>1
  <2>3. /\ pipe[s] \in Seq(Lines) /\ Head(pipe[s]) = pipe[s][1] /\ Head(pipe[s]) \in Lines
        /\ Tail(pipe[s]) \in Seq(Lines) /\ Len(pipe[s]) \in Nat /\ Len(pipe[s]) > 0
        /\ Len(Tail(pipe[s])) = Len(pipe[s]) - 1
        /\ \A i \in 1 .. Len(pipe[s]) - 1 : Tail(pipe[s])[i] = pipe[s][i + 1]
    BY <1>4, <2>1
  <2>4. /\ scan'[s] = where /\ held'[s] = pipe[s][1] /\ pipe'[s] = Tail(pipe[s])
        /\ \A t \in Streams : t # s =>
             scan'[t] = scan[t] /\ held'[t] = held[t] /\ pipe'[t] = pipe[t]
    BY <1>4, <2>1, <2>2, <2>3
  <2>5. TypeOK'
    <3>1. scan' \in [Streams -> {"off", "scanning", "printing", "locking", "storing", "eof", "failed"}]
      BY <1>4, <2>2
    <3>2. pipe' \in [Streams -> Seq(Lines)] /\ held' \in [Streams -> Lines]
      BY <1>4, <2>1, <2>3
    <3> QED BY <1>1, <1>2, <3>1, <3>2 DEF TypeOK
  <2>6. /\ Len(pipe[s]) <= written[s] /\ written[s] \in Nat
        /\ \A i \in 1 .. Len(pipe[s]) : pipe[s][i].stream = s /\ pipe[s][i].n = Taken(s) + i
    BY <1>1, <1>4 DEF PipesInOrder
  <2>7. Taken(s)' = Taken(s) + 1 /\ Taken(s) \in Nat
    <3>1. written[s] - (Len(pipe[s]) - 1) = (written[s] - Len(pipe[s])) + 1
      BY <2>3, <2>6
    <3> QED BY <1>2, <1>5, <2>3, <2>4, <3>1 DEF Taken
  <2>8. \A t \in Streams : t # s => Taken(t)' = Taken(t)
    BY <1>2, <2>4 DEF Taken
  <2>9. PipesInOrder'
    <3>1. Len(pipe'[s]) <= written'[s]
      BY <1>2, <2>3, <2>4, <2>6
    <3>2. ASSUME NEW i \in 1 .. Len(pipe'[s])
          PROVE  pipe'[s][i].stream = s /\ pipe'[s][i].n = Taken(s)' + i
      <4>1. i \in 1 .. Len(pipe[s]) - 1 /\ i + 1 \in 1 .. Len(pipe[s])
        BY <2>3, <2>4
      <4>2. pipe'[s][i] = pipe[s][i + 1] /\ pipe[s][i + 1].n = Taken(s) + (i + 1)
            /\ pipe[s][i + 1].stream = s
        BY <2>3, <2>4, <2>6, <4>1
      <4>3. Taken(s) + (i + 1) = (Taken(s) + 1) + i
        BY <2>7, <4>1
      <4> QED BY <2>7, <4>2, <4>3
    <3>3. ASSUME NEW t \in Streams
          PROVE  /\ Len(pipe'[t]) <= written'[t]
                 /\ \A i \in 1 .. Len(pipe'[t]) :
                      pipe'[t][i].stream = t /\ pipe'[t][i].n = Taken(t)' + i
      <4>1. CASE t = s
        BY <3>1, <3>2, <4>1
      <4>2. CASE t # s
        BY <1>1, <1>2, <2>4, <2>8, <4>2 DEF PipesInOrder
      <4> QED BY <4>1, <4>2
    <3> QED BY <3>3 DEF PipesInOrder
  <2>10. LinesCounted'
    <3>1. 1 \in 1 .. Len(pipe[s])
      BY <2>3
    <3>2. held'[s].stream = s /\ held'[s].n = Taken(s) + 1
      BY <2>4, <2>6, <3>1
    <3> QED BY <1>1, <1>2, <1>5, <2>2, <2>4, <2>7, <2>8, <3>2 DEF LinesCounted
  <2>11. Locked' /\ Phases'
    <3>1. pc = "reading" /\ scan[s] # "eof"
      BY <1>1, <1>2 DEF Phases
    <3>2. Locked'
      BY <1>1, <1>2, <2>2, <2>4 DEF Locked
    <3>3. Phases'
      BY <1>1, <1>2, <2>2, <2>4, <3>1 DEF Phases
    <3> QED BY <3>2, <3>3
  <2> QED BY <1>3, <2>5, <2>9, <2>10, <2>11 DEF ShellIInv
<1>7. CASE ScanEnd(s)
  <2>1. /\ pipe[s] = <<>> /\ child \in {"exited", "reaped"}
        /\ scan' = [scan EXCEPT ![s] = "eof"] /\ UNCHANGED <<pipe, held>>
    BY <1>7 DEF ScanEnd
  <2>2. scan'[s] = "eof" /\ \A t \in Streams : t # s => scan'[t] = scan[t]
    BY <1>4, <2>1
  <2>3. TypeOK'
    BY <1>1, <1>2, <2>1 DEF TypeOK
  <2>4. PipesInOrder' /\ LinesCounted'
    BY <1>1, <1>2, <1>5, <2>1, <2>2 DEF PipesInOrder, LinesCounted, Taken
  <2>5. Locked' /\ Phases'
    <3>1. pc = "reading"
      BY <1>1, <1>2 DEF Phases
    <3>2. Locked'
      BY <1>1, <1>2, <2>2 DEF Locked
    <3>3. Phases'
      BY <1>1, <1>2, <2>1, <2>2, <3>1 DEF Phases
    <3> QED BY <3>2, <3>3
  <2> QED BY <1>3, <2>3, <2>4, <2>5 DEF ShellIInv
<1> QED BY <1>6, <1>7

\* It prints the line, locks, and stores it.
LEMMA ShellOutputStep ==
  ASSUME ShellIInv, NEW s \in Streams, PrintLine(s) \/ LockOutput(s) \/ StoreLine(s)
  PROVE  ShellIInv'
<1>1. TypeOK /\ PipesInOrder /\ OutputInOrder /\ LinesCounted /\ Locked /\ Phases
  BY DEF ShellIInv
<1>2. /\ scan[s] \in {"printing", "locking", "storing"}
      /\ UNCHANGED <<shared, pc, result, child, code, written, pipe, held>>
      /\ \A t \in Streams : SliceOf(t)' = SliceOf(t) /\ Taken(t)' = Taken(t)
  <2>1. /\ scan[s] \in {"printing", "locking", "storing"}
        /\ UNCHANGED <<shared, pc, result, child, code, written, pipe, held>>
    BY DEF PrintLine, LockOutput, StoreLine, callVars, childVars
  <2> QED BY <2>1 DEF SliceOf, Taken
<1>3. PipesInOrder'
  BY <1>1, <1>2 DEF PipesInOrder
<1>4. /\ scan \in [Streams -> {"off", "scanning", "printing", "locking", "storing", "eof", "failed"}]
      /\ stored \in [Streams -> Seq(Lines)] /\ slice \in [Streams -> Seq(Lines)]
      /\ printed \in Seq(Lines) /\ held[s] \in Lines
  BY <1>1 DEF TypeOK
<1>5. /\ held[s].stream = s /\ held[s].n = Taken(s) /\ Taken(s) = GotOf(s) + 1
      /\ GotOf(s) \in Nat /\ pc = "reading"
  BY <1>1, <1>2, CountsAreNumbers DEF LinesCounted, Phases
<1>6. ASSUME NEW where \in {"locking", "storing", "scanning"}, scan' = [scan EXCEPT ![s] = where]
      PROVE  /\ scan' \in [Streams -> {"off", "scanning", "printing", "locking", "storing", "eof",
                                       "failed"}]
             /\ scan'[s] = where /\ \A t \in Streams : t # s => scan'[t] = scan[t]
             /\ Phases'
  <2>1. scan'[s] = where /\ \A t \in Streams : t # s => scan'[t] = scan[t]
    BY <1>4, <1>6
  <2>2. Phases'
    BY <1>1, <1>2, <1>5, <1>6, <2>1 DEF Phases
  <2> QED BY <1>4, <1>6, <2>1, <2>2
<1>7. CASE PrintLine(s)
  <2>1. /\ scan[s] = "printing" /\ printed' = Append(printed, held[s])
        /\ scan' = [scan EXCEPT ![s] = "locking"] /\ UNCHANGED <<mutex, slice, stored>>
    BY <1>7 DEF PrintLine
  <2>2. /\ scan' \in [Streams -> {"off", "scanning", "printing", "locking", "storing", "eof", "failed"}]
        /\ scan'[s] = "locking" /\ (\A t \in Streams : t # s => scan'[t] = scan[t]) /\ Phases'
    BY <1>6, <2>1
  <2>3. TypeOK'
    BY <1>1, <1>2, <1>4, <2>1, <2>2 DEF TypeOK
  <2>4. \A t \in Streams : GotOf(t)' = GotOf(t)
    BY <1>2, <2>1 DEF GotOf
  <2>5. Got(s, printed) = GotOf(s)
    BY <1>1, <2>1 DEF LinesCounted
  <2>6. ASSUME NEW t \in Streams
        PROVE  /\ Numbered(t, printed')
               /\ t = s => Got(t, printed') = GotOf(s) + 1
               /\ t # s => Got(t, printed') = Got(t, printed)
    <3>1. Numbered(t, printed)
      BY <1>1 DEF OutputInOrder
    <3>2. t = held[s].stream => held[s].n = Got(t, printed) + 1
      BY <1>5, <2>5
    <3> QED BY <1>4, <1>5, <2>1, <2>5, <3>1, <3>2, NumberedAppend
  <2>7. OutputInOrder'
    BY <1>1, <1>2, <2>1, <2>6 DEF OutputInOrder
  <2>8. LinesCounted'
    BY <1>1, <1>2, <1>5, <2>2, <2>4, <2>6 DEF LinesCounted
  <2>9. Locked'
    BY <1>1, <1>2, <2>1, <2>2 DEF Locked
  <2> QED BY <1>3, <2>2, <2>3, <2>7, <2>8, <2>9 DEF ShellIInv
<1>8. CASE LockOutput(s)
  <2>1. /\ scan[s] = "locking" /\ mutex = "nobody" /\ mutex' = s
        /\ slice' = [slice EXCEPT ![s] = stored[SliceOf(s)]]
        /\ scan' = [scan EXCEPT ![s] = "storing"] /\ UNCHANGED <<stored, printed>>
    BY <1>8 DEF LockOutput
  <2>2. /\ scan' \in [Streams -> {"off", "scanning", "printing", "locking", "storing", "eof", "failed"}]
        /\ scan'[s] = "storing" /\ (\A t \in Streams : t # s => scan'[t] = scan[t]) /\ Phases'
    BY <1>6, <2>1
  <2>3. stored[SliceOf(s)] \in Seq(Lines)
    BY <1>4, SlicesAreStreams
  <2>4. TypeOK'
    BY <1>1, <1>2, <1>4, <2>1, <2>2, <2>3 DEF TypeOK
  <2>5. \A t \in Streams : GotOf(t)' = GotOf(t)
    BY <1>2, <2>1 DEF GotOf
  <2>6. OutputInOrder' /\ LinesCounted'
    BY <1>1, <1>2, <2>1, <2>2, <2>5 DEF OutputInOrder, LinesCounted
  <2>7. Locked'
    <3>1. \A t \in Streams : t # s => scan'[t] # "storing"
      BY <1>1, <2>1, <2>2 DEF Locked, Streams
    <3>2. slice'[s] = stored[SliceOf(s)]
      BY <1>4, <2>1
    <3> QED BY <1>2, <2>1, <3>1, <3>2 DEF Locked
  <2> QED BY <1>3, <2>2, <2>4, <2>6, <2>7 DEF ShellIInv
<1>9. CASE StoreLine(s)
  <2>1. /\ scan[s] = "storing" /\ mutex' = "nobody"
        /\ stored' = [stored EXCEPT ![SliceOf(s)] = Append(slice[s], held[s])]
        /\ scan' = [scan EXCEPT ![s] = "scanning"] /\ UNCHANGED <<slice, printed>>
    BY <1>9 DEF StoreLine
  <2>2. /\ scan' \in [Streams -> {"off", "scanning", "printing", "locking", "storing", "eof", "failed"}]
        /\ scan'[s] = "scanning" /\ (\A t \in Streams : t # s => scan'[t] = scan[t]) /\ Phases'
    BY <1>6, <2>1
  <2>3. /\ slice[s] = stored[SliceOf(s)] /\ mutex = s /\ SliceOf(s) \in Streams
        /\ stored[SliceOf(s)] \in Seq(Lines)
    BY <1>1, <1>4, <2>1, SlicesAreStreams DEF Locked
  <2>4. /\ stored' \in [Streams -> Seq(Lines)]
        /\ stored'[SliceOf(s)] = Append(stored[SliceOf(s)], held[s])
        /\ \A x \in Streams : x # SliceOf(s) => stored'[x] = stored[x]
    BY <1>4, <2>1, <2>3
  <2>5. TypeOK'
    BY <1>1, <1>2, <2>1, <2>2, <2>4 DEF TypeOK
  <2>6. ASSUME NEW t \in Streams
        PROVE  /\ Numbered(t, stored'[SliceOf(t)])
               /\ t = s => GotOf(t)' = GotOf(s) + 1
               /\ t # s => GotOf(t)' = GotOf(t)
    <3>1. Numbered(t, stored[SliceOf(t)]) /\ SliceOf(t) \in Streams
      BY <1>1, SlicesAreStreams DEF OutputInOrder
    <3>2. GotOf(t)' = Got(t, stored'[SliceOf(t)])
      BY <1>2 DEF GotOf
    <3>3. CASE SliceOf(t) # SliceOf(s)
      BY <2>4, <3>1, <3>2, <3>3 DEF GotOf
    <3>4. CASE SliceOf(t) = SliceOf(s)
      <4>1. held[s].stream = t => held[s].n = Got(t, stored[SliceOf(s)]) + 1
        BY <1>5, <3>4 DEF GotOf
      <4>2. /\ Numbered(t, Append(stored[SliceOf(s)], held[s]))
            /\ held[s].stream = t =>
                 Got(t, Append(stored[SliceOf(s)], held[s])) = Got(t, stored[SliceOf(s)]) + 1
            /\ held[s].stream # t =>
                 Got(t, Append(stored[SliceOf(s)], held[s])) = Got(t, stored[SliceOf(s)])
        BY <1>4, <2>3, <3>1, <3>4, <4>1, NumberedAppend
      <4> QED BY <1>5, <2>4, <3>2, <3>4, <4>2 DEF GotOf
    <3> QED BY <3>3, <3>4
  <2>7. OutputInOrder'
    BY <1>1, <1>2, <2>1, <2>6 DEF OutputInOrder
  <2>8. LinesCounted'
    BY <1>1, <1>2, <1>5, <2>1, <2>2, <2>6 DEF LinesCounted
  <2>9. Locked'
    <3>1. \A t \in Streams : scan'[t] # "storing"
      BY <1>1, <2>2, <2>3 DEF Locked
    <3> QED BY <3>1 DEF Locked
  <2> QED BY <1>3, <2>2, <2>5, <2>7, <2>8, <2>9 DEF ShellIInv
<1> QED BY <1>7, <1>8, <1>9

LEMMA ShellStep == ShellIInv /\ [Next]_vars => ShellIInv'
<1>1. ShellIInv /\ UNCHANGED vars => ShellIInv'
  BY DEF vars, callVars, childVars, scanVars, ShellIInv, TypeOK, PipesInOrder, OutputInOrder,
         LinesCounted, Locked, Phases, Taken, GotOf, SliceOf
<1> QED BY <1>1, ShellCallerStep, ShellChildStep, ShellScanStep, ShellOutputStep
        DEF Next, ReaderStep

(* The contract of a command: what the call is in its terms. *)

Phase == IF pc \in {"reading", "waiting"} THEN "running" ELSE pc
Process == IF child \in Streams \union {"running"} THEN "alive" ELSE child
Returned == [s \in Streams |-> IF pc = "returned" THEN NumbersOf(s, stored[SliceOf(s)]) ELSE <<>>]
Logged == [s \in Streams |-> IF pc = "returned" THEN NumbersOf(s, printed) ELSE <<>>]

LEMMA ShellStartsContract == Init => Contract!Init
<1> SUFFICES ASSUME Init PROVE Contract!Init
  OBVIOUS
<1>1. /\ Phase = "new" /\ result = "none" /\ Process = "none"
      /\ written = [s \in {"stdout", "stderr"} |-> 0]
      /\ Returned = [s \in {"stdout", "stderr"} |-> <<>>]
      /\ Logged = Returned
  BY DEF Init, Phase, Process, Returned, Logged, Streams
<1> QED BY <1>1 DEF Contract!Init, Phase, Process, Returned, Logged

LEMMA NumbersAreCounted ==
  ASSUME ShellIInv, NEW s \in Streams
  PROVE  /\ NumbersOf(s, stored[SliceOf(s)]) = Contract!UpTo(GotOf(s))
         /\ NumbersOf(s, printed) = Contract!UpTo(Got(s, printed))
<1>1. stored[SliceOf(s)] \in Seq(Lines) /\ printed \in Seq(Lines)
  BY SlicesAreStreams DEF ShellIInv, TypeOK
<1>2. Numbered(s, stored[SliceOf(s)]) /\ Numbered(s, printed)
  BY DEF ShellIInv, OutputInOrder
<1> QED BY <1>1, <1>2, NumbersInOrder DEF GotOf

\* While both goroutines are done, a call has printed what it has stored, and
\* that is no more than what the child wrote.
LEMMA FinishedCounts ==
  ASSUME ShellIInv, NEW s \in Streams, scan[s] \in {"eof", "failed"}
  PROVE  /\ NumbersOf(s, stored[SliceOf(s)]) = Contract!UpTo(GotOf(s))
         /\ NumbersOf(s, printed) = Contract!UpTo(GotOf(s))
         /\ GotOf(s) \in 0 .. written[s]
         /\ scan[s] = "eof" => GotOf(s) = written[s]
<1>1. Got(s, printed) = GotOf(s) /\ GotOf(s) \in Nat
  BY CountsAreNumbers DEF ShellIInv, LinesCounted
<1>2. GotOf(s) <= Taken(s) /\ (scan[s] = "eof" => Taken(s) = GotOf(s))
  BY <1>1 DEF ShellIInv, LinesCounted
<1>3. Len(pipe[s]) \in Nat /\ Len(pipe[s]) <= written[s] /\ written[s] \in Nat
  BY DEF ShellIInv, TypeOK, PipesInOrder
<1>4. Taken(s) <= written[s] /\ (scan[s] = "eof" => Taken(s) = written[s])
  <2>1. scan[s] = "eof" => pipe[s] = <<>>
    BY DEF ShellIInv, Phases
  <2>2. scan[s] = "eof" => Len(pipe[s]) = 0
    BY <2>1
  <2>3. written[s] - Len(pipe[s]) <= written[s] /\ written[s] - 0 = written[s]
        /\ written[s] - Len(pipe[s]) \in Int
    BY <1>3
  <2> QED BY <2>2, <2>3 DEF Taken
<1>5. GotOf(s) \in 0 .. written[s]
  <2>1. Taken(s) \in Int
    BY <1>3 DEF Taken
  <2> QED BY <1>1, <1>2, <1>3, <1>4, <2>1
<1> QED BY <1>1, <1>2, <1>4, <1>5, NumbersAreCounted

\* Every step of a command is one that the contract allows, or changes nothing
\* that it speaks of.
LEMMA ShellStepKeepsContract ==
  ShellIInv /\ [Next]_vars =>
    [Contract!Start \/ Contract!ChildStep \/ Contract!ReturnAll \/ Contract!ReturnSome]_(Contract!contractVars)
<1> SUFFICES ASSUME ShellIInv, [Next]_vars
             PROVE  \/ Contract!Start \/ Contract!ChildStep \/ Contract!ReturnAll
                    \/ Contract!ReturnSome \/ UNCHANGED Contract!contractVars
  OBVIOUS
<1>1. TypeOK /\ Phases
  BY DEF ShellIInv
<1> DEFINE same == UNCHANGED <<Phase, result, Process, written, Returned, Logged>>
<1>2. ASSUME same PROVE UNCHANGED Contract!contractVars
  BY <1>2 DEF Contract!contractVars, Phase, Process, Returned, Logged
<1>3. ASSUME UNCHANGED <<shared, stored, printed>>, UNCHANGED pc \/ (pc # "returned" /\ pc' # "returned")
      PROVE  Returned' = Returned /\ Logged' = Logged
  BY <1>3 DEF Returned, Logged, SliceOf
<1>4. CASE UNCHANGED vars
  <2>1. same
    BY <1>4 DEF vars, callVars, childVars, scanVars, Phase, Process, Returned, Logged, SliceOf
  <2> QED BY <1>2, <2>1
<1>5. CASE Start
  <2>1. pc = "new" /\ UNCHANGED <<shared, written, stored, printed>>
    BY <1>5 DEF Start
  <2>2. \A s \in Streams : scan[s] = "off" /\ written[s] = 0 /\ child = "none"
    BY <1>1, <2>1 DEF Phases
  <2>3. Returned = [s \in Streams |-> <<>>] /\ Logged = [s \in Streams |-> <<>>]
    BY <2>1 DEF Returned, Logged
  <2>4. \A s \in Streams : /\ NumbersOf(s, stored[SliceOf(s)]) = <<>>
                           /\ NumbersOf(s, printed) = <<>>
    <3>1. ASSUME NEW s \in Streams PROVE GotOf(s) = 0 /\ Got(s, printed) = 0
      <4>1. Taken(s) = GotOf(s) /\ Got(s, printed) = GotOf(s) /\ GotOf(s) \in Nat
        BY <1>1, <2>2, CountsAreNumbers DEF ShellIInv, LinesCounted
      <4>2. Len(pipe[s]) \in Nat /\ Len(pipe[s]) <= 0
        BY <1>1, <2>2 DEF ShellIInv, TypeOK, PipesInOrder
      <4>3. 0 - Len(pipe[s]) = 0
        BY <4>2
      <4> QED BY <2>2, <4>1, <4>3 DEF Taken
    <3>2. Contract!UpTo(0) = <<>>
      BY DEF Contract!UpTo
    <3> QED BY <3>1, <3>2, NumbersAreCounted
  <2>5. Returned' = Returned /\ Logged' = Logged
    <3>1. \A s \in Streams : SliceOf(s)' = SliceOf(s)
      BY <2>1 DEF SliceOf
    <3>2. Returned' = [s \in Streams |-> <<>>] /\ Logged' = [s \in Streams |-> <<>>]
      BY <2>1, <2>4, <3>1 DEF Returned, Logged
    <3> QED BY <2>3, <3>2
  <2>6. Phase = "new"
    BY <2>1 DEF Phase
  <2>7. \/ Phase' = "running" /\ Process' = "alive" /\ result' = result
        \/ Phase' = "returned" /\ result' = "startError" /\ Process' = Process
    BY <1>5 DEF Start, Return, Phase, Process
  <2>8. Contract!Start
    BY <2>1, <2>5, <2>6, <2>7 DEF Contract!Start, Phase, Process, Returned, Logged
  <2> QED BY <2>8
<1>6. CASE EndReading
  <2>1. /\ pc = "reading" /\ \A s \in Streams : scan[s] \in {"eof", "failed"}
        /\ UNCHANGED <<shared, child, written, stored, printed>>
    BY <1>6 DEF EndReading, Finished, childVars, scanVars
  <2>2. CASE pc' = "returned" /\ result' = "scanError"
    <3>1. ASSUME NEW s \in Streams
          PROVE  /\ Returned'[s] = Contract!UpTo(GotOf(s)) /\ Logged'[s] = Contract!UpTo(GotOf(s))
                 /\ GotOf(s) \in 0 .. written[s]
      <4>1. SliceOf(s)' = SliceOf(s)
        BY <2>1 DEF SliceOf
      <4> QED BY <2>1, <2>2, <4>1, FinishedCounts DEF Returned, Logged
    <3>2. written["stdout"] \in Nat /\ written["stderr"] \in Nat /\ DOMAIN written = Streams
      BY <1>1, ShellAssumption DEF TypeOK, Streams
    <3>3. \A s \in Streams : GotOf(s) \in 0 .. written["stdout"] + written["stderr"]
      BY <3>1, <3>2 DEF Streams
    <3>4. Returned' \in [Streams -> {Contract!UpTo(k) : k \in 0 .. written["stdout"] + written["stderr"]}]
      <4>1. Returned' = [s \in Streams |-> Returned'[s]]
        BY DEF Returned
      <4> QED BY <3>1, <3>3, <4>1
    <3>5. \A s \in Streams : Returned'[s] \in {Contract!UpTo(k) : k \in 0 .. written[s]}
      BY <3>1
    <3>6. Logged' = Returned'
      <4>1. Returned' = [s \in Streams |-> Returned'[s]] /\ Logged' = [s \in Streams |-> Logged'[s]]
        BY DEF Returned, Logged
      <4> QED BY <3>1, <4>1
    <3>7. Phase = "running" /\ Phase' = "returned" /\ Process' = Process
      BY <2>1, <2>2 DEF Phase, Process
    <3>8. Contract!ReturnSome
      BY <2>1, <2>2, <3>2, <3>4, <3>5, <3>6, <3>7
      DEF Contract!ReturnSome, Phase, Process, Returned, Logged
    <3> QED BY <3>8
  <2>3. CASE pc' = "waiting" /\ result' = result
    <3>1. same
      BY <1>3, <2>1, <2>3 DEF Phase, Process
    <3> QED BY <1>2, <3>1
  <2> QED BY <1>6, <2>2, <2>3 DEF EndReading, Return
<1>7. CASE WaitForChild
  <2>1. /\ pc = "waiting" /\ child = "exited" /\ child' = "reaped" /\ pc' = "returned"
        /\ result' \in {"nil", "exitError"} /\ UNCHANGED <<shared, written, stored, printed>>
    BY <1>7 DEF WaitForChild, Return, scanVars
  <2>2. ASSUME NEW s \in Streams
        PROVE  /\ Returned'[s] = Contract!UpTo(written[s]) /\ Logged'[s] = Contract!UpTo(written[s])
    <3>1. SliceOf(s)' = SliceOf(s)
      BY <2>1 DEF SliceOf
    <3>2. scan[s] = "eof"
      BY <1>1, <2>1 DEF Phases
    <3> QED BY <2>1, <3>1, <3>2, FinishedCounts DEF Returned, Logged
  <2>3. DOMAIN written = Streams
    BY <1>1 DEF TypeOK
  <2>4. Returned' = [s \in Streams |-> Contract!UpTo(written[s])] /\ Logged' = Returned'
    <3>1. Returned' = [s \in Streams |-> Returned'[s]] /\ Logged' = [s \in Streams |-> Logged'[s]]
      BY DEF Returned, Logged
    <3> QED BY <2>2, <3>1
  <2>5. /\ Phase = "running" /\ Phase' = "returned"
        /\ Process = "exited" /\ Process' = "reaped"
    BY <2>1 DEF Phase, Process, Streams
  <2>6. Contract!ReturnAll
    BY <2>1, <2>3, <2>4, <2>5 DEF Contract!ReturnAll, Phase, Process, Returned, Logged
  <2> QED BY <2>6
<1>8. CASE ExitChild
  <2>1. /\ child = "running" /\ child' = "exited"
        /\ UNCHANGED <<shared, pc, result, written, stored, printed>>
    BY <1>8 DEF ExitChild, callVars, scanVars
  <2>2. Process = "alive" /\ Process' = "exited" /\ Phase' = Phase
    BY <2>1 DEF Process, Phase, Streams
  <2>3. Returned' = Returned /\ Logged' = Logged
    BY <1>3, <2>1
  <2>4. Contract!ChildStep
    BY <2>1, <2>2, <2>3 DEF Contract!ChildStep, Phase, Process, Returned, Logged
  <2> QED BY <2>4
<1>9. ASSUME NEW s \in Streams, WriteLine(s)
      PROVE  Contract!ChildStep
  <2>1. /\ child = s /\ child' = "running" /\ written' = [written EXCEPT ![s] = @ + 1]
        /\ UNCHANGED <<shared, pc, result, stored, printed>>
    BY <1>9 DEF WriteLine, callVars, scanVars
  <2>2. Process = "alive" /\ Process' = "alive" /\ Phase' = Phase
    BY <2>1 DEF Process, Phase
  <2>3. Returned' = Returned /\ Logged' = Logged
    BY <1>3, <2>1
  <2>4. s \in DOMAIN written
    BY <1>1 DEF TypeOK
  <2> QED BY <2>1, <2>2, <2>3, <2>4 DEF Contract!ChildStep, Phase, Process, Returned, Logged
<1>10. ASSUME NEW s \in Streams, BeginWrite(s)
       PROVE  same
  <2>1. child = "running" /\ child' = s /\ UNCHANGED <<shared, pc, result, written, stored, printed>>
    BY <1>10 DEF BeginWrite, callVars, scanVars
  <2> QED BY <1>3, <2>1 DEF Phase, Process
<1>11. ASSUME NEW s \in Streams, ReaderStep(s) \/ LockOutput(s)
       PROVE  same
  <2>1. UNCHANGED <<shared, pc, result, child, written>>
    BY <1>11 DEF ReaderStep, ScanLine, ScanEnd, PrintLine, LockOutput, StoreLine, callVars, childVars
  <2>2. pc = "reading"
    <3>1. scan[s] \in {"scanning", "printing", "locking", "storing"}
      BY <1>11 DEF ReaderStep, ScanLine, ScanEnd, PrintLine, LockOutput, StoreLine
    <3> QED BY <1>1, <3>1 DEF Phases
  <2> QED BY <2>1, <2>2 DEF Phase, Process, Returned, Logged
<1> QED BY <1>2, <1>4, <1>5, <1>6, <1>7, <1>8, <1>9, <1>10, <1>11 DEF Next

-----------------------------------------------------------------------------
(* Folders *)

Paths == DOMAIN Tree \union DOMAIN Volatile

\* What a copy is to have.
Wanted == {p \in DOMAIN Tree : ~hiddenRoot /\ (copyOf = "terraform" => BaseName(p) # VarsName)}

\* The code stays where it is.
SourceHasTree == DOMAIN Tree \subseteq source /\ source \subseteq Paths

\* What is still to be copied is in a listing, or below a folder that is still
\* to be copied.
StillToCome ==
  \A p \in Wanted \ target :
    (\E i \in 1 .. Len(stack) : p \in stack[i]) \/ (Len(p) > 1 /\ Parent(p) \notin target)

FoldersIInv ==
  /\ SourceHasTree
  /\ stack \in Seq(SUBSET Paths)
  /\ target \subseteq Wanted
  /\ copier = "copying" => Len(stack) > 0 /\ StillToCome
  /\ copier = "new" => target = {}
  /\ CopyIsClean

LEMMA PathFacts ==
  ASSUME NEW p \in Paths
  PROVE  p \in Seq(STRING) /\ Len(p) \in Nat /\ Len(p) > 0 /\ DOMAIN p = 1 .. Len(p)
<1>1. p \in Seq(STRING) /\ p # <<>>
  BY FoldersAssumption DEF Paths
<1> QED BY <1>1

\* The filter takes what is wanted, and nothing else that may be listed.
LEMMA FilterTakesWanted ==
  ASSUME NEW p \in Paths
  PROVE  Filter(p) <=> p \in Wanted
<1>1. Len(p) \in DOMAIN p
  BY PathFacts
<1>2. CASE p \in DOMAIN Tree
  <2>1. \A i \in DOMAIN p : p[i] \notin HiddenNames \union StateNames
    BY <1>2, FoldersAssumption
  <2>2. BaseName(p) \notin StateNames
    BY <1>1, <2>1 DEF BaseName
  <2> QED BY <1>2, <2>1, <2>2 DEF Filter, IsHidden, Wanted
<1>3. CASE p \notin DOMAIN Tree
  <2>1. BaseName(p) \in StateNames \/ \E i \in DOMAIN p : p[i] \in HiddenNames
    BY <1>3, FoldersAssumption DEF Paths
  <2> QED BY <1>3, <2>1 DEF Filter, IsHidden, Wanted
<1> QED BY <1>2, <1>3

\* A folder of what is wanted is wanted, too.
LEMMA ParentIsWanted ==
  ASSUME NEW p \in Wanted, Len(p) > 1
  PROVE  /\ Parent(p) \in Wanted /\ Kind(Parent(p)) = "dir"
         /\ Len(p) = Len(Parent(p)) + 1
<1>1. p \in DOMAIN Tree /\ p \in Paths
  BY DEF Wanted, Paths
<1>2. Parent(p) \in DOMAIN Tree /\ Tree[Parent(p)] = "dir"
  BY <1>1, FoldersAssumption
<1>3. BaseName(Parent(p)) # VarsName
  BY <1>2, FoldersAssumption
<1>4. Parent(p) \in Wanted
  BY <1>2, <1>3 DEF Wanted
<1>5. Kind(Parent(p)) = "dir"
  BY <1>2 DEF Kind
<1>6. p \in Seq(STRING) /\ Len(p) \in Nat
  BY <1>1, PathFacts
<1>7. Len(SubSeq(p, 1, Len(p) - 1)) = Len(p) - 1
  BY <1>6
<1> QED BY <1>4, <1>5, <1>6, <1>7 DEF Parent

\* When no listing is left, everything is copied: what is not, and has the
\* shortest path, would be in a folder that is.
LEMMA NothingIsLeftOut ==
  ASSUME target \subseteq Wanted, StillToCome, \A i \in 1 .. Len(stack) : stack[i] = {}
  PROVE  target = Wanted
<1> SUFFICES ASSUME Wanted \ target # {} PROVE FALSE
  OBVIOUS
<1> DEFINE T == {Len(p) : p \in Wanted \ target}
<1>1. T \in SUBSET Nat
  <2>1. Wanted \subseteq Paths
    BY DEF Wanted, Paths
  <2> QED BY <2>1, PathFacts
<1>2. T # {}
  OBVIOUS
<1>3. PICK k \in T : \A y \in T : k <= y
  <2> HIDE DEF T
  <2> QED BY <1>1, <1>2, LeastNatural
<1>4. PICK p \in Wanted \ target : Len(p) = k
  BY <1>3
<1>5. Len(p) > 1 /\ Parent(p) \notin target
  BY <1>4 DEF StillToCome
<1>6. Parent(p) \in Wanted /\ Len(p) = Len(Parent(p)) + 1
  BY <1>4, <1>5, ParentIsWanted
<1>7. Len(Parent(p)) \in T
  BY <1>5, <1>6
<1>8. Len(Parent(p)) \in Nat /\ k \in Nat
  BY <1>1, <1>3, <1>7
<1> QED BY <1>3, <1>4, <1>6, <1>7, <1>8

LEMMA FoldersStart == FoldersInit => FoldersIInv
<1> SUFFICES ASSUME FoldersInit PROVE FoldersIInv
  OBVIOUS
<1>1. <<>> \in Seq(SUBSET Paths)
  <2>1. \A S : <<>> \in Seq(S)
    OBVIOUS
  <2> QED BY <2>1
<1>2. DOMAIN Tree \subseteq source /\ source \subseteq DOMAIN Tree \union DOMAIN Volatile
  BY DEF FoldersInit, FoldersWithCode
<1> QED BY <1>1, <1>2 DEF FoldersInit, FoldersIInv, SourceHasTree, Paths, CopyIsClean

\* A tree path is not below one that comes and goes.
LEMMA TreeIsNotRemoved ==
  ASSUME NEW p \in DOMAIN Volatile, NEW q \in DOMAIN Tree
  PROVE  ~IsPrefix(p, q)
<1> SUFFICES ASSUME IsPrefix(p, q) PROVE FALSE
  OBVIOUS
<1>1. /\ p \in Seq(STRING) /\ Len(p) \in Nat /\ Len(p) > 0 /\ DOMAIN p = 1 .. Len(p)
      /\ q \in Seq(STRING) /\ Len(q) \in Nat /\ DOMAIN q = 1 .. Len(q)
  BY PathFacts DEF Paths
<1>2. Len(p) <= Len(q) /\ SubSeq(p, 1, Len(p)) = SubSeq(q, 1, Len(p))
  BY DEF IsPrefix
<1>3. ASSUME NEW i \in 1 .. Len(p) PROVE p[i] = q[i]
  <2>1. SubSeq(p, 1, Len(p))[i] = p[i] /\ SubSeq(q, 1, Len(p))[i] = q[i]
    BY <1>1, <1>2
  <2> QED BY <1>2, <2>1
<1>4. PICK i \in 1 .. Len(p) : p[i] \in HiddenNames \union StateNames
  <2>1. BaseName(p) \in StateNames \/ \E i \in DOMAIN p : p[i] \in HiddenNames
    BY FoldersAssumption
  <2> QED BY <1>1, <2>1 DEF BaseName
<1>5. i \in DOMAIN q /\ q[i] \in HiddenNames \union StateNames
  BY <1>1, <1>2, <1>3, <1>4
<1> QED BY <1>5, FoldersAssumption

LEMMA WithoutLast ==
  ASSUME NEW S, NEW q \in Seq(S), Len(q) > 0
  PROVE  /\ SubSeq(q, 1, Len(q) - 1) \in Seq(S)
         /\ Len(SubSeq(q, 1, Len(q) - 1)) = Len(q) - 1
         /\ \A i \in 1 .. Len(q) - 1 : SubSeq(q, 1, Len(q) - 1)[i] = q[i]
<1>1. Len(q) \in Nat /\ Len(q) - 1 \in 0 .. Len(q) /\ \A i \in 1 .. Len(q) - 1 : q[i] \in S
  OBVIOUS
<1>2. SubSeq(q, 1, Len(q) - 1) = [i \in 1 .. Len(q) - 1 |-> q[i]]
  BY <1>1
<1>3. [i \in 1 .. Len(q) - 1 |-> q[i]] \in Seq(S)
  BY <1>1
<1>4. Len([i \in 1 .. Len(q) - 1 |-> q[i]]) = Len(q) - 1
  BY <1>1
<1> QED BY <1>2, <1>3, <1>4

LEMMA FoldersStep == FoldersIInv /\ FoldersNext => FoldersIInv'
<1> SUFFICES ASSUME FoldersIInv, FoldersNext PROVE FoldersIInv'
  OBVIOUS
<1>1. /\ SourceHasTree /\ stack \in Seq(SUBSET Paths) /\ target \subseteq Wanted
      /\ copier = "copying" => Len(stack) > 0 /\ StillToCome
      /\ copier = "new" => target = {}
  BY DEF FoldersIInv
<1>2. UNCHANGED <<copyOf, hiddenRoot>> /\ Wanted' = Wanted
  <2>1. UNCHANGED <<copyOf, hiddenRoot>>
    BY DEF FoldersNext, BeginCopy, CopyEntry, EndListing, WorkInOriginal
  <2> QED BY <2>1 DEF Wanted
<1>3. Wanted \subseteq Paths /\ Wanted \subseteq DOMAIN Tree
  BY DEF Wanted, Paths
<1>4. ASSUME copier' = "failed", UNCHANGED <<source, stack, target>> PROVE FoldersIInv'
  BY <1>1, <1>2, <1>4 DEF FoldersIInv, SourceHasTree, CopyIsClean
<1>5. CASE BeginCopy
  <2>1. copier = "new" /\ target = {} /\ source' = source
    BY <1>1, <1>5 DEF BeginCopy
  <2>2. CASE Fail
    BY <1>4, <2>1, <2>2 DEF Fail
  <2>3. CASE copier' = "copying" /\ stack' = <<Listing(<<>>)>> /\ target' = target
    <3>1. Listing(<<>>) \in SUBSET Paths
      BY <1>1 DEF Listing, SourceHasTree
    <3>2. stack' \in Seq(SUBSET Paths) /\ Len(stack') = 1 /\ stack'[1] = Listing(<<>>)
      BY <2>3, <3>1
    <3>3. ASSUME NEW p \in Wanted, ~(Len(p) > 1) PROVE p \in Listing(<<>>)
      <4>1. p \in Seq(STRING) /\ Len(p) = 1
        <5>1. p \in Paths
          BY <1>3
        <5>2. p \in Seq(STRING) /\ Len(p) \in Nat /\ Len(p) > 0
          BY <5>1, PathFacts
        <5>3. \A n \in Nat : n > 0 /\ ~(n > 1) => n = 1
          OBVIOUS
        <5> QED BY <3>3, <5>2, <5>3
      <4>2. Parent(p) = <<>>
        BY <4>1 DEF Parent
      <4>3. Len(<<>>) = 0
        OBVIOUS
      <4> QED BY <1>1, <1>3, <4>1, <4>2, <4>3 DEF Listing, SourceHasTree
    <3>4. StillToCome'
      BY <1>2, <2>1, <2>3, <3>2, <3>3 DEF StillToCome
    <3> QED BY <1>1, <1>2, <2>1, <2>3, <3>2, <3>4 DEF FoldersIInv, SourceHasTree, CopyIsClean
  <2> QED BY <1>5, <2>2, <2>3 DEF BeginCopy
<1>6. CASE CopyEntry
  <2>1. /\ copier = "copying" /\ Len(stack) \in Nat /\ Len(stack) > 0 /\ StillToCome
        /\ source' = source
    BY <1>1, <1>6 DEF CopyEntry
  <2> DEFINE n == Len(stack)
  <2>2. PICK p \in stack[n] :
          LET rest == [stack EXCEPT ![n] = @ \ {p}]
          IN  \/ ~Filter(p) /\ stack' = rest /\ UNCHANGED <<target, copier>>
              \/ /\ Filter(p) /\ p \in source
                 /\ target' = target \union {p}
                 /\ stack' = IF Kind(p) = "dir" THEN Append(rest, Listing(p)) ELSE rest
                 /\ UNCHANGED copier
              \/ Filter(p) /\ Fail
    BY <1>6 DEF CopyEntry
  <2> DEFINE rest == [stack EXCEPT ![n] = @ \ {p}]
  <2>3. p \in Paths
    BY <1>1, <2>1, <2>2
  <2>4. /\ rest \in Seq(SUBSET Paths) /\ Len(rest) = n
        /\ \A i \in 1 .. n : \A q \in stack[i] : q # p => q \in rest[i]
    BY <1>1, <2>1
  <2>5. CASE ~Filter(p) /\ stack' = rest /\ UNCHANGED <<target, copier>>
    <3>1. p \notin Wanted
      BY <2>3, <2>5, FilterTakesWanted
    <3>2. StillToCome'
      BY <1>2, <2>1, <2>4, <2>5, <3>1 DEF StillToCome
    <3> QED BY <1>1, <1>2, <2>1, <2>4, <2>5, <3>2 DEF FoldersIInv, SourceHasTree, CopyIsClean
  <2>6. CASE /\ Filter(p) /\ target' = target \union {p} /\ copier' = copier
             /\ stack' = IF Kind(p) = "dir" THEN Append(rest, Listing(p)) ELSE rest
    <3>1. p \in Wanted
      BY <2>3, <2>6, FilterTakesWanted
    <3>2. Listing(p) \in SUBSET Paths
      BY <1>1 DEF Listing, SourceHasTree
    <3>3. /\ stack' \in Seq(SUBSET Paths) /\ Len(stack') >= n /\ Len(stack') \in Nat
          /\ \A i \in 1 .. n : stack'[i] = rest[i]
          /\ Kind(p) = "dir" => Len(stack') = n + 1 /\ stack'[n + 1] = Listing(p)
      <4> HIDE DEF rest
      <4>1. CASE Kind(p) = "dir"
        <5>1. stack' = Append(rest, Listing(p))
          BY <2>6, <4>1
        <5> QED BY <2>1, <2>4, <3>2, <5>1
      <4>2. CASE Kind(p) # "dir"
        BY <2>1, <2>4, <2>6, <4>2
      <4> QED BY <4>1, <4>2
    <3>4. ASSUME NEW q \in Wanted \ target'
          PROVE  (\E i \in 1 .. Len(stack') : q \in stack'[i]) \/ (Len(q) > 1 /\ Parent(q) \notin target')
      <4>1. q \in Wanted \ target /\ q # p
        BY <2>6, <3>4
      <4>2. CASE \E i \in 1 .. n : q \in stack[i]
        <5>1. PICK i \in 1 .. n : q \in stack[i]
          BY <4>2
        <5> HIDE DEF rest
        <5>2. q \in rest[i]
          BY <2>4, <4>1, <5>1
        <5>3. q \in stack'[i]
          BY <3>3, <5>1, <5>2
        <5>4. i \in 1 .. Len(stack')
          BY <2>1, <3>3, <5>1
        <5> QED BY <5>3, <5>4
      <4>3. CASE Len(q) > 1 /\ Parent(q) \notin target /\ Parent(q) # p
        BY <2>6, <4>3
      <4>4. CASE Len(q) > 1 /\ Parent(q) = p
        <5>1. Kind(p) = "dir" /\ Len(q) = Len(p) + 1
          BY <4>1, <4>4, ParentIsWanted
        <5>2. q \in Listing(p)
          BY <1>1, <1>3, <4>1, <4>4, <5>1 DEF Listing, SourceHasTree
        <5>3. n + 1 \in 1 .. Len(stack') /\ q \in stack'[n + 1]
          BY <2>1, <3>3, <5>1, <5>2
        <5> QED BY <5>3
      <4> QED BY <2>1, <4>1, <4>2, <4>3, <4>4 DEF StillToCome
    <3>5. StillToCome'
      BY <1>2, <3>4 DEF StillToCome
    <3>6. Len(stack') > 0
      BY <2>1, <3>3
    <3> QED BY <1>1, <1>2, <2>1, <2>6, <3>1, <3>3, <3>5, <3>6
            DEF FoldersIInv, SourceHasTree, CopyIsClean
  <2>7. CASE Fail
    BY <1>4, <2>1, <2>7 DEF Fail
  <2> QED BY <2>2, <2>5, <2>6, <2>7
<1>7. CASE EndListing
  <2>1. /\ copier = "copying" /\ Len(stack) \in Nat /\ Len(stack) > 0 /\ StillToCome
        /\ stack[Len(stack)] = {}
        /\ stack' = SubSeq(stack, 1, Len(stack) - 1)
        /\ copier' = (IF Len(stack) = 1 THEN "copied" ELSE "copying")
        /\ UNCHANGED <<source, target>>
    BY <1>1, <1>7 DEF EndListing
  <2>2. /\ stack' \in Seq(SUBSET Paths) /\ Len(stack') = Len(stack) - 1
        /\ \A i \in 1 .. Len(stack) - 1 : stack'[i] = stack[i]
    BY <1>1, <2>1, WithoutLast
  <2>3. CASE Len(stack) = 1
    <3>1. target = Wanted
      <4>1. \A i \in 1 .. Len(stack) : stack[i] = {}
        BY <2>1, <2>3
      <4> QED BY <1>1, <2>1, <4>1, NothingIsLeftOut
    <3>2. CopyIsClean'
      BY <1>2, <2>1, <3>1 DEF CopyIsClean, Wanted
    <3> QED BY <1>1, <1>2, <2>1, <2>2, <2>3, <3>2 DEF FoldersIInv, SourceHasTree
  <2>4. CASE Len(stack) > 1
    <3>1. ASSUME NEW q \in Wanted \ target, NEW i \in 1 .. Len(stack), q \in stack[i]
          PROVE  i \in 1 .. Len(stack') /\ q \in stack'[i]
      BY <2>1, <2>2, <3>1
    <3>2. StillToCome'
      BY <1>2, <2>1, <3>1 DEF StillToCome
    <3>3. Len(stack') > 0 /\ copier' = "copying"
      BY <2>1, <2>2, <2>4
    <3> QED BY <1>1, <1>2, <2>1, <2>2, <3>2, <3>3 DEF FoldersIInv, SourceHasTree, CopyIsClean
  <2>5. Len(stack) = 1 \/ Len(stack) > 1
    <3>1. \A n \in Nat : n > 0 => n = 1 \/ n > 1
      OBVIOUS
    <3> QED BY <2>1, <3>1
  <2> QED BY <2>3, <2>4, <2>5
<1>8. CASE WorkInOriginal
  <2>1. copier \in {"new", "copying"} /\ UNCHANGED <<stack, target, copier>>
    BY <1>8 DEF WorkInOriginal
  <2>2. SourceHasTree'
    <3>1. PICK p \in DOMAIN Volatile :
            source' = source \union {p} \/ source' = {q \in source : ~IsPrefix(p, q)}
      BY <1>8 DEF WorkInOriginal
    <3>2. CASE source' = source \union {p}
      BY <1>1, <3>2 DEF SourceHasTree, Paths
    <3>3. CASE source' = {q \in source : ~IsPrefix(p, q)}
      BY <1>1, <3>1, <3>3, TreeIsNotRemoved DEF SourceHasTree
    <3> QED BY <3>1, <3>2, <3>3
  <2>3. copier = "copying" => StillToCome'
    BY <1>1, <1>2, <2>1 DEF StillToCome
  <2> QED BY <1>1, <1>2, <2>1, <2>2, <2>3 DEF FoldersIInv, CopyIsClean
<1> QED BY <1>5, <1>6, <1>7, <1>8 DEF FoldersNext

-----------------------------------------------------------------------------
(* The calls side by side: a step is one of the tool that is used, and leaves *)
(* the others as they were.                                                   *)

commandsVars == <<tool, vars, tfVars, packerVars, sshVars, folderVars>>

LEMMA CommandsStepIsOnePart ==
  [CommandsNext]_commandsVars =>
    /\ TfNext \/ UNCHANGED tfVars
    /\ PackerNext \/ UNCHANGED packerVars
    /\ SshNext \/ UNCHANGED sshVars
    /\ Next \/ UNCHANGED vars
    /\ FoldersNext \/ UNCHANGED folderVars
BY DEF CommandsNext, commandsVars

\* Whatever fails and is retried, and whatever another test does in a folder
\* that is shared, a terraform call without an error has done what it is for
\* (modules/terraform).
THEOREM TerraformCallsAreDone == CommandsSpec => []TerraformIsDone
<1>1. CommandsInit => TfIInv
  BY TfStart DEF CommandsInit
<1>2. TfIInv /\ [CommandsNext]_commandsVars => TfIInv'
  <2>1. TfIInv /\ UNCHANGED tfVars => TfIInv'
    BY DEF tfVars, tfCallVars, TfIInv, ProgramCounted, DoneLasts, TerraformIsDone
  <2> QED BY <2>1, TfStep, CommandsStepIsOnePart
<1>3. TfIInv => TerraformIsDone
  BY DEF TfIInv
<1> QED BY <1>1, <1>2, <1>3, PTL DEF CommandsSpec, commandsVars

\* However many artifacts are built at a time and however their unlocked writes
\* race, the answer of BuildArtifactsE is right (packer.go:53-76).
THEOREM RacingBuildsAreAnswered == CommandsSpec => []BuildsAreAnswered
<1>1. CommandsInit => PackerIInv
  BY PackerStart DEF CommandsInit
<1>2. PackerIInv /\ [CommandsNext]_commandsVars => PackerIInv'
  <2>1. PackerIInv /\ UNCHANGED packerVars => PackerIInv'
    BY DEF packerVars, PackerIInv, PackerTypes, FailedSoFar, WritesAreTheirs, Unfinished, Wrote,
           BuildsAreAnswered
  <2> QED BY <2>1, PackerStep, CommandsStepIsOnePart
<1>3. PackerIInv => BuildsAreAnswered
  BY DEF PackerIInv
<1> QED BY <1>1, <1>2, <1>3, PTL DEF CommandsSpec, commandsVars

\* Wherever a call over ssh fails, it leaves nothing open that its SshSession
\* refers to, and a directory of any number of files is copied without an error
\* only if each was connected for and written (ssh.go, session.go:30-32).
THEOREM SshLeavesNothingOpen == CommandsSpec => []SshCallsEndWell
<1>1. CommandsInit => SshIInv
  BY SshStart DEF CommandsInit
<1>2. SshIInv /\ [CommandsNext]_commandsVars => SshIInv'
  <2>1. ASSUME SshIInv, UNCHANGED sshVars PROVE SshIInv'
    <3>1. SshTypes' /\ NotYetOpen' /\ CopyProgress'
      BY <2>1 DEF sshVars, SshIInv, SshTypes, NotYetOpen, CopyProgress
    <3>2. OpenIsReferred'
      BY <2>1 DEF sshVars, SshIInv, OpenIsReferred, Referred
    <3> QED BY <3>1, <3>2 DEF SshIInv
  <2> QED BY <2>1, SshStep, CommandsStepIsOnePart
<1> QED BY <1>1, <1>2, SshEnds, PTL DEF CommandsSpec, commandsVars

\* A command that ran to its exit returns, once and in order, every line of
\* however many its child wrote to either stream, and leaves no child; one that
\* could not be read returns the beginning (shell/command.go:86-161): what
\* terraform, packer, kubectl and helm are modelled on.
THEOREM CommandsKeepTheContract == CommandsSpec => KeepsContract
<1>1. CommandsInit => Init
  BY DEF CommandsInit
<1>2. [CommandsNext]_commandsVars => [Next]_vars
  BY CommandsStepIsOnePart
<1>3. Init => ShellIInv /\ Contract!Init
  BY ShellStart, ShellStartsContract
<1> QED BY <1>1, <1>2, <1>3, ShellStep, ShellStepKeepsContract, PTL
        DEF CommandsSpec, commandsVars, KeepsContract, Contract!Spec

\* A copy of a folder of any depth has the whole code and nothing hidden and no
\* state, whatever the other test makes and removes meanwhile (files.go:27-131).
THEOREM CopiesAreClean == CommandsSpec => []CopyIsClean
<1>1. CommandsInit => FoldersIInv
  BY FoldersStart DEF CommandsInit
<1>2. FoldersIInv /\ [CommandsNext]_commandsVars => FoldersIInv'
  <2>1. FoldersIInv /\ UNCHANGED folderVars => FoldersIInv'
    BY DEF folderVars, FoldersIInv, SourceHasTree, StillToCome, Wanted, CopyIsClean
  <2> QED BY <2>1, FoldersStep, CommandsStepIsOnePart
<1>3. FoldersIInv => CopyIsClean
  BY DEF FoldersIInv
<1> QED BY <1>1, <1>2, <1>3, PTL DEF CommandsSpec, commandsVars

=============================================================================
