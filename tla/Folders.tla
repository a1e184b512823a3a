------------------------------ MODULE Folders ------------------------------
(***************************************************************************)
(* modules/files: a test copies a folder of Terraform or Terragrunt code   *)
(* to a temp folder of its own, without state and hidden files, while      *)
(* another test works in the original: it makes and removes such files.    *)
(***************************************************************************)
EXTENDS FiniteSets, Integers, SequencesExt

CONSTANTS
  Tree,         \* the code: the kind of each path, "dir", "file" or "link"
  Volatile,     \* the same for what the other test makes and removes
  HiddenNames,  \* names that begin with a dot
  StateNames,   \* terraform.tfstate and terraform.tfstate.backup
  VarsName      \* terraform.tfvars

BaseName(p) == p[Len(p)]

Parent(p) == SubSeq(p, 1, Len(p) - 1)

\* The code has folders for its files, none of them called terraform.tfvars, and
\* nothing hidden and no state; what comes and goes is one or the other.
ASSUME FoldersAssumption ==
  /\ \A p \in DOMAIN Tree \union DOMAIN Volatile : p \in Seq(STRING) /\ p # <<>>
  /\ \A p \in DOMAIN Tree :
       /\ \A i \in DOMAIN p : p[i] \notin HiddenNames \union StateNames
       /\ Len(p) > 1 => Parent(p) \in DOMAIN Tree /\ Tree[Parent(p)] = "dir"
       /\ Tree[p] = "dir" => BaseName(p) # VarsName
  /\ \A p \in DOMAIN Volatile :
       BaseName(p) \in StateNames \/ \E i \in DOMAIN p : p[i] \in HiddenNames

VARIABLES
  copyOf,     \* "terraform" or "terragrunt"
  hiddenRoot, \* whether the path of the folder itself has a hidden part
  source,     \* the paths that exist in it
  stack,      \* what is left to copy of each listing that was read
  target,     \* the paths of the copy
  copier      \* "new", "copying", "copied", "failed"

folderVars == <<copyOf, hiddenRoot, source, stack, target, copier>>

Kind(p) == IF p \in DOMAIN Tree THEN Tree[p] ELSE Volatile[p]

\* What the folder can hold: the code, and of the other things any that have
\* their folder.
FoldersWithCode ==
  {DOMAIN Tree \union v : v \in {u \in SUBSET DOMAIN Volatile :
     \A p \in u : Len(p) = 1 \/ Parent(p) \in DOMAIN Tree \union u}}

\* Terraform may have run in the folder before.
FoldersInit ==
  /\ copyOf \in {"terraform", "terragrunt"}
  /\ hiddenRoot \in BOOLEAN
  /\ source \in FoldersWithCode
  /\ stack = <<>> /\ target = {} /\ copier = "new"

-----------------------------------------------------------------------------

IsHidden_ButTheName(p) ==
  hiddenRoot \/ \E i \in DOMAIN p : i < Len(p) /\ p[i] \in HiddenNames

\* PathContainsHiddenFileOrFolder looks at the whole path, from the one that the
\* caller gave.
IsHidden(p) == hiddenRoot \/ \E i \in DOMAIN p : p[i] \in HiddenNames

\* Terragrunt uses variable files to specify modules, so that they are copied.
Filter(p) ==
  /\ ~IsHidden(p)
  /\ BaseName(p) \notin StateNames
  /\ copyOf = "terraform" => BaseName(p) # VarsName

Listing(p) == {q \in source : Len(q) = Len(p) + 1 /\ Parent(q) = p}

Fail == copier' = "failed" /\ UNCHANGED <<stack, target>>

\* CopyFolderToTemp makes the temp folder and a folder in it.
BeginCopy ==
  /\ copier = "new"
  /\ \/ copier' = "copying" /\ stack' = <<Listing(<<>>)>> /\ UNCHANGED target
     \/ Fail
  /\ UNCHANGED <<copyOf, hiddenRoot, source>>

\* CopyFolderContentsWithFilter takes the next entry of the listing it has read;
\* a folder is listed when its turn comes. Which entry is next, here any, is the
\* order of the names.
CopyEntry ==
  /\ copier = "copying" /\ stack[Len(stack)] # {}
  /\ \E p \in stack[Len(stack)] :
       LET rest == [stack EXCEPT ![Len(stack)] = @ \ {p}]
       IN  \/ ~Filter(p) /\ stack' = rest /\ UNCHANGED <<target, copier>>
           \/ /\ Filter(p) /\ p \in source
              /\ target' = target \union {p}
              /\ stack' = IF Kind(p) = "dir" THEN Append(rest, Listing(p)) ELSE rest
              /\ UNCHANGED copier
           \/ Filter(p) /\ Fail
  /\ UNCHANGED <<copyOf, hiddenRoot, source>>

EndListing ==
  /\ copier = "copying" /\ stack[Len(stack)] = {}
  /\ stack' = SubSeq(stack, 1, Len(stack) - 1)
  /\ copier' = IF Len(stack) = 1 THEN "copied" ELSE "copying"
  /\ UNCHANGED <<copyOf, hiddenRoot, source, target>>

\* The other test runs terraform in the original.
WorkInOriginal ==
  /\ copier \in {"new", "copying"}
  /\ \E p \in DOMAIN Volatile :
       \/ (Len(p) = 1 \/ Parent(p) \in source) /\ source' = source \union {p}
       \/ source' = {q \in source : ~IsPrefix(p, q)}
  /\ UNCHANGED <<copyOf, hiddenRoot, stack, target, copier>>

FoldersNext == BeginCopy \/ CopyEntry \/ EndListing \/ WorkInOriginal

-----------------------------------------------------------------------------

\* Whatever terraform left in the folder before, and whatever the other test does
\* in it meanwhile, a copy has the whole code and nothing of either: no state, no
\* hidden file, at any depth.
\* ("to ensure the tests don't overwrite each other's .terraform working
\* directory and terraform.tfstate files", files.go:28-29.) Below a hidden folder
\* a copy is empty.
CopyIsClean ==
  copier = "copied" =>
    target = {p \in DOMAIN Tree : ~hiddenRoot /\ (copyOf = "terraform" => BaseName(p) # VarsName)}

=============================================================================
