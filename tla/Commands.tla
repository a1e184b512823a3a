------------------------------ MODULE Commands ------------------------------
(***************************************************************************)
(* The calls that run commands, here or on another host, side by side: one *)
(* command of modules/shell, the programs of modules/terraform, the builds *)
(* of modules/packer, the sessions of modules/ssh, and the copy of a       *)
(* folder that comes first. A behaviour uses one of them. That terraform   *)
(* and packer may take a command as one step is what ShellContract says.   *)
(***************************************************************************)
EXTENDS Shell, Terraform, Packer, SshSession, Folders

VARIABLE tool    \* which of them is used

CommandsInit ==
  /\ tool \in {"shell", "terraform", "packer", "ssh", "folders"}
  /\ Init /\ TfInit /\ PackerInit /\ SshInit /\ FoldersInit
  \* What is not used starts in one state only.
  /\ tool # "shell" => shared
  /\ tool # "terraform" =>
       /\ tfOp = "output" /\ name = Default /\ terragrunt /\ sharedFolder
       /\ folder.workspaces = {Default} /\ folder.initialised
  /\ tool # "ssh" => sshOp = "command" /\ agents = {}
  /\ tool # "folders" => copyOf = "terraform" /\ hiddenRoot /\ source = DOMAIN Tree

CommandsNext ==
  /\ UNCHANGED tool
  /\ \/ tool = "shell" /\ Next /\ UNCHANGED <<tfVars, packerVars, sshVars, folderVars>>
     \/ tool = "terraform" /\ TfNext /\ UNCHANGED <<vars, packerVars, sshVars, folderVars>>
     \/ tool = "packer" /\ PackerNext /\ UNCHANGED <<vars, tfVars, sshVars, folderVars>>
     \/ tool = "ssh" /\ SshNext /\ UNCHANGED <<vars, tfVars, packerVars, folderVars>>
     \/ tool = "folders" /\ FoldersNext /\ UNCHANGED <<vars, tfVars, packerVars, sshVars>>

CommandsSpec ==
  /\ CommandsInit
  /\ [][CommandsNext]_<<tool, vars, tfVars, packerVars, sshVars, folderVars>>
  /\ tool = "shell" => Fairness

=============================================================================
