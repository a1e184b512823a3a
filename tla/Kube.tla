------------------------------- MODULE Kube -------------------------------
(***************************************************************************)
(* The parts of modules/k8s that this project models beside the tunnel:    *)
(* edits of kubeconfig files, and the waits, with those of modules/aws.    *)
(* They share no state, so a behaviour uses one of them.                   *)
(***************************************************************************)
EXTENDS KubeConfig, Waits

VARIABLE part    \* which of them is used

KubeInit ==
  /\ part \in {"config", "waits"}
  /\ KubeConfigInit /\ WaitsInit
  /\ part = "config" =>
       /\ call.max = CHOOSE max \in Budgets : TRUE
       /\ kind = "numPods" /\ world = 0

KubeNext ==
  /\ UNCHANGED part
  /\ \/ part = "config" /\ KubeConfigNext /\ UNCHANGED waitVars
     \/ part = "waits" /\ WaitsNext /\ UNCHANGED kubeConfigVars

KubeSpec == KubeInit /\ [][KubeNext]_<<part, kubeConfigVars, waitVars>>

-----------------------------------------------------------------------------

KubeTypeOK ==
  /\ KubeConfigTypeOK
  /\ WaitsTypeOK

=============================================================================
