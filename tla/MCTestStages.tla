---------------------------- MODULE MCTestStages ----------------------------
(* Up to four processes, each with any stages skipped. *)
EXTENDS TestStages
=============================================================================
