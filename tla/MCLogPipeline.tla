--------------------------- MODULE MCLogPipeline ---------------------------
(* Two tests, one of whose logs cannot be written, results and text at three *)
(* depths, outputs of up to three lines in chunks of up to two.              *)
EXTENDS LogPipeline
=============================================================================
