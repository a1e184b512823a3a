------------------------------ MODULE MCRetry ------------------------------
(* Two texts and budgets from -1 to 2: every call runs to its end. Two calls  *)
(* with a timeout and two background loops, which repeat without bound.       *)
EXTENDS RetryHelpers

MCBudgets == -1 .. 2
=============================================================================
