--------------------------- MODULE ShellContract ---------------------------
(***************************************************************************)
(* The promise of modules/shell, as terraform, packer, kubectl and helm    *)
(* rely on it: a command that ran to its exit returns all that its child   *)
(* wrote and leaves no child behind; one whose output could not be read    *)
(* returns the beginning of what the child wrote.                          *)
(***************************************************************************)
EXTENDS Naturals

VARIABLES
  phase,    \* the call: "new", "running", "returned"
  outcome,  \* "none", "nil", "exitError", "scanError" or "startError"
  process,  \* the child: "none", "alive", "exited", "reaped"
  wrote,    \* how many lines it has written to each stream
  output,   \* the numbers of the lines that the call returns, in order
  log       \* and of those it has printed

contractVars == <<phase, outcome, process, wrote, output, log>>

UpTo(k) == [n \in 1 .. k |-> n]

Init ==
  /\ phase = "new" /\ outcome = "none" /\ process = "none"
  /\ wrote = [s \in {"stdout", "stderr"} |-> 0]
  /\ output = [s \in {"stdout", "stderr"} |-> <<>>]
  /\ log = output

Start ==
  /\ phase = "new"
  /\ \/ phase' = "running" /\ process' = "alive" /\ UNCHANGED outcome
     \/ phase' = "returned" /\ outcome' = "startError" /\ UNCHANGED process
  /\ UNCHANGED <<wrote, output, log>>

ChildStep ==
  /\ process = "alive"
  /\ \/ \E s \in DOMAIN wrote : wrote' = [wrote EXCEPT ![s] = @ + 1] /\ UNCHANGED process
     \/ process' = "exited" /\ UNCHANGED wrote
  /\ UNCHANGED <<phase, outcome, output, log>>

\* The child is waited for and everything that it wrote is returned.
ReturnAll ==
  /\ phase = "running" /\ process = "exited"
  /\ phase' = "returned" /\ process' = "reaped"
  /\ outcome' \in {"nil", "exitError"}
  /\ output' = [s \in DOMAIN wrote |-> UpTo(wrote[s])]
  /\ log' = output'
  /\ UNCHANGED wrote

\* A line was too long: the child, which may go on, is left to itself.
ReturnSome ==
  /\ phase = "running"
  /\ phase' = "returned" /\ outcome' = "scanError"
  /\ output' \in [DOMAIN wrote -> {UpTo(k) : k \in 0 .. wrote["stdout"] + wrote["stderr"]}]
  /\ \A s \in DOMAIN wrote : output'[s] \in {UpTo(k) : k \in 0 .. wrote[s]}
  /\ log' = output'
  /\ UNCHANGED <<process, wrote>>

Spec == Init /\ [][Start \/ ChildStep \/ ReturnAll \/ ReturnSome]_contractVars

=============================================================================
