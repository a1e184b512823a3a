------------------------------ MODULE Servers ------------------------------
(***************************************************************************)
(* What a test starts in goroutines of its own process, side by side: the  *)
(* HTTP servers of DummyServer, the ssh agents of SshAgent, and the        *)
(* goroutine that ContinuousCheck is about. A behaviour uses one of them.  *)
(***************************************************************************)
EXTENDS DummyServer, SshAgent

CONSTANTS Buffer, MaxChecks   \* see ContinuousCheck

ASSUME ServersAssumption == Buffer \in Nat \ {0} /\ MaxChecks \in Nat

VARIABLES
  used,                                                                 \* which
  checker, outcome, made, reader, stopping, responses, closed, got, wg, \* see
  failed, serverUp                                                      \* ContinuousCheck

Check == INSTANCE ContinuousCheck WITH test <- reader, stop <- stopping

checkVars == <<checker, outcome, made, reader, stopping, responses, closed, got, wg, failed, serverUp>>

ServersInit ==
  /\ used \in {"http", "agent", "check"}
  /\ Init /\ AgentInit /\ Check!Init
  /\ used # "http" => owner = [p \in Ports |-> Nobody]

ServersNext ==
  /\ UNCHANGED used
  /\ \/ used = "http" /\ Next /\ UNCHANGED <<agentVars, checkVars>>
     \/ used = "agent" /\ AgentNext /\ UNCHANGED <<vars, checkVars>>
     \/ used = "check" /\ Check!Next /\ UNCHANGED <<vars, agentVars>>

ServersSpec ==
  /\ ServersInit /\ [][ServersNext]_<<used, vars, agentVars, checkVars>>
  /\ used = "agent" => AgentFairness
  /\ used = "check" => Check!Fairness

-----------------------------------------------------------------------------

\* The test is marked as failed exactly if a request of the check failed, also
\* if its response was dropped, and a test that reads them all gets every
\* response if they fit in the buffer (continuous.go:17-56).
DowntimeIsTold == Check!VerdictIsTrue /\ Check!NothingDropped

\* Whoever is told to stop does: Stop of an agent returns and leaves no
\* goroutine; a test that signals its check gets to its end; and until then
\* the check goes on, though nobody reads its responses.
StopsEnd == StopReturns /\ Check!StopEndsTest /\ Check!NeverStalls

=============================================================================
