---------------------------- MODULE RetryHelpers ----------------------------
(***************************************************************************)
(* The helpers of modules/retry side by side: the retry loop, and the two  *)
(* that start a goroutine, DoWithTimeoutE and DoInBackgroundUntilStopped.  *)
(* They share no state, so a behaviour uses one of them.                   *)
(***************************************************************************)
EXTENDS Retry

CONSTANTS
  TimedCalls, Outcomes, TimedOut, Nothing,   \* see Timeout
  Tests, MaxDone                             \* see Background

ASSUME HelpersAssumption ==
  /\ TimedOut \notin Outcomes
  /\ Nothing \notin Outcomes \union {TimedOut}
  /\ MaxDone \in Nat

VARIABLES
  helper,                                               \* what is used
  caller, worker, made, chan, expired, timedAnswer,     \* see Timeout
  loop, test, done                                      \* see Background

T == INSTANCE Timeout WITH Calls <- TimedCalls, Results <- Outcomes, answer <- timedAnswer
B == INSTANCE Background

timeoutVars == <<caller, worker, made, chan, expired, timedAnswer>>
backgroundVars == <<loop, test, done>>

HelpersInit ==
  /\ Init
  /\ T!Init
  /\ B!Init
  /\ helper \in {"loop", "timeout", "background"}
  /\ helper # "loop" => call = CHOOSE c \in Calls : TRUE

HelpersNext ==
  /\ UNCHANGED helper
  /\ \/ helper = "loop" /\ Next /\ UNCHANGED <<timeoutVars, backgroundVars>>
     \/ helper = "timeout" /\ T!Next /\ UNCHANGED <<vars, backgroundVars>>
     \/ helper = "background" /\ B!Next /\ UNCHANGED <<vars, timeoutVars>>

\* Each helper is scheduled as its own module says; one that is not used is not.
HelpersSpec ==
  /\ HelpersInit /\ [][HelpersNext]_<<helper, vars, timeoutVars, backgroundVars>>
  /\ helper = "loop" => WF_vars(Next)
  /\ helper = "timeout" => T!Fairness
  /\ helper = "background" => B!Fairness

-----------------------------------------------------------------------------

HelpersTypeOK ==
  /\ TypeOK
  /\ T!TypeOK
  /\ B!TypeOK

\* The retry loop implements RetryContract, and answers if it is used at all
\* (retry.go:63-89 and 95-131).
LoopKeepsContract ==
  /\ ContractSafety
  /\ helper = "loop" => WF_contractVars(ContractNext)

\* A call reports a timeout only after its deadline, and otherwise what its own
\* action returned, not what an earlier one left behind (retry.go:45-50).
AnswerIsTrue == T!AnswerIsTrue

\* Once Done has returned the action neither runs nor will run again, so a
\* test may tear down what the action uses (retry.go:147 and 162).
QuietAfterDone == B!QuietAfterDone

\* Every call of DoWithTimeoutE returns, even if its action never does, and a
\* goroutine whose action comes back late ends although nobody waits for its
\* result (retry.go:38); a Done meets its loop unless the action has killed
\* the loop or an earlier Done has stopped it.
NobodyIsStuck ==
  T!CallReturns /\ T!NoStuckWorker /\ B!DoneReturnsFromLiveLoop

=============================================================================
