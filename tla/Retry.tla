------------------------------- MODULE Retry -------------------------------
(***************************************************************************)
(* The retry loop of modules/retry/retry.go: DoWithRetryE, which knows of  *)
(* success, FatalError and other errors, and DoWithRetryableErrorsE, which *)
(* compiles the patterns and runs DoWithRetryE on a filter around the      *)
(* action. One call is modelled; whatever its action does, it may do.      *)
(*                                                                         *)
(* Here and in the other modules an operator with an underscore in its     *)
(* name is a slip of the definition named before the underscore, one that  *)
(* a property is known to catch; the specification never uses it.          *)
(***************************************************************************)
EXTENDS RetryContract

VARIABLES
  pc,      \* where the call is
  i,       \* the loop counter
  output,  \* the variables output and err of DoWithRetryE
  err,
  slept    \* how many times the loop has slept

vars == <<call, tried, answer, pc, i, output, err, slept>>

Init ==
  /\ ContractInit
  /\ pc = IF call.mode = "plain" THEN "loop" ELSE "compile"
  /\ i = 0
  /\ output = EmptyText
  /\ err = NoError
  /\ slept = 0

Return(out, e) ==
  /\ answer' = [out |-> out, err |-> e]
  /\ pc' = "returned"

\* DoWithRetryableErrorsE compiles every pattern before anything else.
CompileRegexps ==
  /\ pc = "compile"
  /\ IF call.mode = "badRegexp"
     THEN Return(EmptyText, BadRegexp)
     ELSE pc' = "loop" /\ UNCHANGED answer
  /\ UNCHANGED <<call, tried, i, output, err, slept>>

\* The closure that DoWithRetryableErrorsE passes on: an error that matches
\* no pattern is wrapped in a FatalError, any other result goes through.
Matches(r) == r.out \in call.patterns \/ r.err.text \in call.patterns

FilteredError_WrapsTwice(r) ==
  IF r.err = NoError \/ Matches(r) THEN r.err ELSE [fatal |-> TRUE, text |-> r.err]

FilteredError_IgnoresMessage(r) ==
  IF r.err = NoError \/ r.out \in call.patterns THEN r.err
  ELSE [fatal |-> TRUE, text |-> r.err.text]

FilteredError(r) ==
  IF r.err = NoError \/ Matches(r) THEN r.err
  ELSE [fatal |-> TRUE, text |-> r.err.text]

\* What the loop sees of an attempt.
SeenError(r) == IF call.mode = "plain" THEN r.err ELSE FilteredError(r)

\* The loop runs the action once more.
Attempt ==
  /\ pc = "loop"
  /\ i <= call.max
  /\ \E r \in Results :
       /\ tried' = Append(tried, r)
       /\ output' = r.out
       /\ err' = SeenError(r)
  /\ pc' = "check"
  /\ UNCHANGED <<call, answer, i, slept>>

Succeed ==
  /\ pc = "check"
  /\ err = NoError
  /\ Return(output, NoError)
  /\ UNCHANGED <<call, tried, i, output, err, slept>>

GiveUp ==
  /\ pc = "check"
  /\ err # NoError
  /\ err.fatal
  /\ Return(output, err)
  /\ UNCHANGED <<call, tried, i, output, err, slept>>

\* Any other error: sleep, also after the last attempt, and go round.
SleepAndRepeat ==
  /\ pc = "check"
  /\ err # NoError
  /\ ~err.fatal
  /\ slept' = slept + 1
  /\ i' = i + 1
  /\ pc' = "loop"
  /\ UNCHANGED <<call, tried, answer, output, err>>

RunOut_OffByOne ==
  /\ pc = "loop"
  /\ i >= call.max
  /\ Return(output, Exceeded)
  /\ UNCHANGED <<call, tried, i, output, err, slept>>

RunOut ==
  /\ pc = "loop"
  /\ i > call.max
  /\ Return(output, Exceeded)
  /\ UNCHANGED <<call, tried, i, output, err, slept>>

Next == CompileRegexps \/ Attempt \/ Succeed \/ GiveUp \/ SleepAndRepeat \/ RunOut

Safety == Init /\ [][Next]_vars

\* Fairness: the goroutine of the call is scheduled, its action returns and
\* time.Sleep ends.
Spec == Safety /\ WF_vars(Next)

-----------------------------------------------------------------------------

TypeOK ==
  /\ call \in Calls
  /\ tried \in Seq(Results)
  /\ answer \in Answers \union {NoAnswer}
  /\ pc \in {"compile", "loop", "check", "returned"}
  /\ i \in Nat
  /\ output \in Texts
  /\ err \in Errors \union {NoError}
  /\ slept \in Nat

\* Between two attempts the loop sleeps exactly once, and it starts no attempt
\* beyond the budget (DoWithRetryE, the for loop and time.Sleep at its end).
Paced ==
  [][tried' # tried => /\ slept = Len(tried)
                       /\ Len(tried') <= call.max + 1]_vars

\* MaxRetriesExceeded is returned only when every attempt of the budget was
\* made and each one failed with an error worth a retry; a nil error and a
\* FatalError only report the last attempt (lines 71-88 and 117-131).
AnswerIsEarned ==
  /\ answer # NoAnswer /\ answer.err = Exceeded =>
       /\ ~Concluded
       /\ Len(tried) = IF call.max < 0 THEN 0 ELSE call.max + 1
       /\ answer.out = LastOutput
  /\ answer # NoAnswer /\ answer.err \in Errors \union {NoError} =>
       /\ tried # <<>>
       /\ answer = AnswerTo(tried[Len(tried)])
       /\ \A k \in 1 .. Len(tried) - 1 : ~Conclusive(tried[k])

\* Why the answer is earned: a counter that counts the attempts, and attempts
\* that were all worth a retry before the one being checked.
LoopInv ==
  /\ slept = i
  /\ answer = NoAnswer <=> pc # "returned"
  /\ pc = "compile" => tried = <<>> /\ i = 0 /\ output = EmptyText /\ call.mode # "plain"
  /\ pc = "loop" => /\ call.mode # "badRegexp"
                    /\ Len(tried) = i
                    /\ i = 0 \/ i <= call.max + 1
                    /\ ~Concluded
                    /\ output = LastOutput
  /\ pc = "check" => /\ call.mode # "badRegexp"
                     /\ Len(tried) = i + 1
                     /\ i <= call.max
                     /\ output = tried[Len(tried)].out
                     /\ err = SeenError(tried[Len(tried)])
                     /\ \A k \in 1 .. Len(tried) - 1 : ~Conclusive(tried[k])

\* The loop implements the promise, its termination included.
Contract == ContractSpec

=============================================================================
