---------------------------- MODULE Retry_proofs ----------------------------
(***************************************************************************)
(* Proofs about modules/retry. The loop, for every set of texts and every  *)
(* budget: its answers are earned, its attempts are paced, and it keeps    *)
(* the promise of RetryContract (the safety part of it). The two helpers   *)
(* that start a goroutine, for any number of calls and tests. The parts    *)
(* are proved one by one and then put together for HelpersSpec.            *)
(***************************************************************************)
EXTENDS RetryHelpers, SequenceTheorems, TLAPS

-----------------------------------------------------------------------------
(* The loop *)

IInv == TypeOK /\ LoopInv /\ AnswerIsEarned

\* What the loop makes of an attempt agrees with what the promise makes of it.
LEMMA SeenErrorAgrees ==
  ASSUME NEW r \in Results, call \in Calls, call.mode # "badRegexp"
  PROVE  /\ SeenError(r) \in Errors \union {NoError}
         /\ SeenError(r) = NoError <=> r.err = NoError
         /\ Conclusive(r) <=> SeenError(r) = NoError \/ SeenError(r).fatal
         /\ SeenError(r) # NoError /\ SeenError(r).fatal
              => SeenError(r) = [fatal |-> TRUE, text |-> r.err.text]
  <1> USE DEF Results, Calls
  <1>1. CASE r.err = NoError
    BY <1>1 DEF SeenError, FilteredError, Conclusive
  <1>2. CASE r.err # NoError
    <2>1. r.err \in Errors /\ r.err.fatal \in BOOLEAN /\ r.err.text \in Texts
      BY <1>2 DEF Errors
    <2>2. r.err.fatal => r.err = [fatal |-> TRUE, text |-> r.err.text]
      BY <2>1 DEF Errors
    <2>3. [fatal |-> TRUE, text |-> r.err.text] \in Errors
      BY <2>1 DEF Errors
    <2>4. SeenError(r) \in {r.err, [fatal |-> TRUE, text |-> r.err.text]}
      BY DEF SeenError, FilteredError
    <2>5. Conclusive(r) <=> SeenError(r).fatal
      <3>1. CASE call.mode = "plain"
        BY <1>2, <3>1 DEF SeenError, Conclusive
      <3>2. CASE call.mode = "filtered"
        BY <1>2, <3>2 DEF SeenError, FilteredError, Matches, Conclusive
      <3> QED
        BY <3>1, <3>2
    <2> QED
      BY <1>2, <2>1, <2>2, <2>3, <2>4, <2>5, RetryAssumption
  <1> QED
    BY <1>1, <1>2

\* Appending an attempt keeps the earlier ones.
LEMMA AppendAttempt ==
  ASSUME NEW s \in Seq(Results), NEW r \in Results
  PROVE  /\ Append(s, r) \in Seq(Results)
         /\ Len(Append(s, r)) = Len(s) + 1
         /\ Append(s, r)[Len(s) + 1] = r
         /\ \A k \in 1 .. Len(s) : Append(s, r)[k] = s[k]
  OBVIOUS

-----------------------------------------------------------------------------

LEMMA InitIInv == Init => IInv
  BY RetryAssumption
     DEF Init, ContractInit, IInv, TypeOK, LoopInv, AnswerIsEarned, Calls, Concluded, LastOutput

LEMMA NextTypeOK == TypeOK /\ LoopInv /\ [Next]_vars => TypeOK'
  <1> SUFFICES ASSUME TypeOK, LoopInv, [Next]_vars PROVE TypeOK'
    OBVIOUS
  <1> USE DEF TypeOK
  <1>1. CASE CompileRegexps
    BY <1>1, RetryAssumption DEF CompileRegexps, Return, Answers
  <1>2. CASE Attempt
    <2>1. PICK r \in Results : tried' = Append(tried, r) /\ output' = r.out /\ err' = SeenError(r)
      BY <1>2 DEF Attempt
    <2>2. SeenError(r) \in Errors \union {NoError}
      BY <1>2, SeenErrorAgrees DEF Attempt, LoopInv
    <2> QED
      BY <1>2, <2>1, <2>2 DEF Attempt, Results
  <1>3. CASE Succeed
    BY <1>3 DEF Succeed, Return, Answers
  <1>4. CASE GiveUp
    BY <1>4 DEF GiveUp, Return, Answers
  <1>5. CASE SleepAndRepeat
    BY <1>5 DEF SleepAndRepeat
  <1>6. CASE RunOut
    BY <1>6 DEF RunOut, Return, Answers
  <1>7. CASE UNCHANGED vars
    BY <1>7 DEF vars
  <1> QED
    BY <1>1, <1>2, <1>3, <1>4, <1>5, <1>6, <1>7 DEF Next

LEMMA NextLoopInv == IInv /\ [Next]_vars => LoopInv'
  <1> SUFFICES ASSUME IInv, [Next]_vars PROVE LoopInv'
    OBVIOUS
  <1> USE DEF IInv, TypeOK, LoopInv
  <1>1. CASE CompileRegexps
    <2>1. CASE call.mode = "badRegexp"
      <3>1. answer' \in Answers
        BY <1>1, <2>1, RetryAssumption DEF CompileRegexps, Return, Answers
      <3> QED
        BY <1>1, <2>1, <3>1, RetryAssumption DEF CompileRegexps, Return
    <2>2. CASE call.mode # "badRegexp"
      <3>1. tried' = <<>> /\ ~Concluded'
        BY <1>1 DEF CompileRegexps, Concluded
      <3>2. output' = LastOutput'
        BY <1>1, <3>1, RetryAssumption DEF CompileRegexps, LastOutput
      <3> QED
        BY <1>1, <2>2, <3>1, <3>2 DEF CompileRegexps
    <2> QED
      BY <2>1, <2>2
  <1>2. CASE Attempt
    <2>1. PICK r \in Results : tried' = Append(tried, r) /\ output' = r.out /\ err' = SeenError(r)
      BY <1>2 DEF Attempt
    <2>2. /\ Len(tried') = Len(tried) + 1
          /\ tried'[Len(tried')] = r
          /\ \A k \in 1 .. Len(tried) : tried'[k] = tried[k]
      BY <2>1, AppendAttempt
    <2>3. \A k \in 1 .. Len(tried) : ~Conclusive(tried[k])
      BY <1>2 DEF Attempt, Concluded
    <2>4. \A x : Conclusive(x)' <=> Conclusive(x)
      BY <1>2 DEF Attempt, Conclusive
    <2>5. \A k \in 1 .. Len(tried') - 1 : ~Conclusive(tried[k])'
      BY <2>2, <2>3, <1>2 DEF Attempt, Conclusive
    <2>6. err' = SeenError(tried[Len(tried)])'
      BY <2>1, <2>2, <1>2 DEF Attempt, SeenError, FilteredError, Matches
    <2> QED
      BY <1>2, <2>1, <2>2, <2>5, <2>6 DEF Attempt
  <1>3. CASE Succeed
    BY <1>3, RetryAssumption DEF Succeed, Return, Answers
  <1>4. CASE GiveUp
    BY <1>4, RetryAssumption DEF GiveUp, Return, Answers
  <1>5. CASE SleepAndRepeat
    <2>1. Len(tried) \in 1 .. Len(tried) /\ tried[Len(tried)] \in Results
      BY <1>5 DEF SleepAndRepeat
    <2>2. ~Conclusive(tried[Len(tried)])
      BY <1>5, <2>1, SeenErrorAgrees DEF SleepAndRepeat
    <2>3. ~Concluded
      BY <1>5, <2>1, <2>2 DEF SleepAndRepeat, Concluded
    <2>4. ~Concluded'
      BY <1>5, <2>3 DEF SleepAndRepeat, Concluded, Conclusive
    <2>5. call.max \in Int
      BY RetryAssumption DEF Calls
    <2> QED
      BY <1>5, <2>1, <2>4, <2>5 DEF SleepAndRepeat, LastOutput
  <1>6. CASE RunOut
    BY <1>6, RetryAssumption DEF RunOut, Return, Answers
  <1>7. CASE UNCHANGED vars
    BY <1>7 DEF vars, Concluded, Conclusive, LastOutput, SeenError, FilteredError, Matches
  <1> QED
    BY <1>1, <1>2, <1>3, <1>4, <1>5, <1>6, <1>7 DEF Next

LEMMA NextAnswerIsEarned == IInv /\ [Next]_vars => AnswerIsEarned'
  <1> SUFFICES ASSUME IInv, [Next]_vars PROVE AnswerIsEarned'
    OBVIOUS
  <1> USE DEF IInv, TypeOK, LoopInv
  <1> DEFINE Same == UNCHANGED <<call, tried>>
  <1>1. Same => /\ LastOutput' = LastOutput
                /\ Concluded' <=> Concluded
                /\ \A x : Conclusive(x)' <=> Conclusive(x)
                /\ \A x : AnswerTo(x)' = AnswerTo(x)
    BY DEF LastOutput, Concluded, Conclusive, AnswerTo
  <1>2. CASE CompileRegexps
    BY <1>2, RetryAssumption DEF CompileRegexps, Return, AnswerIsEarned
  <1>3. CASE Attempt
    BY <1>3 DEF Attempt, AnswerIsEarned
  <1>4. CASE Succeed
    <2>1. tried # <<>> /\ tried[Len(tried)] \in Results
      BY <1>4 DEF Succeed
    <2>2. tried[Len(tried)].err = NoError
      BY <1>4, <2>1, SeenErrorAgrees DEF Succeed
    <2>3. answer' = AnswerTo(tried[Len(tried)])
      BY <1>4, <2>2 DEF Succeed, Return, AnswerTo
    <2> QED
      BY <1>4, <1>1, <2>1, <2>3, RetryAssumption DEF Succeed, Return, AnswerIsEarned
  <1>5. CASE GiveUp
    <2>1. tried # <<>> /\ tried[Len(tried)] \in Results
      BY <1>5 DEF GiveUp
    <2>2. /\ tried[Len(tried)].err # NoError
          /\ err = [fatal |-> TRUE, text |-> tried[Len(tried)].err.text]
      BY <1>5, <2>1, SeenErrorAgrees DEF GiveUp
    <2>3. answer' = AnswerTo(tried[Len(tried)])
      BY <1>5, <2>2 DEF GiveUp, Return, AnswerTo
    <2>4. answer'.err # Exceeded
      BY <1>5, RetryAssumption DEF GiveUp, Return
    <2> QED
      BY <1>5, <1>1, <2>1, <2>3, <2>4 DEF GiveUp, AnswerIsEarned
  <1>6. CASE SleepAndRepeat
    BY <1>6 DEF SleepAndRepeat, AnswerIsEarned
  <1>7. CASE RunOut
    <2>0. call.max \in Int
      BY RetryAssumption DEF Calls
    <2>1. Len(tried) = IF call.max < 0 THEN 0 ELSE call.max + 1
      BY <1>7, <2>0 DEF RunOut
    <2> QED
      BY <1>7, <1>1, <2>1, RetryAssumption DEF RunOut, Return, AnswerIsEarned
  <1>8. CASE UNCHANGED vars
    BY <1>1, <1>8 DEF vars, AnswerIsEarned
  <1> QED
    BY <1>2, <1>3, <1>4, <1>5, <1>6, <1>7, <1>8 DEF Next

\* The invariant is inductive.
LEMMA Inductive == Safety => []IInv
  <1>1. IInv /\ [Next]_vars => IInv'
    BY NextTypeOK, NextLoopInv, NextAnswerIsEarned DEF IInv
  <1> QED
    BY InitIInv, <1>1, PTL DEF Safety

\* Every variable of the loop keeps its type.
THEOREM TypeCorrect == Safety => []TypeOK
  BY Inductive, PTL DEF IInv

\* Whatever the action does, MaxRetriesExceeded reports a spent budget and any
\* other answer the last attempt, the first one that could not be retried.
THEOREM AnswersAreEarned == Safety => []AnswerIsEarned
  BY Inductive, PTL DEF IInv

-----------------------------------------------------------------------------

\* One sleep between two attempts, and at most maxRetries + 1 attempts.
THEOREM AttemptsArePaced == Safety => Paced
  <1> DEFINE Step == tried' # tried => /\ slept = Len(tried)
                                      /\ Len(tried') <= call.max + 1
  <1>1. IInv /\ [Next]_vars => [Step]_vars
    <2> SUFFICES ASSUME IInv, Next, tried' # tried
                 PROVE  slept = Len(tried) /\ Len(tried') <= call.max + 1
      OBVIOUS
    <2>1. Attempt
      BY DEF Next, CompileRegexps, Succeed, GiveUp, SleepAndRepeat, RunOut
    <2>2. PICK r \in Results : tried' = Append(tried, r)
      BY <2>1 DEF Attempt
    <2>3. Len(tried') = Len(tried) + 1
      BY <2>2, AppendAttempt DEF IInv, TypeOK
    <2>4. call.max \in Int
      BY RetryAssumption DEF IInv, TypeOK, Calls
    <2> QED
      BY <2>1, <2>3, <2>4 DEF Attempt, IInv, TypeOK, LoopInv
  <1> QED
    BY Inductive, <1>1, PTL DEF Safety, Paced

\* Every step of the loop is a step of the promise or leaves it alone: the
\* filter of DoWithRetryableErrorsE and the type switch of DoWithRetryE, taken
\* together, decide as the promise says.
THEOREM ImplementsContract == Safety => ContractSafety
  <1>1. Init => ContractInit
    BY DEF Init
  <1>2. IInv /\ IInv' /\ [Next]_vars => [ContractNext]_contractVars
    <2> SUFFICES ASSUME IInv, IInv', [Next]_vars
                 PROVE  ContractNext \/ UNCHANGED contractVars
      OBVIOUS
    <2> USE DEF IInv, TypeOK, LoopInv
    <2>1. CASE CompileRegexps
      BY <2>1 DEF CompileRegexps, Return, ContractNext, Reject, contractVars
    <2>2. CASE Attempt
      <3>1. Len(tried) <= call.max
        BY <2>2 DEF Attempt
      <3>2. TryOnce
        BY <2>2, <3>1 DEF Attempt, TryOnce
      <3> QED
        BY <3>2 DEF ContractNext
    <2>3. CASE Succeed
      <3>1. tried # <<>> /\ tried[Len(tried)] \in Results
        BY <2>3 DEF Succeed
      <3>2. tried[Len(tried)].err = NoError /\ Conclusive(tried[Len(tried)])
        BY <2>3, <3>1, SeenErrorAgrees DEF Succeed
      <3>3. answer' = AnswerTo(tried[Len(tried)])
        BY <2>3, <3>2 DEF Succeed, Return, AnswerTo
      <3> QED
        BY <2>3, <3>1, <3>2, <3>3 DEF Succeed, Conclude, ContractNext
    <2>4. CASE GiveUp
      <3>1. tried # <<>> /\ tried[Len(tried)] \in Results
        BY <2>4 DEF GiveUp
      <3>2. /\ tried[Len(tried)].err # NoError
            /\ err = [fatal |-> TRUE, text |-> tried[Len(tried)].err.text]
            /\ Conclusive(tried[Len(tried)])
        BY <2>4, <3>1, SeenErrorAgrees DEF GiveUp
      <3>3. answer' = AnswerTo(tried[Len(tried)])
        BY <2>4, <3>2 DEF GiveUp, Return, AnswerTo
      <3> QED
        BY <2>4, <3>1, <3>2, <3>3 DEF GiveUp, Conclude, ContractNext
    <2>5. CASE SleepAndRepeat
      BY <2>5 DEF SleepAndRepeat, contractVars
    <2>6. CASE RunOut
      BY <2>6 DEF RunOut, Return, Exhaust, ContractNext
    <2>7. CASE UNCHANGED vars
      BY <2>7 DEF vars, contractVars
    <2> QED
      BY <2>1, <2>2, <2>3, <2>4, <2>5, <2>6, <2>7 DEF Next
  <1> QED
    BY Inductive, <1>1, <1>2, PTL DEF Safety, ContractSafety

-----------------------------------------------------------------------------
(* DoWithTimeoutE *)

\* Where a result is: nowhere until the action has returned, then with the
\* goroutine, then in the channel, then with a caller that has returned.
ResultIsSomewhere ==
  \A c \in TimedCalls :
    /\ caller[c] = "idle" => worker[c] = "none"
    /\ worker[c] \in {"sending", "gone"} => made[c] \in Outcomes
    /\ worker[c] # "gone" => chan[c] = <<>>
    /\ chan[c] # <<>> => chan[c] = <<made[c]>>
    /\ timedAnswer[c] = Nothing <=> caller[c] # "returned"
    /\ timedAnswer[c] \in Outcomes => worker[c] = "gone"

TimedIInv == T!TypeOK /\ ResultIsSomewhere /\ T!AnswerIsTrue

LEMMA InitTimed == T!Init => TimedIInv
  BY HelpersAssumption DEF T!Init, TimedIInv, T!TypeOK, ResultIsSomewhere, T!AnswerIsTrue

LEMMA NextTimed == TimedIInv /\ [T!Next]_timeoutVars => TimedIInv'
  <1> SUFFICES ASSUME TimedIInv, [T!Next]_timeoutVars PROVE TimedIInv'
    OBVIOUS
  <1> USE HelpersAssumption DEF TimedIInv, T!TypeOK, ResultIsSomewhere, T!AnswerIsTrue
  <1>1. ASSUME NEW c \in TimedCalls, T!Start(c) PROVE TimedIInv'
    BY <1>1 DEF T!Start
  <1>2. ASSUME NEW c \in TimedCalls, T!ActionReturns(c) PROVE TimedIInv'
    BY <1>2 DEF T!ActionReturns
  <1>3. ASSUME NEW c \in TimedCalls, T!Send(c) PROVE TimedIInv'
    <2>1. chan[c] = <<>> /\ made[c] \in Outcomes
      BY <1>3 DEF T!Send
    <2>2. chan' = [chan EXCEPT ![c] = <<made[c]>>]
      BY <1>3, <2>1 DEF T!Send
    <2>3. T!TypeOK'
      BY <1>3, <2>1, <2>2 DEF T!Send
    <2>4. ResultIsSomewhere'
      BY <1>3, <2>1, <2>2 DEF T!Send
    <2>5. T!AnswerIsTrue'
      BY <1>3, <2>1, <2>2 DEF T!Send
    <2> QED
      BY <2>3, <2>4, <2>5
  <1>4. ASSUME NEW c \in TimedCalls, T!Deadline(c) PROVE TimedIInv'
    BY <1>4 DEF T!Deadline
  <1>5. ASSUME NEW c \in TimedCalls, T!TakeResult(c) PROVE TimedIInv'
    <2>1. chan[c] = <<made[c]>> /\ worker[c] = "gone" /\ made[c] \in Outcomes
      BY <1>5 DEF T!TakeResult
    <2>2. chan' = [chan EXCEPT ![c] = <<>>] /\ timedAnswer' = [timedAnswer EXCEPT ![c] = made[c]]
      BY <1>5, <2>1 DEF T!TakeResult, T!Answer
    <2>3. T!TypeOK'
      BY <1>5, <2>1, <2>2 DEF T!TakeResult, T!Answer
    <2>4. ResultIsSomewhere'
      BY <1>5, <2>1, <2>2 DEF T!TakeResult, T!Answer
    <2>5. T!AnswerIsTrue'
      BY <1>5, <2>1, <2>2 DEF T!TakeResult, T!Answer
    <2> QED
      BY <2>3, <2>4, <2>5
  <1>6. ASSUME NEW c \in TimedCalls, T!TakeTimeout(c) PROVE TimedIInv'
    BY <1>6 DEF T!TakeTimeout, T!Answer
  <1>7. CASE UNCHANGED timeoutVars
    BY <1>7 DEF timeoutVars
  <1> QED
    BY <1>1, <1>2, <1>3, <1>4, <1>5, <1>6, <1>7 DEF T!Next

-----------------------------------------------------------------------------
(* DoInBackgroundUntilStopped *)

\* A Done returns only by stopping the loop.
DoneStopsTheLoop == \A t \in Tests : loop[t] = "stopped" <=> done[t] = 1

BackgroundIInv == B!TypeOK /\ DoneStopsTheLoop

LEMMA InitBackground == B!Init => BackgroundIInv
  BY DEF B!Init, BackgroundIInv, B!TypeOK, DoneStopsTheLoop

LEMMA NextBackground == BackgroundIInv /\ [B!Next]_backgroundVars => BackgroundIInv'
  <1> SUFFICES ASSUME BackgroundIInv, [B!Next]_backgroundVars PROVE BackgroundIInv'
    OBVIOUS
  <1> USE DEF BackgroundIInv, B!TypeOK, DoneStopsTheLoop
  <1>1. ASSUME NEW t \in Tests, B!ActionReturns(t) PROVE BackgroundIInv'
    BY <1>1 DEF B!ActionReturns
  <1>2. ASSUME NEW t \in Tests, B!ActionExits(t) PROVE BackgroundIInv'
    BY <1>2 DEF B!ActionExits
  <1>3. ASSUME NEW t \in Tests, B!Repeat(t) PROVE BackgroundIInv'
    BY <1>3 DEF B!Repeat
  <1>4. ASSUME NEW t \in Tests, B!CallDone(t) PROVE BackgroundIInv'
    BY <1>4 DEF B!CallDone
  <1>5. ASSUME NEW t \in Tests, B!Handover(t) PROVE BackgroundIInv'
    BY <1>5 DEF B!Handover
  <1>6. ASSUME NEW t \in Tests, B!EndTest(t) PROVE BackgroundIInv'
    BY <1>6 DEF B!EndTest
  <1>7. CASE UNCHANGED backgroundVars
    BY <1>7 DEF backgroundVars
  <1> QED
    BY <1>1, <1>2, <1>3, <1>4, <1>5, <1>6, <1>7 DEF B!Next

-----------------------------------------------------------------------------
(* The helpers together *)

helperVars == <<helper, vars, timeoutVars, backgroundVars>>

\* Whichever helper a behaviour uses, it is a behaviour of each part.
LEMMA StepIsOfEachPart ==
  [HelpersNext]_helperVars =>
    [Next]_vars /\ [T!Next]_timeoutVars /\ [B!Next]_backgroundVars
  BY DEF HelpersNext, helperVars

LEMMA LoopIsUsedAsSpecified == HelpersSpec => Safety
  <1>1. HelpersInit => Init
    BY DEF HelpersInit
  <1> QED
    BY <1>1, StepIsOfEachPart, PTL DEF HelpersSpec, Safety, helperVars

LEMMA HelpersInvariant == HelpersSpec => [](TimedIInv /\ BackgroundIInv)
  <1>1. HelpersInit => TimedIInv /\ BackgroundIInv
    BY InitTimed, InitBackground DEF HelpersInit
  <1> QED
    BY <1>1, StepIsOfEachPart, NextTimed, NextBackground, PTL DEF HelpersSpec, helperVars

\* Every variable of every helper keeps its type.
THEOREM HelpersTypeCorrect == HelpersSpec => []HelpersTypeOK
  <1>1. TypeOK /\ TimedIInv /\ BackgroundIInv => HelpersTypeOK
    BY DEF TimedIInv, BackgroundIInv, HelpersTypeOK
  <1> QED
    BY <1>1, LoopIsUsedAsSpecified, TypeCorrect, HelpersInvariant, PTL

\* However many calls with a timeout run at a time, and however late their
\* actions return, an answer is the action's own, or a timeout that has passed.
THEOREM TimedAnswersAreTrue == HelpersSpec => []AnswerIsTrue
  <1>1. TimedIInv => AnswerIsTrue
    BY DEF TimedIInv, AnswerIsTrue
  <1> QED
    BY <1>1, HelpersInvariant, PTL

\* After Done has returned the action of that loop is not run any more,
\* whatever the loops of other tests do.
THEOREM DoneMeansQuiet == HelpersSpec => []QuietAfterDone
  <1>1. BackgroundIInv => QuietAfterDone
    BY DEF BackgroundIInv, DoneStopsTheLoop, B!TypeOK, B!QuietAfterDone, QuietAfterDone
  <1> QED
    BY <1>1, HelpersInvariant, PTL

\* Beside the other helpers the loop still keeps its promise, earns its answers
\* and paces its attempts.
THEOREM LoopIsNotDisturbed == HelpersSpec => ContractSafety /\ []AnswerIsEarned /\ Paced
  BY LoopIsUsedAsSpecified, ImplementsContract, AnswersAreEarned, AttemptsArePaced, PTL

=============================================================================
