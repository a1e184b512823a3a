----------------------------- MODULE Background -----------------------------
(***************************************************************************)
(* retry.DoInBackgroundUntilStopped and Done.Done: a test starts a loop    *)
(* that runs an action, sleeps and repeats in a goroutine, does its own    *)
(* work, and stops the loop through an unbuffered channel. The tests run   *)
(* in parallel, each with a loop of its own, as validateAsgRedeploy of     *)
(* test/terraform_redeploy_example_test.go does with its ELB checks.       *)
(***************************************************************************)
EXTENDS Naturals

CONSTANTS
  Tests,     \* the tests, each with one background loop
  MaxDone    \* bound: how many times a test may call Done

VARIABLES
  loop,      \* the goroutine of the loop
  test,      \* the goroutine of the test
  done       \* how many of the test's calls of Done have returned

vars == <<loop, test, done>>

Init ==
  /\ loop = [t \in Tests |-> "acting"]
  /\ test = [t \in Tests |-> "working"]
  /\ done = [t \in Tests |-> 0]

\* The action returns and the loop enters the select with a new timer.
ActionReturns(t) ==
  /\ loop[t] = "acting"
  /\ loop' = [loop EXCEPT ![t] = "sleeping"]
  /\ UNCHANGED <<test, done>>

\* The action fails the test from the loop's goroutine and so ends it: t.Fatal
\* calls runtime.Goexit, as HttpGetWithCustomValidation does on a failed check.
ActionExits(t) ==
  /\ loop[t] = "acting"
  /\ loop' = [loop EXCEPT ![t] = "exited"]
  /\ UNCHANGED <<test, done>>

\* The timer of the select fires first (or is picked, when Done waits too).
Repeat(t) ==
  /\ loop[t] = "sleeping"
  /\ loop' = [loop EXCEPT ![t] = "acting"]
  /\ UNCHANGED <<test, done>>

\* The test calls Done, which blocks in the send of done.stop.
CallDone(t) ==
  /\ test[t] = "working"
  /\ done[t] < MaxDone
  /\ test' = [test EXCEPT ![t] = "sending"]
  /\ UNCHANGED <<loop, done>>

Handover_Buffered(t) ==
  /\ test[t] = "sending"
  /\ loop' = [loop EXCEPT ![t] = IF @ = "sleeping" THEN "stopped" ELSE @]
  /\ test' = [test EXCEPT ![t] = "working"]
  /\ done' = [done EXCEPT ![t] = @ + 1]

\* The unbuffered send meets the receive of the select: Done returns, the
\* loop ends.
Handover(t) ==
  /\ test[t] = "sending"
  /\ loop[t] = "sleeping"
  /\ loop' = [loop EXCEPT ![t] = "stopped"]
  /\ test' = [test EXCEPT ![t] = "working"]
  /\ done' = [done EXCEPT ![t] = @ + 1]

\* The test ends: its work is done, or failed before it could call Done.
EndTest(t) ==
  /\ test[t] = "working"
  /\ test' = [test EXCEPT ![t] = "ended"]
  /\ UNCHANGED <<loop, done>>

Next ==
  \E t \in Tests :
    \/ ActionReturns(t) \/ ActionExits(t) \/ Repeat(t)
    \/ CallDone(t) \/ Handover(t) \/ EndTest(t)

\* The action returns (or exits), the timer fires, and select, which picks at
\* random among what is ready, does not pass over a waiting Done forever.
\* Nothing forces a test to call Done or to end.
Fairness ==
  \A t \in Tests :
    /\ WF_vars(ActionReturns(t) \/ ActionExits(t))
    /\ WF_vars(Repeat(t))
    /\ SF_vars(Handover(t))

Spec == Init /\ [][Next]_vars /\ Fairness

-----------------------------------------------------------------------------

\* The types; a second Done has nobody to meet and never comes back.
TypeOK ==
  /\ loop \in [Tests -> {"acting", "sleeping", "stopped", "exited"}]
  /\ test \in [Tests -> {"working", "sending", "ended"}]
  /\ done \in [Tests -> 0 .. 1]

\* Once Done has returned the action neither runs nor will run again, so a
\* test may tear down what the action uses (the unbuffered channel of line 147
\* and the return of line 162).
QuietAfterDone == \A t \in Tests : done[t] > 0 => loop[t] \notin {"acting", "sleeping"}

\* A waiting Done comes back unless the action has killed the loop, or an
\* earlier Done has stopped it, however often the timer fires meanwhile.
DoneReturnsFromLiveLoop ==
  \A t \in Tests :
    test[t] = "sending" ~> test[t] # "sending" \/ loop[t] \in {"exited", "stopped"}

\* "To stop this action, call the Done() function on the returned value"
\* (retry.go:145): the first call of Done comes back.
DoneReturns == \A t \in Tests : test[t] = "sending" /\ done[t] = 0 ~> done[t] = 1

=============================================================================
