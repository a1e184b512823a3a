-------------------------- MODULE ContinuousCheck --------------------------
(***************************************************************************)
(* http_helper.ContinuouslyCheckUrl: a goroutine requests a URL again and  *)
(* again, sends each response to a buffered channel without ever blocking, *)
(* marks the test as failed when there was downtime, and ends on a signal. *)
(* The test follows TestContinuouslyCheck: it may read responses while it  *)
(* works, then signals, reads the responses to the end of the channel,     *)
(* waits for the goroutine and shuts its server down.                      *)
(***************************************************************************)
EXTENDS Naturals, Sequences

CONSTANTS
  Buffer,     \* capacity of the responses channel, 1000 in the code
  MaxChecks   \* bound: requests the goroutine makes

\* What a request gets: status 200, another status, or an error, which the
\* response shows as status -1 and an empty body.
Outcomes == {"ok", "badStatus", "error"}

VARIABLES
  checker,    \* the goroutine: "selecting", "requesting", "sending",
              \* "reporting", "closing", "leaving", "gone"
  outcome,    \* what its last request got
  made,       \* what all its requests got, in order
  test,       \* the test: "working", "draining", "waiting", "ended"
  stop,       \* whether a signal is in the stopChecking channel
  responses,  \* the responses channel
  closed,     \* whether it is closed
  got,        \* the responses the test has read
  wg,         \* the counter of the WaitGroup
  failed,     \* whether the test is marked as failed
  serverUp    \* whether the server of the test listens

checkerVars == <<checker, outcome, made>>
testVars == <<test, got, serverUp>>
vars == <<checkerVars, testVars, stop, responses, closed, wg, failed>>

Init ==
  /\ checker = "selecting"
  /\ outcome = "ok"
  /\ made = <<>>
  /\ test = "working"
  /\ stop = FALSE
  /\ responses = <<>>
  /\ closed = FALSE
  /\ got = <<>>
  /\ wg = 1
  /\ failed = FALSE
  /\ serverUp = TRUE

-----------------------------------------------------------------------------
(* The goroutine *)

\* The select takes the timer of time.After.
Tick ==
  /\ checker = "selecting"
  /\ Len(made) < MaxChecks
  /\ checker' = "requesting"
  /\ UNCHANGED <<outcome, made, testVars, stop, responses, closed, wg, failed>>

\* The select takes the signal; the deferred close and Done follow.
TakeStop ==
  /\ checker = "selecting"
  /\ stop
  /\ stop' = FALSE
  /\ checker' = "closing"
  /\ UNCHANGED <<outcome, made, testVars, responses, closed, wg, failed>>

\* HttpGetE returns: whatever the server answers, or an error, also one of the
\* client's timeout.
Request ==
  /\ checker = "requesting"
  /\ \E o \in IF serverUp THEN Outcomes ELSE {"error"} :
       /\ outcome' = o
       /\ made' = Append(made, o)
  /\ checker' = "sending"
  /\ UNCHANGED <<testVars, stop, responses, closed, wg, failed>>

\* The non-blocking send: a full buffer drops the response.
SendResponse ==
  /\ checker = "sending"
  /\ responses' = IF Len(responses) < Buffer THEN Append(responses, outcome) ELSE responses
  /\ checker' = "reporting"
  /\ UNCHANGED <<outcome, made, testVars, stop, closed, wg, failed>>

ReportDowntime_OnlyErrors ==
  /\ checker = "reporting"
  /\ failed' = (failed \/ outcome = "error")
  /\ checker' = "selecting"
  /\ UNCHANGED <<outcome, made, testVars, stop, responses, closed, wg>>

\* t.Errorf marks the test as failed unless the response was good.
ReportDowntime ==
  /\ checker = "reporting"
  /\ failed' = (failed \/ outcome # "ok")
  /\ checker' = "selecting"
  /\ UNCHANGED <<outcome, made, testVars, stop, responses, closed, wg>>

\* The deferred calls run last in, first out: close(responses) ...
CloseResponses ==
  /\ checker = "closing"
  /\ closed' = TRUE
  /\ checker' = "leaving"
  /\ UNCHANGED <<outcome, made, testVars, stop, responses, wg, failed>>

\* ... and then wg.Done.
Leave ==
  /\ checker = "leaving"
  /\ wg' = wg - 1
  /\ checker' = "gone"
  /\ UNCHANGED <<outcome, made, testVars, stop, responses, closed, failed>>

-----------------------------------------------------------------------------
(* The test *)

\* It receives a response, while it works or in its range loop.
Receive ==
  /\ test \in {"working", "draining"}
  /\ responses # <<>>
  /\ got' = Append(got, Head(responses))
  /\ responses' = Tail(responses)
  /\ UNCHANGED <<checkerVars, test, serverUp, stop, closed, wg, failed>>

\* It sends the signal to a channel with a buffer of one.
SendStop ==
  /\ test = "working"
  /\ stop' = TRUE
  /\ test' = "draining"
  /\ UNCHANGED <<checkerVars, got, serverUp, responses, closed, wg, failed>>

\* The range loop ends when the channel is closed and empty.
EndRange ==
  /\ test = "draining"
  /\ closed
  /\ responses = <<>>
  /\ test' = "waiting"
  /\ UNCHANGED <<checkerVars, got, serverUp, stop, responses, closed, wg, failed>>

\* wg.Wait returns, and the test shuts its server down.
Shutdown ==
  /\ test = "waiting"
  /\ wg = 0
  /\ serverUp' = FALSE
  /\ test' = "ended"
  /\ UNCHANGED <<checkerVars, got, stop, responses, closed, wg, failed>>

-----------------------------------------------------------------------------

CheckerStep == Request \/ SendResponse \/ ReportDowntime \/ CloseResponses \/ Leave

Next ==
  \/ CheckerStep \/ Tick \/ TakeStop
  \/ Receive \/ SendStop \/ EndRange \/ Shutdown

\* Fairness: the goroutine runs, a request ends (the client has a timeout),
\* select does not pass over a waiting signal forever, and a test that has
\* signalled goes on. Nothing forces the test to signal or to read before.
Fairness ==
  /\ WF_vars(CheckerStep) /\ WF_vars(Tick) /\ SF_vars(TakeStop)
  /\ WF_vars(test = "draining" /\ Receive) /\ WF_vars(EndRange) /\ WF_vars(Shutdown)

Spec == Init /\ [][Next]_vars /\ Fairness

-----------------------------------------------------------------------------

TypeOK ==
  /\ checker \in {"selecting", "requesting", "sending", "reporting", "closing", "leaving", "gone"}
  /\ outcome \in Outcomes
  /\ made \in Seq(Outcomes)
  /\ test \in {"working", "draining", "waiting", "ended"}
  /\ stop \in BOOLEAN
  /\ responses \in Seq(Outcomes) /\ Len(responses) <= Buffer
  /\ closed \in BOOLEAN
  /\ got \in Seq(Outcomes)
  /\ wg \in {0, 1}
  /\ failed \in BOOLEAN
  /\ serverUp \in BOOLEAN

\* No downtime goes unnoticed and none is made up: when the test ends, it is
\* marked as failed exactly if a request got something else than a 200, even
\* if its response was dropped from a full buffer; so shutting the server down
\* is not mistaken for downtime (lines 39-56 and the order of lines 31-32).
VerdictIsTrue ==
  test = "ended" => (failed <=> \E i \in DOMAIN made : made[i] # "ok")

\* "the channel has a buffer of 1000, after which it will start to drop the
\* send events" (continuous.go:20): as long as no more than a bufferful of
\* requests was made, a test that reads to the end has each response, in order.
NothingDropped ==
  test \in {"waiting", "ended"} /\ Len(made) <= Buffer => got = made

\* A test that signals gets to its end, though it may not have read the responses
\* and the buffer may be full when it does.
StopEndsTest == test = "draining" ~> test = "ended"

\* The checks go on though nobody reads the responses: a full buffer does not
\* block the goroutine (the default of line 44).
NeverStalls == checker = "sending" ~> checker = "selecting"

=============================================================================
