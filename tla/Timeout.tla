------------------------------ MODULE Timeout ------------------------------
(***************************************************************************)
(* retry.DoWithTimeoutE: a caller runs an action in a goroutine of its own *)
(* and waits for the result or for the deadline, whichever select takes    *)
(* first. The goroutine outlives a call that timed out. The calls run in   *)
(* parallel or one after the other, each with its own channel.             *)
(***************************************************************************)
EXTENDS Sequences, Naturals

CONSTANTS
  Calls,     \* the calls of DoWithTimeoutE
  Results,   \* what an action may return (output and error together)
  TimedOut,  \* the answer TimeoutExceeded
  Nothing    \* no answer yet

VARIABLES
  caller,    \* where each call is: "idle", "waiting" in the select, "returned"
  worker,    \* its goroutine: "none", "acting", "sending", "gone"
  made,      \* what its action returned
  chan,      \* its resultChannel
  expired,   \* whether its context's deadline has passed
  answer     \* what the call returned

vars == <<caller, worker, made, chan, expired, answer>>

\* make(chan Either, 1)
Capacity == 1

Init ==
  /\ caller = [c \in Calls |-> "idle"]
  /\ worker = [c \in Calls |-> "none"]
  /\ made = [c \in Calls |-> Nothing]
  /\ chan = [c \in Calls |-> <<>>]
  /\ expired = [c \in Calls |-> FALSE]
  /\ answer = [c \in Calls |-> Nothing]

\* The call sets its timer, makes its channel and starts the goroutine.
Start(c) ==
  /\ caller[c] = "idle"
  /\ caller' = [caller EXCEPT ![c] = "waiting"]
  /\ worker' = [worker EXCEPT ![c] = "acting"]
  /\ UNCHANGED <<made, chan, expired, answer>>

\* The action returns. It may also never do so.
ActionReturns(c) ==
  /\ worker[c] = "acting"
  /\ worker' = [worker EXCEPT ![c] = "sending"]
  /\ \E r \in Results : made' = [made EXCEPT ![c] = r]
  /\ UNCHANGED <<caller, chan, expired, answer>>

\* The call returns a.
Answer(c, a) ==
  /\ answer' = [answer EXCEPT ![c] = a]
  /\ caller' = [caller EXCEPT ![c] = "returned"]

Send_Unbuffered(c) ==
  /\ worker[c] = "sending"
  /\ caller[c] = "waiting"
  /\ worker' = [worker EXCEPT ![c] = "gone"]
  /\ Answer(c, made[c])
  /\ UNCHANGED <<made, chan, expired>>

\* The goroutine sends the result and ends.
Send(c) ==
  /\ worker[c] = "sending"
  /\ Len(chan[c]) < Capacity
  /\ worker' = [worker EXCEPT ![c] = "gone"]
  /\ chan' = [chan EXCEPT ![c] = Append(@, made[c])]
  /\ UNCHANGED <<caller, made, expired, answer>>

Deadline(c) ==
  /\ caller[c] = "waiting"
  /\ ~expired[c]
  /\ expired' = [expired EXCEPT ![c] = TRUE]
  /\ UNCHANGED <<caller, worker, made, chan, answer>>

\* The select takes the result, also when the deadline has passed as well.
TakeResult(c) ==
  /\ caller[c] = "waiting"
  /\ chan[c] # <<>>
  /\ Answer(c, Head(chan[c]))
  /\ chan' = [chan EXCEPT ![c] = Tail(@)]
  /\ UNCHANGED <<worker, made, expired>>

TakeTimeout_Default(c) ==
  /\ caller[c] = "waiting"
  /\ Answer(c, TimedOut)
  /\ UNCHANGED <<worker, made, chan, expired>>

\* The select takes the deadline, also when a result has arrived as well.
TakeTimeout(c) ==
  /\ caller[c] = "waiting"
  /\ expired[c]
  /\ Answer(c, TimedOut)
  /\ UNCHANGED <<worker, made, chan, expired>>

Next ==
  \E c \in Calls :
    \/ Start(c) \/ ActionReturns(c) \/ Send(c)
    \/ Deadline(c) \/ TakeResult(c) \/ TakeTimeout(c)

\* Goroutines that can run do run and the clock advances. Nothing makes an
\* action return.
Fairness ==
  \A c \in Calls :
    /\ WF_vars(Send(c))
    /\ WF_vars(Deadline(c))
    /\ WF_vars(TakeResult(c) \/ TakeTimeout(c))

Spec == Init /\ [][Next]_vars /\ Fairness

-----------------------------------------------------------------------------

TypeOK ==
  /\ caller \in [Calls -> {"idle", "waiting", "returned"}]
  /\ worker \in [Calls -> {"none", "acting", "sending", "gone"}]
  /\ made \in [Calls -> Results \union {Nothing}]
  /\ chan \in [Calls -> {<<>>} \union {<<r>> : r \in Results}]
  /\ expired \in [Calls -> BOOLEAN]
  /\ answer \in [Calls -> Results \union {TimedOut, Nothing}]

\* A call reports a timeout only after its deadline, and otherwise what its own
\* action returned, which it then took off the channel (lines 45-50).
AnswerIsTrue ==
  \A c \in Calls :
    /\ answer[c] = TimedOut => expired[c]
    /\ answer[c] \in Results => answer[c] = made[c] /\ chan[c] = <<>>

\* Every call returns, even if its action never does (the ctx.Done case).
CallReturns == \A c \in Calls : caller[c] = "waiting" ~> caller[c] = "returned"

\* A goroutine whose action returned ends, even if nobody waits for its result
\* any more: the buffer of line 38 takes it.
NoStuckWorker == \A c \in Calls : worker[c] = "sending" ~> worker[c] = "gone"

=============================================================================
