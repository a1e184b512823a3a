------------------------------- MODULE Queue -------------------------------
(***************************************************************************)
(* An SQS queue as modules/aws/sqs.go uses it. One test creates the queue; *)
(* senders and receivers, tests or the code they deployed, share its URL   *)
(* and its own life is theirs to end. Receiving polls in cycles that only  *)
(* wait: between two of them anything may happen to the queue. Every call  *)
(* of the service may fail.                                                *)
(***************************************************************************)
EXTENDS Integers

CONSTANTS
  Receivers,   \* goroutines that receive from the queue
  Messages,    \* messages, each sent at most once
  Timeouts     \* timeouts that callers pass, in seconds

ASSUME QueueAssumption ==
  /\ Timeouts \subseteq Nat
  /\ \A m \in Messages : m \notin {"none", "error", "timeout"}

VARIABLES
  queue,       \* "none", "open" or "deleted"
  fifo,        \* whether the queue was created as a FIFO queue
  stored,      \* the messages in the queue that can be received
  inFlight,    \* the messages in the queue that a receiver has and others do not see
  consumed,    \* the messages deleted by a receiver
  sent,        \* what each send returned: "unsent", "ok", "error"
  wait,        \* the call of WaitForQueueMessage of each receiver
  waited       \* for how many seconds it has waited

queueVars == <<queue, fifo, stored, inFlight, consumed, sent, wait, waited>>

NoWait == [pc |-> "idle", timeout |-> 0, i |-> 0, answer |-> "none"]

QueueInit ==
  /\ queue = "none"
  /\ fifo = FALSE
  /\ stored = {}
  /\ inFlight = {}
  /\ consumed = {}
  /\ sent = [m \in Messages |-> "unsent"]
  /\ wait = [r \in Receivers |-> NoWait]
  /\ waited = [r \in Receivers |-> 0]

\* CreateRandomQueueE and CreateRandomFifoQueueE. The name is a fresh UUID, so
\* creating never meets another test's queue; a create that fails leaves none.
CreateRandomQueue ==
  /\ queue = "none"
  /\ queue' = "open"
  /\ fifo' \in BOOLEAN
  /\ UNCHANGED <<stored, inFlight, consumed, sent, wait, waited>>

Accept(m) ==
  /\ sent' = [sent EXCEPT ![m] = "ok"]
  /\ stored' = stored \union {m}

\* The error NonExistentQueue is only warned about: the listener is gone.
Refuse(m) ==
  /\ sent' = [sent EXCEPT ![m] = IF queue = "deleted" THEN "ok" ELSE "error"]
  /\ UNCHANGED stored

\* SendMessageToQueueE and SendMessageToFifoQueueE.
SendMessageToQueue(m) ==
  /\ queue # "none"
  /\ sent[m] = "unsent"
  /\ \/ queue = "open" /\ Accept(m)
     \/ Refuse(m)
  /\ UNCHANGED <<queue, fifo, inFlight, consumed, wait, waited>>

\* The service lets a call wait for at most 20 seconds, so that a longer
\* timeout is cut into cycles of 20 and a shorter one into cycles of 1.
CycleLength(timeout) == IF timeout >= 20 THEN 20 ELSE 1

Cycles_RoundedUp(timeout) == IF timeout >= 20 THEN timeout \div 20 + 1 ELSE timeout

Cycles(timeout) == IF timeout >= 20 THEN timeout \div 20 ELSE timeout

WaitForQueueMessage(r) ==
  /\ queue # "none"
  /\ wait[r].pc = "idle"
  /\ \E timeout \in Timeouts :
       wait' = [wait EXCEPT ![r] = [NoWait EXCEPT !.pc = "cycle", !.timeout = timeout]]
  /\ waited' = [waited EXCEPT ![r] = 0]
  /\ UNCHANGED <<queue, fifo, stored, inFlight, consumed, sent>>

Answer(r, a) == wait' = [wait EXCEPT ![r].pc = "returned", ![r].answer = a]

InCycle(r) == wait[r].pc = "cycle" /\ wait[r].i < Cycles(wait[r].timeout)

\* A cycle ends with a message, which the service hides from other receivers. A
\* FIFO queue hands out no message of a group while another is in flight.
ReceiveOne(r) ==
  /\ InCycle(r)
  /\ queue = "open"
  /\ fifo => inFlight = {}
  /\ \E m \in stored :
       /\ Answer(r, m)
       /\ stored' = stored \ {m}
       /\ inFlight' = inFlight \union {m}
  /\ UNCHANGED <<queue, fifo, consumed, sent, waited>>

\* A cycle ends without a message, although one may have been stored just now.
ReceiveNone(r) ==
  /\ InCycle(r)
  /\ queue = "open"
  /\ wait' = [wait EXCEPT ![r].i = @ + 1]
  /\ waited' = [waited EXCEPT ![r] = @ + CycleLength(wait[r].timeout)]
  /\ UNCHANGED <<queue, fifo, stored, inFlight, consumed, sent>>

ReceiveError(r) ==
  /\ InCycle(r)
  /\ Answer(r, "error")
  /\ UNCHANGED <<queue, fifo, stored, inFlight, consumed, sent, waited>>

ReceiveTimeout(r) ==
  /\ wait[r].pc = "cycle" /\ ~InCycle(r)
  /\ Answer(r, "timeout")
  /\ UNCHANGED <<queue, fifo, stored, inFlight, consumed, sent, waited>>

\* Deleting goes by the receipt, also if the message is visible again.
DeleteMessageFromQueue(r) ==
  /\ queue = "open"
  /\ wait[r].pc = "returned" /\ wait[r].answer \in Messages
  /\ consumed' = consumed \union {wait[r].answer}
  /\ stored' = stored \ {wait[r].answer}
  /\ inFlight' = inFlight \ {wait[r].answer}
  /\ wait' = [wait EXCEPT ![r] = NoWait]
  /\ UNCHANGED <<queue, fifo, sent, waited>>

\* A message that was not deleted in time is seen by others again.
VisibilityExpires(m) ==
  /\ m \in inFlight
  /\ inFlight' = inFlight \ {m}
  /\ stored' = stored \union {m}
  /\ UNCHANGED <<queue, fifo, consumed, sent, wait, waited>>

DeleteQueue ==
  /\ queue = "open"
  /\ queue' = "deleted"
  /\ stored' = {} /\ inFlight' = {}
  /\ UNCHANGED <<fifo, consumed, sent, wait, waited>>

Poll(r) == ReceiveOne(r) \/ ReceiveNone(r) \/ ReceiveError(r) \/ ReceiveTimeout(r)

QueueNext ==
  \/ CreateRandomQueue \/ DeleteQueue
  \/ \E m \in Messages :
       SendMessageToQueue(m) \/ VisibilityExpires(m)
  \/ \E r \in Receivers :
       Poll(r) \/ WaitForQueueMessage(r) \/ DeleteMessageFromQueue(r)

\* A call of the service comes back.
QueueFairness == \A r \in Receivers : WF_queueVars(Poll(r))

-----------------------------------------------------------------------------

WaitCalls == [pc : {"idle", "cycle", "returned"}, timeout : Timeouts \union {0},
              i : Nat, answer : Messages \union {"none", "error", "timeout"}]

QueueTypeOK ==
  /\ queue \in {"none", "open", "deleted"} /\ fifo \in BOOLEAN
  /\ stored \subseteq Messages /\ inFlight \subseteq Messages /\ consumed \subseteq Messages
  /\ sent \in [Messages -> {"unsent", "ok", "error"}]
  /\ wait \in [Receivers -> WaitCalls]
  /\ waited \in [Receivers -> Nat]

\* A send that reported success has put its message into the queue, where it
\* stays until a receiver deletes it or the queue goes.
SentIsKept ==
  queue = "open" =>
    \A m \in Messages : sent[m] = "ok" => m \in stored \union inFlight \union consumed

\* A wait reports a timeout only after it has waited for all of it but a part
\* of the last cycle, and it never waits for longer than it was asked to.
TimeoutIsEarned ==
  \A r \in Receivers :
    /\ wait[r].pc # "idle" => waited[r] <= wait[r].timeout
    /\ wait[r].answer = "timeout" =>
         wait[r].timeout - waited[r] < CycleLength(wait[r].timeout)

\* What a sender and a receiver are told is so.
QueueAnswersAreTrue == SentIsKept /\ TimeoutIsEarned

WaitsReturn == \A r \in Receivers : wait[r].pc = "cycle" ~> wait[r].pc # "cycle"

=============================================================================
