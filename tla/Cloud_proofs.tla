---------------------------- MODULE Cloud_proofs ----------------------------
(***************************************************************************)
(* Proofs about the operations on cloud services, for any number of        *)
(* receivers, messages, objects, images, instances, tests and regions.     *)
(* Each service has an invariant of its own; the last section carries them *)
(* over to CloudSpec.                                                      *)
(***************************************************************************)
EXTENDS Cloud, OrderLemmas

-----------------------------------------------------------------------------
(* The queue. *)

\* Nobody sends to a queue before there is one.
NothingSentYet == queue = "none" => \A m \in Messages : sent[m] = "unsent"

\* A receiver has waited for the whole length of each cycle behind it, and it
\* has answered with a timeout when no cycle was left.
CyclesAreCounted ==
  \A r \in Receivers :
    /\ wait[r].pc \in {"idle", "cycle"} => wait[r].answer = "none"
    /\ wait[r].pc # "idle" =>
         /\ wait[r].i <= Cycles(wait[r].timeout)
         /\ waited[r] = wait[r].i * CycleLength(wait[r].timeout)
    /\ wait[r].answer = "timeout" => wait[r].i = Cycles(wait[r].timeout)

QueueIInv == QueueTypeOK /\ NothingSentYet /\ SentIsKept /\ CyclesAreCounted

\* The cycles of a timeout fit into it, and what is left is less than a cycle.
LEMMA CyclesFit ==
  ASSUME NEW t \in Nat, NEW i \in Nat, i <= Cycles(t)
  PROVE  /\ Cycles(t) \in Nat /\ CycleLength(t) \in Nat
         /\ i * CycleLength(t) \in Nat
         /\ i * CycleLength(t) <= t
         /\ i = Cycles(t) => t - i * CycleLength(t) < CycleLength(t)
         /\ i * CycleLength(t) + CycleLength(t) = (i + 1) * CycleLength(t)
<1>1. CASE t >= 20
  <2>1. CycleLength(t) = 20 /\ Cycles(t) = t \div 20
    BY <1>1 DEF CycleLength, Cycles
  <2>2. t \div 20 \in Nat /\ 20 * (t \div 20) <= t /\ t < 20 * (t \div 20) + 20
    OBVIOUS
  <2>3. i * 20 <= t /\ (i = t \div 20 => t - i * 20 < 20)
    BY <2>1, <2>2
  <2> QED BY <2>1, <2>2, <2>3
<1>2. CASE ~(t >= 20)
  <2>1. CycleLength(t) = 1 /\ Cycles(t) = t
    BY <1>2 DEF CycleLength, Cycles
  <2> QED BY <2>1
<1> QED BY <1>1, <1>2

LEMMA WaitCallsAreCounted ==
  ASSUME NEW w \in WaitCalls PROVE w.timeout \in Nat /\ w.i \in Nat
<1>1. w.timeout \in Timeouts \union {0} /\ w.i \in Nat
  BY DEF WaitCalls
<1>2. \A t \in Timeouts \union {0} : t \in Nat
  BY QueueAssumption
<1> QED BY <1>1, <1>2

LEMMA QueueInitIInv == QueueInit => QueueIInv
<1> SUFFICES ASSUME QueueInit PROVE QueueIInv
  OBVIOUS
<1>1. QueueTypeOK
  <2>1. queue \in {"none", "open", "deleted"} /\ fifo \in BOOLEAN
    BY DEF QueueInit
  <2>2. stored \subseteq Messages /\ inFlight \subseteq Messages /\ consumed \subseteq Messages
    BY DEF QueueInit
  <2>3. sent \in [Messages -> {"unsent", "ok", "error"}] /\ waited \in [Receivers -> Nat]
    BY DEF QueueInit
  <2>4. wait \in [Receivers -> WaitCalls]
    BY DEF QueueInit, NoWait, WaitCalls
  <2> QED BY <2>1, <2>2, <2>3, <2>4 DEF QueueTypeOK
<1>2. NothingSentYet /\ SentIsKept
  BY DEF QueueInit, NothingSentYet, SentIsKept
<1>3. CyclesAreCounted
  BY DEF QueueInit, CyclesAreCounted, NoWait
<1> QED BY <1>1, <1>2, <1>3 DEF QueueIInv

LEMMA QueueNextTypeOK == QueueTypeOK /\ [QueueNext]_queueVars => QueueTypeOK'
<1> SUFFICES ASSUME QueueTypeOK, [QueueNext]_queueVars PROVE QueueTypeOK'
  OBVIOUS
<1> USE QueueAssumption DEF QueueTypeOK
<1>1. CASE CreateRandomQueue
  BY <1>1 DEF CreateRandomQueue
<1>2. CASE DeleteQueue
  BY <1>2 DEF DeleteQueue
<1>3. ASSUME NEW m \in Messages, SendMessageToQueue(m) PROVE QueueTypeOK'
  <2>1. UNCHANGED <<queue, fifo, inFlight, consumed, wait, waited>>
    BY <1>3 DEF SendMessageToQueue
  <2>2. stored' \subseteq Messages /\ sent' \in [Messages -> {"unsent", "ok", "error"}]
    BY <1>3 DEF SendMessageToQueue, Accept, Refuse
  <2> QED BY <2>1, <2>2
<1>4. ASSUME NEW m \in Messages, VisibilityExpires(m) PROVE QueueTypeOK'
  BY <1>4 DEF VisibilityExpires
<1>0. ASSUME NEW r \in Receivers, NEW a \in Messages \union {"error", "timeout"}, Answer(r, a)
      PROVE  wait' \in [Receivers -> WaitCalls]
  <2>1. wait' = [wait EXCEPT ![r] = [wait[r] EXCEPT !.pc = "returned", !.answer = a]]
    BY <1>0 DEF Answer
  <2>2. [wait[r] EXCEPT !.pc = "returned", !.answer = a] \in WaitCalls
    BY DEF WaitCalls
  <2> QED BY <2>1, <2>2
<1>5. ASSUME NEW r \in Receivers, ReceiveOne(r) PROVE QueueTypeOK'
  BY <1>0, <1>5 DEF ReceiveOne
<1>6. ASSUME NEW r \in Receivers, ReceiveNone(r) PROVE QueueTypeOK'
  <2>1. CycleLength(wait[r].timeout) \in Nat
    BY DEF CycleLength
  <2>2. wait' = [wait EXCEPT ![r] = [wait[r] EXCEPT !.i = @ + 1]]
        /\ waited' = [waited EXCEPT ![r] = @ + CycleLength(wait[r].timeout)]
        /\ UNCHANGED <<queue, fifo, stored, inFlight, consumed, sent>>
    BY <1>6 DEF ReceiveNone
  <2>3. [wait[r] EXCEPT !.i = @ + 1] \in WaitCalls
    BY DEF WaitCalls
  <2> QED BY <2>1, <2>2, <2>3
<1>7. ASSUME NEW r \in Receivers, ReceiveError(r) PROVE QueueTypeOK'
  BY <1>0, <1>7 DEF ReceiveError
<1>8. ASSUME NEW r \in Receivers, ReceiveTimeout(r) PROVE QueueTypeOK'
  BY <1>0, <1>8 DEF ReceiveTimeout
<1>9. ASSUME NEW r \in Receivers, WaitForQueueMessage(r) PROVE QueueTypeOK'
  <2>1. PICK timeout \in Timeouts :
          wait' = [wait EXCEPT ![r] = [NoWait EXCEPT !.pc = "cycle", !.timeout = timeout]]
    BY <1>9 DEF WaitForQueueMessage
  <2>2. [NoWait EXCEPT !.pc = "cycle", !.timeout = timeout] \in WaitCalls
    BY DEF NoWait, WaitCalls
  <2>3. waited' = [waited EXCEPT ![r] = 0] /\ UNCHANGED <<queue, fifo, stored, inFlight, consumed, sent>>
    BY <1>9 DEF WaitForQueueMessage
  <2> QED BY <2>1, <2>2, <2>3
<1>10. ASSUME NEW r \in Receivers, DeleteMessageFromQueue(r) PROVE QueueTypeOK'
  BY <1>10 DEF DeleteMessageFromQueue, NoWait, WaitCalls
<1>11. CASE UNCHANGED queueVars
  BY <1>11 DEF queueVars
<1> QED
  BY <1>1, <1>2, <1>3, <1>4, <1>5, <1>6, <1>7, <1>8, <1>9, <1>10, <1>11
     DEF QueueNext, Poll

\* A message leaves the queue only by a receiver's hand or with the queue.
LEMMA QueueNextSentIsKept ==
  QueueTypeOK /\ NothingSentYet /\ SentIsKept /\ [QueueNext]_queueVars
    => NothingSentYet' /\ SentIsKept'
<1> SUFFICES ASSUME QueueTypeOK, NothingSentYet, SentIsKept, [QueueNext]_queueVars
             PROVE  NothingSentYet' /\ SentIsKept'
  OBVIOUS
<1> USE DEF NothingSentYet, SentIsKept
<1>1. CASE CreateRandomQueue
  BY <1>1 DEF CreateRandomQueue
<1>2. CASE DeleteQueue
  BY <1>2 DEF DeleteQueue
<1>3. ASSUME NEW m \in Messages, SendMessageToQueue(m) PROVE NothingSentYet' /\ SentIsKept'
  BY <1>3 DEF SendMessageToQueue, Accept, Refuse, QueueTypeOK
<1>4. ASSUME NEW m \in Messages, VisibilityExpires(m) PROVE NothingSentYet' /\ SentIsKept'
  BY <1>4 DEF VisibilityExpires
<1>5. ASSUME NEW r \in Receivers, Poll(r) PROVE NothingSentYet' /\ SentIsKept'
  BY <1>5 DEF Poll, ReceiveOne, ReceiveNone, ReceiveError, ReceiveTimeout
<1>6. ASSUME NEW r \in Receivers, WaitForQueueMessage(r) PROVE NothingSentYet' /\ SentIsKept'
  BY <1>6 DEF WaitForQueueMessage
<1>7. ASSUME NEW r \in Receivers, DeleteMessageFromQueue(r) PROVE NothingSentYet' /\ SentIsKept'
  BY <1>7 DEF DeleteMessageFromQueue
<1>8. CASE UNCHANGED queueVars
  BY <1>8 DEF queueVars
<1> QED
  BY <1>1, <1>2, <1>3, <1>4, <1>5, <1>6, <1>7, <1>8 DEF QueueNext

\* A step of one receiver's wait leaves the accounts of the others alone.
LEMMA QueueNextCyclesAreCounted ==
  QueueTypeOK /\ CyclesAreCounted /\ [QueueNext]_queueVars => CyclesAreCounted'
<1> SUFFICES ASSUME QueueTypeOK, CyclesAreCounted, [QueueNext]_queueVars
             PROVE  CyclesAreCounted'
  OBVIOUS
<1> DEFINE Counted(w, s) ==
             /\ w.pc \in {"idle", "cycle"} => w.answer = "none"
             /\ w.pc # "idle" => w.i <= Cycles(w.timeout) /\ s = w.i * CycleLength(w.timeout)
             /\ w.answer = "timeout" => w.i = Cycles(w.timeout)
<1>1. /\ wait \in [Receivers -> WaitCalls] /\ waited \in [Receivers -> Nat]
      /\ \A r \in Receivers : Counted(wait[r], waited[r])
  BY DEF QueueTypeOK, CyclesAreCounted
<1>2. ASSUME NEW r \in Receivers, NEW w, NEW s, Counted(w, s),
             wait' = [wait EXCEPT ![r] = w], waited' = [waited EXCEPT ![r] = s]
      PROVE  CyclesAreCounted'
  BY <1>1, <1>2 DEF CyclesAreCounted
<1>3. \A r \in Receivers : waited = [waited EXCEPT ![r] = waited[r]]
  BY <1>1
<1>4. \A r \in Receivers : wait[r].timeout \in Nat /\ wait[r].i \in Nat /\ waited[r] \in Nat
  <2>1. \A r \in Receivers : wait[r] \in WaitCalls /\ waited[r] \in Nat
    BY <1>1
  <2> QED BY <2>1, WaitCallsAreCounted
<1>5. ASSUME NEW r \in Receivers, ReceiveOne(r) PROVE CyclesAreCounted'
  <2>1. PICK m \in Messages : Answer(r, m)
    BY <1>5 DEF ReceiveOne, QueueTypeOK
  <2> DEFINE w == [wait[r] EXCEPT !.pc = "returned", !.answer = m]
  <2>2. wait' = [wait EXCEPT ![r] = w] /\ waited' = [waited EXCEPT ![r] = waited[r]]
    BY <1>3, <1>5, <2>1 DEF Answer, ReceiveOne
  <2>3. w.pc = "returned" /\ w.answer = m /\ w.i = wait[r].i /\ w.timeout = wait[r].timeout
    BY <1>1 DEF WaitCalls
  <2>4. wait[r].pc = "cycle" /\ m # "timeout"
    BY <1>5, QueueAssumption DEF ReceiveOne, InCycle
  <2>5. Counted(w, waited[r])
    BY <1>1, <2>3, <2>4
  <2> QED BY <1>2, <2>2, <2>5
<1>6. ASSUME NEW r \in Receivers, ReceiveNone(r) PROVE CyclesAreCounted'
  <2> DEFINE t == wait[r].timeout
             w == [wait[r] EXCEPT !.i = @ + 1]
             s == waited[r] + CycleLength(t)
  <2>1. wait[r].pc = "cycle" /\ wait[r].i < Cycles(t)
    BY <1>6 DEF ReceiveNone, InCycle
  <2>2. wait' = [wait EXCEPT ![r] = w] /\ waited' = [waited EXCEPT ![r] = s]
    BY <1>6 DEF ReceiveNone
  <2>3. w.pc = "cycle" /\ w.answer = wait[r].answer /\ w.i = wait[r].i + 1 /\ w.timeout = t
    BY <1>1, <2>1 DEF WaitCalls
  <2>4. waited[r] = wait[r].i * CycleLength(t) /\ wait[r].answer = "none"
    BY <1>1, <2>1
  <2>5. Cycles(t) \in Nat
    BY <1>4 DEF Cycles
  <2>6. w.i <= Cycles(t)
    BY <1>4, <2>1, <2>3, <2>5
  <2>7. s = w.i * CycleLength(t)
    BY <1>4, <2>1, <2>3, <2>4, <2>5, CyclesFit
  <2>8. Counted(w, s)
    BY <2>3, <2>4, <2>6, <2>7
  <2> QED BY <1>2, <2>2, <2>8
<1>7. ASSUME NEW r \in Receivers, ReceiveError(r) \/ ReceiveTimeout(r) PROVE CyclesAreCounted'
  <2>1. PICK a \in {"error", "timeout"} : Answer(r, a) /\ (a = "timeout" => ~InCycle(r))
    BY <1>7 DEF ReceiveError, ReceiveTimeout
  <2> DEFINE w == [wait[r] EXCEPT !.pc = "returned", !.answer = a]
  <2>2. wait' = [wait EXCEPT ![r] = w] /\ waited' = [waited EXCEPT ![r] = waited[r]]
    <3>1. waited' = waited
      BY <1>7 DEF ReceiveError, ReceiveTimeout
    <3>2. wait' = [wait EXCEPT ![r] = w]
      BY <2>1 DEF Answer
    <3> QED BY <1>3, <3>1, <3>2
  <2>3. w.pc = "returned" /\ w.answer = a /\ w.i = wait[r].i /\ w.timeout = wait[r].timeout
    BY <1>1 DEF WaitCalls
  <2>4. wait[r].pc = "cycle" /\ Cycles(wait[r].timeout) \in Nat
    BY <1>4, <1>7 DEF ReceiveError, ReceiveTimeout, InCycle, Cycles
  <2>5. wait[r].i <= Cycles(wait[r].timeout)
        /\ (a = "timeout" => wait[r].i = Cycles(wait[r].timeout))
    <3>1. wait[r].i <= Cycles(wait[r].timeout)
      BY <1>1, <2>4
    <3>2. a = "timeout" => ~(wait[r].i < Cycles(wait[r].timeout))
      BY <2>1, <2>4 DEF InCycle
    <3> QED BY <1>4, <2>4, <3>1, <3>2
  <2>6. Counted(w, waited[r])
    BY <1>1, <2>3, <2>4, <2>5
  <2> QED BY <1>2, <2>2, <2>6
<1>8. ASSUME NEW r \in Receivers, WaitForQueueMessage(r) PROVE CyclesAreCounted'
  <2>1. PICK timeout \in Timeouts :
          wait' = [wait EXCEPT ![r] = [NoWait EXCEPT !.pc = "cycle", !.timeout = timeout]]
    BY <1>8 DEF WaitForQueueMessage
  <2>2. 0 <= Cycles(timeout) /\ 0 = 0 * CycleLength(timeout)
    BY QueueAssumption DEF Cycles, CycleLength
  <2>3. Counted([NoWait EXCEPT !.pc = "cycle", !.timeout = timeout], 0)
    BY <2>2 DEF NoWait
  <2>4. waited' = [waited EXCEPT ![r] = 0]
    BY <1>8 DEF WaitForQueueMessage
  <2> QED BY <1>2, <2>1, <2>3, <2>4
<1>9. ASSUME NEW r \in Receivers, DeleteMessageFromQueue(r) PROVE CyclesAreCounted'
  <2>1. wait' = [wait EXCEPT ![r] = NoWait] /\ waited' = [waited EXCEPT ![r] = waited[r]]
    BY <1>3, <1>9 DEF DeleteMessageFromQueue
  <2>2. Counted(NoWait, waited[r])
    BY DEF NoWait
  <2> QED BY <1>2, <2>1, <2>2
<1>10. CASE UNCHANGED <<wait, waited>>
  BY <1>10 DEF CyclesAreCounted
<1> HIDE DEF Counted
<1> QED
  BY <1>5, <1>6, <1>7, <1>8, <1>9, <1>10
     DEF QueueNext, Poll, CreateRandomQueue, DeleteQueue, SendMessageToQueue,
         VisibilityExpires, queueVars

\* What the account says is what a timeout has to say.
LEMMA CountedTimeoutIsEarned == QueueTypeOK /\ CyclesAreCounted => TimeoutIsEarned
<1> SUFFICES ASSUME QueueTypeOK, CyclesAreCounted, NEW r \in Receivers
             PROVE  /\ wait[r].pc # "idle" => waited[r] <= wait[r].timeout
                    /\ wait[r].answer = "timeout" =>
                         wait[r].timeout - waited[r] < CycleLength(wait[r].timeout)
  BY DEF TimeoutIsEarned
<1>1. wait[r].timeout \in Nat /\ wait[r].i \in Nat
  <2>1. wait[r] \in WaitCalls
    BY DEF QueueTypeOK
  <2> QED BY <2>1, WaitCallsAreCounted
<1>2. wait[r].answer = "timeout" => wait[r].pc # "idle" /\ wait[r].i = Cycles(wait[r].timeout)
  BY DEF CyclesAreCounted
<1>3. CASE wait[r].pc # "idle"
  <2>1. wait[r].i <= Cycles(wait[r].timeout)
        /\ waited[r] = wait[r].i * CycleLength(wait[r].timeout)
    BY <1>3 DEF CyclesAreCounted
  <2> QED BY <1>1, <1>2, <2>1, CyclesFit
<1> QED BY <1>2, <1>3

LEMMA QueueNextIInv == QueueIInv /\ [QueueNext]_queueVars => QueueIInv'
BY QueueNextTypeOK, QueueNextSentIsKept, QueueNextCyclesAreCounted DEF QueueIInv

LEMMA QueueIInvAnswers == QueueIInv => QueueAnswersAreTrue
BY CountedTimeoutIsEarned DEF QueueIInv, QueueAnswersAreTrue

-----------------------------------------------------------------------------
(* The cleaners of machine images. *)

\* A call that has deregistered its image has listed every snapshot of it that
\* is left; one that is about to deregister has listed them all.
SnapshotsAreListed ==
  \A c \in Cleaners :
    /\ cleaner[c] = "deregistering" => Backing[target[c]] \intersect snaps \subseteq toDelete[c]
    /\ cleaner[c] = "deleting" => /\ target[c] \notin registered
                                  /\ Backing[target[c]] \intersect snaps \subseteq toDelete[c]

ImagesIInv == ImagesTypeOK /\ SnapshotsAreListed /\ ImagesAreDeleted

LEMMA ImagesInitIInv == ImagesInit => ImagesIInv
<1> SUFFICES ASSUME ImagesInit PROVE ImagesIInv
  OBVIOUS
<1>1. ImagesTypeOK
  BY ImagesAssumption DEF ImagesInit, ImagesTypeOK
<1>2. SnapshotsAreListed /\ ImagesAreDeleted
  BY DEF ImagesInit, SnapshotsAreListed, ImagesAreDeleted
<1> QED BY <1>1, <1>2 DEF ImagesIInv

LEMMA ImagesNextTypeOK == ImagesTypeOK /\ [ImagesNext]_imageVars => ImagesTypeOK'
<1> SUFFICES ASSUME ImagesTypeOK, [ImagesNext]_imageVars PROVE ImagesTypeOK'
  OBVIOUS
<1> USE ImagesAssumption DEF ImagesTypeOK, Fail
<1>1. CASE Build
  BY <1>1 DEF Build
<1>2. ASSUME NEW c \in Cleaners, NEW a \in Amis, BeginDelete(c, a) PROVE ImagesTypeOK'
  BY <1>2 DEF BeginDelete
<1>3. ASSUME NEW c \in Cleaners, GetEbsSnapshotsForAmi(c) PROVE ImagesTypeOK'
  BY <1>3 DEF GetEbsSnapshotsForAmi
<1>4. ASSUME NEW c \in Cleaners, DeleteAmi(c) PROVE ImagesTypeOK'
  BY <1>4 DEF DeleteAmi
<1>5. ASSUME NEW c \in Cleaners, DeleteEbsSnapshot(c) PROVE ImagesTypeOK'
  BY <1>5 DEF DeleteEbsSnapshot
<1>6. ASSUME NEW c \in Cleaners, Finish(c) PROVE ImagesTypeOK'
  BY <1>6 DEF Finish
<1>7. ASSUME NEW c \in Cleaners, ServiceFails(c) PROVE ImagesTypeOK'
  BY <1>7 DEF ServiceFails
<1>8. CASE UNCHANGED imageVars
  BY <1>8 DEF imageVars
<1> QED
  BY <1>1, <1>2, <1>3, <1>4, <1>5, <1>6, <1>7, <1>8 DEF ImagesNext, CleanerStep

\* Images and snapshots only go once there is a cleaner, so that what one of
\* them has found to be gone stays so whatever the others do.
LEMMA ImagesNextListed ==
  ImagesIInv /\ [ImagesNext]_imageVars => SnapshotsAreListed' /\ ImagesAreDeleted'
<1> SUFFICES ASSUME ImagesTypeOK, SnapshotsAreListed, ImagesAreDeleted, [ImagesNext]_imageVars
             PROVE  SnapshotsAreListed' /\ ImagesAreDeleted'
  BY DEF ImagesIInv
<1> USE ImagesAssumption DEF ImagesTypeOK, SnapshotsAreListed, ImagesAreDeleted, Fail
<1>1. CASE Build
  BY <1>1 DEF Build
<1>2. ASSUME NEW c \in Cleaners, NEW a \in Amis, BeginDelete(c, a)
      PROVE  SnapshotsAreListed' /\ ImagesAreDeleted'
  BY <1>2 DEF BeginDelete
<1>3. ASSUME NEW c \in Cleaners, GetEbsSnapshotsForAmi(c)
      PROVE  SnapshotsAreListed' /\ ImagesAreDeleted'
  BY <1>3 DEF GetEbsSnapshotsForAmi
<1>4. ASSUME NEW c \in Cleaners, DeleteAmi(c)
      PROVE  SnapshotsAreListed' /\ ImagesAreDeleted'
  BY <1>4 DEF DeleteAmi
<1>5. ASSUME NEW c \in Cleaners, DeleteEbsSnapshot(c)
      PROVE  SnapshotsAreListed' /\ ImagesAreDeleted'
  <2>1. PICK s \in toDelete[c] :
          IF s \in snaps /\ ~InUse(s)
          THEN /\ snaps' = snaps \ {s}
               /\ toDelete' = [toDelete EXCEPT ![c] = @ \ {s}]
               /\ UNCHANGED <<cleaner, fault>>
          ELSE /\ cleaner' = [cleaner EXCEPT ![c] = "error"]
               /\ fault' = [fault EXCEPT ![c] = @ \/ s \notin snaps
                                                   \/ \E a \in registered \ {target[c]} : s \in Backing[a]]
               /\ UNCHANGED <<snaps, toDelete>>
    BY <1>5 DEF DeleteEbsSnapshot
  <2>2. cleaner[c] = "deleting" /\ UNCHANGED <<registered, target>>
    BY <1>5 DEF DeleteEbsSnapshot
  <2>3. CASE s \in snaps /\ ~InUse(s)
    <3>1. SnapshotsAreListed'
      BY <2>1, <2>2, <2>3
    <3>2. ImagesAreDeleted'
      BY <2>1, <2>2, <2>3
    <3> QED BY <3>1, <3>2
  <2>4. CASE ~(s \in snaps /\ ~InUse(s))
    <3>1. s \notin snaps \/ \E a \in registered \ {target[c]} : s \in Backing[a]
      BY <2>2, <2>4 DEF InUse
    <3>2. fault' = [fault EXCEPT ![c] = TRUE]
      BY <2>1, <2>4, <3>1
    <3> QED BY <2>1, <2>2, <2>4, <3>2
  <2> QED BY <2>3, <2>4
<1>6. ASSUME NEW c \in Cleaners, Finish(c)
      PROVE  SnapshotsAreListed' /\ ImagesAreDeleted'
  BY <1>6 DEF Finish
<1>7. ASSUME NEW c \in Cleaners, ServiceFails(c)
      PROVE  SnapshotsAreListed' /\ ImagesAreDeleted'
  BY <1>7 DEF ServiceFails
<1>8. CASE UNCHANGED imageVars
  BY <1>8 DEF imageVars
<1> QED
  BY <1>1, <1>2, <1>3, <1>4, <1>5, <1>6, <1>7, <1>8 DEF ImagesNext, CleanerStep

LEMMA ImagesNextIInv == ImagesIInv /\ [ImagesNext]_imageVars => ImagesIInv'
BY ImagesNextTypeOK, ImagesNextListed DEF ImagesIInv

-----------------------------------------------------------------------------
(* Metadata and labels. *)

\* A struct with the current fingerprint has what the service has.
HandlesAreSnapshots ==
  \A t \in Tests :
    /\ handle[t].fingerprint <= tags.fingerprint
    /\ handle[t].fingerprint = tags.fingerprint => handle[t] = tags

MetadataIInv == MetadataTypeOK /\ HandlesAreSnapshots

\* The labels of a request are the given ones: a sequence made of a finite set
\* has its elements and no others, as an injection of a finite set into one of
\* the same size is onto.
LEMMA SetToSeqHasAll ==
  ASSUME NEW S, IsFiniteSet(S)
  PROVE  SetToSeq(S) \in Seq(S) /\ ToSet(SetToSeq(S)) = S
<1> DEFINE n == Cardinality(S)
           s == SetToSeq(S)
<1>1. n \in Nat /\ ExistsBijection(1 .. n, S)
  BY FS_CardinalityType
<1>2. s \in [1 .. n -> S] /\ IsInjective(s)
  <2>1. PICK f \in Bijection(1 .. n, S) : TRUE
    BY <1>1 DEF ExistsBijection
  <2>2. f \in [1 .. n -> S] /\ IsInjective(f)
    BY <2>1 DEF Bijection, Injection, IsInjective
  <2> QED BY <2>2 DEF SetToSeq
<1>3. s \in Injection(1 .. n, S)
  BY <1>2 DEF Injection
<1>4. IsFiniteSet(1 .. n) /\ Cardinality(1 .. n) = n
  BY <1>1, FS_Interval
<1>5. s \in Surjection(1 .. n, S)
  <2> HIDE DEF s
  <2> QED BY <1>3, <1>4, FS_Injection
<1>6. ToSet(s) = S
  BY <1>2, <1>5 DEF Surjection, ToSet
<1>7. s \in Seq(S)
  <2> HIDE DEF s
  <2> QED BY <1>1, <1>2
<1> QED BY <1>6, <1>7

\* What a request has, and which pairs of the snapshot it leaves out.
LEMMA RequestsKeepPairs ==
  ASSUME NEW h \in Fields, NEW kvs \in SUBSET Items,
         NEW new \in NewMetadata(h, kvs) \union NewLabels(h, kvs)
  PROVE  /\ new \in Fields /\ new.fingerprint = h.fingerprint
         /\ new \in NewMetadata(h, kvs) /\ kvs # {} => ToSet(h.items) \subseteq ToSet(new.items)
         /\ new \in NewLabels(h, kvs) => ToSet(new.items) = kvs
<1>1. h.items \in Seq(Items) /\ h = [items |-> h.items, fingerprint |-> h.fingerprint]
      /\ h.fingerprint \in 0 .. MaxSets
  BY DEF Fields
<1>2. ASSUME new \in NewMetadata(h, kvs), kvs # {}
      PROVE  new \in Fields /\ new.fingerprint = h.fingerprint /\ ToSet(h.items) \subseteq ToSet(new.items)
  <2>1. PICK kv \in kvs : new = [h EXCEPT !.items = Append(@, kv)]
    BY <1>2 DEF NewMetadata
  <2>2. new.items = Append(h.items, kv) /\ new.fingerprint = h.fingerprint
        /\ new = [items |-> Append(h.items, kv), fingerprint |-> h.fingerprint]
    BY <1>1, <2>1
  <2>3. Append(h.items, kv) \in Seq(Items)
    BY <1>1
  <2>4. ToSet(h.items) \subseteq ToSet(Append(h.items, kv))
    BY <1>1 DEF ToSet
  <2> QED BY <1>1, <2>2, <2>3, <2>4 DEF Fields
<1>3. ASSUME new \in NewMetadata(h, kvs), kvs = {}
      PROVE  new \in Fields /\ new.fingerprint = h.fingerprint
  <2>1. new = [h EXCEPT !.items = <<>>]
    BY <1>3 DEF NewMetadata
  <2>2. new = [items |-> <<>>, fingerprint |-> h.fingerprint] /\ new.fingerprint = h.fingerprint
    BY <1>1, <2>1
  <2>3. <<>> \in Seq(Items)
    OBVIOUS
  <2> QED BY <1>1, <2>2, <2>3 DEF Fields
<1>4. ASSUME new \in NewLabels(h, kvs)
      PROVE  new \in Fields /\ new.fingerprint = h.fingerprint /\ ToSet(new.items) = kvs
  <2>1. IsFiniteSet(kvs)
    BY MetadataAssumption, FS_Subset
  <2>2. SetToSeq(kvs) \in Seq(kvs) /\ ToSet(SetToSeq(kvs)) = kvs
    BY <2>1, SetToSeqHasAll
  <2>3. SetToSeq(kvs) \in Seq(Items)
    BY <2>2
  <2>4. new = [items |-> SetToSeq(kvs), fingerprint |-> h.fingerprint]
    BY <1>1, <1>4 DEF NewLabels
  <2> QED BY <1>1, <2>2, <2>3, <2>4 DEF Fields
<1> QED BY <1>2, <1>3, <1>4

\* What a step of SetMetadataE or SetLabelsE has sent if the service took it.
LEMMA SetTakes ==
  ASSUME MetadataTypeOK, NEW t \in Tests, NEW kvs \in SUBSET Items,
         SetMetadata(t, kvs) \/ SetLabels(t, kvs), tags' # tags
  PROVE  \E new \in IF field = "labels" THEN NewLabels(handle[t], kvs) ELSE NewMetadata(handle[t], kvs) :
           ServiceTakes(new) /\ lastSet' = [lastSet EXCEPT ![t] = [kvs |-> kvs, answer |-> "ok"]]
BY DEF SetMetadata, SetLabels, Set, MetadataTypeOK

LEMMA MetadataInitIInv == MetadataInit => MetadataIInv
<1> SUFFICES ASSUME MetadataInit PROVE MetadataIInv
  OBVIOUS
<1>1. tags = [items |-> <<>>, fingerprint |-> 0] /\ tags \in Fields
  BY MetadataAssumption DEF MetadataInit, Fields
<1>2. ~HasKeyTwice(tags.items)
  BY <1>1 DEF HasKeyTwice
<1>3. handle = [t \in Tests |-> tags] /\ handle \in [Tests -> Fields]
  BY <1>1 DEF MetadataInit
<1>4. lastSet \in [Tests -> [kvs : SUBSET Items, answer : {"none", "ok", "error"}]]
  BY DEF MetadataInit
<1>5. HandlesAreSnapshots
  BY <1>1, <1>3 DEF HandlesAreSnapshots
<1> QED BY <1>1, <1>2, <1>3, <1>4, <1>5 DEF MetadataInit, MetadataIInv, MetadataTypeOK

\* Every accepted change makes a new fingerprint, so that a struct fetched before
\* it can not be taken for a current one.
LEMMA MetadataNextIInv == MetadataIInv /\ [MetadataNext]_metadataVars => MetadataIInv'
<1> SUFFICES ASSUME MetadataTypeOK, HandlesAreSnapshots, [MetadataNext]_metadataVars
             PROVE  MetadataTypeOK' /\ HandlesAreSnapshots'
  BY DEF MetadataIInv
<1>0. tags \in Fields /\ handle \in [Tests -> Fields] /\ tags.fingerprint \in Nat
      /\ \A t \in Tests : handle[t].fingerprint \in Nat
  <2>1. \A f \in Fields : f.fingerprint \in Nat
    BY MetadataAssumption DEF Fields
  <2> QED BY <2>1 DEF MetadataTypeOK
<1>1. ASSUME NEW t \in Tests, FetchInstance(t)
      PROVE  MetadataTypeOK' /\ HandlesAreSnapshots'
  <2>1. handle' = [handle EXCEPT ![t] = tags] /\ UNCHANGED <<field, tags, lastSet>>
    BY <1>1 DEF FetchInstance
  <2>2. MetadataTypeOK'
    BY <2>1 DEF MetadataTypeOK
  <2>3. HandlesAreSnapshots'
    BY <1>0, <2>1 DEF HandlesAreSnapshots
  <2> QED BY <2>2, <2>3
<1>2. ASSUME NEW t \in Tests, NEW kvs \in SUBSET Items, SetMetadata(t, kvs) \/ SetLabels(t, kvs)
      PROVE  MetadataTypeOK' /\ HandlesAreSnapshots'
  <2>1. UNCHANGED <<field, handle>> /\ tags.fingerprint < MaxSets
    BY <1>2 DEF SetMetadata, SetLabels, Set
  <2>2. lastSet' \in [Tests -> [kvs : SUBSET Items, answer : {"none", "ok", "error"}]]
    BY <1>2 DEF SetMetadata, SetLabels, Set, MetadataTypeOK
  <2>3. CASE tags' = tags
    BY <2>1, <2>2, <2>3 DEF MetadataTypeOK, HandlesAreSnapshots
  <2>4. CASE tags' # tags
    <3>1. PICK new \in NewMetadata(handle[t], kvs) \union NewLabels(handle[t], kvs) : ServiceTakes(new)
      BY <1>2, <2>4, SetTakes
    <3>2. new \in Fields
      BY <1>0, <3>1, RequestsKeepPairs
    <3>3. tags' = [items |-> new.items, fingerprint |-> tags.fingerprint + 1]
          /\ ~HasKeyTwice(new.items) /\ new.items \in Seq(Items)
      BY <3>1, <3>2 DEF ServiceTakes, Fields
    <3>4. tags.fingerprint + 1 \in 0 .. MaxSets
      BY <1>0, <2>1, MetadataAssumption
    <3>5. MetadataTypeOK'
      BY <2>1, <2>2, <3>3, <3>4 DEF MetadataTypeOK, Fields
    <3>6. HandlesAreSnapshots'
      BY <1>0, <2>1, <3>3 DEF HandlesAreSnapshots
    <3> QED BY <3>5, <3>6
  <2> QED BY <2>3, <2>4
<1>3. CASE UNCHANGED metadataVars
  BY <1>3 DEF metadataVars, MetadataTypeOK, HandlesAreSnapshots
<1> QED
  BY <1>1, <1>2, <1>3 DEF MetadataNext, AddSshKey

\* The service takes a request only with the current fingerprint, and then the
\* snapshot it was made of is what is there: a pair the request leaves out is
\* one that its test has seen.
LEMMA MetadataStepTakesSeen ==
  MetadataIInv /\ [MetadataNext]_metadataVars => [TakesWhatItHasSeen]_metadataVars
<1> SUFFICES ASSUME MetadataTypeOK, HandlesAreSnapshots, [MetadataNext]_metadataVars,
                    NEW kv \in ToSet(tags.items) \ ToSet(tags'.items)
             PROVE  \E t \in Tests :
                      /\ lastSet'[t].answer = "ok" /\ kv \in ToSet(handle[t].items)
                      /\ lastSet'[t].kvs = IF field = "labels" THEN ToSet(tags'.items) ELSE {}
  BY DEF MetadataIInv, TakesWhatItHasSeen
<1>1. tags' # tags
  OBVIOUS
<1>2. PICK t \in Tests, kvs \in SUBSET Items : SetMetadata(t, kvs) \/ SetLabels(t, kvs)
  BY <1>1 DEF MetadataNext, AddSshKey, FetchInstance, metadataVars
<1>3. PICK new \in IF field = "labels" THEN NewLabels(handle[t], kvs) ELSE NewMetadata(handle[t], kvs) :
        ServiceTakes(new) /\ lastSet' = [lastSet EXCEPT ![t] = [kvs |-> kvs, answer |-> "ok"]]
  BY <1>1, <1>2, SetTakes
<1>4. handle[t] \in Fields /\ lastSet'[t] = [kvs |-> kvs, answer |-> "ok"]
  BY <1>3 DEF MetadataTypeOK
<1>5. new \in Fields /\ new.fingerprint = handle[t].fingerprint
  BY <1>3, <1>4, RequestsKeepPairs
<1>6. tags'.items = new.items /\ handle[t] = tags
  BY <1>3, <1>5 DEF ServiceTakes, HandlesAreSnapshots, Fields
<1>7. CASE field = "labels"
  <2>1. ToSet(new.items) = kvs
    BY <1>3, <1>4, <1>7, RequestsKeepPairs
  <2> QED BY <1>4, <1>6, <1>7, <2>1
<1>8. CASE field # "labels"
  <2>1. kvs # {} => ToSet(tags.items) \subseteq ToSet(new.items)
    BY <1>3, <1>4, <1>6, <1>8, RequestsKeepPairs
  <2>2. kvs = {}
    BY <1>6, <2>1
  <2> QED BY <1>4, <1>6, <1>8, <2>2
<1> QED BY <1>7, <1>8

-----------------------------------------------------------------------------
(* The pick of a region or a zone. *)

\* A pick answers a request that was made, and a zone is asked for in regions
\* without lists.
RequestIsKnown ==
  /\ pick # "none" => request # NoRequest
  /\ request # NoRequest =>
       /\ request.kind \in PickKinds
       /\ request.kind = "gcpZoneForRegion" => request.approved = {} /\ request.forbidden = {}

RegionsIInv == RequestIsKnown /\ PickIsAllowed

\* Whatever is left to pick from is allowed, kind by kind.
LEMMA ToPickFromIsAllowed ==
  ASSUME NEW r, NEW p \in ToPickFrom(r), r.kind \in PickKinds,
         r.kind = "gcpZoneForRegion" => r.approved = {} /\ r.forbidden = {}
  PROVE  \/ /\ p \notin r.forbidden
            /\ r.approved # {} => p \in r.approved
            /\ r.kind = "gcpZone" => RegionsIn[p] \intersect r.regions = {}
         \/ Stable(r.kind) /\ StableLeft(r.approved, r.forbidden) = {}
<1>1. CASE r.kind \in {"awsRegion", "azureRegion", "gcpRegion"}
  <2>1. p \in RegionsToPickFrom(r.approved, r.forbidden)
    BY <1>1 DEF ToPickFrom, Stable
  <2> QED BY <1>1, <2>1 DEF RegionsToPickFrom, ListSubtract
<1>2. CASE Stable(r.kind) /\ StableLeft(r.approved, r.forbidden) # {}
  <2>1. p \in RegionsToPickFrom(StableLeft(r.approved, r.forbidden), {})
    BY <1>2 DEF ToPickFrom, Stable
  <2>2. p \in StableLeft(r.approved, r.forbidden)
    BY <1>2, <2>1 DEF RegionsToPickFrom, ListSubtract
  <2>3. r.kind # "gcpZone"
    BY <1>2 DEF Stable
  <2> QED BY <2>2, <2>3 DEF StableLeft, ListSubtract, ListIntersection
<1>3. CASE r.kind = "gcpZone"
  <2>1. p \in ZonesToPickFrom(r.approved, r.forbidden, r.regions)
    BY <1>3 DEF ToPickFrom, Stable
  <2> QED BY <2>1 DEF ZonesToPickFrom, ListSubtract, isInRegions
<1>4. CASE r.kind = "gcpZoneForRegion"
  BY <1>4
<1> QED BY <1>1, <1>2, <1>3, <1>4 DEF PickKinds, Stable

LEMMA RegionsInitIInv == RegionsInit => RegionsIInv
BY DEF RegionsInit, RegionsIInv, RequestIsKnown, PickIsAllowed

LEMMA RegionsNextIInv == RegionsIInv /\ [RegionsNext]_regionVars => RegionsIInv'
<1> SUFFICES ASSUME RequestIsKnown, PickIsAllowed, [RegionsNext]_regionVars
             PROVE  RequestIsKnown' /\ PickIsAllowed'
  BY DEF RegionsIInv
<1>1. CASE Ask
  <2>1. pick = "none" /\ pick' = pick
    BY <1>1 DEF Ask, RequestIsKnown
  <2>2. /\ request'.kind \in PickKinds
        /\ request'.kind = "gcpZoneForRegion" => request'.approved = {} /\ request'.forbidden = {}
    BY <1>1 DEF Ask
  <2> QED BY <2>1, <2>2 DEF RequestIsKnown, PickIsAllowed
<1>2. CASE Pick
  <2>1. request # NoRequest /\ request' = request
    BY <1>2 DEF Pick
  <2>2. pick' \notin {"none", "panic", "error"} /\ ~request.env => pick' \in ToPickFrom(request)
    BY <1>2 DEF Pick, RandomString
  <2> QED BY <2>1, <2>2, ToPickFromIsAllowed DEF RequestIsKnown, PickIsAllowed
<1>3. CASE UNCHANGED regionVars
  BY <1>3 DEF regionVars, RequestIsKnown, PickIsAllowed
<1> QED BY <1>1, <1>2, <1>3 DEF RegionsNext

-----------------------------------------------------------------------------
(* The instances of a group. *)

\* What the call has to show for the instances that stay: while it lists, those
\* up to its marker, then all of them.
GroupIsListed ==
  /\ call # "idle" => throughout \subseteq group
  /\ call \in {"idle", "listAll", "listRandom"} => result = {}
  /\ call \in {"listAll", "listRandom"} => {i \in throughout : i <= marker} \subseteq ids
  /\ call = "fetchAll" => throughout \subseteq wanted
  /\ call = "fetchRandom" =>
       /\ \E i \in ids : wanted = {i}
       /\ Cardinality(ids) = size /\ throughout \subseteq ids
  /\ call = "idle" => ids = {} /\ marker = 0

GroupIInv == GroupTypeOK /\ GroupIsListed /\ GroupAnswerIsWhole

LEMMA GroupInitIInv == GroupInit => GroupIInv
<1> SUFFICES ASSUME GroupInit PROVE GroupIInv
  OBVIOUS
<1>1. Cardinality(Instances) \in Nat
  BY GroupAssumption, FS_CardinalityType
<1>2. GroupTypeOK
  BY <1>1, GroupAssumption DEF GroupInit, GroupTypeOK
<1>3. GroupIsListed /\ GroupAnswerIsWhole
  BY DEF GroupInit, GroupIsListed, GroupAnswerIsWhole
<1> QED BY <1>2, <1>3 DEF GroupIInv

\* A page that is not the last has a last instance, and what is on it are the
\* instances behind the marker up to that one.
LEMMA PagesAreCut ==
  ASSUME GroupTypeOK, Page # Unlisted
  PROVE  \E last \in Page : /\ \A i \in Page : i <= last
                           /\ \A i \in Unlisted : i <= last => i \in Page
<1>1. Unlisted \in SUBSET Instances /\ Unlisted \in SUBSET Nat /\ IsFiniteSet(Unlisted)
  BY GroupAssumption, FS_Subset DEF GroupTypeOK, Unlisted
<1>2. Page \in SUBSET Unlisted
  BY DEF Page
<1>3. Page # {}
  <2>1. Unlisted # {}
    BY <1>2
  <2>2. PICK i \in Unlisted : \A j \in Unlisted : i <= j
    BY <1>1, <2>1, LeastNatural
  <2>3. {j \in Unlisted : j < i} = {}
    <3>1. ASSUME NEW j \in Unlisted PROVE ~(j < i)
      <4>1. i \in Nat /\ j \in Nat /\ i <= j
        BY <1>1, <2>2
      <4> QED BY <4>1
    <3> QED BY <3>1
  <2>4. Cardinality({j \in Unlisted : j < i}) < GroupPage
    BY <2>3, FS_EmptySet, GroupAssumption
  <2> QED BY <2>2, <2>4 DEF Page
<1>4. Page \in SUBSET Nat /\ IsFiniteSet(Page)
  BY <1>1, <1>2, FS_Subset
<1>5. PICK last \in Page : \A i \in Page : i <= last
  BY <1>3, <1>4, GreatestNatural
<1>6. ASSUME NEW i \in Unlisted, i <= last PROVE i \in Page
  <2>1. {j \in Unlisted : j < i} \subseteq {j \in Unlisted : j < last}
    <3>1. ASSUME NEW j \in Unlisted, j < i PROVE j < last
      <4>1. i \in Nat /\ j \in Nat /\ last \in Nat
        BY <1>1, <1>2
      <4> QED BY <1>6, <3>1, <4>1
    <3> QED BY <3>1
  <2>2. Cardinality({j \in Unlisted : j < last}) < GroupPage
    BY <1>5 DEF Page
  <2>3. IsFiniteSet({j \in Unlisted : j < last})
    BY <1>1, FS_Subset
  <2>4. Cardinality({j \in Unlisted : j < i}) < GroupPage
    BY <2>1, <2>2, <2>3, SmallerCount, GroupAssumption
  <2> QED BY <2>4 DEF Page
<1> QED BY <1>5, <1>6

LEMMA GroupNextTypeOK == GroupTypeOK /\ [GroupNext]_groupVars => GroupTypeOK'
<1> SUFFICES ASSUME GroupTypeOK, [GroupNext]_groupVars PROVE GroupTypeOK'
  OBVIOUS
<1> USE DEF GroupTypeOK
<1>0. Unlisted \subseteq Instances /\ Page \subseteq Unlisted
  BY DEF Unlisted, Page
<1>1. CASE Scale
  BY <1>1, GroupAssumption DEF Scale
<1>2. CASE FetchInstanceGroup
  <2>1. Cardinality(group) \in 0 .. Cardinality(Instances)
    <3>1. group \in SUBSET Instances
      OBVIOUS
    <3>2. IsFiniteSet(group) /\ Cardinality(group) <= Cardinality(Instances)
      BY <3>1, GroupAssumption, FS_Subset
    <3>3. Cardinality(group) \in Nat /\ Cardinality(Instances) \in Nat
      BY <3>2, GroupAssumption, FS_CardinalityType
    <3> QED BY <3>2, <3>3
  <2> QED BY <1>2, <2>1 DEF FetchInstanceGroup
<1>3. ASSUME NEW what \in {"listAll", "listRandom"}, BeginCall(what) PROVE GroupTypeOK'
  BY <1>3 DEF BeginCall
<1>4. CASE NextPage
  <2>1. PICK last \in Page : \A i \in Page : i <= last
    BY <1>4, PagesAreCut DEF NextPage
  <2>2. marker' \in Page
    BY <1>4, <2>1 DEF NextPage
  <2> QED BY <1>0, <1>4, <2>2 DEF NextPage
<1>5. CASE LastPageOfAll
  BY <1>0, <1>5 DEF LastPageOfAll
<1>6. CASE LastPageOfRandom
  BY <1>0, <1>6 DEF LastPageOfRandom
<1>7. CASE FetchNext
  BY <1>7 DEF FetchNext
<1>8. CASE GroupAnswer
  BY <1>8 DEF GroupAnswer
<1>9. CASE GetPublicIps
  BY <1>9 DEF GetPublicIps
<1>10. CASE RequestFails
  BY <1>10 DEF RequestFails, Listing
<1>11. CASE UNCHANGED groupVars
  BY <1>11 DEF groupVars
<1> QED
  BY <1>1, <1>2, <1>3, <1>4, <1>5, <1>6, <1>7, <1>8, <1>9, <1>10, <1>11
     DEF GroupNext, GroupStep

\* An instance that stays is not skipped between two pages, and none of those
\* that were listed is lost when they are fetched.
LEMMA GroupNextListed ==
  GroupIInv /\ [GroupNext]_groupVars => GroupIsListed' /\ GroupAnswerIsWhole'
<1> SUFFICES ASSUME GroupTypeOK, GroupIsListed, GroupAnswerIsWhole, [GroupNext]_groupVars
             PROVE  GroupIsListed' /\ GroupAnswerIsWhole'
  BY DEF GroupIInv
<1> USE DEF GroupIsListed, GroupAnswerIsWhole
<1>0. /\ throughout \subseteq Instances /\ group \subseteq Instances /\ ids \subseteq Instances
      /\ \A i \in Instances : i \in Nat /\ i > 0
      /\ marker \in Nat
  BY GroupAssumption DEF GroupTypeOK
<1>1. CASE Scale
  BY <1>1 DEF Scale
<1>2. CASE FetchInstanceGroup
  BY <1>2 DEF FetchInstanceGroup
<1>3. ASSUME NEW what \in {"listAll", "listRandom"}, BeginCall(what)
      PROVE  GroupIsListed' /\ GroupAnswerIsWhole'
  BY <1>0, <1>3 DEF BeginCall
<1>4. CASE NextPage
  <2>1. PICK last \in Page : /\ \A i \in Page : i <= last
                            /\ \A i \in Unlisted : i <= last => i \in Page
    BY <1>4, PagesAreCut DEF NextPage
  <2>2. marker' \in Page /\ \A i \in Page : i <= marker'
    BY <1>4, <2>1 DEF NextPage
  <2>3. marker' = last
    <3>1. marker' \in Nat /\ last \in Nat
      BY <1>0, <2>1, <2>2 DEF Page, Unlisted
    <3>2. marker' <= last /\ last <= marker'
      BY <2>1, <2>2
    <3> QED BY <3>1, <3>2
  <2>4. ASSUME NEW i \in throughout, i <= marker' PROVE i \in ids \union Page
    <3>1. CASE i <= marker
      BY <1>4, <3>1 DEF NextPage, Listing
    <3>2. CASE ~(i <= marker)
      <4>1. i \in Unlisted
        BY <1>0, <1>4, <3>2 DEF Unlisted, NextPage, Listing
      <4> QED BY <2>1, <2>3, <2>4, <4>1
    <3> QED BY <3>1, <3>2
  <2>5. ids' = ids \union Page /\ UNCHANGED <<group, changes, size, call, wanted, result, throughout>>
        /\ call \in {"listAll", "listRandom"}
    BY <1>4 DEF NextPage, Listing
  <2> QED BY <2>4, <2>5
<1>5. CASE LastPageOfAll
  <2>1. throughout \subseteq ids \union Unlisted
    BY <1>0, <1>5 DEF LastPageOfAll, Unlisted
  <2> QED BY <1>5, <2>1 DEF LastPageOfAll
<1>6. CASE LastPageOfRandom
  <2>1. throughout \subseteq ids \union Unlisted
    BY <1>0, <1>6 DEF LastPageOfRandom, Unlisted
  <2>2. /\ UNCHANGED <<group, size, result, throughout>> /\ call = "listRandom"
        /\ ids' = ids \union Unlisted
    BY <1>6 DEF LastPageOfRandom
  <2>3. CASE ids' = {} \/ Cardinality(ids') # size
    <3>1. call' = "error"
      BY <1>6, <2>3 DEF LastPageOfRandom
    <3> QED BY <2>2, <3>1
  <2>4. CASE ~(ids' = {} \/ Cardinality(ids') # size)
    <3>1. call' = "fetchRandom" /\ \E i \in ids' : wanted' = {i}
      BY <1>6, <2>4 DEF LastPageOfRandom
    <3> QED BY <2>1, <2>2, <2>4, <3>1
  <2> QED BY <2>3, <2>4
<1>7. CASE FetchNext
  BY <1>7 DEF FetchNext
<1>8. CASE GroupAnswer
  BY <1>8 DEF GroupAnswer
<1>9. CASE GetPublicIps
  BY <1>9 DEF GetPublicIps
<1>10. CASE RequestFails
  BY <1>10 DEF RequestFails, Listing
<1>11. CASE UNCHANGED groupVars
  BY <1>11 DEF groupVars
<1> QED
  BY <1>1, <1>2, <1>3, <1>4, <1>5, <1>6, <1>7, <1>8, <1>9, <1>10, <1>11
     DEF GroupNext, GroupStep

LEMMA GroupNextIInv == GroupIInv /\ [GroupNext]_groupVars => GroupIInv'
BY GroupNextTypeOK, GroupNextListed DEF GroupIInv

-----------------------------------------------------------------------------
(* Emptying a bucket. *)

\* Every key has one version and no delete marker.
OneVersionEach(S) ==
  /\ \A e \in S : ~e.marker
  /\ \A e, f \in S : e.key = f.key => e = f

\* While a call can still be clean, what it has not deleted yet lies behind its
\* marker, and what its page leaves out lies behind the page.
RestLiesBehind ==
  /\ emptying = "delete" => page # {}
  /\ emptying \in {"list", "delete"} /\ clean /\ simple =>
       OneVersionEach(entries) /\ \A e \in entries : e.key > keyMarker
  /\ emptying = "delete" /\ clean /\ simple =>
       /\ page \subseteq entries
       /\ ~truncated => page = entries
       /\ \A e \in page, f \in entries \ page : e.key < f.key

BucketIInv == BucketTypeOK /\ IsFiniteSet(entries) /\ RestLiesBehind /\ EmptiedIsEmpty

\* The marker for the next page is the last key of this one.
LEMMA NextKeyMarkerIsLast ==
  ASSUME NEW S \in SUBSET Entries, S # {}
  PROVE  NextKeyMarker(S) \in Keys /\ \A e \in S : e.key <= NextKeyMarker(S)
                                   /\ \E f \in S : f.key = NextKeyMarker(S)
<1> DEFINE K == {e.key : e \in S}
<1>1. \A e \in S : e.key \in Keys
  BY DEF Entries
<1>2. K \in SUBSET Nat /\ K # {} /\ IsFiniteSet(K)
  <2>1. K \in SUBSET (1 .. MaxKey) /\ K \in SUBSET Nat
    BY <1>1, BucketAssumption DEF Keys
  <2>2. IsFiniteSet(1 .. MaxKey)
    BY BucketAssumption, FS_Interval
  <2>3. IsFiniteSet(K)
    <3> HIDE DEF K
    <3> QED BY <2>1, <2>2, FS_Subset
  <2> QED BY <2>1, <2>3
<1>3. PICK k \in K : \A x \in K : x <= k
  <2> HIDE DEF K
  <2> QED BY <1>2, GreatestNatural
<1>4. k \in Keys /\ (\E e \in S : e.key = k) /\ \A e \in S : e.key <= k
  BY <1>1, <1>3
<1>5. LET m == NextKeyMarker(S)
      IN  m \in Keys /\ (\E e \in S : e.key = m) /\ \A e \in S : e.key <= m
  BY <1>4 DEF NextKeyMarker
<1> QED BY <1>5

\* Where every key has one version, a page of a listing that is not empty has an
\* entry, and what it leaves out has greater keys.
LEMMA FirstPageIsCut ==
  ASSUME NEW S \in SUBSET Entries, IsFiniteSet(S), OneVersionEach(S)
  PROVE  /\ S # {} => FirstPage(S) # {}
         /\ \A e \in FirstPage(S), f \in S \ FirstPage(S) : e.key < f.key
<1> DEFINE before(e) == {f \in S : Before(f, e)}
<1>1. \A e \in S : e.key \in Nat /\ e.key \in Keys /\ e.version \in Nat
  BY BucketAssumption DEF Entries, Keys
<1>2. \A e, f \in S : Before(f, e) <=> f.key < e.key
  BY <1>1 DEF Before, OneVersionEach
<1>3. ASSUME S # {} PROVE FirstPage(S) # {}
  <2> DEFINE K == {e.key : e \in S}
  <2>1. K \in SUBSET Nat /\ K # {}
    BY <1>1, <1>3
  <2>2. PICK k \in K : \A x \in K : k <= x
    <3> HIDE DEF K
    <3> QED BY <2>1, LeastNatural
  <2>3. PICK e \in S : e.key = k
    OBVIOUS
  <2>4. before(e) = {}
    <3>1. ASSUME NEW f \in S PROVE ~Before(f, e)
      <4>1. e.key <= f.key /\ e.key \in Nat /\ f.key \in Nat
        BY <1>1, <2>2, <2>3
      <4> QED BY <1>2, <4>1
    <3> QED BY <3>1
  <2>5. Cardinality(before(e)) < PageSize
    BY <2>4, FS_EmptySet, BucketAssumption
  <2> QED BY <2>5 DEF FirstPage
<1>4. ASSUME NEW e \in FirstPage(S), NEW f \in S \ FirstPage(S) PROVE e.key < f.key
  <2>1. e \in S /\ Cardinality(before(e)) < PageSize /\ ~(Cardinality(before(f)) < PageSize)
    BY DEF FirstPage
  <2>2. ASSUME ~(e.key < f.key) PROVE FALSE
    <3>1. before(f) \subseteq before(e)
      <4>1. ASSUME NEW g \in S, g.key < f.key PROVE g.key < e.key
        <5>1. g.key \in Nat /\ f.key \in Nat /\ e.key \in Nat
          BY <1>1, <2>1
        <5> QED BY <2>2, <4>1, <5>1
      <4> QED BY <1>2, <2>1, <4>1
    <3>2. IsFiniteSet(before(e))
      BY FS_Subset
    <3>3. Cardinality(before(f)) < PageSize
      <4> HIDE DEF before
      <4> QED BY <2>1, <3>1, <3>2, SmallerCount, BucketAssumption
    <3> QED BY <2>1, <3>3
  <2> QED BY <2>2
<1> QED BY <1>3, <1>4

LEMMA BucketInitIInv == BucketInit => BucketIInv
<1> SUFFICES ASSUME BucketInit PROVE BucketIInv
  OBVIOUS
<1>1. BucketTypeOK
  <2>1. writes \in 0 .. MaxWrites /\ keyMarker \in 0 .. MaxKey
    BY BucketAssumption DEF BucketInit
  <2>2. truncated \in BOOLEAN /\ clean \in BOOLEAN /\ simple \in BOOLEAN
    BY DEF BucketInit
  <2> QED BY <2>1, <2>2 DEF BucketInit, BucketTypeOK
<1>2. IsFiniteSet(entries)
  BY FS_EmptySet DEF BucketInit
<1>3. RestLiesBehind /\ EmptiedIsEmpty
  BY DEF BucketInit, RestLiesBehind, EmptiedIsEmpty
<1> QED BY <1>1, <1>2, <1>3 DEF BucketIInv

LEMMA BucketNextTypeOK ==
  BucketTypeOK /\ IsFiniteSet(entries) /\ RestLiesBehind /\ [BucketNext]_bucketVars
    => BucketTypeOK' /\ IsFiniteSet(entries')
<1> SUFFICES ASSUME BucketTypeOK, IsFiniteSet(entries), RestLiesBehind, [BucketNext]_bucketVars
             PROVE  BucketTypeOK' /\ IsFiniteSet(entries')
  OBVIOUS
<1> USE DEF BucketTypeOK
<1>1. CASE CreateS3Bucket
  BY <1>1 DEF CreateS3Bucket
<1>2. CASE PutS3BucketVersioning
  BY <1>2 DEF PutS3BucketVersioning
<1>3. CASE EmptyS3Bucket
  BY <1>3, BucketAssumption DEF EmptyS3Bucket
<1>4. CASE ListObjectVersions
  BY <1>4 DEF ListObjectVersions, FirstPage, Rest
<1>5. CASE DeleteObjects
  <2>1. keyMarker' \in 0 .. MaxKey
    <3>1. page # {} /\ page \in SUBSET Entries
      BY <1>5 DEF DeleteObjects, RestLiesBehind
    <3>2. NextKeyMarker(page) \in 0 .. MaxKey
      BY <3>1, NextKeyMarkerIsLast, BucketAssumption DEF Keys
    <3> QED BY <1>5, <3>2 DEF DeleteObjects
  <2>2. entries' \subseteq entries /\ clean' \in BOOLEAN
    BY <1>5 DEF DeleteObjects
  <2>3. IsFiniteSet(entries')
    BY <2>2, FS_Subset
  <2> QED BY <1>5, <2>1, <2>2, <2>3 DEF DeleteObjects
<1>6. CASE EmptyFails
  BY <1>6 DEF EmptyFails
<1>7. CASE DeleteS3Bucket
  BY <1>7 DEF DeleteS3Bucket
<1>8. ASSUME NEW k \in Keys, NEW remove \in BOOLEAN, WriteObject(k, remove)
      PROVE  BucketTypeOK' /\ IsFiniteSet(entries')
  <2> DEFINE null == [key |-> k, version |-> 0, marker |-> FALSE]
             new == [key |-> k, version |-> writes', marker |-> remove]
  <2>1. writes' \in 0 .. MaxWrites /\ clean' = FALSE
        /\ UNCHANGED <<bucket, emptying, keyMarker, page, truncated, simple>>
    BY <1>8, BucketAssumption DEF WriteObject
  <2>2. null \in Entries /\ new \in Entries
    BY <2>1, BucketAssumption DEF Entries
  <2>3. entries' \in {entries \union {new}, entries \ {null}, entries \union {null}}
    BY <1>8 DEF WriteObject
  <2>4. entries' \subseteq Entries /\ IsFiniteSet(entries')
    <3> HIDE DEF null, new
    <3> QED BY <2>2, <2>3, FS_AddElement, FS_RemoveElement
  <2> QED BY <2>1, <2>4
<1>9. CASE UNCHANGED bucketVars
  BY <1>9 DEF bucketVars
<1> QED
  BY <1>1, <1>2, <1>3, <1>4, <1>5, <1>6, <1>7, <1>8, <1>9 DEF BucketNext, Emptying

\* A listing begins behind the marker and so has all that is left, and a page
\* that is deleted moves the marker to its end: nothing is skipped.
LEMMA BucketNextLiesBehind ==
  BucketIInv /\ [BucketNext]_bucketVars => RestLiesBehind' /\ EmptiedIsEmpty'
<1> SUFFICES ASSUME BucketTypeOK, IsFiniteSet(entries), RestLiesBehind, EmptiedIsEmpty,
                    [BucketNext]_bucketVars
             PROVE  RestLiesBehind' /\ EmptiedIsEmpty'
  BY DEF BucketIInv
<1>1. CASE CreateS3Bucket \/ PutS3BucketVersioning \/ EmptyFails \/ DeleteS3Bucket
  BY <1>1 DEF CreateS3Bucket, PutS3BucketVersioning, EmptyFails, DeleteS3Bucket,
              RestLiesBehind, EmptiedIsEmpty, OneVersionEach
<1>2. CASE EmptyS3Bucket
  <2>1. emptying' = "list" /\ keyMarker' = 0 /\ entries' = entries
        /\ simple' = \A e \in entries : ~e.marker /\ \A f \in entries : f.key = e.key => f = e
    BY <1>2 DEF EmptyS3Bucket
  <2>2. simple' => OneVersionEach(entries)
    BY <2>1 DEF OneVersionEach
  <2>3. \A e \in entries : e.key > 0
    BY BucketAssumption DEF BucketTypeOK, Entries, Keys
  <2> QED BY <2>1, <2>2, <2>3 DEF RestLiesBehind, EmptiedIsEmpty, OneVersionEach
<1>3. CASE ListObjectVersions
  <2> DEFINE rest == Rest(keyMarker)
             listed == FirstPage(rest)
  <2>1. /\ emptying = "list"
        /\ page' = listed /\ truncated' = (listed # rest)
        /\ emptying' = IF \A e \in listed : e.marker THEN "empty" ELSE "delete"
        /\ UNCHANGED <<entries, keyMarker, clean, simple>>
    BY <1>3 DEF ListObjectVersions
  <2>2. emptying' = "delete" => page' # {}
    BY <2>1
  <2>3. ASSUME clean, simple
        PROVE  /\ OneVersionEach(entries) /\ \A e \in entries : e.key > keyMarker
               /\ listed \subseteq entries /\ rest = entries
               /\ \A e \in listed, f \in entries \ listed : e.key < f.key
               /\ (\A e \in listed : e.marker) => entries = {}
    <3>1. OneVersionEach(entries) /\ \A e \in entries : e.key > keyMarker
      BY <2>1, <2>3 DEF RestLiesBehind
    <3>2. rest = entries
      BY <3>1 DEF Rest
    <3>3. /\ entries # {} => listed # {}
          /\ \A e \in listed, f \in entries \ listed : e.key < f.key
      BY <3>1, <3>2, FirstPageIsCut DEF BucketTypeOK
    <3>4. listed \subseteq entries
      BY <3>2 DEF FirstPage
    <3>5. (\A e \in listed : e.marker) => listed = {}
      BY <3>1, <3>4 DEF OneVersionEach
    <3> QED BY <3>1, <3>2, <3>3, <3>4, <3>5
  <2> HIDE DEF rest, listed
  <2>4. RestLiesBehind'
    BY <2>1, <2>2, <2>3 DEF RestLiesBehind, OneVersionEach
  <2>5. EmptiedIsEmpty'
    BY <2>1, <2>3 DEF EmptiedIsEmpty
  <2> QED BY <2>4, <2>5
<1>4. CASE DeleteObjects
  <2>1. PICK refused \in SUBSET {e \in page : ~e.marker} :
          /\ entries' = entries \ ({e \in page : ~e.marker} \ refused)
          /\ clean' = (clean /\ refused = {})
    BY <1>4 DEF DeleteObjects
  <2>2. /\ emptying = "delete" /\ emptying' = IF truncated THEN "list" ELSE "empty"
        /\ keyMarker' = IF truncated THEN NextKeyMarker(page) ELSE keyMarker
        /\ UNCHANGED <<page, truncated, simple>>
    BY <1>4 DEF DeleteObjects
  <2>3. ASSUME clean', simple
        PROVE  /\ entries' = entries \ page /\ OneVersionEach(entries')
               /\ ~truncated => entries' = {}
               /\ truncated => \A e \in entries' : e.key > NextKeyMarker(page)
    <3>1. clean /\ refused = {}
      BY <2>1, <2>3
    <3>2. /\ page \subseteq entries /\ page # {} /\ OneVersionEach(entries)
          /\ ~truncated => page = entries
          /\ \A e \in page, f \in entries \ page : e.key < f.key
      BY <2>2, <2>3, <3>1 DEF RestLiesBehind
    <3>3. {e \in page : ~e.marker} = page
      BY <3>2 DEF OneVersionEach
    <3>4. entries' = entries \ page
      BY <2>1, <3>1, <3>3
    <3>5. PICK last \in page : last.key = NextKeyMarker(page)
      BY <3>2, NextKeyMarkerIsLast DEF BucketTypeOK
    <3>6. ASSUME NEW e \in entries' PROVE e.key > NextKeyMarker(page)
      <4>1. last.key < e.key
        BY <3>2, <3>4, <3>5
      <4>2. last.key \in Nat /\ e.key \in Nat
        BY <3>2, <3>4, BucketAssumption DEF BucketTypeOK, Entries, Keys
      <4> QED BY <3>5, <4>1, <4>2
    <3> QED BY <3>2, <3>4, <3>6 DEF OneVersionEach
  <2>4. RestLiesBehind'
    BY <2>2, <2>3 DEF RestLiesBehind, OneVersionEach
  <2>5. EmptiedIsEmpty'
    BY <2>2, <2>3 DEF EmptiedIsEmpty
  <2> QED BY <2>4, <2>5
<1>5. ASSUME NEW k \in Keys, NEW remove \in BOOLEAN, WriteObject(k, remove)
      PROVE  RestLiesBehind' /\ EmptiedIsEmpty'
  BY <1>5 DEF WriteObject, RestLiesBehind, EmptiedIsEmpty
<1>6. CASE UNCHANGED bucketVars
  BY <1>6 DEF bucketVars, RestLiesBehind, EmptiedIsEmpty, OneVersionEach
<1> QED BY <1>1, <1>2, <1>3, <1>4, <1>5, <1>6 DEF BucketNext, Emptying

LEMMA BucketNextIInv == BucketIInv /\ [BucketNext]_bucketVars => BucketIInv'
BY BucketNextTypeOK, BucketNextLiesBehind DEF BucketIInv

-----------------------------------------------------------------------------
(* All of them. *)

\* What each service's invariant says is all that CloudSpec has to keep.
CloudIInv ==
  QueueIInv /\ BucketIInv /\ ImagesIInv /\ MetadataIInv /\ GroupIInv /\ RegionsIInv

\* A step of the whole is a step of one service and leaves the others alone.
LEMMA CloudStepIsOneService ==
  [CloudNext]_cloudVars =>
    /\ [QueueNext]_queueVars /\ [BucketNext]_bucketVars /\ [ImagesNext]_imageVars
    /\ [MetadataNext]_metadataVars /\ [GroupNext]_groupVars /\ [RegionsNext]_regionVars
BY DEF CloudNext, cloudVars

LEMMA CloudInvariant == CloudSpec => []CloudIInv
<1>1. CloudInit => CloudIInv
  BY QueueInitIInv, BucketInitIInv, ImagesInitIInv, MetadataInitIInv, GroupInitIInv, RegionsInitIInv
     DEF CloudInit, CloudIInv
<1>2. CloudIInv /\ [CloudNext]_cloudVars => CloudIInv'
  BY CloudStepIsOneService, QueueNextIInv, BucketNextIInv, ImagesNextIInv, MetadataNextIInv,
     GroupNextIInv, RegionsNextIInv
     DEF CloudIInv
<1> QED BY <1>1, <1>2, PTL DEF CloudSpec

\* The variables of the cloud services keep their types.
THEOREM CloudTypeCorrect == CloudSpec => []CloudTypeOK
<1>1. CloudIInv => CloudTypeOK
  BY DEF CloudIInv, QueueIInv, BucketIInv, ImagesIInv, MetadataIInv, GroupIInv, CloudTypeOK
<1> QED BY <1>1, CloudInvariant, PTL

\* A message that was sent stays in the queue until a receiver deletes it, and a
\* wait neither reports a timeout before its time nor waits for longer
\* (aws/sqs.go), for any receivers, messages and timeouts.
THEOREM QueueIsHonest == CloudSpec => []QueueAnswersAreTrue
<1>1. CloudIInv => QueueAnswersAreTrue
  BY QueueIInvAnswers DEF CloudIInv
<1> QED BY <1>1, CloudInvariant, PTL

\* A bucket of single versions is empty when EmptyS3BucketE says so (aws/s3.go),
\* for any number of objects and any size of a page.
THEOREM EmptyingWorks == CloudSpec => []EmptiedIsEmpty
<1>1. CloudIInv => EmptiedIsEmpty
  BY DEF CloudIInv, BucketIInv
<1> QED BY <1>1, CloudInvariant, PTL

\* DeleteAmiAndAllSnapshotsE leaves nothing behind when it returns nil, and fails
\* only for a reason (aws/ami.go, ebs.go), however images share snapshots.
THEOREM CleaningWorks == CloudSpec => []ImagesAreDeleted
<1>1. CloudIInv => ImagesAreDeleted
  BY DEF CloudIInv, ImagesIInv
<1> QED BY <1>1, CloudInvariant, PTL

\* getInstancesE misses no instance that stays, and the random instance is one
\* of a listing that misses none and has the size that is expected
\* (gcp/compute.go), for any group and size of a page.
THEOREM GroupsAreWhole == CloudSpec => []GroupAnswerIsWhole
<1>1. CloudIInv => GroupAnswerIsWhole
  BY DEF CloudIInv, GroupIInv
<1> QED BY <1>1, CloudInvariant, PTL

\* A region or a zone that was picked is allowed (region.go of three clouds).
THEOREM PicksAreAllowed == CloudSpec => []PickIsAllowed
<1>1. CloudIInv => PickIsAllowed
  BY DEF CloudIInv, RegionsIInv
<1> QED BY <1>1, CloudInvariant, PTL

\* No call of SetMetadataE or SetLabelsE takes a pair away that its test has not
\* seen (gcp/compute.go), however many tests work on the instance.
THEOREM SettingKeepsPairs == CloudSpec => PairsAreKept
<1>1. CloudIInv /\ [CloudNext]_cloudVars => [TakesWhatItHasSeen]_metadataVars
  BY CloudStepIsOneService, MetadataStepTakesSeen DEF CloudIInv
<1> QED BY <1>1, CloudInvariant, PTL DEF CloudSpec, PairsAreKept

=============================================================================
