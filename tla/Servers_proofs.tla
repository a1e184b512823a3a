--------------------------- MODULE Servers_proofs ---------------------------
(***************************************************************************)
(* Proofs about what a test starts side by side, for any number of each:   *)
(* no port is handed out twice and a serving test reaches its own server   *)
(* and handlers; a Stop that has returned leaves nothing of an ssh agent   *)
(* behind; no downtime that a check saw goes unnoticed.                    *)
(***************************************************************************)
EXTENDS Servers, Sequences, FiniteSetTheorems, TLAPS

-----------------------------------------------------------------------------
(* DummyServer *)

Started == {c \in Calls : pc[c] # "new"}

\* The counter counts the calls that have taken a port, and every port that was
\* handed out lies below it.
CounterInv ==
  /\ counter = Base + Cardinality(Started)
  /\ \A c \in Calls : IF pc[c] = "new" THEN port[c] = 0
                      ELSE port[c] \in Ports /\ port[c] <= counter

\* What a call has registered stays its own, and it listens when all of it is.
MuxInv ==
  \A c \in Calls :
    /\ todo[c] \subseteq Handlers[c]
    /\ \A p \in Handlers[c] \ todo[c] : mux[p] = c
    /\ pc[c] = "serving" => todo[c] = {}

\* A server that runs has its listener.
OwnerInv == \A c \in Calls : ~dead /\ pc[c] = "serving" => owner[port[c]] = c

HttpIInv == TypeOK /\ CounterInv /\ PortsUnique /\ MuxInv /\ OwnerInv

-----------------------------------------------------------------------------

\* The counter never passes the last of the Ports: while a call is new, fewer
\* than all have started.
LEMMA StartOne ==
  ASSUME TypeOK, NEW c \in Calls, pc[c] = "new", NEW l, l # "new",
         pc' = [pc EXCEPT ![c] = l]
  PROVE  /\ Cardinality(Started) \in Nat
         /\ Cardinality(Started') = Cardinality(Started) + 1
         /\ Cardinality(Started) + 1 <= Cardinality(Calls)
  <1>1. IsFiniteSet(Started) /\ Cardinality(Started) \in Nat
    BY DummyServerAssumption, FS_Subset, FS_CardinalityType DEF Started
  <1>2. Started' = Started \union {c} /\ c \notin Started
    BY DEF Started, TypeOK
  <1>3. Cardinality(Started') = Cardinality(Started) + 1
    BY <1>1, <1>2, FS_AddElement
  <1>4. Cardinality(Started') <= Cardinality(Calls)
    <2>1. Started' \subseteq Calls
      BY <1>2 DEF Started
    <2> QED
      BY <2>1, DummyServerAssumption, FS_Subset
  <1> QED
    BY <1>1, <1>3, <1>4

\* A step that moves no call off "new" leaves the counter's part alone.
LEMMA KeepStarted ==
  ASSUME TypeOK, CounterInv, PortsUnique, UNCHANGED <<counter, port>>,
         \A c \in Calls : pc'[c] = "new" <=> pc[c] = "new"
  PROVE  CounterInv' /\ PortsUnique'
  <1>1. Started' = Started
    BY DEF Started
  <1> QED
    BY <1>1 DEF CounterInv, PortsUnique, Ports

LEMMA InitHttp == Init => HttpIInv
  <1> SUFFICES ASSUME Init PROVE HttpIInv
    OBVIOUS
  <1>1. Started = {}
    BY DEF Init, Started
  <1>2. Cardinality(Started) = 0
    BY <1>1, FS_EmptySet
  <1>3. Cardinality(Calls) \in Nat
    BY DummyServerAssumption, FS_CardinalityType
  <1>4. counter \in Base .. Base + Cardinality(Calls)
    BY <1>3, DummyServerAssumption DEF Init
  <1>5. TypeOK
    BY <1>4, DummyServerAssumption DEF Init, TypeOK
  <1> QED
    BY <1>2, <1>5, DummyServerAssumption DEF Init, HttpIInv, CounterInv, PortsUnique, MuxInv, OwnerInv

\* getNextPort hands out a port that no call has.
LEMMA TakePortIInv == ASSUME HttpIInv, NEW c \in Calls, TakePort(c) PROVE HttpIInv'
  <1> USE DummyServerAssumption DEF HttpIInv
  <1>1. /\ pc[c] = "new"
        /\ pc' = [pc EXCEPT ![c] = "registering"]
        /\ port' = [port EXCEPT ![c] = counter + 1]
        /\ counter' = counter + 1
        /\ UNCHANGED <<todo, mux, owner, dead>>
    BY DEF TakePort
  <1>2. /\ Cardinality(Started) \in Nat
        /\ Cardinality(Started') = Cardinality(Started) + 1
        /\ Cardinality(Started) + 1 <= Cardinality(Calls)
    BY <1>1, StartOne
  <1>3. Cardinality(Calls) \in Nat
    BY FS_CardinalityType
  <1>4. counter + 1 \in Ports /\ counter \in Nat
    BY <1>2, <1>3 DEF CounterInv, Ports
  <1>5. TypeOK'
    BY <1>1, <1>3, <1>4 DEF TypeOK, Ports
  <1>6. counter' = Base + Cardinality(Started')
    BY <1>1, <1>2 DEF CounterInv
  <1>7. CounterInv'
    BY <1>1, <1>3, <1>4, <1>6 DEF CounterInv, TypeOK, Ports
  <1>8. PortsUnique'
    BY <1>1, <1>3, <1>4 DEF CounterInv, PortsUnique, TypeOK, Ports
  <1>9. MuxInv'
    BY <1>1 DEF MuxInv, TypeOK
  <1>10. OwnerInv'
    BY <1>1 DEF OwnerInv, TypeOK
  <1> QED
    BY <1>5, <1>7, <1>8, <1>9, <1>10

\* A handler is added only where no call has one; else the process is over.
LEMMA RegisterIInv == ASSUME HttpIInv, NEW c \in Calls, Register(c) PROVE HttpIInv'
  <1> USE DummyServerAssumption DEF HttpIInv
  <1>1. PICK p \in todo[c] :
          IF mux[p] = Nobody
          THEN /\ todo' = [todo EXCEPT ![c] = @ \ {p}]
               /\ mux' = [mux EXCEPT ![p] = c]
               /\ UNCHANGED <<pc, owner, dead>>
          ELSE /\ pc' = [pc EXCEPT ![c] = "panicked"]
               /\ dead' = TRUE
               /\ owner' = [q \in Ports |-> IF owner[q] \in Calls THEN Nobody ELSE owner[q]]
               /\ UNCHANGED <<todo, mux>>
    BY DEF Register
  <1>2. pc[c] = "registering" /\ UNCHANGED <<counter, port>> /\ p \in Paths
    BY <1>1 DEF Register, TypeOK
  <1>3. \A d \in Calls : pc'[d] = "new" <=> pc[d] = "new"
    BY <1>1, <1>2 DEF TypeOK
  <1>4. CounterInv' /\ PortsUnique'
    BY <1>2, <1>3, KeepStarted
  <1>5. TypeOK'
    <2>1. CASE mux[p] = Nobody
      BY <1>1, <1>2, <2>1 DEF TypeOK, Ports
    <2>2. CASE mux[p] # Nobody
      <3>1. owner' \in [Ports -> Calls \union {Nobody, Other}]
        BY <1>1, <2>2 DEF TypeOK
      <3> QED
        BY <1>1, <1>2, <2>2, <3>1 DEF TypeOK, Ports
    <2> QED
      BY <2>1, <2>2
  <1>6. MuxInv'
    BY <1>1, <1>2 DEF MuxInv, TypeOK
  <1>7. OwnerInv'
    BY <1>1, <1>2 DEF OwnerInv, TypeOK
  <1> QED
    BY <1>4, <1>5, <1>6, <1>7

\* A listener is opened on a port nobody listens on, so on no other call's.
LEMMA ListenIInv == ASSUME HttpIInv, NEW c \in Calls, Listen(c) PROVE HttpIInv'
  <1> USE DummyServerAssumption DEF HttpIInv
  <1>1. /\ pc[c] = "registering" /\ todo[c] = {} /\ port[c] \in Ports
        /\ UNCHANGED <<counter, port, todo, mux, dead>>
    BY DEF Listen, CounterInv
  <1>2. CASE owner[port[c]] = Nobody
    <2>1. /\ owner' = [owner EXCEPT ![port[c]] = c]
          /\ pc' = [pc EXCEPT ![c] = "serving"]
      BY <1>2 DEF Listen
    <2>2. \A d \in Calls : pc'[d] = "new" <=> pc[d] = "new"
      BY <1>1, <2>1 DEF TypeOK
    <2>3. CounterInv' /\ PortsUnique'
      BY <1>1, <2>2, KeepStarted
    <2>4. TypeOK'
      BY <1>1, <2>1 DEF TypeOK, Ports
    <2>5. MuxInv'
      BY <1>1, <2>1 DEF MuxInv, TypeOK
    <2>6. OwnerInv'
      BY <1>1, <1>2, <2>1 DEF OwnerInv, CounterInv, TypeOK
    <2> QED
      BY <2>3, <2>4, <2>5, <2>6
  <1>3. CASE owner[port[c]] # Nobody
    <2>1. pc' = [pc EXCEPT ![c] = "error"] /\ UNCHANGED owner
      BY <1>3 DEF Listen
    <2>2. \A d \in Calls : pc'[d] = "new" <=> pc[d] = "new"
      BY <1>1, <2>1 DEF TypeOK
    <2>3. CounterInv' /\ PortsUnique'
      BY <1>1, <2>2, KeepStarted
    <2> QED
      BY <1>1, <2>1, <2>3 DEF TypeOK, MuxInv, OwnerInv, Ports
  <1> QED
    BY <1>2, <1>3

\* Closing frees the call's own port, which is no other's.
LEMMA CloseIInv == ASSUME HttpIInv, NEW c \in Calls, Close(c) PROVE HttpIInv'
  <1> USE DummyServerAssumption DEF HttpIInv
  <1>1. /\ pc[c] = "serving" /\ port[c] \in Ports
        /\ owner' = [owner EXCEPT ![port[c]] = Nobody]
        /\ pc' = [pc EXCEPT ![c] = "closed"]
        /\ UNCHANGED <<counter, port, todo, mux, dead>>
    BY DEF Close, CounterInv
  <1>2. \A d \in Calls : pc'[d] = "new" <=> pc[d] = "new"
    BY <1>1 DEF TypeOK
  <1>3. CounterInv' /\ PortsUnique'
    BY <1>1, <1>2, KeepStarted
  <1>4. TypeOK'
    BY <1>1 DEF TypeOK, Ports
  <1>5. MuxInv'
    BY <1>1 DEF MuxInv, TypeOK
  <1>6. \A d \in Calls : pc[d] = "serving" /\ d # c => port[d] # port[c] /\ port[d] \in Ports
    <2>1. \A d \in Calls : pc[d] = "serving" => port[d] \in Ports /\ port[d] # 0
      BY FS_CardinalityType DEF CounterInv, Ports
    <2> QED
      BY <1>1, <2>1 DEF PortsUnique
  <1>7. OwnerInv'
    BY <1>1, <1>6 DEF OwnerInv, TypeOK
  <1> QED
    BY <1>3, <1>4, <1>5, <1>7

\* The other processes touch no listener of a test.
LEMMA HostStepIInv == ASSUME HttpIInv, NEW p \in Ports, HostStep(p) PROVE HttpIInv'
  <1> USE DummyServerAssumption DEF HttpIInv
  <1>1. CounterInv' /\ PortsUnique'
    BY KeepStarted DEF HostStep
  <1>2. TypeOK'
    BY DEF HostStep, TypeOK, Ports
  <1>3. OwnerInv'
    BY DEF HostStep, OwnerInv, CounterInv, TypeOK
  <1> QED
    BY <1>1, <1>2, <1>3 DEF HostStep, MuxInv

LEMMA HttpInvariant == Spec => []HttpIInv
  <1>1. ASSUME HttpIInv, UNCHANGED vars PROVE HttpIInv'
    <2>1. CounterInv' /\ PortsUnique'
      BY <1>1, KeepStarted DEF vars, HttpIInv
    <2> QED
      BY <1>1, <2>1 DEF vars, HttpIInv, TypeOK, MuxInv, OwnerInv, Ports
  <1>2. HttpIInv /\ [Next]_vars => HttpIInv'
    BY <1>1, TakePortIInv, RegisterIInv, ListenIInv, CloseIInv, HostStepIInv DEF Next
  <1> QED
    BY InitHttp, <1>2, PTL DEF Spec

\* The variables keep their types: the counter stays within one port per call.
THEOREM HttpTypeCorrect == Spec => []TypeOK
  BY HttpInvariant, PTL DEF HttpIInv

\* However many tests run in parallel, getNextPort never repeats itself.
THEOREM PortsAreUnique == Spec => []PortsUnique
  BY HttpInvariant, PTL DEF HttpIInv

\* A test that serves is reached at its address, by its own handlers, whatever
\* other tests and other processes do.
THEOREM AddressesAreOwn == Spec => []OwnAddress
  <1>1. HttpIInv => OwnAddress
    BY DEF HttpIInv, MuxInv, OwnerInv, OwnAddress, Answers
  <1> QED
    BY HttpInvariant, <1>1, PTL

-----------------------------------------------------------------------------
(* SshAgent *)

\* What the caller of each agent has done so far: a folder from its creation to
\* its removal, a loop from the start of run, a stop channel closed by Stop.
DirInv ==
  \A a \in Agents :
    /\ test[a] \in {"madeDir", "addingKeys", "ready", "stopping", "closed", "waited"} => dir[a]
    /\ test[a] \in {"new", "madeDir", "closed", "waited", "stopped"} => ~listening[a]

\* The loop leaves only once Stop was called, and Stop goes on only once it is gone.
PhaseInv ==
  \A a \in Agents :
    /\ test[a] \in {"waited", "stopped"} => loop[a] = "gone"
    /\ loop[a] \in {"leaving", "left", "gone"} => stop[a]
    /\ stop[a] => test[a] \in {"stopping", "closed", "waited", "stopped"}
    /\ test[a] = "stopped" => ~dir[a]

\* The listener takes the connections that wait with it, the loop those it accepted.
ConnInv ==
  \A c \in Clients :
    /\ conn[c] = "queued" => listening[AgentOf[c]]
    /\ loop[AgentOf[c]] \in {"left", "gone"} => conn[c] \notin {"accepted", "hungUp"}

AgentIInv == AgentTypeOK /\ DirInv /\ PhaseInv /\ ConnInv

-----------------------------------------------------------------------------

LEMMA InitAgent == AgentInit => AgentIInv
  BY SshAgentAssumption DEF AgentInit, AgentIInv, AgentTypeOK, DirInv, PhaseInv, ConnInv

\* Each step keeps the order in which Stop and run wait for each other.
LEMMA AgentStep == AgentIInv /\ [AgentNext]_agentVars => AgentIInv'
  <1> SUFFICES ASSUME AgentIInv, [AgentNext]_agentVars PROVE AgentIInv'
    OBVIOUS
  <1> USE SshAgentAssumption DEF AgentIInv, AgentTypeOK, DirInv, PhaseInv, ConnInv
  <1>1. ASSUME NEW a \in Agents, MakeDir(a) PROVE AgentIInv'
    <2>1. CASE /\ test' = [test EXCEPT ![a] = "madeDir"]
               /\ dir' = [dir EXCEPT ![a] = TRUE]
      BY <1>1, <2>1 DEF MakeDir
    <2>2. CASE test' = [test EXCEPT ![a] = "failed"] /\ UNCHANGED dir
      BY <1>1, <2>2 DEF MakeDir
    <2> QED
      BY <1>1, <2>1, <2>2 DEF MakeDir
  <1>2. ASSUME NEW a \in Agents, ListenForAgent(a) PROVE AgentIInv'
    <2>1. CASE /\ test' = [test EXCEPT ![a] = "addingKeys"]
               /\ listening' = [listening EXCEPT ![a] = TRUE]
               /\ loop' = [loop EXCEPT ![a] = "checking"]
      BY <1>2, <2>1 DEF ListenForAgent
    <2>2. CASE test' = [test EXCEPT ![a] = "failed"] /\ UNCHANGED <<listening, loop>>
      BY <1>2, <2>2 DEF ListenForAgent
    <2> QED
      BY <1>2, <2>1, <2>2 DEF ListenForAgent
  <1>3. ASSUME NEW a \in Agents, AddKeys(a) PROVE AgentIInv'
    BY <1>3 DEF AddKeys
  <1>4. ASSUME NEW a \in Agents, CloseStop(a) PROVE AgentIInv'
    BY <1>4 DEF CloseStop
  <1>5. ASSUME NEW a \in Agents, CloseListener(a) PROVE AgentIInv'
    BY <1>5 DEF CloseListener
  <1>6. ASSUME NEW a \in Agents, AwaitStopped(a) PROVE AgentIInv'
    BY <1>6 DEF AwaitStopped
  <1>7. ASSUME NEW a \in Agents, RemoveDir(a) PROVE AgentIInv'
    BY <1>7 DEF RemoveDir
  <1>8. ASSUME NEW a \in Agents, CheckStop(a) PROVE AgentIInv'
    BY <1>8 DEF CheckStop
  <1>9. ASSUME NEW a \in Agents, Accept(a) PROVE AgentIInv'
    BY <1>9 DEF Accept
  <1>10. ASSUME NEW a \in Agents, AcceptError(a) PROVE AgentIInv'
    BY <1>10 DEF AcceptError
  <1>11. ASSUME NEW a \in Agents, AfterError(a) PROVE AgentIInv'
    BY <1>11 DEF AfterError
  <1>12. ASSUME NEW a \in Agents, CloseConnections(a) PROVE AgentIInv'
    BY <1>12 DEF CloseConnections
  <1>13. ASSUME NEW a \in Agents, CloseStopped(a) PROVE AgentIInv'
    BY <1>13 DEF CloseStopped
  <1>14. ASSUME NEW c \in Clients, Connect(c) PROVE AgentIInv'
    BY <1>14 DEF Connect
  <1>15. ASSUME NEW c \in Clients, HangUp(c) PROVE AgentIInv'
    BY <1>15 DEF HangUp
  <1>16. ASSUME NEW c \in Clients, ServeEnds(c) PROVE AgentIInv'
    BY <1>16 DEF ServeEnds
  <1>17. CASE UNCHANGED agentVars
    BY <1>17 DEF agentVars
  <1> QED
    BY <1>1, <1>2, <1>3, <1>4, <1>5, <1>6, <1>7, <1>8, <1>9, <1>10, <1>11, <1>12,
       <1>13, <1>14, <1>15, <1>16, <1>17
       DEF AgentNext, StopAgent

\* The invariant is inductive.
LEMMA AgentInvariant == AgentSafety => []AgentIInv
  BY InitAgent, AgentStep, PTL DEF AgentSafety

\* The variables keep their types, and no socket exists without its folder.
THEOREM AgentTypeCorrect == AgentSafety => []AgentTypeOK
  BY AgentInvariant, PTL DEF AgentIInv

\* Whatever connects and whatever fails while an agent runs or stops, once Stop
\* has returned nothing of it is left (agent.go:77-82 and the deferred calls of run).
THEOREM StoppedAgentsAreGone == AgentSafety => []StopCleansUp
  <1>1. AgentIInv => StopCleansUp
    BY SshAgentAssumption DEF AgentIInv, AgentTypeOK, DirInv, PhaseInv, ConnInv, StopCleansUp
  <1> QED
    BY AgentInvariant, <1>1, PTL

-----------------------------------------------------------------------------
(* ContinuousCheck *)

\* Some request did not get a 200.
SomeBad(s) == \E i \in DOMAIN s : s[i] # "ok"

\* The test is marked as failed as soon as the goroutine has come past a bad
\* response.
FailedInv ==
  /\ checker \notin {"sending", "reporting"} => (failed <=> SomeBad(made))
  /\ checker \in {"sending", "reporting"} => (SomeBad(made) <=> failed \/ outcome # "ok")

\* While the requests fit in the buffer, what the test has got and what waits
\* in the channel are all of them, in order, but for the one to be sent.
SentInv ==
  Len(made) <= Buffer =>
    IF checker = "sending" THEN made = Append(got \o responses, outcome)
                           ELSE made = got \o responses

\* Who waits for whom: the test leaves its loop when the channel is closed and
\* empty, and ends when the goroutine is gone.
OrderInv ==
  /\ closed <=> checker \in {"leaving", "gone"}
  /\ wg = (IF checker = "gone" THEN 0 ELSE 1)
  /\ reader \in {"waiting", "ended"} => closed /\ responses = <<>>
  /\ reader = "ended" => wg = 0

CheckIInv == Check!TypeOK /\ FailedInv /\ SentInv /\ OrderInv

LEMMA AppendBad ==
  ASSUME NEW S, NEW s \in Seq(S), NEW o
  PROVE  SomeBad(Append(s, o)) <=> SomeBad(s) \/ o # "ok"
<1>1. /\ DOMAIN Append(s, o) = (DOMAIN s) \union {Len(s) + 1}
      /\ \A i \in DOMAIN s : Append(s, o)[i] = s[i]
      /\ Append(s, o)[Len(s) + 1] = o
  OBVIOUS
<1> QED BY <1>1 DEF SomeBad

\* Receiving moves a response over.
LEMMA MoveHead ==
  ASSUME NEW S, NEW g \in Seq(S), NEW r \in Seq(S), r # <<>>
  PROVE  Append(g, Head(r)) \o Tail(r) = g \o r
<1> DEFINE a == Append(g, Head(r)) \o Tail(r)
           b == g \o r
<1>1. /\ Head(r) \in S /\ Tail(r) \in Seq(S)
      /\ Len(r) \in Nat /\ Len(r) >= 1 /\ Len(Tail(r)) = Len(r) - 1
      /\ Len(g) \in Nat
  OBVIOUS
<1>2. Append(g, Head(r)) \in Seq(S) /\ Len(Append(g, Head(r))) = Len(g) + 1
  BY <1>1
<1>3. a \in Seq(S) /\ b \in Seq(S) /\ Len(a) = Len(g) + Len(r) /\ Len(b) = Len(g) + Len(r)
  BY <1>1, <1>2
<1>4. ASSUME NEW i \in 1 .. Len(g) + Len(r) PROVE a[i] = b[i]
  <2>1. CASE i <= Len(g)
    BY <1>1, <1>2, <2>1
  <2>2. CASE i = Len(g) + 1
    BY <1>1, <1>2, <2>2
  <2>3. CASE i > Len(g) + 1
    <3>1. /\ i - (Len(g) + 1) \in 1 .. Len(Tail(r))
          /\ i - Len(g) \in 1 .. Len(r)
          /\ (i - (Len(g) + 1)) + 1 = i - Len(g)
      BY <1>1, <2>3
    <3>2. a[i] = Tail(r)[i - (Len(g) + 1)] /\ b[i] = r[i - Len(g)]
      BY <1>1, <1>2, <3>1
    <3> QED BY <1>1, <3>1, <3>2
  <2> QED BY <1>1, <2>1, <2>2, <2>3
<1> HIDE DEF a, b
<1>5. a = b
  BY <1>3, <1>4
<1> QED BY <1>5 DEF a, b

\* Sending a response puts it behind all that were sent.
LEMMA AppendToTail ==
  ASSUME NEW S, got \in Seq(S), responses \in Seq(S), outcome \in S
  PROVE  Append(got \o responses, outcome) = got \o Append(responses, outcome)
<1>0. SUFFICES ASSUME NEW g \in Seq(S), NEW r \in Seq(S), NEW o \in S
                  PROVE  Append(g \o r, o) = g \o Append(r, o)
  OBVIOUS
<1> DEFINE a == Append(g \o r, o)
           b == g \o Append(r, o)
<1>1. /\ Len(g) \in Nat /\ Len(r) \in Nat
      /\ g \o r \in Seq(S) /\ Len(g \o r) = Len(g) + Len(r)
      /\ Append(r, o) \in Seq(S) /\ Len(Append(r, o)) = Len(r) + 1
  OBVIOUS
<1>2. /\ a \in Seq(S) /\ Len(a) = Len(g) + Len(r) + 1
      /\ b \in Seq(S) /\ Len(b) = Len(g) + Len(r) + 1
  BY <1>1
<1>3. ASSUME NEW i \in 1 .. Len(g) + Len(r) + 1 PROVE a[i] = b[i]
  <2>1. CASE i <= Len(g)
    <3>1. a[i] = (g \o r)[i] /\ (g \o r)[i] = g[i]
      BY <1>1, <2>1
    <3>2. b[i] = g[i]
      BY <1>1, <2>1
    <3> QED BY <3>1, <3>2
  <2>2. CASE i > Len(g) /\ i <= Len(g) + Len(r)
    <3>1. i - Len(g) \in 1 .. Len(r)
      BY <1>1, <2>2
    <3>2. a[i] = (g \o r)[i] /\ (g \o r)[i] = r[i - Len(g)]
      BY <1>1, <2>2, <3>1
    <3>3. b[i] = Append(r, o)[i - Len(g)] /\ Append(r, o)[i - Len(g)] = r[i - Len(g)]
      BY <1>1, <2>2, <3>1
    <3> QED BY <3>2, <3>3
  <2>3. CASE i = Len(g) + Len(r) + 1
    <3>1. a[i] = o
      BY <1>1, <2>3
    <3>2. i - Len(g) = Len(r) + 1
      BY <1>1, <2>3
    <3>3. b[i] = Append(r, o)[i - Len(g)] /\ Append(r, o)[Len(r) + 1] = o
      BY <1>1, <2>3, <3>2
    <3> QED BY <3>1, <3>2, <3>3
  <2>4. i <= Len(g) \/ (i > Len(g) /\ i <= Len(g) + Len(r)) \/ i = Len(g) + Len(r) + 1
    BY <1>1, SMT
  <2> HIDE DEF a, b
  <2> QED BY <2>1, <2>2, <2>3, <2>4
<1> HIDE DEF a, b
<1>4. a = b
  BY <1>2, <1>3
<1> QED BY <1>4 DEF a, b

\* Each step of the goroutine and of the test keeps the four.
LEMMA CheckStep == CheckIInv /\ [Check!Next]_checkVars => CheckIInv'
<1> SUFFICES ASSUME CheckIInv, [Check!Next]_checkVars PROVE CheckIInv'
  OBVIOUS
<1>a. Append(got \o responses, outcome) = got \o Append(responses, outcome)
  <2>1. got \in Seq(Check!Outcomes) /\ responses \in Seq(Check!Outcomes) /\ outcome \in Check!Outcomes
    BY DEF CheckIInv, Check!TypeOK
  <2> DEFINE S == Check!Outcomes
  <2>2. got \in Seq(S) /\ responses \in Seq(S) /\ outcome \in S
    BY <2>1
  <2> HIDE DEF S
  <2> QED BY <2>2, AppendToTail
<1> USE ServersAssumption DEF CheckIInv, Check!Outcomes
<1>0. /\ made \in Seq(Check!Outcomes) /\ got \in Seq(Check!Outcomes)
      /\ responses \in Seq(Check!Outcomes) /\ outcome \in Check!Outcomes
      /\ Len(made) \in Nat /\ Len(got) \in Nat /\ Len(responses) \in Nat
      /\ Len(got \o responses) = Len(got) + Len(responses)
  BY DEF Check!TypeOK
<1> USE DEF Check!checkerVars, Check!testVars
<1>1. CASE Check!Tick \/ Check!TakeStop \/ Check!SendStop
  <2>1. /\ UNCHANGED <<outcome, made, got, responses, closed, wg, failed, serverUp>>
        /\ checker \notin {"sending", "reporting", "leaving", "gone"} \/ checker' = checker
        /\ checker' \notin {"sending", "reporting", "leaving", "gone"} \/ checker' = checker
        /\ reader' = reader \/ reader' = "draining"
    BY <1>1 DEF Check!Tick, Check!TakeStop, Check!SendStop
  <2>2. Check!TypeOK'
    <3>1. /\ checker' \in {"selecting", "requesting", "closing"} \/ checker' = checker
          /\ reader' \in {reader, "draining"}
          /\ stopping' \in BOOLEAN
      BY <1>1 DEF Check!TypeOK, Check!Tick, Check!TakeStop, Check!SendStop
    <3> QED BY <2>1, <3>1 DEF Check!TypeOK
  <2>3. FailedInv' /\ SentInv'
    <3>1. FailedInv'
      BY <2>1 DEF FailedInv
    <3>2. SentInv'
      BY <2>1 DEF SentInv
    <3> QED BY <3>1, <3>2
  <2>4. OrderInv'
    BY <2>1 DEF OrderInv
  <2> QED BY <2>2, <2>3, <2>4
<1>2. CASE Check!Request
  <2>1. PICK o \in {"ok", "badStatus", "error"} : outcome' = o /\ made' = Append(made, o)
    BY <1>2 DEF Check!Request
  <2>2. /\ checker = "requesting" /\ checker' = "sending"
        /\ UNCHANGED <<reader, got, serverUp, stopping, responses, closed, wg, failed>>
    BY <1>2 DEF Check!Request
  <2>3. made' \in Seq(Check!Outcomes) /\ Len(made') = Len(made) + 1
    BY <1>0, <2>1
  <2>4. Check!TypeOK'
    BY <2>1, <2>2, <2>3 DEF Check!TypeOK
  <2>5. FailedInv'
    BY <1>0, <2>1, <2>2, AppendBad DEF FailedInv
  <2>6. SentInv'
    BY <1>0, <2>1, <2>2, <2>3 DEF SentInv
  <2>7. OrderInv'
    BY <2>2 DEF OrderInv
  <2> QED BY <2>4, <2>5, <2>6, <2>7
<1>3. CASE Check!SendResponse
  <2>1. /\ checker = "sending" /\ checker' = "reporting"
        /\ UNCHANGED <<outcome, made, reader, got, serverUp, stopping, closed, wg, failed>>
        /\ responses' = IF Len(responses) < Buffer THEN Append(responses, outcome) ELSE responses
    BY <1>3 DEF Check!SendResponse
  <2>2. responses' \in Seq(Check!Outcomes) /\ Len(responses') <= Buffer
    BY <1>0, <2>1 DEF Check!TypeOK
  <2>3. Check!TypeOK'
    BY <2>1, <2>2 DEF Check!TypeOK
  <2>4. FailedInv'
    BY <2>1 DEF FailedInv
  <2>5. SentInv'
    <3> SUFFICES ASSUME Len(made) <= Buffer PROVE made = got \o responses'
      BY <2>1 DEF SentInv
    <3>1. made = Append(got \o responses, outcome)
      BY <2>1 DEF SentInv
    <3>2. Len(made) = Len(got) + Len(responses) + 1
      BY <1>0, <3>1
    <3>3. responses' = Append(responses, outcome)
      <4>1. Len(responses) < Buffer
        BY <1>0, <3>2
      <4> QED BY <2>1, <4>1
    <3>4. Append(got \o responses, outcome) = got \o Append(responses, outcome)
      BY <1>a
    <3> QED BY <3>1, <3>3, <3>4
  <2>6. OrderInv'
    BY <2>1 DEF OrderInv
  <2> QED BY <2>3, <2>4, <2>5, <2>6
<1>4. CASE Check!ReportDowntime
  <2>1. /\ checker = "reporting" /\ checker' = "selecting"
        /\ failed' = (failed \/ outcome # "ok")
        /\ UNCHANGED <<outcome, made, reader, got, serverUp, stopping, responses, closed, wg>>
    BY <1>4 DEF Check!ReportDowntime
  <2>2. Check!TypeOK'
    BY <2>1 DEF Check!TypeOK
  <2>3. FailedInv'
    BY <2>1 DEF FailedInv
  <2>4. SentInv' /\ OrderInv'
    BY <2>1 DEF SentInv, OrderInv
  <2> QED BY <2>2, <2>3, <2>4
<1>5. CASE Check!CloseResponses
  <2>1. /\ checker = "closing" /\ checker' = "leaving" /\ closed' = TRUE
        /\ UNCHANGED <<outcome, made, reader, got, serverUp, stopping, responses, wg, failed>>
    BY <1>5 DEF Check!CloseResponses
  <2>2. Check!TypeOK' /\ FailedInv'
    BY <2>1 DEF Check!TypeOK, FailedInv
  <2>3. SentInv' /\ OrderInv'
    BY <2>1 DEF SentInv, OrderInv
  <2> QED BY <2>2, <2>3
<1>6. CASE Check!Leave
  <2>1. /\ checker = "leaving" /\ checker' = "gone" /\ wg' = wg - 1
        /\ UNCHANGED <<outcome, made, reader, got, serverUp, stopping, responses, closed, failed>>
    BY <1>6 DEF Check!Leave
  <2>2. wg' = 0
    BY <2>1 DEF OrderInv
  <2>3. Check!TypeOK' /\ FailedInv'
    BY <2>1, <2>2 DEF Check!TypeOK, FailedInv
  <2>4. SentInv' /\ OrderInv'
    BY <2>1, <2>2 DEF SentInv, OrderInv
  <2> QED BY <2>3, <2>4
<1>7. CASE Check!Receive
  <2>1. /\ reader \in {"working", "draining"} /\ responses # <<>>
        /\ got' = Append(got, Head(responses)) /\ responses' = Tail(responses)
        /\ UNCHANGED <<checker, outcome, made, reader, serverUp, stopping, closed, wg, failed>>
    BY <1>7 DEF Check!Receive
  <2>2. /\ got' \in Seq(Check!Outcomes) /\ responses' \in Seq(Check!Outcomes)
        /\ Len(responses') <= Buffer
    <3>1. Head(responses) \in Check!Outcomes
      BY <1>0, <2>1
    <3>2. Tail(responses) \in Seq(Check!Outcomes) /\ Len(Tail(responses)) = Len(responses) - 1
      BY <1>0, <2>1
    <3> QED BY <1>0, <2>1, <3>1, <3>2 DEF Check!TypeOK
  <2>3. Check!TypeOK'
    BY <2>1, <2>2 DEF Check!TypeOK
  <2>4. got' \o responses' = got \o responses
    BY <1>0, <2>1, MoveHead
  <2>5. FailedInv' /\ SentInv'
    BY <2>1, <2>4 DEF FailedInv, SentInv
  <2>6. OrderInv'
    BY <2>1 DEF OrderInv
  <2> QED BY <2>3, <2>5, <2>6
<1>8. CASE Check!EndRange
  <2>1. /\ reader' = "waiting" /\ closed /\ responses = <<>>
        /\ UNCHANGED <<checker, outcome, made, got, serverUp, stopping, responses, closed, wg, failed>>
    BY <1>8 DEF Check!EndRange
  <2>2. Check!TypeOK' /\ FailedInv'
    BY <2>1 DEF Check!TypeOK, FailedInv
  <2>3. SentInv' /\ OrderInv'
    BY <2>1 DEF SentInv, OrderInv
  <2> QED BY <2>2, <2>3
<1>9. CASE Check!Shutdown
  <2>1. /\ reader = "waiting" /\ reader' = "ended" /\ wg = 0 /\ serverUp' = FALSE
        /\ UNCHANGED <<checker, outcome, made, got, stopping, responses, closed, wg, failed>>
    BY <1>9 DEF Check!Shutdown
  <2>2. Check!TypeOK' /\ FailedInv'
    BY <2>1 DEF Check!TypeOK, FailedInv
  <2>3. SentInv' /\ OrderInv'
    BY <2>1 DEF SentInv, OrderInv
  <2> QED BY <2>2, <2>3
<1>10. CASE UNCHANGED checkVars
  <2>1. Check!TypeOK' /\ FailedInv'
    BY <1>10 DEF checkVars, Check!TypeOK, FailedInv
  <2>2. SentInv' /\ OrderInv'
    BY <1>10 DEF checkVars, SentInv, OrderInv
  <2> QED BY <2>1, <2>2
<1> QED BY <1>1, <1>2, <1>3, <1>4, <1>5, <1>6, <1>7, <1>8, <1>9, <1>10
        DEF Check!Next, Check!CheckerStep

LEMMA InitCheck == Check!Init => CheckIInv
<1> SUFFICES ASSUME Check!Init PROVE CheckIInv
  OBVIOUS
<1> USE ServersAssumption DEF Check!Init, Check!Outcomes
<1>1. Check!TypeOK
  <2>1. <<>> \in Seq(Check!Outcomes) /\ Len(<<>>) = 0 /\ 0 <= Buffer
    OBVIOUS
  <2>2. responses \in Seq(Check!Outcomes) /\ Len(responses) <= Buffer
    BY <2>1
  <2>3. made \in Seq(Check!Outcomes) /\ got \in Seq(Check!Outcomes)
    BY <2>1
  <2> QED BY <2>2, <2>3 DEF Check!TypeOK
<1>2. FailedInv /\ OrderInv
  BY DEF FailedInv, OrderInv, SomeBad
<1>3. SentInv
  <2>1. <<>> \o <<>> = <<>>
    OBVIOUS
  <2> QED BY <2>1 DEF SentInv
<1> QED BY <1>1, <1>2, <1>3 DEF CheckIInv

-----------------------------------------------------------------------------
(* Side by side *)

\* What runs in one goroutine is a behaviour of its own module: the others do
\* not touch its state.
LEMMA ServersRunEach ==
  ServersSpec => /\ Spec
                 /\ AgentSafety
                 /\ Check!Init /\ [][Check!Next]_checkVars
<1>1. ServersInit => Init /\ AgentInit /\ Check!Init
  BY DEF ServersInit
<1>2. [ServersNext]_<<used, vars, agentVars, checkVars>> =>
        [Next]_vars /\ [AgentNext]_agentVars /\ [Check!Next]_checkVars
  BY DEF ServersNext
<1> QED BY <1>1, <1>2, PTL DEF ServersSpec, Spec, AgentSafety

\* Every variable keeps its type, whatever a test has started.
THEOREM ServersTypeCorrect == ServersSpec => [](TypeOK /\ AgentTypeOK /\ Check!TypeOK)
<1>1. CheckIInv => Check!TypeOK
  BY DEF CheckIInv
<1> QED BY <1>1, ServersRunEach, HttpTypeCorrect, AgentTypeCorrect, InitCheck, CheckStep, PTL

\* A test that ends is marked as failed exactly if a request of its check got
\* no 200, also if the response was dropped, and one that reads to the end has
\* every response if they fit in the buffer (ContinuouslyCheckUrl).
THEOREM DowntimeIsNoticed == ServersSpec => []DowntimeIsTold
<1>1. CheckIInv => DowntimeIsTold
  <2> SUFFICES ASSUME CheckIInv PROVE DowntimeIsTold
    OBVIOUS
  <2>1. reader = "ended" => (failed <=> SomeBad(made))
    BY DEF CheckIInv, OrderInv, FailedInv
  <2>2. ASSUME reader \in {"waiting", "ended"}, Len(made) <= Buffer PROVE got = made
    <3>1. responses = <<>> /\ checker # "sending" /\ got \in Seq(Check!Outcomes)
      BY <2>2 DEF CheckIInv, OrderInv, Check!TypeOK
    <3>2. made = got \o <<>>
      BY <2>2, <3>1 DEF CheckIInv, SentInv
    <3> QED BY <3>1, <3>2
  <2> QED BY <2>1, <2>2 DEF DowntimeIsTold, Check!VerdictIsTrue, Check!NothingDropped, SomeBad
<1> QED BY <1>1, ServersRunEach, InitCheck, CheckStep, PTL

\* The two results about servers and agents hold where everything runs in one
\* process.
THEOREM ServersAndAgentsStayApart == ServersSpec => [](OwnAddress /\ StopCleansUp)
BY ServersRunEach, AddressesAreOwn, StoppedAgentsAreGone, PTL

=============================================================================
