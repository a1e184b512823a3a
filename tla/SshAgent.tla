------------------------------ MODULE SshAgent ------------------------------
(***************************************************************************)
(* ssh.SshAgent: a test starts an in-memory ssh agent on a unix socket in  *)
(* a temp folder and stops it in the end. A goroutine accepts connections  *)
(* and serves each in a goroutine of its own; it closes them only when it  *)
(* leaves. Stop closes the stop channel and the listener, waits for the    *)
(* goroutine and removes the folder. A test may run several agents.        *)
(***************************************************************************)
EXTENDS Naturals

CONSTANTS
  Agents,     \* the agents
  Clients,    \* the connections that ssh commands make
  AgentOf,    \* the agent whose socket each connects to
  BadKeys     \* the agents that are given a key pair that cannot be parsed

ASSUME SshAgentAssumption == AgentOf \in [Clients -> Agents] /\ BadKeys \subseteq Agents

VARIABLES
  test,       \* the caller's code for each agent: "new", "madeDir", "addingKeys",
              \* "ready"; "stopping", "closed", "waited", "stopped"; "failed",
              \* "panicked"
  loop,       \* its run: "none", "checking", "accepting", "erred", "leaving",
              \* "left", and "gone" once the stopped channel is closed
  stop,       \* whether its stop channel is closed
  listening,  \* whether its listener is open
  dir,        \* whether its folder exists
  conn,       \* each connection: "none", "queued" in the listener, "accepted",
              \* "hungUp" by the client, "closed" by the agent or the listener
  server      \* its ServeAgent: "none", "serving", "gone"

agentVars == <<test, loop, stop, listening, dir, conn, server>>

AgentInit ==
  /\ test = [a \in Agents |-> "new"]
  /\ loop = [a \in Agents |-> "none"]
  /\ stop = [a \in Agents |-> FALSE]
  /\ listening = [a \in Agents |-> FALSE]
  /\ dir = [a \in Agents |-> FALSE]
  /\ conn = [c \in Clients |-> "none"]
  /\ server = [c \in Clients |-> "none"]

-----------------------------------------------------------------------------
(* SshAgentWithKeyPairsE and Stop, in the goroutine of the test      *)

MakeDir(a) ==
  /\ test[a] = "new"
  /\ \/ test' = [test EXCEPT ![a] = "madeDir"] /\ dir' = [dir EXCEPT ![a] = TRUE]
     \/ test' = [test EXCEPT ![a] = "failed"] /\ UNCHANGED dir
  /\ UNCHANGED <<loop, stop, listening, conn, server>>

\* NewSshAgent listens and starts run. An error leaves the folder behind.
ListenForAgent(a) ==
  /\ test[a] = "madeDir"
  /\ \/ /\ test' = [test EXCEPT ![a] = "addingKeys"]
        /\ listening' = [listening EXCEPT ![a] = TRUE]
        /\ loop' = [loop EXCEPT ![a] = "checking"]
     \/ test' = [test EXCEPT ![a] = "failed"] /\ UNCHANGED <<listening, loop>>
  /\ UNCHANGED <<stop, dir, conn, server>>

\* A key that cannot be parsed is an error, which leaves the agent running; one
\* that is not PEM at all has no block whose bytes could be parsed: a panic.
AddKeys(a) ==
  /\ test[a] = "addingKeys"
  /\ \E end \in IF a \in BadKeys THEN {"failed", "panicked"} ELSE {"ready"} :
       test' = [test EXCEPT ![a] = end]
  /\ UNCHANGED <<loop, stop, listening, dir, conn, server>>

CloseStop(a) ==
  /\ test[a] = "ready"
  /\ stop' = [stop EXCEPT ![a] = TRUE]
  /\ test' = [test EXCEPT ![a] = "stopping"]
  /\ UNCHANGED <<loop, listening, dir, conn, server>>

CloseListener_Missing(a) ==
  /\ test[a] = "stopping"
  /\ test' = [test EXCEPT ![a] = "closed"]
  /\ UNCHANGED <<loop, stop, listening, dir, conn, server>>

\* Closing the listener also closes the connections nobody has accepted.
CloseListener(a) ==
  /\ test[a] = "stopping"
  /\ listening' = [listening EXCEPT ![a] = FALSE]
  /\ conn' = [c \in Clients |-> IF AgentOf[c] = a /\ conn[c] = "queued"
                                THEN "closed" ELSE conn[c]]
  /\ test' = [test EXCEPT ![a] = "closed"]
  /\ UNCHANGED <<loop, stop, dir, server>>

\* The receive from stopped returns when run has closed it.
AwaitStopped(a) ==
  /\ test[a] = "closed" /\ loop[a] = "gone"
  /\ test' = [test EXCEPT ![a] = "waited"]
  /\ UNCHANGED <<loop, stop, listening, dir, conn, server>>

RemoveDir(a) ==
  /\ test[a] = "waited"
  /\ dir' = [dir EXCEPT ![a] = FALSE]
  /\ test' = [test EXCEPT ![a] = "stopped"]
  /\ UNCHANGED <<loop, stop, listening, conn, server>>

-----------------------------------------------------------------------------
(* run *)

\* The select at the top of the loop.
CheckStop(a) ==
  /\ loop[a] = "checking"
  /\ loop' = [loop EXCEPT ![a] = IF stop[a] THEN "leaving" ELSE "accepting"]
  /\ UNCHANGED <<test, stop, listening, dir, conn, server>>

\* Accept returns a connection, which gets a goroutine and a deferred Close.
Accept(a) ==
  /\ loop[a] = "accepting"
  /\ \E c \in Clients :
       /\ AgentOf[c] = a /\ conn[c] = "queued"
       /\ conn' = [conn EXCEPT ![c] = "accepted"]
       /\ server' = [server EXCEPT ![c] = "serving"]
  /\ loop' = [loop EXCEPT ![a] = "checking"]
  /\ UNCHANGED <<test, stop, listening, dir>>

\* Accept fails: the listener is closed, or the system refuses for a moment.
AcceptError(a) ==
  /\ loop[a] = "accepting"
  /\ loop' = [loop EXCEPT ![a] = "erred"]
  /\ UNCHANGED <<test, stop, listening, dir, conn, server>>

\* The select after an error: stop, or log it and continue.
AfterError(a) ==
  /\ loop[a] = "erred"
  /\ loop' = [loop EXCEPT ![a] = IF stop[a] THEN "leaving" ELSE "checking"]
  /\ UNCHANGED <<test, stop, listening, dir, conn, server>>

\* The deferred Close of every connection it has accepted ...
CloseConnections(a) ==
  /\ loop[a] = "leaving"
  /\ conn' = [c \in Clients |-> IF AgentOf[c] = a /\ conn[c] \in {"accepted", "hungUp"}
                                THEN "closed" ELSE conn[c]]
  /\ loop' = [loop EXCEPT ![a] = "left"]
  /\ UNCHANGED <<test, stop, listening, dir, server>>

CloseStopped_First(a) ==
  /\ loop[a] \in {"leaving", "left"}
  /\ loop' = [loop EXCEPT ![a] = "gone"]
  /\ UNCHANGED <<test, stop, listening, dir, conn, server>>

\* ... runs before the first deferred call, close(stopped).
CloseStopped(a) ==
  /\ loop[a] = "left"
  /\ loop' = [loop EXCEPT ![a] = "gone"]
  /\ UNCHANGED <<test, stop, listening, dir, conn, server>>

-----------------------------------------------------------------------------
(* The connections *)

\* An ssh command dials the socket, which exists while the listener is open.
Connect(c) ==
  /\ conn[c] = "none"
  /\ listening[AgentOf[c]]
  /\ conn' = [conn EXCEPT ![c] = "queued"]
  /\ UNCHANGED <<test, loop, stop, listening, dir, server>>

\* It ends.
HangUp(c) ==
  /\ conn[c] = "accepted"
  /\ conn' = [conn EXCEPT ![c] = "hungUp"]
  /\ UNCHANGED <<test, loop, stop, listening, dir, server>>

\* ServeAgent returns an error when either side has closed the connection.
ServeEnds(c) ==
  /\ server[c] = "serving" /\ conn[c] \in {"hungUp", "closed"}
  /\ server' = [server EXCEPT ![c] = "gone"]
  /\ UNCHANGED <<test, loop, stop, listening, dir, conn>>

-----------------------------------------------------------------------------

\* A panic ends the process, with every test and goroutine in it.
Running == \A a \in Agents : test[a] # "panicked"

StopAgent(a) == Running /\ (CloseListener(a) \/ AwaitStopped(a) \/ RemoveDir(a))

RunAgent(a) == Running /\
  \/ CheckStop(a) \/ Accept(a) \/ (AcceptError(a) /\ ~listening[a]) \/ AfterError(a)
  \/ CloseConnections(a) \/ CloseStopped(a)

AgentNext == Running /\
  \/ \E a \in Agents :
       \/ MakeDir(a) \/ ListenForAgent(a) \/ AddKeys(a) \/ CloseStop(a) \/ StopAgent(a)
       \/ CheckStop(a) \/ Accept(a) \/ AcceptError(a) \/ AfterError(a)
       \/ CloseConnections(a) \/ CloseStopped(a)
  \/ \E c \in Clients : Connect(c) \/ HangUp(c) \/ ServeEnds(c)

AgentSafety == AgentInit /\ [][AgentNext]_agentVars

\* Fairness: goroutines that can run do; Accept returns when there is a
\* connection or the listener is closed. Nothing makes a test call Stop.
AgentFairness ==
  /\ \A a \in Agents : WF_agentVars(StopAgent(a)) /\ WF_agentVars(RunAgent(a))
  /\ \A c \in Clients : WF_agentVars(Running /\ ServeEnds(c))

AgentSpec == AgentSafety /\ AgentFairness

-----------------------------------------------------------------------------

AgentTypeOK ==
  /\ test \in [Agents -> {"new", "madeDir", "addingKeys", "ready",
                          "stopping", "closed", "waited", "stopped", "failed", "panicked"}]
  /\ loop \in [Agents -> {"none", "checking", "accepting", "erred", "leaving", "left", "gone"}]
  /\ stop \in [Agents -> BOOLEAN]
  /\ listening \in [Agents -> BOOLEAN]
  /\ dir \in [Agents -> BOOLEAN]
  /\ conn \in [Clients -> {"none", "queued", "accepted", "hungUp", "closed"}]
  /\ server \in [Clients -> {"none", "serving", "gone"}]
  /\ \A a \in Agents : listening[a] => dir[a]

\* When Stop has returned the agent is gone with everything it held: folder,
\* socket, goroutine, and every connection, also one that was accepted or was
\* still waiting while Stop ran ("Stop and clean up SSH agent", agent.go:76).
StopCleansUp ==
  \A a \in Agents : test[a] = "stopped" =>
    /\ ~dir[a] /\ ~listening[a] /\ loop[a] = "gone"
    /\ \A c \in Clients : AgentOf[c] = a => conn[c] \in {"none", "closed"}

\* Stop returns wherever the loop is when it is called, in Accept, before it or
\* after an error of it, and the goroutines of the connections end, unless the
\* keys of another agent end the process.
StopReturns ==
  /\ \A a \in Agents : test[a] = "stopping" ~> (test[a] = "stopped" \/ ~Running)
  /\ \A c \in Clients :
       test[AgentOf[c]] = "stopped" ~> (server[c] # "serving" \/ ~Running)

=============================================================================
