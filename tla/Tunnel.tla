------------------------------- MODULE Tunnel -------------------------------
(***************************************************************************)
(* k8s.Tunnel: tests in parallel open port forwarding tunnels to pods. A   *)
(* tunnel with local port 0 first probes for a free port, then takes the   *)
(* global lock and starts client-go's forwarder in a goroutine; the call   *)
(* returns when the forwarder is ready or has failed. Ports belong to the  *)
(* host, where other processes come and go; so do pods in the cluster.     *)
(***************************************************************************)
EXTENDS Naturals, FiniteSets

CONSTANTS
  Tunnels,    \* the tunnels, each driven by a test of its own
  Services,   \* the tunnels whose resource is a service, the others name a pod
  Pods,       \* pods of the namespace; a service selects all of them
  PodOf,      \* the pod a tunnel that is not in Services names
  Ports,      \* ports of the host
  Requested,  \* the local port each tunnel is created with, 0 for any
  Nobody,     \* no owner, no holder, no pod
  Other,      \* some process of the host that is not a tunnel
  MaxCalls    \* bound: how often a test calls ForwardPortE on its tunnel

ASSUME TunnelAssumption ==
  /\ Services \subseteq Tunnels
  /\ PodOf \in [Tunnels -> Pods]
  /\ 0 \notin Ports
  /\ Requested \in [Tunnels -> Ports \union {0}]
  /\ Nobody \notin Tunnels \union Pods \union {Other}
  /\ Other \notin Tunnels
  /\ MaxCalls \in Nat

VARIABLES
  pc,         \* where the call of ForwardPortE is
  calls,      \* how many calls were made
  pod,        \* the pod a tunnel attaches to
  localPort,  \* tunnel.localPort
  mutex,      \* the holder of globalMutex
  fwd,        \* the goroutine of the forwarder
  fwdFailed,  \* whether ForwardPorts returned an error
  ready,      \* whether the Ready channel is closed
  stop,       \* whether stopChan is closed
  owner,      \* who listens on each port
  podsUp      \* the pods that are available now

callVars == <<pc, calls, pod, localPort, mutex>>
fwdVars == <<fwd, fwdFailed, ready>>
worldVars == <<owner, podsUp>>
vars == <<callVars, fwdVars, stop, worldVars>>

Init ==
  /\ pc = [t \in Tunnels |-> "new"]
  /\ calls = [t \in Tunnels |-> 0]
  /\ pod = [t \in Tunnels |-> Nobody]
  /\ localPort = Requested
  /\ mutex = Nobody
  /\ fwd = [t \in Tunnels |-> "none"]
  /\ fwdFailed = [t \in Tunnels |-> FALSE]
  /\ ready = [t \in Tunnels |-> FALSE]
  /\ stop = [t \in Tunnels |-> FALSE]
  /\ owner \in [Ports -> {Nobody, Other}]
  /\ podsUp \in SUBSET Pods

-----------------------------------------------------------------------------
(* The call of ForwardPortE *)

Goto(t, l) == pc' = [pc EXCEPT ![t] = l]

Unlock_Zero(t) == mutex' = IF mutex = t THEN 0 ELSE mutex

Unlock(t) == mutex' = IF mutex = t THEN Nobody ELSE mutex

ReturnError_NoUnlock(t) == Goto(t, "failed") /\ UNCHANGED mutex

\* The call returns: with an error ("failed") or without ("open"). A deferred
\* Unlock runs first if the call has locked.
ReturnError(t) == Goto(t, "failed") /\ Unlock(t)
ReturnNil(t) == Goto(t, "open") /\ Unlock(t)

\* The test calls ForwardPortE, or calls it again after an error.
Begin(t) ==
  /\ pc[t] \in {"new", "failed"}
  /\ calls[t] < MaxCalls
  /\ ~stop[t] /\ ~ready[t]
  /\ calls' = [calls EXCEPT ![t] = @ + 1]
  /\ Goto(t, "attaching")
  /\ UNCHANGED <<pod, localPort, mutex, fwdVars, stop, worldVars>>

\* The pods a tunnel can attach to: the named one, in whatever state it is, or
\* any available pod of the service.
Attachable(t) == IF t \in Services THEN podsUp ELSE {PodOf[t]}

\* The client, its configuration and the pod are looked up; any of that fails,
\* or no pod of the service is available.
Attach(t) ==
  /\ pc[t] = "attaching"
  /\ \/ /\ \E p \in Attachable(t) : pod' = [pod EXCEPT ![t] = p]
        /\ Goto(t, IF localPort[t] = 0 THEN "choosing" ELSE "starting")
        /\ UNCHANGED mutex
     \/ ReturnError(t) /\ UNCHANGED pod
  /\ UNCHANGED <<calls, localPort, fwdVars, stop, worldVars>>

\* GetAvailablePortE listens on a port of the system's choice, or fails.
Probe(t) ==
  /\ pc[t] = "choosing"
  /\ \/ \E p \in Ports :
          /\ owner[p] = Nobody
          /\ owner' = [owner EXCEPT ![p] = t]
          /\ localPort' = [localPort EXCEPT ![t] = p]
          /\ Goto(t, "probing")
          /\ UNCHANGED mutex
     \/ ReturnError(t) /\ UNCHANGED <<owner, localPort>>
  /\ UNCHANGED <<calls, pod, fwdVars, stop, podsUp>>

\* It closes its listener on return: from here on the port is free again.
EndProbe(t) ==
  /\ pc[t] = "probing"
  /\ owner' = [owner EXCEPT ![localPort[t]] = Nobody]
  /\ Goto(t, "locking")
  /\ UNCHANGED <<calls, pod, localPort, mutex, fwdVars, stop, podsUp>>

\* globalMutex.Lock, after the port was chosen.
Lock(t) ==
  /\ pc[t] = "locking"
  /\ mutex = Nobody
  /\ mutex' = t
  /\ Goto(t, "starting")
  /\ UNCHANGED <<calls, pod, localPort, fwdVars, stop, worldVars>>

\* portforward.New fails, or the forwarder starts in its goroutine.
StartForwarder(t) ==
  /\ pc[t] = "starting"
  /\ \/ /\ Goto(t, "waiting")
        /\ fwd' = [fwd EXCEPT ![t] = "dialing"]
        /\ fwdFailed' = [fwdFailed EXCEPT ![t] = FALSE]
        /\ UNCHANGED mutex
     \/ ReturnError(t) /\ UNCHANGED <<fwd, fwdFailed>>
  /\ UNCHANGED <<calls, pod, localPort, ready, stop, worldVars>>

\* The select receives what ForwardPorts returned, an error or nil.
TakeError(t) ==
  /\ pc[t] = "waiting"
  /\ fwd[t] = "reporting"
  /\ fwd' = [fwd EXCEPT ![t] = "gone"]
  /\ IF fwdFailed[t] THEN ReturnError(t) ELSE ReturnNil(t)
  /\ UNCHANGED <<calls, pod, localPort, fwdFailed, ready, stop, worldVars>>

TakeReady_ResetsPort(t) ==
  /\ pc[t] = "waiting"
  /\ ready[t]
  /\ ReturnNil(t)
  /\ localPort' = [localPort EXCEPT ![t] = Requested[t]]
  /\ UNCHANGED <<calls, pod, fwdVars, stop, worldVars>>

\* The select sees that the forwarder is ready.
TakeReady(t) ==
  /\ pc[t] = "waiting"
  /\ ready[t]
  /\ ReturnNil(t)
  /\ UNCHANGED <<calls, pod, localPort, fwdVars, stop, worldVars>>

\* Tunnel.Close, deferred by the test; a second one would panic.
Close(t) ==
  /\ pc[t] \in {"open", "failed"}
  /\ ~stop[t]
  /\ stop' = [stop EXCEPT ![t] = TRUE]
  /\ UNCHANGED <<callVars, fwdVars, worldVars>>

-----------------------------------------------------------------------------
(* client-go's PortForwarder.ForwardPorts, in its goroutine *)

\* The forwarder ends its work and tries to send its result on errChan, which
\* has no buffer.
Report(t, failed) ==
  /\ fwd' = [fwd EXCEPT ![t] = "reporting"]
  /\ fwdFailed' = [fwdFailed EXCEPT ![t] = failed]

\* It connects to the API server and through it to the pod.
Dial(t) ==
  /\ fwd[t] = "dialing"
  /\ \/ /\ pod[t] \in podsUp
        /\ fwd' = [fwd EXCEPT ![t] = "listening"]
        /\ UNCHANGED fwdFailed
     \/ Report(t, TRUE)
  /\ UNCHANGED <<callVars, ready, stop, worldVars>>

\* It listens on the local port if nobody else does, and is then ready.
Listen(t) ==
  /\ fwd[t] = "listening"
  /\ IF owner[localPort[t]] = Nobody
     THEN /\ owner' = [owner EXCEPT ![localPort[t]] = t]
          /\ ready' = [ready EXCEPT ![t] = TRUE]
          /\ fwd' = [fwd EXCEPT ![t] = "serving"]
          /\ UNCHANGED fwdFailed
     ELSE Report(t, TRUE) /\ UNCHANGED <<owner, ready>>
  /\ UNCHANGED <<callVars, stop, podsUp>>

EndService_OtherChannel(t) ==
  /\ fwd[t] = "serving"
  /\ pod[t] \notin podsUp
  /\ owner' = [owner EXCEPT ![localPort[t]] = Nobody]
  /\ Report(t, FALSE)
  /\ UNCHANGED <<callVars, ready, stop, podsUp>>

\* It stops when stopChan is closed or the connection to the pod is lost,
\* closes its listener and returns nil.
EndService(t) ==
  /\ fwd[t] = "serving"
  /\ stop[t] \/ pod[t] \notin podsUp
  /\ owner' = [owner EXCEPT ![localPort[t]] = Nobody]
  /\ Report(t, FALSE)
  /\ UNCHANGED <<callVars, ready, stop, podsUp>>

-----------------------------------------------------------------------------
(* The host and the cluster *)

\* Another process starts or stops to listen on a port.
HostStep(p) ==
  /\ owner[p] \in {Nobody, Other}
  /\ owner' = [owner EXCEPT ![p] = IF @ = Nobody THEN Other ELSE Nobody]
  /\ UNCHANGED <<callVars, fwdVars, stop, podsUp>>

\* A pod becomes available or stops to be.
PodStep(p) ==
  /\ podsUp' = IF p \in podsUp THEN podsUp \ {p} ELSE podsUp \union {p}
  /\ UNCHANGED <<callVars, fwdVars, stop, owner>>

-----------------------------------------------------------------------------

CallStep(t) ==
  \/ Attach(t) \/ Probe(t) \/ EndProbe(t) \/ StartForwarder(t)
  \/ TakeError(t) \/ TakeReady(t)

ForwarderStep(t) == Dial(t) \/ Listen(t) \/ EndService(t)

Next ==
  \/ \E t \in Tunnels : Begin(t) \/ CallStep(t) \/ Lock(t) \/ Close(t) \/ ForwarderStep(t)
  \/ \E p \in Ports : HostStep(p)
  \/ \E p \in Pods : PodStep(p)

Safety == Init /\ [][Next]_vars

\* Fairness: a call that can go on does, Go's mutex starves nobody, and the
\* forwarder's dial and listen come back, with or without success.
Spec ==
  /\ Safety
  /\ \A t \in Tunnels :
       /\ WF_vars(CallStep(t))
       /\ SF_vars(Lock(t))
       /\ WF_vars(ForwarderStep(t))

-----------------------------------------------------------------------------

TypeOK ==
  /\ pc \in [Tunnels -> {"new", "attaching", "choosing", "probing", "locking",
                         "starting", "waiting", "open", "failed"}]
  /\ calls \in [Tunnels -> 0 .. MaxCalls]
  /\ pod \in [Tunnels -> Pods \union {Nobody}]
  /\ localPort \in [Tunnels -> Ports \union {0}]
  /\ mutex \in Tunnels \union {Nobody}
  /\ fwd \in [Tunnels -> {"none", "dialing", "listening", "serving", "reporting", "gone"}]
  /\ fwdFailed \in [Tunnels -> BOOLEAN]
  /\ ready \in [Tunnels -> BOOLEAN]
  /\ stop \in [Tunnels -> BOOLEAN]
  /\ owner \in [Ports -> Tunnels \union {Nobody, Other}]
  /\ podsUp \in SUBSET Pods

\* A call that reports success did get its own forwarder ready, and while that
\* forwarder lives, Endpoint names the port it listens on: no test talks to the
\* pod of another through a port that both selected (lines 89-91 and 226-234).
EndpointIsMine ==
  \A t \in Tunnels :
    /\ pc[t] = "open" => ready[t]
    /\ fwd[t] = "serving" => localPort[t] \in Ports /\ owner[localPort[t]] = t

\* The lock is never left behind by a call that returned, whatever failed after
\* it was taken, and tunnels that probed for a port start one at a time.
LockDiscipline ==
  /\ mutex # Nobody => pc[mutex] \in {"starting", "waiting"}
  /\ \A t \in Tunnels :
       Requested[t] = 0 /\ calls[t] = 1 /\ pc[t] \in {"starting", "waiting"} => mutex = t

\* Every call of ForwardPortE returns, though the tunnels wait for each other
\* in the lock while one dials.
CallsReturn == \A t \in Tunnels : pc[t] = "attaching" ~> pc[t] \in {"open", "failed"}

\* Closing a tunnel frees its port.
CloseFreesPort ==
  \A t \in Tunnels : stop[t] ~> [](\A p \in Ports : owner[p] # t)

\* tunnel.go:196: "Synchronize on the global lock to avoid race conditions with
\* concurrently selecting the same available port". Two tunnels that have
\* selected a port and not yet bound it have not selected the same one.
SelectionsDiffer ==
  \A t, u \in Tunnels :
    /\ t # u
    /\ Requested[t] = 0 /\ Requested[u] = 0
    /\ pc[t] \in {"locking", "starting", "waiting"}
    /\ pc[u] \in {"locking", "starting", "waiting"}
    => localPort[t] # localPort[u]

=============================================================================
