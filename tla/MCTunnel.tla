------------------------------ MODULE MCTunnel ------------------------------
(* Two tunnels, one to a service and one to a pod, each with a local port of *)
(* the system's choice.                                                      *)
EXTENDS Tunnel

CONSTANTS t1, t2, p1

MCRequestedAny == [t \in Tunnels |-> 0]
MCPodOf == [t \in Tunnels |-> p1]
=============================================================================
