----------------------------- MODULE MCServers -----------------------------
(* An HTTP server that returns a text and two with handlers, which share a    *)
(* path, on ports that another process may have; a good agent with two        *)
(* connections and one that is given a bad key; up to four requests and a     *)
(* buffer of two, so that it can be full.                                     *)
EXTENDS Servers

CONSTANTS s1, s2, s3, root, health, a1, a2, c1, c2

MCHandlers == [c \in Calls |-> CASE c = s1 -> {} [] c = s2 -> {root} [] c = s3 -> {root, health}]
MCAgentOf == [c \in Clients |-> a1]
=============================================================================
