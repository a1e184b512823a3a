---------------------------- MODULE DummyServer ----------------------------
(***************************************************************************)
(* http_helper.RunDummyServerE and RunDummyServerWithHandlersE: parallel   *)
(* tests of one process start HTTP servers. A server of the first kind has *)
(* a mux of its own; those of the second kind register their handlers with *)
(* the DefaultServeMux of net/http, which they all serve. The ports come   *)
(* from a counter that is incremented atomically.                          *)
(***************************************************************************)
EXTENDS Naturals, FiniteSets

CONSTANTS
  Calls,      \* the calls, each of a test of its own
  Paths,      \* the paths that handlers are for
  Handlers,   \* the paths each call gives handlers for, {} for RunDummyServerE
  Base,       \* the initial testServerPort, 8080
  Nobody,     \* no owner, no handler
  Other       \* some other process of the host

ASSUME DummyServerAssumption ==
  /\ IsFiniteSet(Calls)
  /\ Handlers \in [Calls -> SUBSET Paths]
  /\ Base \in Nat
  /\ Nobody \notin Calls \union {Other} /\ Other \notin Calls

\* The ports the counter can come to, one for each call.
Ports == Base + 1 .. Base + Cardinality(Calls)

VARIABLES
  pc,       \* each call: "new", "registering", "listening", "serving", "error",
            \* "panicked", or "closed" when its test has closed the listener
  counter,  \* testServerPort
  port,     \* the port each call got, 0 before
  todo,     \* the paths each call has still to register
  mux,      \* DefaultServeMux: whose handler each path has
  owner,    \* who listens on each port
  dead      \* whether a panic has ended the process

vars == <<pc, counter, port, todo, mux, owner, dead>>

Init ==
  /\ pc = [c \in Calls |-> "new"]
  /\ counter = Base
  /\ port = [c \in Calls |-> 0]
  /\ todo = Handlers
  /\ mux = [p \in Paths |-> Nobody]
  /\ owner \in [Ports -> {Nobody, Other}]
  /\ dead = FALSE

OwnMux(c) == Handlers[c] = {}

\* getNextPort: an atomic increment that returns the new value.
TakePort(c) ==
  /\ ~dead /\ pc[c] = "new"
  /\ counter' = counter + 1
  /\ port' = [port EXCEPT ![c] = counter + 1]
  /\ pc' = [pc EXCEPT ![c] = "registering"]
  /\ UNCHANGED <<todo, mux, owner, dead>>

Register_Replaces(c) ==
  /\ ~dead /\ pc[c] = "registering" /\ todo[c] # {}
  /\ \E p \in todo[c] :
       /\ todo' = [todo EXCEPT ![c] = @ \ {p}]
       /\ mux' = [mux EXCEPT ![p] = c]
  /\ UNCHANGED <<pc, counter, port, owner, dead>>

\* http.HandleFunc of one of the paths, in any order: a path that has a handler
\* makes it panic, which ends the process.
Register(c) ==
  /\ ~dead /\ pc[c] = "registering" /\ todo[c] # {}
  /\ \E p \in todo[c] :
       IF mux[p] = Nobody
       THEN /\ todo' = [todo EXCEPT ![c] = @ \ {p}]
            /\ mux' = [mux EXCEPT ![p] = c]
            /\ UNCHANGED <<pc, owner, dead>>
       ELSE /\ pc' = [pc EXCEPT ![c] = "panicked"]
            /\ dead' = TRUE
            /\ owner' = [q \in Ports |-> IF owner[q] \in Calls THEN Nobody ELSE owner[q]]
            /\ UNCHANGED <<todo, mux>>
  /\ UNCHANGED <<counter, port>>

\* net.Listen fails on a port that is taken; else the server starts.
Listen(c) ==
  /\ ~dead /\ pc[c] = "registering" /\ todo[c] = {}
  /\ IF owner[port[c]] = Nobody
     THEN /\ owner' = [owner EXCEPT ![port[c]] = c]
          /\ pc' = [pc EXCEPT ![c] = "serving"]
     ELSE pc' = [pc EXCEPT ![c] = "error"] /\ UNCHANGED owner
  /\ UNCHANGED <<counter, port, todo, mux, dead>>

\* The test closes the listener. What it registered stays registered.
Close(c) ==
  /\ ~dead /\ pc[c] = "serving"
  /\ owner' = [owner EXCEPT ![port[c]] = Nobody]
  /\ pc' = [pc EXCEPT ![c] = "closed"]
  /\ UNCHANGED <<counter, port, todo, mux, dead>>

\* Another process starts or stops to listen on a port.
HostStep(p) ==
  /\ owner[p] \in {Nobody, Other}
  /\ owner' = [owner EXCEPT ![p] = IF @ = Nobody THEN Other ELSE Nobody]
  /\ UNCHANGED <<pc, counter, port, todo, mux, dead>>

Next ==
  \/ \E c \in Calls : TakePort(c) \/ Register(c) \/ Listen(c) \/ Close(c)
  \/ \E p \in Ports : HostStep(p)

Spec == Init /\ [][Next]_vars

-----------------------------------------------------------------------------

TypeOK ==
  /\ pc \in [Calls -> {"new", "registering", "serving", "error", "panicked", "closed"}]
  /\ counter \in Base .. Base + Cardinality(Calls)
  /\ port \in [Calls -> Ports \union {0}]
  /\ todo \in [Calls -> SUBSET Paths]
  /\ mux \in [Paths -> Calls \union {Nobody}]
  /\ owner \in [Ports -> Calls \union {Nobody, Other}]
  /\ dead \in BOOLEAN

\* Whose handler answers a request for path p at the address of call c: the text
\* of its own mux for every path, else what the shared mux has, if any.
Answers(c, p) == IF OwnMux(c) THEN c ELSE mux[p]

\* A test that talks to the address it was given reaches its own server and
\* nobody else's, and gets its own handlers there for as long as it serves: the
\* port is unique in the process and no later call replaces a handler.
OwnAddress ==
  \A c \in Calls : ~dead /\ pc[c] = "serving" =>
    /\ owner[port[c]] = c
    /\ \A p \in Handlers[c] : Answers(c, p) = c

\* "we need to ensure that each test runs on a different port. This function
\* returns a unique port" (dummy_server.go:85-86): a port that was handed out is
\* not handed out again, not even after its listener was closed.
PortsUnique == \A c, d \in Calls : c # d /\ port[c] # 0 => port[c] # port[d]

=============================================================================
