------------------------------- MODULE Waits -------------------------------
(***************************************************************************)
(* The calls that wait for the world: WaitUntil... of modules/k8s, the     *)
(* wait for a service account's token, WaitForCapacity and the wait for a  *)
(* console log of modules/aws, and the retried requests of http-helper.    *)
(* Each hands DoWithRetryE an action that reads the world once, so that a  *)
(* wait is RetryContract with attempts whose results are readings of a     *)
(* world that changes all the time. Some callers read it once more.        *)
(***************************************************************************)
EXTENDS RetryContract, FiniteSets

CONSTANTS
  Done, NotYet,   \* the text of a check that succeeds, and of one that fails
  Nodes           \* the nodes of a cluster

ASSUME WaitsAssumption == {Done, NotYet} \subseteq Texts

VARIABLES
  kind,           \* what is waited for
  world,          \* what a reading of it would give now
  seen,           \* the readings of the checks so far, <<>> for a request that failed
  settled,        \* the world has not changed since the wait succeeded
  outcome         \* what the caller makes of its second reading

waitVars == <<call, tried, answer, kind, world, seen, settled, outcome>>

Kinds == {"numPods", "pod", "service", "ingress", "nodes", "token", "capacity", "syslog", "get", "do"}

DesiredCount == 2

Readings(k) ==
  CASE k = "numPods" -> 0 .. 3
    [] k = "pod" -> {"absent", "Pending", "Running", "Failed"}
    [] k = "service" -> [type : {"ClusterIP", "ExternalName"}, at : {"cluster"}]
                          \union [type : {"LoadBalancer"}, at : {"none", "hostname", "ip"}]
                          \union [type : {"NodePort"}, at : {"none", "aws", "awsPrivate", "awsUnlisted", "other"}]
    [] k = "ingress" -> {"absent", "pending", "provisioned"}
    [] k = "nodes" -> [Nodes -> {"absent", "notReady", "ready"}]
    [] k = "token" -> 0 .. 2
    [] k = "capacity" -> [current : 0 .. 2, desired : 0 .. 2]
    [] k = "syslog" -> {"absent", "empty", "text"}
    [] k \in {"get", "do"} -> [status : {"expected", "other"}, body : {"expected", "other"}]

IsPodAvailable(pod) == pod = "Running"

\* Only a load balancer takes its time.
IsServiceAvailable(s) == s.type = "LoadBalancer" => s.at # "none"

IsIngressAvailable(i) == i = "provisioned"

AreAllNodesReady_OrNone(nodes) == \A n \in Nodes : nodes[n] # "notReady"

AreAllNodesReady(nodes) ==
  LET listed == {n \in Nodes : nodes[n] # "absent"}
  IN  listed # {} /\ \A n \in listed : nodes[n] = "ready"

\* WaitUntilNumPodsCreatedE wants the number exactly.
IsNumPods(n) == n = DesiredCount

HasSecret(secrets) == secrets # 0

CapacityIsMet(asg) == asg.current = asg.desired

HasSyslog(out) == out = "text"

IsExpectedResponse(r) == r.status = "expected" /\ r.body = "expected"

\* HTTPDoWithRetryE compares the status only.
IsExpectedStatus(r) == r.status = "expected"

Holds(k, w) ==
  CASE k = "numPods" -> IsNumPods(w)
    [] k = "pod" -> IsPodAvailable(w)
    [] k = "service" -> IsServiceAvailable(w)
    [] k = "ingress" -> IsIngressAvailable(w)
    [] k = "nodes" -> AreAllNodesReady(w)
    [] k = "token" -> HasSecret(w)
    [] k = "capacity" -> CapacityIsMet(w)
    [] k = "syslog" -> HasSyslog(w)
    [] k = "get" -> IsExpectedResponse(w)
    [] k = "do" -> IsExpectedStatus(w)

\* What the action returns. Requests with validation keep no body.
CheckResult(ok) ==
  IF ok THEN [out |-> IF kind = "get" THEN EmptyText ELSE Done, err |-> NoError]
        ELSE [out |-> EmptyText, err |-> [fatal |-> FALSE, text |-> NotYet]]

-----------------------------------------------------------------------------

WaitsInit ==
  /\ kind \in Kinds
  /\ world \in Readings(kind)
  /\ ContractInit /\ call.mode = "plain" /\ call.patterns = {}
  /\ seen = <<>> /\ settled = FALSE /\ outcome = "none"

WorldChanges ==
  /\ outcome = "none"
  /\ world' \in Readings(kind) \ {world}
  /\ settled' = FALSE
  /\ UNCHANGED <<call, tried, answer, kind, seen, outcome>>

\* The action requests a reading, and gets one or an error.
Check ==
  /\ outcome = "none"
  /\ TryOnce
  /\ \/ /\ tried' = Append(tried, CheckResult(Holds(kind, world)))
        /\ seen' = Append(seen, <<world>>)
        /\ settled' = Holds(kind, world)
     \/ /\ kind # "token"
        /\ tried' = Append(tried, CheckResult(FALSE))
        /\ seen' = Append(seen, <<>>)
        /\ settled' = FALSE
  /\ UNCHANGED <<kind, world, outcome>>

\* The wait for a token reads the account with GetServiceAccount, which ends the
\* test when the request fails, and with it the wait and its retries.
EndTest ==
  /\ kind = "token" /\ outcome = "none"
  /\ answer = NoAnswer /\ Len(tried) <= call.max /\ ~Concluded
  /\ outcome' = "testEnded"
  /\ UNCHANGED <<call, tried, answer, kind, world, seen, settled>>

AnswerWait ==
  /\ outcome = "none"
  /\ Conclude \/ Exhaust
  /\ UNCHANGED <<kind, world, seen, settled, outcome>>

GetServiceEndpoint_OtherType(s) == IF s.type = "ClusterIP" THEN "clusterIP" ELSE "error"

\* The host of the endpoint that GetServiceEndpointE makes of a service. Of an AWS
\* node the public address is asked for, which is empty if it has none; the host
\* name on record is for other nodes, and for instances that the answer leaves out.
\* A load balancer is taken to have a host name, which is empty if it has none.
GetServiceEndpoint(s) ==
  CASE s.type = "ClusterIP" -> "clusterIP"
    [] s.type = "NodePort" /\ s.at = "aws" -> "publicIP"
    [] s.type = "NodePort" /\ s.at \in {"awsUnlisted", "other"} -> "nodeName"
    [] s.type = "LoadBalancer" /\ s.at = "hostname" -> "hostname"
    [] s.at \in {"awsPrivate", "ip"} -> "noHost"
    [] s.at = "none" \/ s.type = "ExternalName" -> "error"

\* The account is read again, and has to have one secret.
GetServiceAccountAuthToken(secrets) == IF secrets = 1 THEN "token" ELSE "error"

ReadAgain ==
  /\ kind \in {"token", "service"} /\ outcome = "none"
  /\ answer # NoAnswer /\ answer.err = NoError
  /\ outcome' \in {"requestFailed",
                   IF kind = "token" THEN GetServiceAccountAuthToken(world) ELSE GetServiceEndpoint(world)}
  /\ UNCHANGED <<call, tried, answer, kind, world, seen, settled>>

WaitsNext == WorldChanges \/ Check \/ EndTest \/ AnswerWait \/ ReadAgain

-----------------------------------------------------------------------------

WaitsTypeOK ==
  /\ kind \in Kinds /\ world \in Readings(kind) /\ call \in Calls
  /\ tried \in Seq(Results) /\ Len(seen) = Len(tried)
  /\ seen \in Seq({<<>>} \union {<<w>> : w \in Readings(kind)})
  /\ answer \in Answers \union {NoAnswer}
  /\ settled \in BOOLEAN

\* What each wait is for, in the words of its name.
WaitedFor(k) ==
  CASE k = "numPods" -> {DesiredCount}
    [] k = "pod" -> {"Running"}
    [] k = "service" -> Readings(k) \ {[type |-> "LoadBalancer", at |-> "none"]}
    [] k = "ingress" -> {"provisioned"}
    [] k = "nodes" -> [Nodes -> {"absent", "ready"}] \ {[n \in Nodes |-> "absent"]}
    [] k = "token" -> 1 .. 2
    [] k = "capacity" -> {[current |-> n, desired |-> n] : n \in 0 .. 2}
    [] k = "syslog" -> {"text"}
    [] k = "get" -> {[status |-> "expected", body |-> "expected"]}
    [] k = "do" -> [status : {"expected"}, body : {"expected", "other"}]

\* A wait succeeds exactly if its last reading was what it waited for, which no
\* earlier one was, and it gives up only after every check its budget has: a
\* world that changes between two checks or a request that fails costs one
\* retry and not the answer (pod.go:63-101 and the other waits).
WaitIsHonest ==
  answer # NoAnswer =>
    /\ \A i \in DOMAIN seen : seen[i] \in {<<w>> : w \in WaitedFor(kind)} => i = Len(seen)
    /\ answer.err = NoError <=>
         seen # <<>> /\ seen[Len(seen)] \in {<<w>> : w \in WaitedFor(kind)}
    /\ answer.err # NoError => Len(seen) = call.max + 1 \/ (seen = <<>> /\ call.max < 0)

\* What was waited for can be used by the call that comes next, which reads the
\* world again, unless the world has changed meanwhile: a service has an endpoint
\* with a host in it, and an account a token (service.go:96-124,
\* service_account.go:89-103). The exceptions give an error: a service of a type
\* without an endpoint, a node without a host name, an account that has got more
\* than one secret. Or they give no error and ":port", without a host, against
\* service.go:103-105 and 186-188: a node of AWS without a public address, and a
\* load balancer that has an address and no host name.
SecondReadingFinds ==
  settled =>
    /\ outcome = "error" =>
         \/ kind = "service" /\ (world.type = "ExternalName" \/ world = [type |-> "NodePort", at |-> "none"])
         \/ kind = "token" /\ world > 1
    /\ outcome = "noHost" =>
         kind = "service" /\ world \in {[type |-> "NodePort", at |-> "awsPrivate"],
                                       [type |-> "LoadBalancer", at |-> "ip"]}

=============================================================================
