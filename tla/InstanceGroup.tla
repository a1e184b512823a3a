--------------------------- MODULE InstanceGroup ---------------------------
(***************************************************************************)
(* Looking at an instance group as modules/gcp/compute.go does: the group  *)
(* is listed page by page and its instances are fetched one by one, while  *)
(* the autoscaler replaces instances. getInstancesE returns all instances, *)
(* getRandomInstanceE one of them, provided that the group has the size    *)
(* that its struct had when the test fetched it. Every request may fail.   *)
(***************************************************************************)
EXTENDS Integers, FiniteSets

CONSTANTS
  Instances,    \* instances, as numbers: the order of listings
  Addressed,    \* those that have a public address
  GroupPage,    \* instances on a page of a listing
  MaxScalings   \* bound: changes of the group

ASSUME GroupAssumption ==
  /\ Instances \subseteq Nat \ {0} /\ IsFiniteSet(Instances)
  /\ GroupPage \in Nat \ {0} /\ MaxScalings \in Nat

VARIABLES
  group,        \* the instances of the group, which are those of the project
  changes,      \* how often the group has changed
  size,         \* ig.Size of the test's struct of the group
  call,         \* where the test's call on the group is
  ids,          \* instanceIDs of its listing
  marker,       \* how far the listing has come
  wanted,       \* the ones to fetch: all of it, or the one that was drawn
  result,       \* the instances it has fetched
  throughout    \* the instances that were in the group during the whole call

groupVars == <<group, changes, size, call, ids, marker, wanted, result, throughout>>

GroupInit ==
  /\ group = Instances
  /\ changes = 0
  /\ size = Cardinality(Instances)
  /\ call = "idle"
  /\ ids = {} /\ wanted = {} /\ result = {} /\ throughout = {}
  /\ marker = 0

Scale ==
  /\ changes < MaxScalings
  /\ changes' = changes + 1
  /\ \E i \in Instances : group' = IF i \in group THEN group \ {i} ELSE group \union {i}
  /\ throughout' = throughout \intersect group'
  /\ UNCHANGED <<size, call, ids, marker, wanted, result>>

\* FetchRegionalInstanceGroupE and FetchZonalInstanceGroupE.
FetchInstanceGroup ==
  /\ call = "idle"
  /\ size' = Cardinality(group)
  /\ UNCHANGED <<group, changes, call, ids, marker, wanted, result, throughout>>

BeginCall(what) ==
  /\ call = "idle"
  /\ call' = what
  /\ throughout' = group
  /\ UNCHANGED <<group, changes, size, ids, marker, wanted, result>>

Unlisted == {i \in group : i > marker}

Page == {i \in Unlisted : Cardinality({j \in Unlisted : j < i}) < GroupPage}

Listing == call \in {"listAll", "listRandom"}

\* GetInstanceIdsE of either kind of group: the callback collects the instances
\* of each page, which the service cuts from the group as it is now.
NextPage ==
  /\ Listing
  /\ Page # Unlisted
  /\ ids' = ids \union Page
  /\ marker' = CHOOSE last \in Page : \A i \in Page : i <= last
  /\ UNCHANGED <<group, changes, size, call, wanted, result, throughout>>

LastPageOfAll ==
  /\ call = "listAll"
  /\ Page = Unlisted
  /\ ids' = ids \union Page
  /\ wanted' = ids'
  /\ call' = "fetchAll"
  /\ UNCHANGED <<group, changes, size, marker, result, throughout>>

LastPageOfRandom_SizeUnchecked ==
  /\ call = "listRandom"
  /\ Page = Unlisted
  /\ ids' = ids \union Page
  /\ IF ids' = {}
     THEN call' = "error" /\ UNCHANGED wanted
     ELSE call' = "fetchRandom" /\ \E i \in ids' : wanted' = {i}
  /\ UNCHANGED <<group, changes, size, marker, result, throughout>>

\* getRandomInstanceE compares the list with the size in the struct, and draws
\* an index below that size, which is then the length of the list.
LastPageOfRandom ==
  /\ call = "listRandom"
  /\ Page = Unlisted
  /\ ids' = ids \union Page
  /\ IF ids' = {} \/ Cardinality(ids') # size
     THEN call' = "error" /\ UNCHANGED wanted
     ELSE call' = "fetchRandom" /\ \E i \in ids' : wanted' = {i}
  /\ UNCHANGED <<group, changes, size, marker, result, throughout>>

\* FetchInstanceE of an id. One that is gone is an error of getInstancesE, but
\* getRandomInstanceE calls FetchInstance, which fails the test.
FetchNext ==
  /\ call \in {"fetchAll", "fetchRandom"}
  /\ \E i \in wanted \ result :
       IF i \in group
       THEN result' = result \union {i} /\ UNCHANGED call
       ELSE call' = (IF call = "fetchAll" THEN "error" ELSE "fatal") /\ UNCHANGED result
  /\ UNCHANGED <<group, changes, size, ids, marker, wanted, throughout>>

GroupAnswer ==
  /\ call \in {"fetchAll", "fetchRandom"}
  /\ wanted = result
  /\ call' = IF call = "fetchAll" THEN "all" ELSE "one"
  /\ UNCHANGED <<group, changes, size, ids, marker, wanted, result, throughout>>

\* getPublicIpsE goes on with what getInstancesE has returned; an instance
\* without a public address does not make it return an error but fails the test.
GetPublicIps ==
  /\ call = "all"
  /\ call' = IF result \subseteq Addressed THEN "ips" ELSE "fatal"
  /\ UNCHANGED <<group, changes, size, ids, marker, wanted, result, throughout>>

\* A request fails, after seven attempts to get a token, or an instance is not
\* on the one page of the project's instances that FetchInstanceE looks at. It
\* fails the test when it has no client, and so does the listing for a random one.
RequestFails ==
  /\ Listing \/ call \in {"fetchAll", "fetchRandom"}
  /\ call' \in (IF call = "listAll" THEN {"error"}
                ELSE IF call = "fetchAll" THEN {"error", "fatal"} ELSE {"fatal"})
  /\ UNCHANGED <<group, changes, size, ids, marker, wanted, result, throughout>>

GroupStep ==
  NextPage \/ LastPageOfAll \/ LastPageOfRandom \/ FetchNext \/ GroupAnswer \/ RequestFails

GroupNext ==
  \/ Scale \/ FetchInstanceGroup \/ BeginCall("listAll") \/ BeginCall("listRandom")
  \/ GroupStep \/ GetPublicIps

\* Requests come back.
GroupFairness == WF_groupVars(GroupStep)

-----------------------------------------------------------------------------

GroupTypeOK ==
  /\ {ids, wanted, result, throughout, group} \subseteq SUBSET Instances
  /\ changes \in 0 .. MaxScalings
  /\ size \in 0 .. Cardinality(Instances) /\ marker \in Instances \union {0}
  /\ call \in {"idle", "listAll", "listRandom", "fetchAll", "fetchRandom",
               "all", "ips", "one", "error", "fatal"}

\* What getInstancesE returns has every instance that was in the group all the
\* time, whatever came and went between its pages, and so have the addresses of
\* a group. The random instance is one of a listing that misses none of them
\* either, and that has the size the test expects (compute.go:564).
GroupAnswerIsWhole ==
  /\ call \in {"all", "ips"} => throughout \subseteq result
  /\ call = "one" =>
       /\ \E i \in ids : result = {i}
       /\ Cardinality(ids) = size /\ throughout \subseteq ids

GroupCallReturns ==
  call \in {"listAll", "listRandom"} ~> call \in {"all", "one", "error", "fatal"}

=============================================================================
