------------------------------ MODULE Regions ------------------------------
(***************************************************************************)
(* How region.go of modules/aws, modules/gcp and modules/azure picks a     *)
(* region or a zone at random: an environment variable, which Azure has    *)
(* not, overrides everything; else the pick is from the approved list or,  *)
(* if that is empty, from all that the service lists, without the          *)
(* forbidden ones. Lists are sets: order and repetition only weigh the     *)
(* random choice.                                                          *)
(***************************************************************************)
EXTENDS Naturals

CONSTANTS
  AllRegions,      \* the regions that the service lists
  StableRegions,   \* stableRegions of aws/region.go
  RegionsIn,       \* [zone -> the regions whose name its name contains], of all zones
  Override         \* the value of the environment variable, if it is set

VARIABLES
  request,         \* what the test asks for
  pick             \* what it got

regionVars == <<request, pick>>

PickKinds == {"awsRegion", "awsStable", "azureRegion", "azureStable",
              "gcpRegion", "gcpZone", "gcpZoneForRegion"}

Stable(kind) == kind \in {"awsStable", "azureStable"}

OnAzure(kind) == kind \in {"azureRegion", "azureStable"}

NoRequest == [kind |-> "none", approved |-> {}, forbidden |-> {}, regions |-> {}, env |-> FALSE]

RegionsInit == request = NoRequest /\ pick = "none"

Zones == DOMAIN RegionsIn

Universe(kind) == IF kind \in {"gcpZone", "gcpZoneForRegion"} THEN Zones ELSE AllRegions

Ask ==
  /\ request = NoRequest
  /\ \E kind \in PickKinds, env \in BOOLEAN :
     \E approved, forbidden \in SUBSET Universe(kind), regions \in SUBSET AllRegions :
       /\ OnAzure(kind) => ~env
       /\ kind # "gcpZone" /\ kind # "gcpZoneForRegion" => regions = {}
       /\ kind = "gcpZoneForRegion" => approved = {} /\ forbidden = {} /\ regions # {}
       /\ request' = [kind |-> kind, approved |-> approved, forbidden |-> forbidden,
                      regions |-> regions, env |-> env]
  /\ UNCHANGED pick

ListIntersection(list1, list2) == list1 \intersect list2

ListSubtract_Swapped(list1, list2) == list2 \ list1

ListSubtract(list1, list2) == list1 \ list2

\* GetRandomRegionE of each cloud, without the override.
RegionsToPickFrom(approved, forbidden) ==
  ListSubtract(IF approved = {} THEN AllRegions ELSE approved, forbidden)

\* GetRandomStableRegion narrows the stable regions and then hands them to
\* GetRandomRegion as the approved ones; if none is left, that takes them all.
StableLeft(approved, forbidden) ==
  ListSubtract(IF approved = {} THEN StableRegions ELSE ListIntersection(StableRegions, approved),
               forbidden)

isInRegions(zone, regions) == RegionsIn[zone] \intersect regions # {}

\* GetRandomZoneE, without the override.
ZonesToPickFrom(approved, forbidden, forbiddenRegions) ==
  {z \in ListSubtract(IF approved = {} THEN Zones ELSE approved, forbidden) :
     ~isInRegions(z, forbiddenRegions)}

\* GetRandomZoneForRegionE takes one region.
ToPickFrom(r) ==
  CASE r.kind \in {"awsRegion", "azureRegion", "gcpRegion"} -> RegionsToPickFrom(r.approved, r.forbidden)
    [] Stable(r.kind) -> RegionsToPickFrom(StableLeft(r.approved, r.forbidden), {})
    [] r.kind = "gcpZone" -> ZonesToPickFrom(r.approved, r.forbidden, r.regions)
    [] r.kind = "gcpZoneForRegion" ->
         {z \in Zones : isInRegions(z, {CHOOSE x \in r.regions : TRUE})}

\* RandomString of an empty list panics: Intn is called with zero.
RandomString(list) == IF list = {} THEN {"panic"} ELSE list

\* The listing of all regions or zones may fail, if it is needed, and so may
\* the lookup of the subscription, which Azure always needs.
MayFail(r) ==
  \/ OnAzure(r.kind) \/ r.kind = "gcpZoneForRegion"
  \/ IF Stable(r.kind) THEN StableLeft(r.approved, r.forbidden) = {} ELSE r.approved = {}

Pick ==
  /\ request # NoRequest /\ pick = "none"
  /\ pick' \in IF request.env THEN {Override}
               ELSE RandomString(ToPickFrom(request))
                      \union (IF MayFail(request) THEN {"error"} ELSE {})
  /\ UNCHANGED request

RegionsNext == Ask \/ Pick

-----------------------------------------------------------------------------

\* A test never gets a region or a zone that it has forbidden, directly or by
\* the region of a zone, and of an approved list only what is on it. The
\* exceptions are an override and a stable region when no stable one is left.
PickIsAllowed ==
  pick \notin {"none", "panic", "error"} /\ ~request.env =>
    \/ /\ pick \notin request.forbidden
       /\ request.approved # {} => pick \in request.approved
       /\ request.kind = "gcpZone" => RegionsIn[pick] \intersect request.regions = {}
    \/ Stable(request.kind) /\ StableLeft(request.approved, request.forbidden) = {}

=============================================================================
