------------------------------- MODULE Images -------------------------------
(***************************************************************************)
(* Deleting machine images and the EBS snapshots behind them, as           *)
(* modules/aws/ami.go, ebs.go and ec2.go do it for the tests of            *)
(* test/packer_basic_example_test.go: list the snapshots, deregister the   *)
(* image, delete the snapshots one by one. Tests run in parallel, images   *)
(* may share a snapshot, and every call of the service may fail.           *)
(***************************************************************************)
EXTENDS FiniteSets

CONSTANTS
  Cleaners,    \* tests that delete an image and its snapshots
  Amis,        \* images
  Snapshots,   \* snapshots
  Backing      \* [Amis -> SUBSET Snapshots], the block device mappings

ASSUME ImagesAssumption == Amis # {} /\ Backing \in [Amis -> SUBSET Snapshots]

VARIABLES
  registered,  \* images that exist; an id is never used again
  snaps,       \* snapshots that exist
  cleaner,     \* where each test's DeleteAmiAndAllSnapshotsE is
  target,      \* the image it deletes
  toDelete,    \* snapshots it has listed and not deleted yet
  fault        \* whether a call of it failed by itself, and not on account of its order

imageVars == <<registered, snaps, cleaner, target, toDelete, fault>>

ImagesInit ==
  /\ registered = {} /\ snaps = {}
  /\ cleaner = [c \in Cleaners |-> "idle"]
  /\ target \in [Cleaners -> {CHOOSE a \in Amis : TRUE}]
  /\ toDelete = [c \in Cleaners |-> {}]
  /\ fault = [c \in Cleaners |-> FALSE]

\* Packer builds the images, with their snapshots, before anyone deletes one.
Build ==
  /\ registered = {} /\ snaps = {}
  /\ \A c \in Cleaners : cleaner[c] = "idle"
  /\ registered' = Amis
  /\ snaps' = UNION {Backing[a] : a \in Amis}
  /\ UNCHANGED <<cleaner, target, toDelete, fault>>

BeginDelete(c, a) ==
  /\ cleaner[c] = "idle"
  /\ snaps # {}
  /\ cleaner' = [cleaner EXCEPT ![c] = "listing"]
  /\ target' = [target EXCEPT ![c] = a]
  /\ UNCHANGED <<registered, snaps, toDelete, fault>>

Fail(c) == cleaner' = [cleaner EXCEPT ![c] = "error"]

GetEbsSnapshotsForAmi(c) ==
  /\ cleaner[c] = "listing"
  /\ IF target[c] \in registered
     THEN /\ toDelete' = [toDelete EXCEPT ![c] = Backing[target[c]]]
          /\ cleaner' = [cleaner EXCEPT ![c] = "deregistering"]
          /\ UNCHANGED fault
     ELSE Fail(c) /\ fault' = [fault EXCEPT ![c] = TRUE] /\ UNCHANGED toDelete
  /\ UNCHANGED <<registered, snaps, target>>

DeleteAmi_Later(c) ==
  /\ cleaner[c] = "deregistering"
  /\ cleaner' = [cleaner EXCEPT ![c] = "deleting"]
  /\ UNCHANGED <<registered, snaps, target, toDelete, fault>>

\* DeleteAmiE: DeregisterImage fails for an image another test has deleted.
DeleteAmi(c) ==
  /\ cleaner[c] = "deregistering"
  /\ IF target[c] \in registered
     THEN /\ registered' = registered \ {target[c]}
          /\ cleaner' = [cleaner EXCEPT ![c] = "deleting"]
          /\ UNCHANGED fault
     ELSE Fail(c) /\ fault' = [fault EXCEPT ![c] = TRUE] /\ UNCHANGED registered
  /\ UNCHANGED <<snaps, target, toDelete>>

InUse(s) == \E a \in registered : s \in Backing[a]

\* DeleteEbsSnapshotE, one after the other: the first that fails, because it is
\* in use or gone, ends the call and the rest stays.
DeleteEbsSnapshot(c) ==
  /\ cleaner[c] = "deleting"
  /\ \E s \in toDelete[c] :
       IF s \in snaps /\ ~InUse(s)
       THEN /\ snaps' = snaps \ {s}
            /\ toDelete' = [toDelete EXCEPT ![c] = @ \ {s}]
            /\ UNCHANGED <<cleaner, fault>>
       ELSE /\ Fail(c)
            /\ fault' = [fault EXCEPT ![c] = @ \/ s \notin snaps
                                                \/ \E a \in registered \ {target[c]} : s \in Backing[a]]
            /\ UNCHANGED <<snaps, toDelete>>
  /\ UNCHANGED <<registered, target>>

Finish(c) ==
  /\ cleaner[c] = "deleting"
  /\ toDelete[c] = {}
  /\ cleaner' = [cleaner EXCEPT ![c] = "done"]
  /\ UNCHANGED <<registered, snaps, target, toDelete, fault>>

\* Any call of the service fails: the throttled, the unauthorised, the lost.
ServiceFails(c) ==
  /\ cleaner[c] \in {"listing", "deregistering", "deleting"}
  /\ Fail(c)
  /\ fault' = [fault EXCEPT ![c] = TRUE]
  /\ UNCHANGED <<registered, snaps, target, toDelete>>

CleanerStep(c) ==
  \/ GetEbsSnapshotsForAmi(c) \/ DeleteAmi(c) \/ DeleteEbsSnapshot(c) \/ Finish(c)
  \/ ServiceFails(c)

ImagesNext ==
  \/ Build
  \/ \E c \in Cleaners : CleanerStep(c) \/ \E a \in Amis : BeginDelete(c, a)

ImagesFairness == \A c \in Cleaners : WF_imageVars(CleanerStep(c))

-----------------------------------------------------------------------------

ImagesTypeOK ==
  /\ registered \subseteq Amis /\ snaps \subseteq Snapshots
  /\ cleaner \in [Cleaners -> {"idle", "listing", "deregistering", "deleting", "done", "error"}]
  /\ target \in [Cleaners -> Amis]
  /\ toDelete \in [Cleaners -> SUBSET Snapshots]
  /\ fault \in [Cleaners -> BOOLEAN]

\* A call that returns nil has left neither the image nor a snapshot of it, and
\* a call fails only if a call of the service failed, the image or a snapshot
\* was deleted by another test, or another image uses a snapshot: that the
\* service refuses to delete a snapshot in use is met by deregistering first.
ImagesAreDeleted ==
  \A c \in Cleaners :
    /\ cleaner[c] = "done" =>
         target[c] \notin registered /\ Backing[target[c]] \intersect snaps = {}
    /\ cleaner[c] = "error" => fault[c]

CleanersReturn ==
  \A c \in Cleaners : cleaner[c] = "listing" ~> cleaner[c] \in {"done", "error"}

=============================================================================
