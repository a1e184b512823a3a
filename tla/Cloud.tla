------------------------------- MODULE Cloud -------------------------------
(***************************************************************************)
(* The operations on cloud services that take several requests, side by    *)
(* side. They work on different resources and share nothing, so a          *)
(* behaviour uses one of them.                                             *)
(***************************************************************************)
EXTENDS Queue, Bucket, Images, Metadata, InstanceGroup, Regions

VARIABLE service    \* which of them is used

CloudInit ==
  /\ service \in {"queue", "bucket", "images", "metadata", "group", "regions"}
  /\ QueueInit /\ BucketInit /\ ImagesInit /\ MetadataInit /\ GroupInit /\ RegionsInit

CloudNext ==
  /\ UNCHANGED service
  /\ \/ /\ service = "queue" /\ QueueNext
        /\ UNCHANGED <<bucketVars, imageVars, metadataVars, groupVars, regionVars>>
     \/ /\ service = "bucket" /\ BucketNext
        /\ UNCHANGED <<queueVars, imageVars, metadataVars, groupVars, regionVars>>
     \/ /\ service = "images" /\ ImagesNext
        /\ UNCHANGED <<queueVars, bucketVars, metadataVars, groupVars, regionVars>>
     \/ /\ service = "metadata" /\ MetadataNext
        /\ UNCHANGED <<queueVars, bucketVars, imageVars, groupVars, regionVars>>
     \/ /\ service = "group" /\ GroupNext
        /\ UNCHANGED <<queueVars, bucketVars, imageVars, metadataVars, regionVars>>
     \/ /\ service = "regions" /\ RegionsNext
        /\ UNCHANGED <<queueVars, bucketVars, imageVars, metadataVars, groupVars>>

cloudVars == <<service, queueVars, bucketVars, imageVars, metadataVars, groupVars, regionVars>>

CloudSpec ==
  /\ CloudInit /\ [][CloudNext]_cloudVars
  /\ QueueFairness /\ BucketFairness /\ ImagesFairness /\ GroupFairness

-----------------------------------------------------------------------------

CloudTypeOK ==
  /\ QueueTypeOK /\ BucketTypeOK /\ ImagesTypeOK
  /\ MetadataTypeOK /\ GroupTypeOK

\* No loop over pages, cycles or snapshots runs forever: each such call comes
\* back if the requests it makes do.
CloudCallsReturn == WaitsReturn /\ EmptyReturns /\ CleanersReturn /\ GroupCallReturns

=============================================================================
