------------------------------- MODULE Bucket -------------------------------
(***************************************************************************)
(* An S3 bucket as modules/aws/s3.go uses it: created, perhaps versioned,  *)
(* filled by the code under test, emptied page by page and deleted. The    *)
(* code under test may still write while the bucket is emptied, and every  *)
(* call of the service may fail.                                           *)
(***************************************************************************)
EXTENDS Integers, FiniteSets

CONSTANTS
  MaxKey,      \* the keys of objects are 1 .. MaxKey, in the order of listings
  MaxWrites,   \* bound: how often the bucket is written to
  PageSize     \* how many entries a page of a listing has (1000)

ASSUME BucketAssumption ==
  MaxKey \in Nat /\ MaxWrites \in Nat /\ PageSize \in Nat \ {0}

Keys == 1 .. MaxKey

VARIABLES
  bucket,      \* "none", "plain", "versioned" or "deleted"
  entries,     \* the versions and the delete markers in the bucket
  writes,      \* how many writes were made
  emptying,    \* the call of EmptyS3BucketE
  keyMarker,   \* params.KeyMarker, 0 before the first page
  page,        \* the page of the listing to delete
  truncated,   \* its IsTruncated
  clean,       \* the call could be clean: nobody wrote, no object was refused
  simple       \* when the call began every key had one version and no marker

bucketVars == <<bucket, entries, writes, emptying, keyMarker, page, truncated, clean, simple>>

BucketInit ==
  /\ bucket = "none"
  /\ entries = {} /\ page = {}
  /\ writes = 0 /\ keyMarker = 0
  /\ emptying = "idle"
  /\ truncated = FALSE /\ clean = FALSE /\ simple = FALSE

CreateS3Bucket ==
  /\ bucket = "none"
  /\ bucket' = "plain"
  /\ UNCHANGED <<entries, writes, emptying, keyMarker, page, truncated, clean, simple>>

PutS3BucketVersioning ==
  /\ bucket = "plain"
  /\ bucket' = "versioned"
  /\ UNCHANGED <<entries, writes, emptying, keyMarker, page, truncated, clean, simple>>

\* The code under test writes or removes an object. Without versioning there is
\* one version, null (0), of each key; with it each write adds a version and
\* each removal a delete marker.
WriteObject(k, remove) ==
  /\ bucket \in {"plain", "versioned"}
  /\ writes < MaxWrites
  /\ writes' = writes + 1
  /\ LET null == [key |-> k, version |-> 0, marker |-> FALSE]
         new == [key |-> k, version |-> writes', marker |-> remove]
     IN entries' = IF bucket = "versioned" THEN entries \union {new}
                   ELSE IF remove THEN entries \ {null} ELSE entries \union {null}
  /\ clean' = FALSE
  /\ UNCHANGED <<bucket, emptying, keyMarker, page, truncated, simple>>

\* A listing is ordered by key, newest version first. A page that is asked for
\* by a key marker alone begins behind all versions of that key.
Before(e, f) == e.key < f.key \/ (e.key = f.key /\ e.version > f.version)

Rest(marker) == {e \in entries : e.key > marker}

FirstPage(rest) == {e \in rest : Cardinality({f \in rest : Before(f, e)}) < PageSize}

NextKeyMarker_PastLast(listed) == 1 + (CHOOSE k \in Keys :
  (\E e \in listed : e.key = k) /\ \A e \in listed : e.key <= k)

NextKeyMarker(listed) == CHOOSE k \in Keys :
  (\E e \in listed : e.key = k) /\ \A e \in listed : e.key <= k

EmptyS3Bucket ==
  /\ bucket \in {"plain", "versioned"}
  /\ emptying = "idle"
  /\ emptying' = "list"
  /\ keyMarker' = 0
  /\ clean' = TRUE
  /\ simple' = \A e \in entries : ~e.marker /\ \A f \in entries : f.key = e.key => f = e
  /\ UNCHANGED <<bucket, entries, writes, page, truncated>>

\* ListObjectVersions: a page without versions, if only of delete markers,
\* counts as an empty bucket.
ListObjectVersions ==
  /\ emptying = "list"
  /\ LET rest == Rest(keyMarker)
         listed == FirstPage(rest)
     IN /\ page' = listed
        /\ truncated' = (listed # rest)
        /\ emptying' = IF \A e \in listed : e.marker THEN "empty" ELSE "delete"
  /\ UNCHANGED <<bucket, entries, writes, keyMarker, clean, simple>>

DeleteObjects_OnePage ==
  /\ emptying = "delete"
  /\ entries' = entries \ page
  /\ emptying' = "empty"
  /\ UNCHANGED <<bucket, writes, keyMarker, page, truncated, clean, simple>>

DeleteObjects_SameMarker ==
  /\ emptying = "delete"
  /\ \E refused \in SUBSET page :
       /\ entries' = entries \ (page \ refused)
       /\ clean' = (clean /\ refused = {})
  /\ emptying' = IF truncated THEN "list" ELSE "empty"
  /\ UNCHANGED <<bucket, writes, keyMarker, page, truncated, simple>>

\* DeleteObjects: the versions of the page go; those that the service refuses
\* to delete are named in an answer that is not read.
DeleteObjects ==
  /\ emptying = "delete"
  /\ \E refused \in SUBSET {e \in page : ~e.marker} :
       /\ entries' = entries \ ({e \in page : ~e.marker} \ refused)
       /\ clean' = (clean /\ refused = {})
  /\ keyMarker' = IF truncated THEN NextKeyMarker(page) ELSE keyMarker
  /\ emptying' = IF truncated THEN "list" ELSE "empty"
  /\ UNCHANGED <<bucket, writes, page, truncated, simple>>

EmptyFails ==
  /\ emptying \in {"list", "delete"}
  /\ emptying' = "error"
  /\ UNCHANGED <<bucket, entries, writes, keyMarker, page, truncated, clean, simple>>

\* The service refuses to delete a bucket with anything in it.
DeleteS3Bucket ==
  /\ bucket \in {"plain", "versioned"}
  /\ emptying \in {"idle", "empty", "error"}
  /\ entries = {}
  /\ bucket' = "deleted"
  /\ UNCHANGED <<entries, writes, emptying, keyMarker, page, truncated, clean, simple>>

Emptying == ListObjectVersions \/ DeleteObjects \/ EmptyFails

BucketNext ==
  \/ CreateS3Bucket \/ PutS3BucketVersioning \/ EmptyS3Bucket \/ Emptying \/ DeleteS3Bucket
  \/ \E k \in Keys, remove \in BOOLEAN : WriteObject(k, remove)

\* A call of the service comes back.
BucketFairness == WF_bucketVars(Emptying)

-----------------------------------------------------------------------------

Entries == [key : Keys, version : 0 .. MaxWrites, marker : BOOLEAN]

BucketTypeOK ==
  /\ bucket \in {"none", "plain", "versioned", "deleted"}
  /\ entries \subseteq Entries /\ page \subseteq Entries
  /\ writes \in 0 .. MaxWrites /\ keyMarker \in 0 .. MaxKey
  /\ emptying \in {"idle", "list", "delete", "empty", "error"}
  /\ truncated \in BOOLEAN /\ clean \in BOOLEAN /\ simple \in BOOLEAN

\* A bucket in which every key has one version is empty when EmptyS3BucketE
\* says so, however many pages it takes, unless somebody wrote to it meanwhile
\* or the service refused to delete an object.
EmptiedIsEmpty == emptying = "empty" /\ clean /\ simple => entries = {}

\* "EmptyS3BucketE removes the contents of an S3 bucket" (s3.go:194): any
\* bucket is empty afterwards, under the same conditions.
AnyBucketIsEmptied == emptying = "empty" /\ clean => entries = {}

\* Emptying ends: each page begins behind the last key of the one before.
EmptyReturns == emptying = "list" ~> emptying \in {"empty", "error"}

=============================================================================
