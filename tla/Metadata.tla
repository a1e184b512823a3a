----------------------------- MODULE Metadata -----------------------------
(***************************************************************************)
(* The metadata and the labels of a compute instance as modules/gcp/       *)
(* compute.go changes them. A test fetches the instance into a struct and  *)
(* from then on works on that snapshot: SetMetadataE sends the snapshot's  *)
(* items with one more, SetLabelsE the given labels, both with the         *)
(* snapshot's fingerprint, and neither refreshes the struct. Tests run in  *)
(* parallel on one instance. A behaviour is about one of the two fields.   *)
(***************************************************************************)
EXTENDS Integers, SequencesExt

CONSTANTS
  Tests,        \* goroutines of tests
  Items,        \* pairs of a key and a value
  MaxSets       \* bound: changes of the field

ASSUME MetadataAssumption == IsFiniteSet(Items) /\ MaxSets \in Nat

VARIABLES
  field,        \* "metadata" or "labels"
  tags,         \* what the service has there, and its fingerprint
  handle,       \* the same field of each test's Instance struct
  lastSet       \* what each test's last call was to set, and its answer

metadataVars == <<field, tags, handle, lastSet>>

MetadataInit ==
  /\ field \in {"metadata", "labels"}
  /\ tags = [items |-> <<>>, fingerprint |-> 0]
  /\ handle = [t \in Tests |-> tags]
  /\ lastSet = [t \in Tests |-> [kvs |-> {}, answer |-> "none"]]

\* FetchInstanceE, which looks by name through the first page of all instances
\* of the project; one that is not there is an error, and the struct stays.
FetchInstance(t) ==
  /\ handle' = [handle EXCEPT ![t] = tags]
  /\ UNCHANGED <<field, tags, lastSet>>

NewMetadata_NoFingerprint(old, kvs) ==
  {[items |-> Append(old.items, kv), fingerprint |-> tags.fingerprint] : kv \in kvs}

\* newMetadata: the loop appends each pair to the old items and not to what it
\* has built so far, so that one pair is left, and without pairs nothing is.
NewMetadata(old, kvs) ==
  IF kvs = {} THEN {[old EXCEPT !.items = <<>>]}
  ELSE {[old EXCEPT !.items = Append(@, kv)] : kv \in kvs}

\* The request of SetLabelsE: the given labels alone.
NewLabels(old, kvs) == {[old EXCEPT !.items = SetToSeq(kvs)]}

HasKeyTwice(items) == \E i, j \in DOMAIN items : i # j /\ items[i][1] = items[j][1]

\* The service takes a list without a key twice in place of the one that has
\* the fingerprint of the request.
ServiceTakes(new) ==
  /\ new.fingerprint = tags.fingerprint /\ ~HasKeyTwice(new.items)
  /\ tags' = [new EXCEPT !.fingerprint = @ + 1]

\* It may fail in any case.
Set(t, kvs, requests) ==
  /\ tags.fingerprint < MaxSets
  /\ ~HasKeyTwice(SetToSeq(kvs))
  /\ \/ /\ \E new \in requests : ServiceTakes(new)
        /\ lastSet' = [lastSet EXCEPT ![t] = [kvs |-> kvs, answer |-> "ok"]]
     \/ UNCHANGED tags /\ lastSet' = [lastSet EXCEPT ![t] = [kvs |-> kvs, answer |-> "error"]]
  /\ UNCHANGED <<field, handle>>

SetMetadata(t, kvs) == field = "metadata" /\ Set(t, kvs, NewMetadata(handle[t], kvs))

SetLabels(t, kvs) == field = "labels" /\ Set(t, kvs, NewLabels(handle[t], kvs))

\* AddSshKeyE sets one pair, whose key is always the same.
AddSshKey(t) == \E kv \in Items : kv[1] = "ssh-keys" /\ SetMetadata(t, {kv})

MetadataNext ==
  \E t \in Tests :
    FetchInstance(t) \/ AddSshKey(t) \/ \E kvs \in SUBSET Items : SetMetadata(t, kvs) \/ SetLabels(t, kvs)

-----------------------------------------------------------------------------

Fields == [items : Seq(Items), fingerprint : 0 .. MaxSets]

MetadataTypeOK ==
  /\ field \in {"metadata", "labels"}
  /\ tags \in Fields /\ ~HasKeyTwice(tags.items)
  /\ handle \in [Tests -> Fields]
  /\ lastSet \in [Tests -> [kvs : SUBSET Items, answer : {"none", "ok", "error"}]]

\* A pair that a step takes away goes by a call that cleared the metadata or set
\* the labels, of a test that has seen it.
TakesWhatItHasSeen ==
  \A kv \in ToSet(tags.items) \ ToSet(tags'.items) :
    \E t \in Tests :
      /\ lastSet'[t].answer = "ok" /\ kv \in ToSet(handle[t].items)
      /\ lastSet'[t].kvs = IF field = "labels" THEN ToSet(tags'.items) ELSE {}

\* Adding metadata never loses a pair that is there, however old the snapshot
\* is that the adding test works on: the fingerprint makes the service refuse
\* it. Only an empty map clears the metadata. Setting labels does take away the
\* others ("adds the tags", compute.go:206), but none that its test has not seen.
PairsAreKept == [][TakesWhatItHasSeen]_metadataVars

=============================================================================
