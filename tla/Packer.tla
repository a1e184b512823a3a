------------------------------- MODULE Packer -------------------------------
(***************************************************************************)
(* packer.BuildArtifactsE: a goroutine for each artifact builds it, and    *)
(* then appends its error to a slice or sets its entry of a map, which all *)
(* of them share without a lock; the caller waits for them all.            *)
(***************************************************************************)
EXTENDS FiniteSets, Integers

CONSTANT Artifacts   \* names of the artifacts

ASSUME PackerAssumption == IsFiniteSet(Artifacts)

VARIABLES
  builder,    \* each goroutine: "building", "failed", "appending", "built",
              \* "mapping", "leaving", "done"
  failed,     \* the artifacts that BuildArtifactE returned an error for
  readOf,     \* what each read of the slice or the map before it wrote to it
  errors,     \* errorsOccurred
  ids,        \* the names in the result map
  waiting,    \* the counter of the WaitGroup
  buildAnswer \* what BuildArtifactsE returns: "none", "nil" or "error"; or
              \* "crashed", when the runtime finds two writers at once, and
              \* "undefined", when the slice has become a mixture of two

packerVars == <<builder, failed, readOf, errors, ids, waiting, buildAnswer>>

PackerInit ==
  /\ builder = [a \in Artifacts |-> "building"]
  /\ failed = {}
  /\ readOf = [a \in Artifacts |-> {}]
  /\ errors = {} /\ ids = {}
  /\ waiting = Cardinality(Artifacts)
  /\ buildAnswer = "none"

GoTo(a, where) == builder' = [builder EXCEPT ![a] = where]

\* BuildArtifactE: packer fails, after its retries, or prints no artifact id.
BuildFails(a) ==
  /\ builder[a] = "building" /\ GoTo(a, "failed")
  /\ failed' = failed \union {a}
  /\ UNCHANGED <<readOf, errors, ids, waiting, buildAnswer>>

BuildArtifact(a) ==
  /\ builder[a] = "building" /\ GoTo(a, "built")
  /\ UNCHANGED <<failed, readOf, errors, ids, waiting, buildAnswer>>

\* append reads the slice ...
ReadErrors(a) ==
  /\ builder[a] = "failed" /\ GoTo(a, "appending")
  /\ readOf' = [readOf EXCEPT ![a] = errors]
  /\ UNCHANGED <<failed, errors, ids, waiting, buildAnswer>>

\* ... and the longer one replaces it, with what others appended meanwhile. Its
\* three words are not written at once: two that differ in length may mix.
AppendError(a) ==
  /\ builder[a] = "appending" /\ GoTo(a, "leaving")
  /\ errors' = readOf[a] \union {a}
  /\ \/ UNCHANGED buildAnswer
     \/ /\ \E b \in Artifacts : builder[b] = "appending"
                               /\ Cardinality(readOf[b]) # Cardinality(readOf[a])
        /\ buildAnswer' = "undefined"
  /\ UNCHANGED <<failed, readOf, ids, waiting>>

\* Two goroutines that write to a map at once crash if the map notices.
BeginMapWrite(a) ==
  /\ builder[a] = "built" /\ GoTo(a, "mapping")
  /\ readOf' = [readOf EXCEPT ![a] = ids]
  /\ \/ UNCHANGED buildAnswer
     \/ (\E b \in Artifacts : builder[b] = "mapping") /\ buildAnswer' = "crashed"
  /\ UNCHANGED <<failed, errors, ids, waiting>>

\* If it does not, the entry of the other one may get lost.
EndMapWrite(a) ==
  /\ builder[a] = "mapping" /\ GoTo(a, "leaving")
  /\ ids' \in {ids \union {a}, readOf[a] \union {a}}
  /\ UNCHANGED <<failed, readOf, errors, waiting, buildAnswer>>

BuilderDone_First(a) ==
  /\ builder[a] \in {"failed", "built"}
  /\ GoTo(a, IF builder[a] = "failed" THEN "appending" ELSE "mapping")
  /\ waiting' = waiting - 1
  /\ UNCHANGED <<failed, readOf, errors, ids, buildAnswer>>

\* The deferred Done comes after either write.
BuilderDone(a) ==
  /\ builder[a] = "leaving" /\ GoTo(a, "done")
  /\ waiting' = waiting - 1
  /\ UNCHANGED <<failed, readOf, errors, ids, buildAnswer>>

\* Wait is over; NewMultiError makes nil of no errors.
BuildArtifactsReturns ==
  /\ waiting = 0
  /\ buildAnswer' = IF errors = {} THEN "nil" ELSE "error"
  /\ UNCHANGED <<builder, failed, readOf, errors, ids, waiting>>

PackerNext ==
  /\ buildAnswer = "none"
  /\ \/ \E a \in Artifacts :
          \/ BuildFails(a) \/ ReadErrors(a) \/ AppendError(a)
          \/ BuildArtifact(a) \/ BeginMapWrite(a) \/ EndMapWrite(a)
          \/ BuilderDone(a)
     \/ BuildArtifactsReturns

-----------------------------------------------------------------------------

\* However the unlocked writes of the goroutines race: if the call returns, its
\* error is nil exactly if no build has failed, its map has only artifacts that
\* were built, and the one error or the one artifact there is does not get lost
\* (packer.go:53-76). What two goroutines write at a time may.
BuildsAreAnswered ==
  buildAnswer \in {"nil", "error"} =>
    LET built == Artifacts \ failed
    IN  /\ buildAnswer = "nil" <=> failed = {}
        /\ errors \subseteq failed /\ (Cardinality(failed) = 1 => errors = failed)
        /\ ids \subseteq built /\ (Cardinality(built) = 1 => ids = built)
        /\ built # {} => ids # {}

=============================================================================
