------------------------------- MODULE Shell -------------------------------
(***************************************************************************)
(* One command of modules/shell: the child process writes lines to two     *)
(* pipes and exits; two goroutines scan the pipes, print each line and     *)
(* append it to the stored output under a mutex; the caller waits for both *)
(* and then for the child.                                                 *)
(***************************************************************************)
EXTENDS Naturals, Sequences, FiniteSets

CONSTANTS
  MaxLines,   \* bound: lines the child writes to a stream
  PipeSize,   \* lines a pipe (and the scanner's buffer) holds
  LongLines   \* whether a line can be longer than OutputMaxLineSize

ASSUME ShellAssumption ==
  MaxLines \in Nat \ {0} /\ PipeSize \in Nat \ {0} /\ LongLines \in BOOLEAN

Streams == {"stdout", "stderr"}

\* The n-th line of a stream, and whether it is too long for the scanner.
Lines == [stream : Streams, n : 1 .. MaxLines, long : BOOLEAN]

VARIABLES
  shared,    \* RunCommandAndGetOutputE: both streams go to one slice
  pc,        \* the caller: "new", "reading" (wg.Wait), "waiting" (cmd.Wait), "returned"
  result,    \* "none", "nil", "exitError", "scanError" or "startError"
  child,     \* "none", "running", the stream it is writing to, "exited" or "reaped"
  code,      \* its exit code
  written,   \* lines the child has written to each stream
  pipe,      \* lines in each pipe
  scan,      \* the goroutine of each stream: "off", "scanning", "printing",
             \* "locking", "storing", "eof", "failed"
  held,      \* the line each goroutine has scanned
  mutex,     \* who holds the mutex: a stream or "nobody"
  slice,     \* the slice as each goroutine read it to append to it
  stored,    \* the stored output, per slice
  printed    \* what the program has printed

callVars == <<shared, pc, result>>
childVars == <<child, code, written>>
scanVars == <<scan, held, mutex, slice, stored, printed>>
vars == <<callVars, childVars, pipe, scanVars>>

NoLine == [stream |-> "stdout", n |-> 1, long |-> FALSE]

Init ==
  /\ shared \in BOOLEAN
  /\ pc = "new"
  /\ result = "none"
  /\ child = "none"
  /\ code = 0
  /\ written = [s \in Streams |-> 0]
  /\ pipe = [s \in Streams |-> <<>>]
  /\ scan = [s \in Streams |-> "off"]
  /\ held = [s \in Streams |-> NoLine]
  /\ mutex = "nobody"
  /\ slice = [s \in Streams |-> <<>>]
  /\ stored = [s \in Streams |-> <<>>]
  /\ printed = <<>>

-----------------------------------------------------------------------------
(* The caller, runCommandAndStoreOutputE *)

Return(r) == pc' = "returned" /\ result' = r

\* The pipes are made and the child starts, with a goroutine for each pipe; or
\* one of that fails.
Start ==
  /\ pc = "new"
  /\ \/ /\ pc' = "reading"
        /\ child' = "running"
        /\ scan' = [s \in Streams |-> "scanning"]
        /\ UNCHANGED result
     \/ Return("startError") /\ UNCHANGED <<child, scan>>
  /\ UNCHANGED <<shared, code, written, pipe, held, mutex, slice, stored, printed>>

Finished(s) == scan[s] \in {"eof", "failed"}

\* wg.Wait ends when both goroutines have; the child is waited for only if both
\* saw the end of their stream.
EndReading ==
  /\ pc = "reading"
  /\ \A s \in Streams : Finished(s)
  /\ IF \E s \in Streams : scan[s] = "failed"
     THEN Return("scanError")
     ELSE pc' = "waiting" /\ UNCHANGED result
  /\ UNCHANGED <<shared, childVars, pipe, scanVars>>

\* cmd.Wait returns the exit of the child as an error unless its code is 0.
WaitForChild ==
  /\ pc = "waiting"
  /\ child = "exited"
  /\ child' = "reaped"
  /\ Return(IF code = 0 THEN "nil" ELSE "exitError")
  /\ UNCHANGED <<shared, code, written, pipe, scanVars>>

-----------------------------------------------------------------------------
(* The goroutine of a stream, readData and logTextAndAppendToOutput *)

SliceOf(s) == IF shared THEN "stdout" ELSE s

\* Scan finds a line, which may be too long: then the goroutine ends and leaves
\* the rest of the stream unread.
ScanLine(s) ==
  /\ scan[s] = "scanning"
  /\ pipe[s] # <<>>
  /\ held' = [held EXCEPT ![s] = Head(pipe[s])]
  /\ scan' = [scan EXCEPT ![s] = IF Head(pipe[s]).long THEN "failed" ELSE "printing"]
  /\ pipe' = [pipe EXCEPT ![s] = Tail(@)]
  /\ UNCHANGED <<callVars, childVars, mutex, slice, stored, printed>>

\* Scan finds the end of the stream.
ScanEnd(s) ==
  /\ scan[s] = "scanning"
  /\ pipe[s] = <<>>
  /\ child \in {"exited", "reaped"}
  /\ scan' = [scan EXCEPT ![s] = "eof"]
  /\ UNCHANGED <<callVars, childVars, pipe, held, mutex, slice, stored, printed>>

\* logger.Log prints the line before the mutex is taken.
PrintLine(s) ==
  /\ scan[s] = "printing"
  /\ printed' = Append(printed, held[s])
  /\ scan' = [scan EXCEPT ![s] = "locking"]
  /\ UNCHANGED <<callVars, childVars, pipe, held, mutex, slice, stored>>

LockOutput_NoMutex(s) ==
  /\ scan[s] = "locking"
  /\ mutex' = s
  /\ slice' = [slice EXCEPT ![s] = stored[SliceOf(s)]]
  /\ scan' = [scan EXCEPT ![s] = "storing"]
  /\ UNCHANGED <<callVars, childVars, pipe, held, stored, printed>>

\* The goroutine locks and reads the slice it is to append to.
LockOutput(s) ==
  /\ scan[s] = "locking"
  /\ mutex = "nobody"
  /\ mutex' = s
  /\ slice' = [slice EXCEPT ![s] = stored[SliceOf(s)]]
  /\ scan' = [scan EXCEPT ![s] = "storing"]
  /\ UNCHANGED <<callVars, childVars, pipe, held, stored, printed>>

StoreLine_NoUnlock(s) ==
  /\ scan[s] = "storing"
  /\ stored' = [stored EXCEPT ![SliceOf(s)] = Append(slice[s], held[s])]
  /\ scan' = [scan EXCEPT ![s] = "scanning"]
  /\ UNCHANGED <<callVars, childVars, pipe, held, slice, printed, mutex>>

\* It writes the longer slice back and unlocks.
StoreLine(s) ==
  /\ scan[s] = "storing"
  /\ stored' = [stored EXCEPT ![SliceOf(s)] = Append(slice[s], held[s])]
  /\ mutex' = "nobody"
  /\ scan' = [scan EXCEPT ![s] = "scanning"]
  /\ UNCHANGED <<callVars, childVars, pipe, held, slice, printed>>

-----------------------------------------------------------------------------
(* The child *)

\* The child goes to write to a stream.
BeginWrite(s) ==
  /\ child = "running"
  /\ written[s] < MaxLines
  /\ child' = s
  /\ UNCHANGED <<callVars, code, written, pipe, scanVars>>

\* The write ends when the pipe has room.
WriteLine(s) ==
  /\ child = s
  /\ Len(pipe[s]) < PipeSize
  /\ child' = "running"
  /\ written' = [written EXCEPT ![s] = @ + 1]
  /\ \E long \in {FALSE, LongLines} :
       pipe' = [pipe EXCEPT ![s] = Append(@, [stream |-> s, n |-> written'[s], long |-> long])]
  /\ UNCHANGED <<callVars, code, scanVars>>

\* The child exits, which closes its ends of the pipes.
ExitChild ==
  /\ child = "running"
  /\ child' = "exited"
  /\ code' \in {0, 1}
  /\ UNCHANGED <<callVars, written, pipe, scanVars>>

-----------------------------------------------------------------------------

ReaderStep(s) == ScanLine(s) \/ ScanEnd(s) \/ PrintLine(s) \/ StoreLine(s)

Next ==
  \/ Start \/ EndReading \/ WaitForChild
  \/ \E s \in Streams : ReaderStep(s) \/ LockOutput(s) \/ BeginWrite(s) \/ WriteLine(s)
  \/ ExitChild

Safety == Init /\ [][Next]_vars

\* Fairness: the goroutines run, the mutex starves nobody, and the child goes
\* on whenever the pipes let it, to its exit in the end.
Fairness ==
  /\ WF_vars(Start) /\ WF_vars(EndReading) /\ WF_vars(WaitForChild)
  /\ \A s \in Streams : WF_vars(ReaderStep(s)) /\ SF_vars(LockOutput(s)) /\ WF_vars(WriteLine(s))
  /\ WF_vars(ExitChild)

Spec == Safety /\ Fairness

-----------------------------------------------------------------------------

TypeOK ==
  /\ shared \in BOOLEAN
  /\ pc \in {"new", "reading", "waiting", "returned"}
  /\ result \in {"none", "nil", "exitError", "scanError", "startError"}
  /\ child \in {"none", "running", "exited", "reaped"} \union Streams
  /\ code \in {0, 1}
  /\ written \in [Streams -> 0 .. MaxLines]
  /\ pipe \in [Streams -> Seq(Lines)]
  /\ scan \in [Streams -> {"off", "scanning", "printing", "locking", "storing", "eof", "failed"}]
  /\ held \in [Streams -> Lines]
  /\ mutex \in Streams \union {"nobody"}
  /\ slice \in [Streams -> Seq(Lines)]
  /\ stored \in [Streams -> Seq(Lines)]
  /\ printed \in Seq(Lines)

\* Where the lines of a stream are in a sequence, and where the k-th of them is.
Own(s, q) == {i \in DOMAIN q : q[i].stream = s}
Places(s, q, k) == {i \in Own(s, q) : Cardinality({j \in Own(s, q) : j <= i}) = k}

\* The lines of a stream in a sequence, by their numbers.
NumbersOf(s, q) ==
  [k \in 1 .. Cardinality(Own(s, q)) |-> q[CHOOSE i \in Places(s, q, k) : TRUE].n]

\* A command that ran to its exit returns and has printed every line of either stream, in the
\* order the child wrote them and once, and has reaped the child; any other one
\* returns the beginning of each stream: both ends of stream are waited for
\* before cmd.Wait, which closes the pipes, and the goroutines do not append
\* over each other (lines 109-117, 132-161).
Contract ==
  INSTANCE ShellContract WITH
    phase <- IF pc \in {"reading", "waiting"} THEN "running" ELSE pc,
    outcome <- result,
    process <- IF child \in Streams \union {"running"} THEN "alive" ELSE child,
    wrote <- written,
    output <- [s \in Streams |-> IF pc = "returned" THEN NumbersOf(s, stored[SliceOf(s)]) ELSE <<>>],
    log <- [s \in Streams |-> IF pc = "returned" THEN NumbersOf(s, printed) ELSE <<>>]

KeepsContract == Contract!Spec

\* A command whose child has started returns, unless a line was too long for a
\* scanner: that scanner stops to read, and a child that goes on to write to
\* its pipe blocks for good while the other goroutine waits for an end of
\* stream (lines 131-136 and 149-154).
ReturnsUnlessTooLong ==
  pc = "reading" ~> pc = "returned" \/ \E s \in Streams : scan[s] = "failed"

=============================================================================
