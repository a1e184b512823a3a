----------------------------- MODULE LogParser -----------------------------
(***************************************************************************)
(* parser.parseAndStoreTestOutput of modules/logger: the output of go test *)
(* is read line by line and each line is written to the log files of the   *)
(* tests it belongs to. What a line is matched against, its indentation    *)
(* and the test it names are what a line is here. A line is of one kind: a *)
(* line of output that quotes a result, which matches two, is left out.    *)
(***************************************************************************)
EXTENDS Integers, Sequences, FiniteSets

CONSTANTS
  Tests,       \* names of tests and subtests
  Summary,     \* the name "summary"
  None,        \* the empty previousTestName
  Indents,     \* the indentations of lines, 0 for none
  Unwritable,  \* the logs whose file or directory cannot be created
  MaxLines     \* bound: lines of the output

Names == Tests \union {Summary}

ASSUME LogParserAssumption ==
  /\ Summary \notin Tests /\ None \notin Names
  /\ Indents \subseteq Nat /\ 0 \in Indents
  /\ Unwritable \subseteq Names
  /\ MaxLines \in Nat

\* What the regular expressions, and the prefix Test, tell apart; those that are
\* anchored match only lines without indentation.
Anchored == {"summary", "output", "panic"}
Named == [kind : {"status", "output", "result"}, test : Tests, indent : Indents]
Unnamed == [kind : {"summary", "panic", "text"}, test : {None}, indent : Indents]
Lines == {l \in Named \union Unnamed : l.kind \in Anchored => l.indent = 0}

VARIABLES
  stream,      \* the lines read so far
  pc,          \* "reading", "closed", or "exited" by logger.Fatalf
  prev,        \* previousTestName
  markers,     \* testResultMarkers, the top of the stack last
  lookup,      \* the names whose file is open
  files,       \* what each log holds: positions in stream, 0 for an older line
  warned,      \* positions of the lines nobody knew what to do with
  failed       \* the writes that failed, each with an error in the output: the
               \* log and the position

vars == <<stream, pc, prev, markers, lookup, files, warned, failed>>

Init ==
  /\ stream = <<>>
  /\ pc = "reading"
  /\ prev = None
  /\ markers = <<>>
  /\ lookup = {}
  /\ files \in {[n \in Names |-> <<>>], [n \in Names |-> <<0>>]}
  /\ warned = {} /\ failed = {}

-----------------------------------------------------------------------------

RemoveDedented_Never(s, indent) == s

\* removeDedentedTestResultMarkers pops until the top of the stack is indented
\* less than the line, or the stack is empty.
RemoveDedented(s, indent) ==
  LET keep == CHOOSE k \in 0 .. Len(s) :
                /\ k > 0 => s[k].indent < indent
                /\ \A j \in k + 1 .. Len(s) : s[j].indent >= indent
  IN  SubSeq(s, 1, keep)

Push(s, l) == Append(s, [test |-> l.test, indent |-> l.indent])

\* Indented lines belong to the results above them, but not after a panic.
InBlock(l) == l.kind \in {"result", "text"} /\ l.indent > 0 /\ prev # Summary

\* The logs a line goes to, by the first case that matches ...
FirstTargets(l, s) ==
  CASE l.kind \in {"summary", "panic"} -> <<Summary>>
    [] l.kind \in {"status", "output"} -> <<l.test>>
    [] InBlock(l) -> [i \in DOMAIN s |-> s[i].test]
    [] l.kind \in {"result", "text"} /\ ~InBlock(l) -> IF prev = None THEN <<>> ELSE <<prev>>

\* ... and, for a result, also its own and the summary.
Targets(l, s) ==
  FirstTargets(l, s) \o IF l.kind = "result" THEN <<l.test, Summary>> ELSE <<>>

WriteLogs_NotCached(targets, pos) ==
  LET open == {targets[i] : i \in DOMAIN targets} \ Unwritable
      copies(done, n) == Cardinality({i \in done : targets[i] = n})
  IN  \E done \in SUBSET DOMAIN targets :
        /\ \A i \in done : targets[i] \notin Unwritable
        /\ files' = [n \in Names |-> IF n \in open THEN [i \in 1 .. copies(done, n) |-> pos]
                                    ELSE files[n]]
        /\ failed' = failed \union {<<targets[i], pos>> : i \in DOMAIN targets \ done}
        /\ UNCHANGED lookup

\* writeLog to each target in turn: getOrCreateFile creates, and so empties, the
\* file of a name that is not in lookup yet. Any write may fail, and the loop
\* goes on without the line; one that is written in part counts as failed.
WriteLogs(targets, pos) ==
  LET open == {targets[i] : i \in DOMAIN targets} \ Unwritable
      copies(done, n) == Cardinality({i \in done : targets[i] = n})
      held(n) == IF n \in lookup THEN files[n] ELSE <<>>
  IN  \E done \in SUBSET DOMAIN targets :
        /\ \A i \in done : targets[i] \notin Unwritable
        /\ files' = [n \in Names |-> IF n \in open
                                    THEN held(n) \o [i \in 1 .. copies(done, n) |-> pos]
                                    ELSE files[n]]
        /\ lookup' = lookup \union open
        /\ failed' = failed \union {<<targets[i], pos>> : i \in DOMAIN targets \ done}

-----------------------------------------------------------------------------

\* One iteration of the loop.
ReadLine(l) ==
  LET s == RemoveDedented(markers, l.indent)
      pos == Len(stream) + 1
  IN  /\ pc = "reading"
      /\ Len(stream) < MaxLines
      /\ stream' = Append(stream, l)
      /\ WriteLogs(Targets(l, s), pos)
      /\ markers' = IF l.kind = "result" THEN Push(s, l) ELSE s
      /\ prev' = CASE l.kind = "output" -> l.test
                   [] l.kind = "panic" -> Summary
                   [] OTHER -> prev
      /\ warned' = IF l.kind = "text" /\ prev = None /\ l.indent = 0
                   THEN warned \union {pos} ELSE warned
      /\ UNCHANGED pc

\* The output ends: closeFiles.
EndOfOutput ==
  /\ pc = "reading"
  /\ pc' = "closed"
  /\ lookup' = {}
  /\ UNCHANGED <<stream, prev, markers, files, warned, failed>>

\* The scanner fails, on a line that is too long or on its reader: the process
\* exits, with every line written and synced so far.
ScanError ==
  /\ pc = "reading"
  /\ pc' = "exited"
  /\ UNCHANGED <<stream, prev, markers, lookup, files, warned, failed>>

Next ==
  \/ \E l \in Lines : ReadLine(l)
  \/ EndOfOutput
  \/ ScanError

Spec == Init /\ [][Next]_vars

-----------------------------------------------------------------------------

\* The types; a stack never holds two results of one indentation.
TypeOK ==
  /\ stream \in Seq(Lines) /\ Len(stream) <= MaxLines
  /\ pc \in {"reading", "closed", "exited"}
  /\ prev \in Names \union {None}
  /\ markers \in Seq([test : Tests, indent : Indents])
  /\ \A i, j \in DOMAIN markers : markers[i].indent = markers[j].indent => i = j
  /\ lookup \subseteq Names
  /\ files \in [Names -> Seq(0 .. Len(stream))]
  /\ warned \subseteq 1 .. Len(stream)
  /\ failed \subseteq Names \X (1 .. Len(stream))

\* The results before line n whose block line n is in, or would be if it came
\* next: every line since is indented more.
OpenResults(n) ==
  {i \in 1 .. n : /\ stream[i].kind = "result"
                  /\ \A j \in i + 1 .. n : stream[j].indent > stream[i].indent}

\* The stack holds exactly the results whose block is still open, the outermost
\* first: what removeDedentedTestResultMarkers assumes ("Assumes that the stack
\* is ordered", failed_test_marker.go:56) and what lines 122-124 and 164-174 of
\* parser.go keep up.
MarkersAreOpenBlocks ==
  /\ {markers[i] : i \in DOMAIN markers} =
       {[test |-> stream[i].test, indent |-> stream[i].indent] : i \in OpenResults(Len(stream))}
  /\ \A i, j \in DOMAIN markers : i < j => markers[i].indent < markers[j].indent

\* The test, or the summary after a panic, that lines without a name of their
\* own belong to at line i.
Current(i) ==
  LET named == {j \in 1 .. i - 1 : stream[j].kind \in {"output", "panic"}}
      last == CHOOSE j \in named : \A k \in named : k <= j
  IN  CASE named = {} -> None
        [] named # {} /\ stream[last].kind = "panic" -> Summary
        [] named # {} /\ stream[last].kind = "output" -> stream[last].test

\* A line belongs to the log of the test it names, and results, summaries and
\* panics to the summary ...
ByName(i, n) ==
  \/ stream[i].kind \in {"status", "output", "result"} /\ stream[i].test = n
  \/ stream[i].kind \in {"summary", "panic", "result"} /\ n = Summary

\* ... and other lines to the blocks they are in, or else, a panic before all, to
\* the test of the output they continue ("Handles case where terratest log has
\* entries with newlines in them", parser.go:152-153).
Blocks(i) == {stream[j].test : j \in OpenResults(i) \ {i}}

Belongs(i, n) ==
  \/ ByName(i, n)
  \/ /\ stream[i].kind \in {"result", "text"}
     /\ IF Current(i) # Summary /\ Blocks(i) # {} THEN n \in Blocks(i) ELSE Current(i) = n

\* The exception: an indented line in no block, such as the rest of an entry of
\* several lines, takes the case of lines in a block and is written for no one.
Orphan(i) == stream[i].indent > 0 /\ Current(i) # Summary /\ Blocks(i) = {}

\* Each log that was opened holds lines that belong to it in their order, and
\* nothing of an earlier run, though the other logs fail; the others are as they
\* were. But for orphans, a line is missing in a log it belongs to only if an
\* error said so (lines 126-167 and LogWriter).
Routing ==
  \A n \in Names :
    LET mine == {i \in 1 .. Len(stream) : Belongs(i, n) /\ (Orphan(i) => ByName(i, n))}
        held == {files[n][k] : k \in DOMAIN files[n]}
    IN  /\ \A i \in mine : i \in held \/ <<n, i>> \in failed
        /\ IF n \in Unwritable \/ mine = {}
           THEN files[n] \in {<<>>, <<0>>}
           ELSE /\ held \subseteq mine
                /\ \A k \in 1 .. Len(files[n]) - 1 : files[n][k] <= files[n][k + 1]

=============================================================================
