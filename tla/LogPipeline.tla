---------------------------- MODULE LogPipeline ----------------------------
(***************************************************************************)
(* parser.SpawnParsers of modules/logger: one goroutine scans the output   *)
(* of go test through a TeeReader and stores each line as LogParser says;  *)
(* what it reads goes through an io.Pipe to a second one, which makes the  *)
(* junit report; the caller waits for both.                                *)
(***************************************************************************)
EXTENDS LogParser

CONSTANT MaxChunk   \* bound: lines that one Read returns

ASSUME LogPipelineAssumption == MaxChunk \in Nat \ {0}

VARIABLES
  caller,     \* "waiting" or "returned"
  splitter,   \* the first goroutine: "scanning", "writing" to the pipe,
              \* "leaving", "closingPipe", "gone"
  total,      \* lines of the output
  unread,     \* lines of the output nobody has read
  chunk,      \* lines of the write to the pipe that is under way
  buffered,   \* lines the scanner has and has not returned
  pipeOpen,   \* whether the write end of the pipe is open
  reporter,   \* the second goroutine: "parsing", "storing", "gone"
  parsed,     \* lines it has parsed
  report,     \* lines of the stored report, or NoReport
  wg          \* the counter of waitForParsers

readerVars == <<total, unread, chunk, buffered>>
reporterVars == <<reporter, parsed, report>>
pipelineVars == <<vars, caller, splitter, readerVars, pipeOpen, reporterVars, wg>>

\* No report is stored.
NoReport == MaxLines + 1

PipelineInit ==
  /\ Init
  /\ caller = "waiting"
  /\ splitter = "scanning"
  /\ total \in 0 .. MaxLines
  /\ unread = total
  /\ chunk = 0 /\ buffered = 0
  /\ pipeOpen = TRUE
  /\ reporter = "parsing"
  /\ parsed = 0
  /\ report = NoReport
  /\ wg = 2

\* logger.Fatalf of the first goroutine ends the process.
Running == pc # "exited"

-----------------------------------------------------------------------------
(* The first goroutine *)

TeeRead_AfterScan ==
  /\ Running /\ splitter = "scanning" /\ buffered = 0
  /\ \E n \in 1 .. MaxChunk :
       /\ n <= unread
       /\ unread' = unread - n
       /\ buffered' = n
  /\ UNCHANGED <<vars, caller, splitter, total, chunk, pipeOpen, reporterVars, wg>>

\* The scanner has no line left and reads: the TeeReader reads a chunk and
\* writes it to the pipe before it returns it.
TeeRead ==
  /\ Running /\ splitter = "scanning" /\ buffered = 0
  /\ \E n \in 1 .. MaxChunk :
       /\ n <= unread
       /\ unread' = unread - n
       /\ chunk' = n
  /\ splitter' = "writing"
  /\ UNCHANGED <<vars, caller, total, buffered, pipeOpen, reporterVars, wg>>

\* The loop takes a line from the scanner and stores it.
StoreLine ==
  /\ splitter = "scanning" /\ buffered > 0
  /\ \E l \in Lines : ReadLine(l)
  /\ buffered' = buffered - 1
  /\ UNCHANGED <<caller, splitter, total, unread, chunk, pipeOpen, reporterVars, wg>>

GiveUp ==
  /\ splitter = "scanning"
  /\ ScanError
  /\ UNCHANGED <<caller, splitter, readerVars, pipeOpen, reporterVars, wg>>

\* The output ends, and the deferred calls run: closeFiles, ...
EndScan ==
  /\ splitter = "scanning" /\ buffered = 0 /\ unread = 0
  /\ EndOfOutput
  /\ splitter' = "leaving"
  /\ UNCHANGED <<caller, readerVars, pipeOpen, reporterVars, wg>>

\* ... waitForParsers.Done ...
Leave ==
  /\ Running /\ splitter = "leaving"
  /\ wg' = wg - 1
  /\ splitter' = "closingPipe"
  /\ UNCHANGED <<vars, caller, readerVars, pipeOpen, reporterVars>>

ClosePipe_Missing ==
  /\ Running /\ splitter = "closingPipe"
  /\ splitter' = "gone"
  /\ UNCHANGED <<vars, caller, readerVars, pipeOpen, reporterVars, wg>>

\* ... and forkedWriter.Close.
ClosePipe ==
  /\ Running /\ splitter = "closingPipe"
  /\ pipeOpen' = FALSE
  /\ splitter' = "gone"
  /\ UNCHANGED <<vars, caller, readerVars, reporterVars, wg>>

-----------------------------------------------------------------------------
(* The second goroutine. junitparser.Parse is external: it reads to the end  *)
(* of the stream and fails only with its reader, which a pipe never does.    *)

\* It reads what is being written to the pipe, which lets the write return.
PipeRead ==
  /\ Running /\ reporter = "parsing" /\ splitter = "writing"
  /\ parsed' = parsed + chunk
  /\ buffered' = chunk /\ chunk' = 0
  /\ splitter' = "scanning"
  /\ UNCHANGED <<vars, caller, total, unread, pipeOpen, reporter, report, wg>>

\* It sees the end of the pipe.
PipeEnd ==
  /\ Running /\ reporter = "parsing" /\ ~pipeOpen
  /\ reporter' = "storing"
  /\ UNCHANGED <<vars, caller, splitter, readerVars, pipeOpen, parsed, report, wg>>

\* storeJunitReport writes report.xml, or logs that it could not; Done.
StoreReport ==
  /\ Running /\ reporter = "storing"
  /\ report' \in {parsed, NoReport}
  /\ reporter' = "gone"
  /\ wg' = wg - 1
  /\ UNCHANGED <<vars, caller, splitter, readerVars, pipeOpen, parsed>>

\* waitForParsers.Wait returns.
Return ==
  /\ Running /\ caller = "waiting" /\ wg = 0
  /\ caller' = "returned"
  /\ UNCHANGED <<vars, splitter, readerVars, pipeOpen, reporterVars, wg>>

-----------------------------------------------------------------------------

PipelineNext ==
  \/ TeeRead \/ StoreLine \/ GiveUp \/ EndScan \/ Leave \/ ClosePipe
  \/ PipeRead \/ PipeEnd \/ StoreReport
  \/ Return

\* Fairness: goroutines that can run do.
PipelineSpec ==
  /\ PipelineInit /\ [][PipelineNext]_pipelineVars
  /\ WF_pipelineVars(TeeRead \/ StoreLine \/ EndScan \/ Leave \/ ClosePipe)
  /\ WF_pipelineVars(PipeRead \/ PipeEnd \/ StoreReport)
  /\ WF_pipelineVars(Return)

-----------------------------------------------------------------------------

\* The call does not return before every line of the output is in the logs, the
\* logs are closed, and the report is written from every line or has failed,
\* whichever goroutine ends last (the two Dones and closeFiles before its own);
\* and no line is stored in a log that the report has not seen, also when the
\* process exits half way (the TeeReader of line 19).
NoLineLost ==
  /\ caller = "returned" =>
       /\ Len(stream) = total /\ pc = "closed"
       /\ reporter = "gone" /\ report \in {NoReport, total}
  /\ Len(stream) + buffered = parsed
  /\ parsed + chunk + unread = total

\* The two goroutines never wait for each other forever: the call returns or a
\* scanner error ends the process (lines 22-37).
Returns == <>(caller = "returned" \/ pc = "exited")

=============================================================================
