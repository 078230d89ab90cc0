----------------------------- MODULE FileSource -----------------------------
(***************************************************************************)
(* pkg/source/file.go: a capture replayed line by line, once or in a loop, *)
(* with a blocking send. It reads every line or it fails, and so has no    *)
(* gap channel. The pacing of a replay delays a line and changes nothing   *)
(* else.                                                                   *)
(***************************************************************************)
EXTENDS Integers, Sequences

CONSTANTS
    MaxLines,           \* bound: lines in the file
    FileRoom            \* room in the channel to the pipeline

ASSUME FileAssumption == {MaxLines, FileRoom} \subseteq Nat \ {0}

\* A line is blank, an event, or longer than maxPayload.
Lines == {"blank", "event", "long"}

VARIABLES
    file,       \* the lines of the capture
    loop,       \* FileSource.loop
    fileRun,    \* where Run is: the state and the line it is at
    sent,       \* lines handed to the pipeline in this pass
    fileOut,    \* messages in the channel
    fileStop,   \* closed, cancelled
    fileResult  \* how Run returned

fileVars == <<file, loop, fileRun, sent, fileOut, fileStop, fileResult>>

FileInit ==
    /\ file \in UNION {[1 .. n -> Lines] : n \in 0 .. MaxLines}
    /\ loop \in BOOLEAN
    /\ fileRun = [at |-> "open", line |-> 1]
    /\ sent = {} /\ fileOut = 0
    /\ fileStop = {} /\ fileResult = "none"

FileReturns(r) == fileRun' = [fileRun EXCEPT !.at = "returned"] /\ fileResult' = r

\* replayOnce: open, which may fail.
Open ==
    /\ fileRun.at = "open"
    /\ \/ fileRun' = [at |-> "scan", line |-> 1] /\ UNCHANGED fileResult
       \/ FileReturns("error")
    /\ sent' = {}
    /\ UNCHANGED <<file, loop, fileOut, fileStop>>

\* scanner.Err: the line is reported, not skipped.
TooLong == FileReturns("error")

\* The loop of replayOnce up to the send; a long line ends the scan before the
\* context and the closed flag are looked at.
ScanLine ==
    /\ fileRun.at = "scan" /\ fileRun.line <= Len(file)
    /\ LET kind == file[fileRun.line]
       IN  IF kind = "long" THEN TooLong
           ELSE IF fileStop # {}
           THEN FileReturns(IF "cancelled" \in fileStop THEN "cancelled" ELSE "nil")
           ELSE /\ fileRun' = IF kind = "blank" THEN [fileRun EXCEPT !.line = @ + 1]
                              ELSE [fileRun EXCEPT !.at = "send"]
                /\ UNCHANGED fileResult
    /\ UNCHANGED <<file, loop, sent, fileOut, fileStop>>

\* pace and send: both give up when the context is done.
SendLine ==
    /\ fileRun.at = "send"
    /\ \/ /\ fileOut < FileRoom
          /\ fileOut' = fileOut + 1 /\ sent' = sent \cup {fileRun.line}
          /\ fileRun' = [at |-> "scan", line |-> fileRun.line + 1] /\ UNCHANGED fileResult
       \/ "cancelled" \in fileStop /\ FileReturns("cancelled") /\ UNCHANGED <<sent, fileOut>>
    /\ UNCHANGED <<file, loop, fileStop>>

\* The end of the file: again, if it loops.
EndOfFile ==
    /\ fileRun.at = "scan" /\ fileRun.line > Len(file)
    /\ CASE ~loop \/ "closed" \in fileStop -> FileReturns("nil") /\ UNCHANGED sent
         [] loop /\ fileStop = {"cancelled"} -> FileReturns("cancelled") /\ UNCHANGED sent
         [] loop /\ fileStop = {} -> fileRun' = [at |-> "open", line |-> 1] /\ sent' = {} /\ UNCHANGED fileResult
    /\ UNCHANGED <<file, loop, fileOut, fileStop>>

StopFile(why) ==
    /\ fileStop' = fileStop \cup {why}
    /\ UNCHANGED <<file, loop, fileRun, sent, fileOut, fileResult>>

PipelineTakesLine ==
    /\ fileOut > 0
    /\ fileOut' = fileOut - 1
    /\ UNCHANGED <<file, loop, fileRun, sent, fileStop, fileResult>>

FileNext ==
    \/ Open \/ ScanLine \/ SendLine \/ EndOfFile \/ PipelineTakesLine
    \/ \E why \in {"closed", "cancelled"} : StopFile(why)

FileFairness == WF_fileVars(Open \/ ScanLine \/ SendLine \/ EndOfFile) /\ WF_fileVars(PipelineTakesLine)

FileSpec == FileInit /\ [][FileNext]_fileVars /\ FileFairness

-----------------------------------------------------------------------------
\* "It reads every byte or it fails": a replay that was not stopped and returned
\* without an error has delivered every event of the file.
WholeOrError ==
    fileResult = "nil" /\ fileStop = {} => sent = {n \in DOMAIN file : file[n] = "event"}
=============================================================================
