------------------------------- MODULE DOLog -------------------------------
(***************************************************************************)
(* The log of the agent (client-lite/src/trace/do_log.cpp): a buffer that  *)
(* every thread writes to, a thread that flushes it every three minutes,   *)
(* the files it is flushed to, and the end of both in Close.               *)
(*                                                                         *)
(* The logger's _mutex is held in each action.  A line is the number of    *)
(* the call that wrote it; lines of earlier processes are 0.  Every line   *)
(* has size 1, except those that are longer than the buffer.  A file is    *)
(* named by the second it was created in.                                  *)
(***************************************************************************)
EXTENDS Integers, SequencesExt

CONSTANTS
    BufferSize,     \* g_logBufferSizeBytes
    MaxFileSize,    \* g_maxLogFileSizeBytes
    MaxFiles,       \* g_maxLogFiles
    MaxLines,       \* bound of the number of lines
    MaxClock        \* bound of the clock

ASSUME DOLogAssumption ==
    /\ BufferSize \in Nat /\ BufferSize > 1
    /\ {MaxFileSize, MaxFiles} \subseteq Nat \ {0}
    /\ {MaxLines, MaxClock} \subseteq Nat

VARIABLES
    clock,      \* the wall clock, in seconds
    logger,     \* g_pLogger, and how far its destructor is
    dir,        \* the log files and the lines in them
    file,       \* _logFile
    buffer,     \* _writeBuffer
    logged,     \* number of the last line
    dropped,    \* history: lines longer than the buffer
    trouble     \* history: what went wrong outside of this code

vars == <<clock, logger, dir, file, buffer, logged, dropped, trouble>>

Lines == 0 .. MaxLines
Times == 1 .. MaxClock

\* The stream: which file it writes to, whether that was opened and no write failed,
\* how large the file is, and whether this stream wrote to it: tellp of a stream that
\* is opened for appending is 0 until then
Streams == [name : Times \cup {0}, good : BOOLEAN, size : Nat, wrote : BOOLEAN]
Closed == [name |-> 0, good |-> FALSE, size |-> 0, wrote |-> FALSE]
IsOpen(f) == f.name # 0

TypeOK ==
    /\ clock \in Times
    /\ logger \in {"none", "running", "stopping", "joined", "last", "closed"}
    /\ DOMAIN dir \subseteq Times
    /\ \A t \in DOMAIN dir : dir[t] \in Seq(Lines)
    /\ file \in Streams
    /\ buffer \in Seq(Lines)
    /\ logged \in Lines
    /\ dropped \subseteq Lines
    /\ trouble \subseteq {"disk", "clock", "burst"}

\* No or many files of earlier processes, the last one maybe of this very second
Init ==
    /\ \E old \in {0, MaxFiles + 1} :
        /\ dir = [t \in 1 .. old |-> <<0>>]
        /\ clock \in {old, old + 1} \cap Times
    /\ logger = "none"
    /\ file = Closed
    /\ buffer = <<>>
    /\ logged = 0
    /\ dropped = {}
    /\ trouble = {}

-----------------------------------------------------------------------------
(***************************************************************************)
(* The steps of the logger, on a directory d, a stream f and a buffer b.   *)
(***************************************************************************)

\* Variant: sorted the other way
ClearNewerLogFiles(d) ==
    Restrict(d, {t \in DOMAIN d :
        Cardinality({earlier \in DOMAIN d : earlier < t}) < MaxFiles})

\* _ClearOlderLogFilesIfNeeded: the first files by name go, whoever writes to them
ClearOlderLogFiles(d) ==
    Restrict(d, {t \in DOMAIN d :
        Cardinality({later \in DOMAIN d : later > t}) < MaxFiles})

\* _CreateLogFile: the stream appends if there is a file of this second
CreateLogFile(d) ==
    IF clock \in DOMAIN d
    THEN [dir |-> d,
          file |-> [name |-> clock, good |-> TRUE, size |-> Len(d[clock]), wrote |-> FALSE]]
    ELSE [dir |-> [t \in DOMAIN d \cup {clock} |-> IF t = clock THEN <<>> ELSE d[t]],
          file |-> [name |-> clock, good |-> TRUE, size |-> 0, wrote |-> FALSE]]

\* tellp of a stream that failed is -1
IsFull(f) == IsOpen(f) /\ f.good /\ f.wrote /\ f.size >= MaxFileSize

\* Variant: older files are only looked at when the logger starts
RotateWithoutClearing(d, f, created) ==
    IF ~IsFull(f) THEN [dir |-> d, file |-> f]
    ELSE IF created THEN CreateLogFile(d)
    ELSE [dir |-> d, file |-> Closed]

\* _RotateLogFilesIfNeeded; the new file may not be created
RotateLogFiles(d, f, created) ==
    LET cleared == ClearOlderLogFiles(d)
    IN  IF ~IsFull(f) THEN [dir |-> cleared, file |-> f]
        ELSE IF created THEN CreateLogFile(cleared)
        ELSE [dir |-> cleared, file |-> Closed]

\* Variant: the buffer is not reset
FlushAgain(d, f, b, kept) ==
    IF ~IsOpen(f) \/ b = <<>> THEN [dir |-> d, file |-> f, buffer |-> b]
    ELSE LET written == SubSeq(b, 1, IF f.good THEN kept ELSE 0)
         IN  [dir |-> IF f.name \in DOMAIN d
                      THEN [d EXCEPT ![f.name] = @ \o written] ELSE d,
              file |-> [f EXCEPT !.good = IF kept = Len(b) THEN @ ELSE FALSE, !.wrote = TRUE,
                                 !.size = @ + Len(written)],
              buffer |-> b]

\* LogBuffer::Flush: the first lines of the buffer reach the file, all of them unless
\* the disk is full; the buffer is emptied in any case.  A stream that failed writes
\* nothing any more.  A file that was deleted takes the lines with it.
Flush(d, f, b, kept) ==
    IF ~IsOpen(f) \/ b = <<>> THEN [dir |-> d, file |-> f, buffer |-> b]
    ELSE LET written == SubSeq(b, 1, IF f.good THEN kept ELSE 0)
         IN  [dir |-> IF f.name \in DOMAIN d
                      THEN [d EXCEPT ![f.name] = @ \o written] ELSE d,
              file |-> [f EXCEPT !.good = IF kept = Len(b) THEN @ ELSE FALSE, !.wrote = TRUE,
                                 !.size = @ + Len(written)],
              buffer |-> <<>>]

\* How much of the buffer the disk takes
Kept == IF "disk" \in trouble THEN 0 .. Len(buffer) ELSE {Len(buffer)}
MayCreate == IF "disk" \in trouble THEN BOOLEAN ELSE {TRUE}

\* What happens to a second file of the same second is noted
NoteBurst(rotated) ==
    trouble' = IF rotated.file # file /\ IsOpen(rotated.file)
                  /\ ~rotated.file.wrote /\ rotated.file.size > 0
               THEN trouble \cup {"burst"} ELSE trouble

\* LogBuffer::Write needs room for the line and a terminator
Fits(b) == Len(b) + 1 < BufferSize

-----------------------------------------------------------------------------
(***************************************************************************)
(* The logger.                                                             *)
(***************************************************************************)

\* Init, and the constructor with its flush thread: older files are cleared before the
\* new one is created
StartLogger ==
    /\ logger = "none"
    /\ logger' = "running"
    /\ \E created \in MayCreate :
        LET cleared == ClearOlderLogFiles(dir)
            start == IF created THEN CreateLogFile(cleared)
                     ELSE [dir |-> cleared, file |-> Closed]
        IN  /\ dir' = start.dir
            /\ file' = start.file
            /\ NoteBurst(start)
    /\ UNCHANGED <<clock, buffer, logged, dropped>>

\* WriteV when the line fits
WriteToBuffer ==
    /\ Fits(buffer)
    /\ buffer' = Append(buffer, logged + 1)
    /\ UNCHANGED <<dir, file, dropped, trouble>>

\* WriteV when it does not: flush, rotate, and try again
WriteAfterFlush(long) ==
    /\ long \/ ~Fits(buffer)
    /\ \E kept \in Kept, created \in MayCreate :
        LET flushed == Flush(dir, file, buffer, kept)
            rotated == RotateLogFiles(flushed.dir, flushed.file, created)
            lost    == long \/ ~Fits(flushed.buffer)
        IN  /\ dir' = rotated.dir
            /\ file' = rotated.file
            /\ NoteBurst(rotated)
            /\ buffer' = IF lost THEN flushed.buffer
                         ELSE Append(flushed.buffer, logged + 1)
            /\ dropped' = IF long THEN dropped \cup {logged + 1} ELSE dropped

WriteV(long) ==
    /\ logged < MaxLines
    /\ (~long /\ WriteToBuffer) \/ WriteAfterFlush(long)
    /\ logged' = logged + 1
    /\ UNCHANGED clock

\* Any thread of the agent.  The last one is joined before Close.
Write ==
    /\ logger = "running"
    /\ logged < MaxLines - 1
    /\ \E long \in BOOLEAN : WriteV(long)
    /\ UNCHANGED logger

\* _FlushThreadProc, each time its wait is over
FlushThreadProc ==
    /\ logger = "running"
    /\ \E kept \in Kept, created \in MayCreate :
        LET flushed == Flush(dir, file, buffer, kept)
            rotated == RotateLogFiles(flushed.dir, flushed.file, created)
        IN  /\ dir' = rotated.dir
            /\ file' = rotated.file
            /\ buffer' = flushed.buffer
            /\ NoteBurst(rotated)
    /\ UNCHANGED <<clock, logger, logged, dropped>>

\* Close, ~LoggerImpl
CloseBegin ==
    /\ logger = "running"
    /\ logger' = "stopping"
    /\ UNCHANGED <<clock, dir, file, buffer, logged, dropped, trouble>>

\* The flush thread leaves its loop without a last flush
Join ==
    /\ logger = "stopping"
    /\ logger' = "joined"
    /\ UNCHANGED <<clock, dir, file, buffer, logged, dropped, trouble>>

\* The statistics are logged through g_pLogger, which is still there
WriteStats ==
    /\ logger = "joined"
    /\ logger' = "last"
    /\ WriteV(FALSE)

\* Variant: the stream is closed without a flush
CloseUnflushed ==
    /\ logger = "last"
    /\ logger' = "closed"
    /\ file' = Closed
    /\ buffer' = <<>>
    /\ UNCHANGED <<clock, dir, logged, dropped, trouble>>

CloseEnd ==
    /\ logger = "last"
    /\ logger' = "closed"
    /\ \E kept \in Kept :
        LET flushed == Flush(dir, file, buffer, kept)
        IN  dir' = flushed.dir /\ buffer' = flushed.buffer
    /\ file' = Closed
    /\ UNCHANGED <<clock, logged, dropped, trouble>>

Close == Join \/ WriteStats \/ CloseEnd

-----------------------------------------------------------------------------
(***************************************************************************)
(* The environment.                                                        *)
(***************************************************************************)
TimePasses ==
    /\ clock < MaxClock
    /\ clock' = clock + 1
    /\ UNCHANGED <<logger, dir, file, buffer, logged, dropped, trouble>>

ClockIsSetBack ==
    /\ "clock" \notin trouble
    /\ clock > 1
    /\ clock' = clock - 1
    /\ trouble' = trouble \cup {"clock"}
    /\ UNCHANGED <<logger, dir, file, buffer, logged, dropped>>

DiskFails ==
    /\ "disk" \notin trouble
    /\ trouble' = trouble \cup {"disk"}
    /\ UNCHANGED <<clock, logger, dir, file, buffer, logged, dropped>>

Environment == TimePasses \/ ClockIsSetBack \/ DiskFails

Next == StartLogger \/ Write \/ FlushThreadProc \/ CloseBegin \/ Close \/ Environment

\* The flush thread wakes up again and again, and the destructor's thread runs.
Fairness == WF_vars(FlushThreadProc) /\ WF_vars(Close)

Spec == Init /\ [][Next]_vars /\ Fairness

-----------------------------------------------------------------------------
(***************************************************************************)
(* Properties.                                                             *)
(***************************************************************************)

\* All lines there are: file by file, and the buffer behind them
AllLines ==
    [t \in DOMAIN dir \cup {MaxClock + 1} |-> IF t \in DOMAIN dir THEN dir[t] ELSE buffer]

IsThere(l) == \E t \in DOMAIN AllLines : \E i \in DOMAIN AllLines[t] : AllLines[t][i] = l

\* Whatever file a line got to, lines are in the order of the calls and once each, and
\* behind those of earlier processes: neither the flush before the second try of WriteV,
\* nor a rotation, nor a file that is opened a second time repeats or reorders them, as
\* long as the clock that names the files is not set back.
LinesAreInOrder ==
    "clock" \notin trouble =>
        \A s, t \in DOMAIN AllLines :
            \A i \in DOMAIN AllLines[s], j \in DOMAIN AllLines[t] :
                /\ s < t \/ (s = t /\ i < j)
                /\ AllLines[s][i] > 0
                => AllLines[s][i] < AllLines[t][j]

\* While the disk works, only the oldest lines are given up, and only when the number
\* of files is reached: no line in between is missing, but for those too long for the
\* buffer.
RecentLinesAreKept ==
    trouble \cap {"clock", "disk"} = {} =>
        \E first \in 1 .. logged + 1 :
            /\ \A l \in Lines \ {0} : IsThere(l) <=> l \in (first .. logged) \ dropped
            /\ first > 1 => Cardinality(DOMAIN dir) >= MaxFiles

\* The space is bounded, also after a failure: one file more than g_maxLogFiles, and
\* each less than one buffer above g_maxLogFileSizeBytes, unless more than that is
\* logged within a second.
SpaceIsBounded ==
    logger # "none" =>
        /\ Cardinality(DOMAIN dir) <= MaxFiles + 1
        /\ "burst" \notin trouble =>
            \A t \in DOMAIN dir : Len(dir[t]) < MaxFileSize + BufferSize - 1

\* After Close everything is in a file, the statistics of the logger last
\* ("The 3rd string is written by the logger on close", do_log_tests.cpp:26).
EverythingIsWritten ==
    logger = "closed" /\ trouble \cap {"clock", "disk"} = {} =>
        /\ buffer = <<>>
        /\ \E t \in DOMAIN dir :
            /\ dir[t] # <<>> /\ Last(dir[t]) = logged
            /\ \A later \in DOMAIN dir : later > t => dir[later] = <<>>

=============================================================================
