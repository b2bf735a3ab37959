------------------------------ MODULE Download ------------------------------
(***************************************************************************)
(* One download of the agent: class Download                               *)
(* (client-lite/src/download/download.cpp) with the parts it runs on,      *)
(*   - the io thread, which serves one REST call at a time and waits for   *)
(*     it in TaskThread::SchedBlock (download_manager.cpp);                *)
(*   - the task thread, which runs the tasks of TaskQueue one by one and   *)
(*     may block in HttpAgent::Close;                                      *)
(*   - the worker thread of CurlRequests, which takes requests over, runs  *)
(*     the callbacks of util/http_agent.cpp and releases closed handles.   *)
(*     Here it is seen through the one easy handle of this download.       *)
(*                                                                         *)
(* A file is a sequence of Chunks pieces; bytes are counted in pieces.     *)
(* MaxCalls, MaxFailures, MaxNetFlips and MaxNoProgress bound what the     *)
(* environment does and the no-progress counter.  An unusual answer of the *)
(* server, and an error of the file system, count as one of the failures.  *)
(***************************************************************************)
EXTENDS TaskQueue, ConnectionPolicy, FiniteSets

CONSTANTS
    Chunks,         \* length of the file
    Paths,          \* destination paths
    Operations,     \* the REST calls clients make
    HasMcc,         \* a cache host is configured
    Fallback,       \* the fallback mode (ConnectionPolicy)
    Unhurried,      \* clients call only while no update is pending
    SendErrors,     \* HttpAgent::SendRequest may fail (bad proxy or host name)
    PlainServer,    \* the server announces the length and honours ranges, always
    FileFaults,     \* a file may fail to open, to take data or to close
    MaxCalls,
    MaxFailures,
    MaxNetFlips,
    MaxNoProgress   \* _MaxNoProgressIntervals

AllOperations ==
    {"Start", "Pause", "Finalize", "Abort", "GetStatus", "SetUri", "SetPath"}

ASSUME DownloadAssumption ==
    /\ Chunks \in Nat \ {0}
    /\ Operations \subseteq AllOperations
    /\ HasMcc \in BOOLEAN
    /\ Fallback \in FallbackModes
    /\ Unhurried \in BOOLEAN
    /\ SendErrors \in BOOLEAN
    /\ PlainServer \in BOOLEAN
    /\ FileFaults \in BOOLEAN
    /\ {MaxCalls, MaxFailures, MaxNetFlips} \subseteq Nat
    /\ MaxNoProgress \in Nat \ {0}

VARIABLES
    \* the task thread
    at,         \* polling, waiting in Close on behalf of an operation, or terminated
    queue,      \* tasks that are due
    timers,     \* tasks that are not due yet
    st,         \* _status
    tracker,    \* _progressTracker
    conn,       \* _connectionType and the members around it
    httpActive, \* _fHttpRequestActive
    \* the file
    file,       \* _destFilePath, _fDestFileCreated, _fileStream
    disk,       \* who created the file there is at each path
    content,    \* the pieces this download wrote, in the order of the file; 0 is a part of one
    \* the HTTP request
    agent,      \* the RequestContext and the options of the easy handle
    curl,       \* the handle in _handlesToAdd, _activeHandles, _handlesToRemove
    wire,       \* pieces of the file delivered up to where the transfer is
    \* the io thread and the environment
    call,       \* the REST call in progress, or "none"
    net,        \* NetworkMonitor::HasViableInterface
    banned,     \* MCCManager::IsBanned
    due,        \* _mccFallbackDue has passed
    used        \* how much of each bound is used

ownVars  == <<st, tracker, conn, httpActive>>
fileVars == <<file, disk, content>>
curlVars == <<agent, curl, wire>>
envVars  == <<net, banned, due, used>>
vars == <<at, queue, timers, ownVars, fileVars, curlVars, call, envVars>>

DownloadStates ==
    {"Created", "Transferring", "Transferred", "Finalized", "Aborted", "Paused"}

\* Kinds of task.  OnComplete's task is one kind per kind of failure.  Every task
\* of the download is tagged "this", the progress check &_progressTracker, and
\* that of a REST call has no tag.
OwnTasks ==
    {"headers", "no length", "data", "completed", "transferred", "retry", "transient"} \cup FailureKinds
Tasks == OwnTasks \cup {"progress", "call"}
TimerTasks == {"retry", "transient", "progress"}

\* DOFile: closed, open, or lost, when close() failed and _fd is kept all the same
Streams == {"closed", "open", "lost"}

\* Operations that go through _httpAgent->Close()
Closings == {"Pause", "Finalize", "Abort", "NoProgress", "Fatal"}

TypeOK ==
    /\ at \in {"poll", "terminated"} \cup Closings
    /\ queue \in Seq(Tasks)
    /\ timers \in [TimerTasks -> Nat]
    /\ st \in [state : DownloadStates, error : BOOLEAN, extError : BOOLEAN,
               total : {0, Chunks}, transferred : Nat]
    /\ tracker \in [noProgress : 0 .. MaxNoProgress, lastSeen : Nat]
    /\ conn \in Connections
    /\ httpActive \in BOOLEAN
    /\ file \in [path : Paths, created : BOOLEAN, stream : Streams]
    /\ disk \in [Paths -> {"absent", "foreign", "own"}]
    /\ content \in Seq(0 .. Chunks)
    /\ agent \in [headersSeen : BOOLEAN, completed : BOOLEAN, start : Nat,
                  connectTimeout : {0, 3, 15}]
    /\ curl \in [queued : BOOLEAN, active : BOOLEAN, marked : BOOLEAN]
    /\ wire \in Nat
    /\ call \in AllOperations \cup {"none"}
    /\ {net, banned, due} \subseteq BOOLEAN
    /\ used \in [calls : 0 .. MaxCalls, failures : 0 .. MaxFailures,
                 flips : 0 .. MaxNetFlips]

NoAgent ==
    [headersSeen |-> FALSE, completed |-> FALSE, start |-> 0, connectTimeout |-> 0]

\* A download just created, at a path where there may already be a file
Init ==
    /\ at = "poll"
    /\ queue = <<>>
    /\ timers = [t \in TimerTasks |-> 0]
    /\ st = [state |-> "Created", error |-> FALSE, extError |-> FALSE,
             total |-> 0, transferred |-> 0]
    /\ tracker = [noProgress |-> 0, lastSeen |-> 0]
    /\ conn = NoConnection
    /\ httpActive = FALSE
    /\ \E p \in Paths : file = [path |-> p, created |-> FALSE, stream |-> "closed"]
    /\ disk \in [Paths -> {"absent", "foreign"}]
    /\ content = <<>>
    /\ agent = NoAgent
    /\ curl = [queued |-> FALSE, active |-> FALSE, marked |-> FALSE]
    /\ wire = 0
    /\ call = "none"
    /\ net = TRUE
    /\ banned = FALSE
    /\ due = FALSE
    /\ used = [calls |-> 0, failures |-> 0, flips |-> 0]

\* DownloadStatus::IsTransientError
IsTransientError(s) == s.state = "Paused" /\ ~s.error /\ s.extError

\* DownloadStatus::_Paused
PausedWith(error, extError) ==
    [st EXCEPT !.state = "Paused", !.error = error, !.extError = extError]

\* DownloadStatus::_Transferring
Transferring == [st EXCEPT !.state = "Transferring", !.error = FALSE, !.extError = FALSE]

\* How often an element of kinds occurs in a sequence
Count(seq, kinds) == Cardinality({i \in DOMAIN seq : seq[i] \in kinds})

\* Another failure is possible, and one that is counted
MayFail == used.failures < MaxFailures

Failing(how) == [used EXCEPT !.failures = @ + (IF how THEN 1 ELSE 0)]

-----------------------------------------------------------------------------
(***************************************************************************)
(* The io thread: one call at a time.  GetStatus is scheduled at the end   *)
(* of the queue, every other call at its front.  Once Finalize or Abort    *)
(* succeeded, the download is no longer known to the manager.              *)
(***************************************************************************)

\* GetStatus waits for the updates that are pending; the others do not
ScheduleCall(op) ==
    /\ call' = op
    /\ queue' = IF op = "GetStatus" THEN Sched(queue, "call")
                ELSE SchedImmediate(queue, "call")

Call(op) ==
    /\ call = "none"
    /\ st.state \notin {"Finalized", "Aborted"}
    /\ used.calls < MaxCalls
    /\ Unhurried => queue = <<>> /\ at = "poll"
    /\ ScheduleCall(op)
    /\ used' = [used EXCEPT !.calls = @ + 1]
    /\ UNCHANGED <<at, timers, ownVars, fileVars, curlVars, net, banned, due>>

-----------------------------------------------------------------------------
(***************************************************************************)
(* Making a request.                                                       *)
(***************************************************************************)

Chosen(retry) ==
    ChooseConnection(conn, retry, st.transferred, Fallback, due, HasMcc /\ ~banned)

\* The connect time-out is an option of the easy handle, which is created once per agent
CreateClient(a, type) ==
    [a EXCEPT !.connectTimeout = IF @ = 0 THEN ConnectTimeout(type) ELSE @]

\* Variant: the range is forgotten, a resume asks for the whole file
PreparedWithoutRange(a, type) ==
    [headersSeen |-> FALSE, completed |-> FALSE, start |-> 0,
     connectTimeout |-> ConnectTimeout(type)]

\* SendRequest resets the request context
Prepared(a, type) ==
    [CreateClient(a, type) EXCEPT
        !.headersSeen = FALSE, !.completed = FALSE, !.start = st.transferred]

\* MakeRange adds and subtracts with a check (safe_int.h): the end of the range is the
\* length, so it overflows when there is more than that already
RangeOverflows == st.transferred > st.total

\* _SchedProgressTracking
WatchProgress(ready) ==
    timers' = IF IsScheduled(ready, timers, "progress") THEN timers
              ELSE SchedDelayed(timers, "progress")

\* _SendHttpRequest with agent a; its callers all end in the Transferring state
RequestMade(a, retry, rest) ==
    /\ ~RangeOverflows /\ ~curl.queued
    /\ conn' = MarkRequest(Chosen(retry), st.transferred)
    /\ agent' = Prepared(a, conn'.type)
    /\ curl' = [curl EXCEPT !.queued = TRUE]
    /\ httpActive' = TRUE
    /\ st' = Transferring
    /\ queue' = rest
    /\ WatchProgress(rest)
    /\ at' = "poll"

\* It throws: there is no such range, CurlRequests::Add refuses a handle that is still
\* queued, or the agent cannot be prepared.  SchedBlock hands the error to a caller; nobody
\* catches it in any other task.
RequestRefused(a, retry, rest, next) ==
    /\ RangeOverflows \/ curl.queued \/ SendErrors
    /\ conn' = Chosen(retry)
    /\ agent' = IF RangeOverflows THEN a
                ELSE IF curl.queued THEN Prepared(a, conn'.type)
                ELSE CreateClient(a, conn'.type)
    /\ queue' = rest
    /\ at' = next
    /\ UNCHANGED <<timers, st, httpActive, curl>>

SendHttpRequest(a, retry, rest, next) ==
    /\ RequestMade(a, retry, rest) \/ RequestRefused(a, retry, rest, next)
    /\ UNCHANGED <<tracker, wire, envVars>>

\* Variant: a request the worker has not taken over yet stays queued
BeginCloseOfActive(operation, rest) ==
    /\ at' = operation
    /\ queue' = rest
    /\ curl' = [curl EXCEPT !.marked = @ \/ curl.active]
    /\ UNCHANGED <<timers, st, conn, fileVars, agent, wire, net, due, used>>

\* First half of HttpAgent::Close: CurlRequests::Remove takes the handle back, or
\* marks it and waits for the worker
BeginClose(operation, rest) ==
    /\ at' = operation
    /\ queue' = rest
    /\ curl' = [curl EXCEPT !.queued = FALSE, !.marked = @ \/ curl.active]
    /\ UNCHANGED <<timers, st, conn, fileVars, agent, wire, net, due, used>>

-----------------------------------------------------------------------------
(***************************************************************************)
(* The task thread: REST calls (Download::_PerformStateChange and          *)
(* SetProperty).                                                           *)
(***************************************************************************)
Dequeue(task) == at = "poll" /\ queue # <<>> /\ Head(queue) = task

rest == Tail(queue)

\* _Start: create the file, then request all of it
Start ==
    /\ Dequeue("call") /\ call = "Start"
    /\ st.state = "Created"
    /\ disk[file.path] = "absent"
    /\ file' = [file EXCEPT !.created = TRUE, !.stream = "open"]
    /\ disk' = [disk EXCEPT ![file.path] = "own"]
    /\ call' = "none"
    /\ SendHttpRequest(NoAgent, FALSE, rest, "poll")
    /\ UNCHANGED content

\* The new stream is opened, and the one there may be, after a transient error, closed
Reopen ==
    /\ file.stream # "lost"
    /\ file' = [file EXCEPT !.stream = "open"]

\* _Resume: request the missing range
Resume ==
    /\ Dequeue("call") /\ call = "Start"
    /\ st.state = "Paused"
    /\ ~(st.total # 0 /\ st.transferred = st.total)
    /\ Reopen
    /\ call' = "none"
    /\ SendHttpRequest(agent, FALSE, rest, "poll")
    /\ UNCHANGED <<disk, content>>

\* _Resume when the last update has already made it complete
ResumeComplete ==
    /\ Dequeue("call") /\ call = "Start"
    /\ st.state = "Paused"
    /\ st.total # 0 /\ st.transferred = st.total
    /\ Reopen
    /\ queue' = SchedImmediate(rest, "transferred")
    /\ st' = Transferring
    /\ call' = "none"
    /\ UNCHANGED <<at, timers, tracker, conn, httpActive, disk, content, curlVars,
                   envVars>>

\* Variant: Finalize of a paused download is not refused
CloseAlsoPaused ==
    /\ Dequeue("call")
    /\ \/ call = "Pause" /\ st.state = "Transferring"
       \/ call = "Finalize" /\ st.state \in {"Transferred", "Paused"}
       \/ call = "Abort"
    /\ BeginClose(call, rest)
    /\ UNCHANGED <<tracker, httpActive, call, banned>>

\* _Pause, _Finalize and _Abort as far as their wait
CloseForCall ==
    /\ Dequeue("call")
    /\ \/ call = "Pause" /\ st.state = "Transferring"
       \/ call = "Finalize" /\ st.state = "Transferred"
       \/ call = "Abort"
    /\ BeginClose(call, rest)
    /\ UNCHANGED <<tracker, httpActive, call, banned>>

\* DOFile::Create or Open throws
OpenFails ==
    /\ Dequeue("call") /\ call = "Start"
    /\ st.state \in {"Created", "Paused"}
    /\ FileFaults /\ MayFail
    /\ used' = Failing(TRUE)
    /\ queue' = rest
    /\ call' = "none"
    /\ UNCHANGED <<at, timers, ownVars, fileVars, curlVars, net, banned, due>>

\* close() fails, also whenever it is called once more: _fd is reset only after success
CloseThrows ==
    /\ \/ file.stream = "lost"
       \/ file.stream = "open" /\ FileFaults /\ MayFail
    /\ file' = [file EXCEPT !.stream = "lost"]
    /\ used' = Failing(file.stream = "open")

\* The assignment of the new stream closes the old one and is noexcept: std::terminate
ReopenTerminates ==
    /\ Dequeue("call") /\ call = "Start"
    /\ st.state = "Paused"
    /\ CloseThrows
    /\ at' = "terminated"
    /\ UNCHANGED <<queue, timers, ownVars, disk, content, curlVars, call, net, banned, due>>

SetUri ==
    /\ Dequeue("call") /\ call = "SetUri"
    /\ st.state = "Paused"
    /\ tracker' = [tracker EXCEPT !.noProgress = 0]
    /\ queue' = rest
    /\ call' = "none"
    /\ UNCHANGED <<at, timers, st, conn, httpActive, fileVars, curlVars, envVars>>

SetPath ==
    /\ Dequeue("call") /\ call = "SetPath"
    /\ st.state = "Created"
    /\ \E p \in Paths : file' = [file EXCEPT !.path = p]
    /\ queue' = rest
    /\ call' = "none"
    /\ UNCHANGED <<at, timers, ownVars, disk, content, curlVars, envVars>>

\* The calls that change nothing: GetStatus, no-ops, and those that throw
AnswerCall ==
    /\ Dequeue("call")
    /\ \/ call = "GetStatus"
       \/ call = "Start" /\ st.state \in {"Transferring", "Transferred"}
       \/ call = "Start" /\ st.state = "Created" /\ disk[file.path] # "absent"
       \/ call = "Pause" /\ st.state # "Transferring"
       \/ call = "Finalize" /\ st.state # "Transferred"
       \/ call = "SetUri" /\ st.state # "Paused"
       \/ call = "SetPath" /\ st.state # "Created"
    /\ queue' = rest
    /\ call' = "none"
    /\ UNCHANGED <<at, timers, ownVars, fileVars, curlVars, envVars>>

-----------------------------------------------------------------------------
(***************************************************************************)
(* The task thread: the updates that the callbacks schedule.               *)
(***************************************************************************)
UpdateHeaders ==
    /\ Dequeue("headers") \/ Dequeue("no length")
    /\ st' = [st EXCEPT !.total = IF Head(queue) = "headers" THEN Chunks ELSE 0]
    /\ queue' = rest
    /\ UNCHANGED <<at, timers, tracker, conn, httpActive, fileVars, curlVars, call,
                   envVars>>

UpdateData ==
    /\ Dequeue("data")
    /\ st' = [st EXCEPT !.transferred = @ + 1]
    /\ queue' = rest
    /\ UNCHANGED <<at, timers, tracker, conn, httpActive, fileVars, curlVars, call,
                   envVars>>

\* OnComplete's update after success, and the one _Resume schedules
UpdateTransferred ==
    /\ Dequeue("completed") \/ Dequeue("transferred")
    /\ st' = [st EXCEPT !.state = "Transferred"]
    /\ httpActive' = (httpActive /\ Head(queue) = "transferred")
    /\ queue' = rest
    /\ UNCHANGED <<at, timers, tracker, conn, fileVars, curlVars, call, envVars>>

\* _HandleTransientError: paused without an error of its own, retried after 30 s
HandleTransientError ==
    /\ st' = PausedWith(FALSE, TRUE)
    /\ timers' = SchedDelayed(timers, "transient")

\* OnComplete's update after a failure
Failed(kind) == Dequeue(kind)

FailedWithoutNetwork(kind) ==
    /\ Failed(kind)
    /\ ~net
    /\ HandleTransientError
    /\ httpActive' = FALSE
    /\ queue' = rest
    /\ UNCHANGED <<at, tracker, conn, fileVars, curlVars, call, envVars>>

\* ReportHostError
Report(kind) == banned' = (banned \/ (conn.type = "MCC" /\ IsBannable(kind)))

FailedForGood(kind) ==
    /\ Failed(kind)
    /\ net
    /\ IsFatalError(conn, kind, Fallback)
    /\ Report(kind)
    /\ httpActive' = FALSE
    /\ BeginClose("Fatal", rest)
    /\ UNCHANGED <<tracker, call>>

\* The state stays Transferring and a retry is scheduled
FailedForNow(kind) ==
    /\ Failed(kind)
    /\ net
    /\ ~IsFatalError(conn, kind, Fallback)
    /\ Report(kind)
    /\ httpActive' = FALSE
    /\ st' = [st EXCEPT !.error = TRUE]
    /\ IF ShouldPauseMccUsage(conn, kind, Fallback, due)
       THEN queue' = Sched(rest, "retry") /\ timers' = timers
       ELSE queue' = rest /\ timers' = SchedDelayed(timers, "retry")
    /\ UNCHANGED <<at, tracker, conn, fileVars, curlVars, call, net, due, used>>

-----------------------------------------------------------------------------
(***************************************************************************)
(* The task thread: the delayed tasks.                                     *)
(***************************************************************************)
\* Variant: the check of _fHttpRequestActive is missing
RetryAnyway ==
    /\ Dequeue("retry")
    /\ st.state = "Transferring"
    /\ SendHttpRequest(agent, TRUE, rest, "terminated")
    /\ UNCHANGED <<fileVars, call>>

Retry ==
    /\ Dequeue("retry")
    /\ st.state = "Transferring"
    /\ ~httpActive
    /\ SendHttpRequest(agent, TRUE, rest, "terminated")
    /\ UNCHANGED <<fileVars, call>>

\* _ResumeAfterTransientError
RetryAfterTransientError ==
    /\ Dequeue("transient")
    /\ net
    /\ IsTransientError(st)
    /\ SendHttpRequest(agent, FALSE, rest, "terminated")
    /\ UNCHANGED <<fileVars, call>>

StillNoNetwork ==
    /\ Dequeue("transient")
    /\ ~net
    /\ HandleTransientError
    /\ queue' = rest
    /\ UNCHANGED <<at, tracker, conn, httpActive, fileVars, curlVars, call, envVars>>

\* DownloadProgressTracker::CheckProgress
NextTracker ==
    IF st.transferred > tracker.lastSeen
    THEN [noProgress |-> 0, lastSeen |-> st.transferred]
    ELSE [tracker EXCEPT !.noProgress = IF @ < MaxNoProgress THEN @ + 1 ELSE @]

\* Variant: the check is not scheduled again
CheckProgressOnce ==
    /\ Dequeue("progress")
    /\ st.state = "Transferring"
    /\ tracker' = NextTracker
    /\ tracker'.noProgress < MaxNoProgress
    /\ queue' = rest
    /\ UNCHANGED <<at, timers, st, conn, httpActive, fileVars, curlVars, call, envVars>>

CheckProgress ==
    /\ Dequeue("progress")
    /\ st.state = "Transferring"
    /\ tracker' = NextTracker
    /\ tracker'.noProgress < MaxNoProgress
    /\ queue' = rest
    /\ WatchProgress(rest)
    /\ UNCHANGED <<at, st, conn, httpActive, fileVars, curlVars, call, envVars>>

NoProgress ==
    /\ Dequeue("progress")
    /\ st.state = "Transferring"
    /\ tracker' = NextTracker
    /\ tracker'.noProgress = MaxNoProgress
    /\ BeginClose("NoProgress", rest)
    /\ UNCHANGED <<httpActive, call, banned>>

\* A delayed task that finds nothing to do
SkipTask ==
    /\ \/ Dequeue("retry") /\ (st.state # "Transferring" \/ httpActive)
       \/ Dequeue("transient") /\ net /\ ~IsTransientError(st)
       \/ Dequeue("progress") /\ st.state # "Transferring"
    /\ queue' = rest
    /\ UNCHANGED <<at, timers, ownVars, fileVars, curlVars, call, envVars>>

-----------------------------------------------------------------------------
(***************************************************************************)
(* The task thread: what follows the wait in Close.                        *)
(***************************************************************************)
Closed(operation) == at = operation /\ ~curl.active /\ at' = "poll"

Closes ==
    /\ file.stream # "lost"
    /\ file' = [file EXCEPT !.stream = "closed"]
    /\ UNCHANGED used

\* Variant: a pause drops the tasks of the download
FinishPauseDroppingTasks ==
    /\ Closed("Pause") \/ Closed("Fatal") \/ Closed("NoProgress")
    /\ httpActive' = FALSE
    /\ Closes
    /\ st' = PausedWith(at # "Pause", FALSE)
    /\ queue' = Unschedule(queue, OwnTasks)
    /\ call' = IF at = "Pause" THEN "none" ELSE call
    /\ UNCHANGED <<timers, tracker, conn, disk, content, curlVars, net, banned, due>>

\* _Pause, for a caller, a fatal error or lack of progress
FinishPause ==
    /\ Closed("Pause") \/ Closed("Fatal") \/ Closed("NoProgress")
    /\ httpActive' = FALSE
    /\ Closes
    /\ st' = CASE at = "Pause" -> PausedWith(FALSE, FALSE)
               [] at = "Fatal" -> PausedWith(TRUE, FALSE)
               [] at = "NoProgress" -> PausedWith(TRUE, st.error)
    /\ call' = IF at = "Pause" THEN "none" ELSE call
    /\ UNCHANGED <<queue, timers, tracker, conn, disk, content, curlVars, net, banned, due>>

\* _Pause or _Finalize throws in _fileStream.Close(): the state stays.  A caller is told,
\* and nobody else.
FinishWithError ==
    /\ at \in Closings \ {"Abort"} /\ ~curl.active
    /\ CloseThrows
    /\ httpActive' = FALSE
    /\ IF at \in {"Pause", "Finalize"}
       THEN at' = "poll" /\ call' = "none"
       ELSE at' = "terminated" /\ call' = call
    /\ UNCHANGED <<queue, timers, st, tracker, conn, disk, content, curlVars, net, banned, due>>

\* Variant: the progress check is not cancelled
CancelOwnTasks ==
    /\ queue' = Unschedule(queue, OwnTasks)
    /\ timers' = UnscheduleDelayed(timers, OwnTasks)

\* _CancelTasks
CancelTasks ==
    /\ queue' = Unschedule(queue, OwnTasks \cup {"progress"})
    /\ timers' = UnscheduleDelayed(timers, OwnTasks \cup {"progress"})

FinishFinalize ==
    /\ Closed("Finalize")
    /\ httpActive' = FALSE
    /\ Closes
    /\ CancelTasks
    /\ st' = [st EXCEPT !.state = "Finalized"]
    /\ call' = "none"
    /\ UNCHANGED <<tracker, conn, disk, content, curlVars, net, banned, due>>

\* Variant: whatever is at the path is deleted
FinishAbortDeletingAll ==
    /\ Closed("Abort")
    /\ Closes
    /\ CancelTasks
    /\ disk' = [disk EXCEPT ![file.path] = "absent"]
    /\ st' = [st EXCEPT !.state = "Aborted"]
    /\ call' = "none"
    /\ UNCHANGED <<tracker, conn, httpActive, content, curlVars, net, banned, due>>

\* _Abort deletes the file only if this download created it
FinishAbort ==
    /\ Closed("Abort")
    /\ Closes
    /\ CancelTasks
    /\ disk' = IF file.created THEN [disk EXCEPT ![file.path] = "absent"] ELSE disk
    /\ st' = [st EXCEPT !.state = "Aborted"]
    /\ call' = "none"
    /\ UNCHANGED <<tracker, conn, httpActive, content, curlVars, net, banned, due>>

\* _Abort catches what Close throws, and neither deletes the file nor cancels the tasks.
\* The io thread then destroys the download: ~Download cancels the tasks, unless one of
\* them runs at that moment, on an object that is going away.
AbortThrows ==
    /\ at = "Abort" /\ ~curl.active
    /\ CloseThrows
    /\ st' = [st EXCEPT !.state = "Aborted"]
    /\ call' = "none"
    /\ \/ CancelTasks /\ at' = "poll"
       \/ queue # <<>> /\ at' = "terminated" /\ UNCHANGED <<queue, timers>>
    /\ UNCHANGED <<tracker, conn, httpActive, disk, content, curlVars, net, banned, due>>

-----------------------------------------------------------------------------
(***************************************************************************)
(* The worker of CurlRequests, and libcurl, for this handle.               *)
(***************************************************************************)

MayBeUnusual == ~PlainServer /\ MayFail

\* Where a response begins: a server may send the whole file instead of the range
Begin(begins) ==
    IF ~begins THEN UNCHANGED <<wire, used>>
    ELSE \E from \in IF MayBeUnusual THEN {agent.start, 0} ELSE {agent.start} :
            wire' = from /\ used' = Failing(from # agent.start)

\* Variant: the marks are dropped without removing the handle
TakeOverWithoutRemoving ==
    /\ curl.queued \/ curl.marked
    /\ curl' = [queued |-> FALSE, marked |-> FALSE, active |-> curl.active \/ curl.queued]
    /\ Begin(curl'.active /\ ~curl.active)
    /\ UNCHANGED <<at, queue, timers, ownVars, fileVars, agent, call, net, banned, due>>

\* One pass of _DoWork.  A request queued while the handle is still active is
\* dropped (ActiveHandles::Add), one whose handle is marked is removed at once.
TakeOver ==
    /\ curl.queued \/ curl.marked
    /\ curl' = [queued |-> FALSE, marked |-> FALSE,
                active |-> (curl.active \/ curl.queued) /\ ~curl.marked]
    /\ Begin(curl'.active /\ ~curl.active)
    /\ UNCHANGED <<at, queue, timers, ownVars, fileVars, agent, call, net, banned, due>>

\* OnHeadersAvailable is called with the first data of a successful response.  The
\* length is that of Content-Length or of Content-Range, if there is one.
Headers ==
    IF agent.headersSeen THEN {<<>>}
    ELSE {<<"headers">>} \cup (IF MayBeUnusual THEN {<<"no length">>} ELSE {})

\* _WriteCallback and OnData: the piece is in the file before its update is queued
OnData ==
    /\ curl.active
    /\ wire < Chunks
    /\ file.stream = "open"
    /\ content' = Append(content, wire + 1)
    /\ wire' = wire + 1
    /\ agent' = [agent EXCEPT !.headersSeen = TRUE]
    /\ \E headers \in Headers :
        /\ queue' = Sched(queue \o headers, "data")
        /\ used' = Failing(headers = <<"no length">>)
    /\ UNCHANGED <<at, timers, ownVars, file, disk, curl, call, net, banned, due>>

\* _CompleteCallback, at most once per request context, and the removal of the
\* handle; the mark of a waiting Remove stays behind
OnComplete(ready, task) ==
    /\ curl' = [curl EXCEPT !.active = FALSE]
    /\ queue' = IF agent.completed THEN ready ELSE Sched(ready, task)
    /\ agent' = [agent EXCEPT !.completed = TRUE, !.headersSeen = TRUE]

OnSuccess ==
    /\ curl.active
    /\ wire = Chunks
    /\ agent.headersSeen
    /\ OnComplete(queue, "completed")
    /\ UNCHANGED <<at, timers, ownVars, fileVars, wire, call, envVars>>

\* A 4xx comes instead of data; it is the only answer to a range past the end.
\* The other failures come at any time before the last piece.
OnFailure(kind) ==
    /\ curl.active
    /\ used.failures < MaxFailures
    /\ kind = "client" => ~agent.headersSeen
    /\ kind # "client" => wire < Chunks
    /\ OnComplete(queue, kind)
    /\ used' = [used EXCEPT !.failures = @ + 1]
    /\ UNCHANGED <<at, timers, ownVars, fileVars, wire, call, net, banned, due>>

\* DOFile::Append writes a part of the piece and throws, and with it OnData and the request
\* fail; when it writes nothing, this is OnFailure("local")
OnShortWrite ==
    /\ curl.active
    /\ wire < Chunks
    /\ file.stream = "open"
    /\ FileFaults /\ MayFail
    /\ used' = Failing(TRUE)
    /\ content' = Append(content, 0)
    /\ OnComplete(IF agent.headersSeen THEN queue ELSE Append(queue, "headers"), "local")
    /\ UNCHANGED <<at, timers, ownVars, file, disk, wire, call, net, banned, due>>

\* It throws on a stream that is closed
OnDataRefused ==
    /\ curl.active
    /\ wire < Chunks
    /\ file.stream # "open"
    /\ \E headers \in Headers :
        /\ OnComplete(queue \o headers, "local")
        /\ used' = Failing(headers = <<"no length">>)
    /\ UNCHANGED <<at, timers, ownVars, fileVars, wire, call, net, banned, due>>

-----------------------------------------------------------------------------
(***************************************************************************)
(* Time and the rest of the environment.                                   *)
(***************************************************************************)
TimerDue(task) ==
    /\ timers[task] > 0
    /\ timers' = [timers EXCEPT ![task] = @ - 1]
    /\ queue' = Sched(queue, task)
    /\ UNCHANGED <<at, ownVars, fileVars, curlVars, call, envVars>>

NetworkChanges ==
    /\ used.flips < MaxNetFlips
    /\ net' = ~net
    /\ used' = [used EXCEPT !.flips = @ + 1]
    /\ UNCHANGED <<at, queue, timers, ownVars, fileVars, curlVars, call, banned, due>>

\* The delay runs from Start
FallbackComesDue ==
    /\ HasMcc /\ Fallback = "delay"
    /\ st.state # "Created"
    /\ ~due
    /\ due' = TRUE
    /\ UNCHANGED <<at, queue, timers, ownVars, fileVars, curlVars, call, net, banned,
                   used>>

\* 15 minutes after the last ban
BanEnds ==
    /\ banned
    /\ banned' = FALSE
    /\ UNCHANGED <<at, queue, timers, ownVars, fileVars, curlVars, call, net, due, used>>

RestCall ==
    \/ Start \/ Resume \/ ResumeComplete \/ OpenFails \/ ReopenTerminates
    \/ CloseForCall \/ SetUri \/ SetPath \/ AnswerCall

Update ==
    \/ UpdateHeaders \/ UpdateData \/ UpdateTransferred
    \/ \E kind \in FailureKinds :
        FailedWithoutNetwork(kind) \/ FailedForGood(kind) \/ FailedForNow(kind)

DelayedTask ==
    \/ Retry \/ RetryAfterTransientError \/ StillNoNetwork
    \/ CheckProgress \/ NoProgress \/ SkipTask

FinishClose == FinishPause \/ FinishFinalize \/ FinishAbort \/ FinishWithError \/ AbortThrows

TaskThread == RestCall \/ Update \/ DelayedTask \/ FinishClose

CurlThread ==
    \/ TakeOver \/ OnData \/ OnSuccess \/ OnShortWrite \/ OnDataRefused
    \/ \E kind \in FailureKinds : OnFailure(kind)

Environment ==
    \/ \E task \in TimerTasks : TimerDue(task)
    \/ NetworkChanges \/ FallbackComesDue \/ BanEnds

Next == (\E op \in Operations : Call(op)) \/ TaskThread \/ CurlThread \/ Environment

\* The task thread and the curl worker always run, and time passes.  Neither the
\* server nor the network nor the clients owe anything.
Fairness ==
    /\ WF_vars(TaskThread)
    /\ WF_vars(TakeOver)
    /\ \A task \in TimerTasks : WF_vars(TimerDue(task))

Spec == Init /\ [][Next]_vars /\ Fairness

-----------------------------------------------------------------------------
(***************************************************************************)
(* Properties that hold however clients, updates and failures interleave.  *)
(***************************************************************************)

\* Every piece OnData wrote is either in BytesTransferred or in an update that is still
\* queued: neither a pause nor an error drops one, and a part of a piece that a short write
\* left in the file is never counted (download.cpp:660-664).
EveryPieceIsCounted ==
    st.state \notin {"Finalized", "Aborted"} =>
        st.transferred + Count(queue, {"data"}) = Count(content, 1 .. Chunks)

\* After Finalize or Abort nothing can reach the object any more, which may be
\* destroyed now: no task, no callback, no open file (_Finalize, _Abort); not even when
\* _Abort was cut short, unless that ended the process.
EndedIsQuiet ==
    st.state \in {"Finalized", "Aborted"} /\ at # "terminated" =>
        /\ queue = <<>>
        /\ \A task \in TimerTasks : timers[task] = 0
        /\ ~curl.queued /\ ~curl.active
        /\ file.stream # "open"

\* "Delete file only if this download is the creator/owner" (download.cpp:342)
ForeignFilesSurvive ==
    [][\A p \in Paths : disk[p] = "foreign" => disk'[p] = "foreign"]_vars

\* No REST call is in progress for ever (SchedBlock), even if it has to wait for callbacks
\* in Close: unless an exception ended the process.
CallsReturn == []<>(call = "none" \/ at = "terminated")

\* No download is stuck in Transferring: with the server silent, or a request
\* lost, the no-progress limit pauses it (_SchedProgressTracking).
LeavesTransferring == []<>(st.state # "Transferring" \/ at = "terminated")

-----------------------------------------------------------------------------
(***************************************************************************)
(* Properties that need unhurried clients and a stable network: what the   *)
(* design achieves when no call overtakes an update.  The findings show    *)
(* what breaks otherwise.                                                  *)
(***************************************************************************)

\* The file holds the pieces of the source in order and once each, across pauses,
\* failures, retries and resumes.
FileIsPrefix == \A i \in DOMAIN content : content[i] = i

\* A download that is paused, by the caller or by an error, makes no request and
\* keeps no open file ("safe to close now that no callbacks are expected", 322).
PausedIsQuiet ==
    st.state = "Paused" /\ ~IsTransientError(st) /\ at = "poll" =>
        ~curl.queued /\ ~curl.active /\ ~httpActive /\ file.stream = "closed"

\* "Current usage pattern is to create only one request at a time"
\* (http_agent.h:46), the download knows of it (_fHttpRequestActive), and it has none once
\* it is transferred: no late update or retry makes a second one.
OneRequestAtATime ==
    /\ ~(curl.queued /\ curl.active)
    /\ curl.queued \/ curl.active => httpActive
    /\ httpActive => st.state \notin {"Transferred", "Finalized"}

\* What a caller sees is the life cycle of DownloadLifecycle.
Lifecycle == INSTANCE DownloadLifecycle WITH
    state <- st.state,
    received <- Len(content)
ImplementsLifecycle == Lifecycle!Spec

-----------------------------------------------------------------------------
(***************************************************************************)
(* What the documentation says and the code does not keep.                 *)
(***************************************************************************)

\* The assertion of _ResumeAfterTransientError (download.cpp:377): a download in
\* transient error has no request in flight when its retry is due.
TransientErrorHasNoRequest ==
    Dequeue("transient") /\ net /\ IsTransientError(st) => ~httpActive

\* "fallback to CDN not allowed" (config_defaults.h:21)
NoFallbackIsKept == Fallback = "never" => conn.type # "CDN"

\* "MCC requests get an even shorter timeout" (download.cpp:392)
ConnectTimeoutFits ==
    curl.queued => agent.connectTimeout = ConnectTimeout(conn.type)
=============================================================================
