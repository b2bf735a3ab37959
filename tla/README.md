# do-client in TLA+

A verification development kept beside the Delivery Optimization client: the agent
(`src/client-lite`), the SDK that talks to it (`src/sdk-cpp`), what they share
(`src/common`) and the apt plugin (`src/plugins`). The agent downloads files on behalf of
local clients. A client makes HTTP requests to a port of the loopback interface, the agent
transfers the file with libcurl, from a configured cache host (MCC) or from the original
host (CDN), and writes it to the path the client named.

Every module is translated from the source. `PROJECT.json` names, for each definition, the
lines it stands for.

    tlc -workers 2 -config DownloadHurried.cfg MCDownload.tla
    tlapm TaskThreadProofs.tla

## The system

| Component | State | Operations | Used by |
|---|---|---|---|
| `CurlRequests` (`util/do_curl_wrappers.cpp`) | handles to add, active, to remove; the worker thread; `_fKeepRunning` | `Add`, `Remove` (waits for the worker), the worker's loop, completion, destructor | `HttpAgent` |
| `HttpAgent` (`util/http_agent.cpp`) | easy handle and its options; the request context with two flags | `SendRequest`, `Close`, header / write / completion callbacks | `Download` |
| `Download` (`download/download.cpp`) | `_status`, progress tracker, connection type, cache host, `_fHttpRequestActive`, file stream | start, pause, resume, finalize, abort, properties; the updates of the callbacks; three delayed tasks | `DownloadManager` |
| Connection policy (`download.cpp`, `mcc_manager.cpp`) | type, attempts, fallback time, bans | choice of host, fail-fast rule, ban | `Download` |
| `TaskQueue`, `TaskThread` (`threading/`) | multimap of tasks by time, condition variable, the thread | schedule at the end / in front / later, unschedule, wait for a task, destructor | all of the agent |
| `DownloadManager` (`download/download_manager.cpp`) | the table of downloads | one method per REST operation, each scheduled on the task thread and waited for | REST |
| REST controller, listener, connection (`ipc/`) | acceptor, connections, pending callbacks | accept, read, parse, call, reply, stop | the process |
| Port advertiser, port finder | `restport.<pid>` files | delete old, write own / find newest, read | process / SDK |
| Process (`exe/docs.cpp`) | run lock, io service, signals | start, SIGTERM, SIGHUP, destruction | - |
| Configuration, cache ban list | JSON files with a refresh interval; bans by host | read, refresh, report, purge | `Download` |
| HTTP parser, URI library (`common/lib-dohttp`) | parser state; components of a URI | feed bytes; parse, encode, decode | agent, SDK |
| SDK REST client (`sdk-cpp/src/do_download.cpp`, `internal/rest`) | id, connection to the agent | make, start, pause, finalize, abort, status, `download_url_to_path` | applications, apt plugin |
| Log (`trace/do_log.cpp`) | a buffer, flush thread, files | write, flush, rotate, close | all of the agent |
| apt plugin | none | one download per acquire message | apt |

### How they interact

Four kinds of thread meet in the agent:

* the *io thread* runs the REST callbacks one at a time. A callback parses the request,
  schedules a task on the task thread and blocks until it has run (`TaskThread::SchedBlock`);
* the *task thread* runs everything that touches a `Download`. It may block in
  `HttpAgent::Close`, which waits in `CurlRequests::Remove`;
* the *curl worker* drives the transfers and runs the HTTP callbacks. A callback writes the
  file itself and schedules an update of the status on the task thread. It never waits for
  the other two;
* the *flush thread* of the log.

The processes meet in the port files, in TCP connections that carry one request after the
other, each with its response, and in the downloaded file.

### What is hard here

* **Order.** Calls are put in front of the task queue, updates of callbacks at its end; a
  call may overtake updates that are older than it. Delayed tasks are checked against the
  state of the moment they run in, not of the moment they were scheduled in.
* **Callbacks against destruction.** A file is closed, and an object destroyed, after a wait
  that must have ended every callback.
* **Waits.** Three condition variables, two events and two joins; the predicates look at
  part of the state only.
* **Death and restart.** The agent keeps nothing but port files. A client may meet an old
  file, an empty one, or another agent than the one it began with, and repeats calls whose
  answer it has lost.
* **Pieces.** The REST parser is fed whatever a read returns.
* **Retries and fallback.** Transient errors, retries, the no-progress limit, bans and the
  fallback time all change the same few fields.

What makes each component correct is stated as its properties, listed under the runs below.
The list of hazards in `PROJECT.json` has the line where each one bites.

## The modules

| Module | Stands for |
|---|---|
| `CurlRequests` | the worker of libcurl's multi handle, with callers and the destructor |
| `TaskThread` | the timed queue, `_DoPoll`, the callers that wait, the destructor |
| `TaskQueueSpec` | abstract: a queue without a clock; what `TaskThread` implements |
| `TaskQueue` | the same queue as operators, used by `Download` |
| `ConnectionPolicy` | pure operators: choice of host, how a request ends, classification of failures, time-outs |
| `Download` | one download on the io thread, the task thread and the curl worker |
| `DownloadLifecycle` | abstract: the life of a download as a client sees it |
| `HttpParser` | pure operators: the incremental parser |
| `RestConnection` | one connection between a client and the agent, byte by byte in symbols |
| `Uri` | pure operators: URIs, their parts, encoding and decoding |
| `RestApi` | requests from the SDK's call to the table of downloads and back |
| `SdkClient` | `download_url_to_path` against an agent that dies and restarts |
| `AptPlugin` | the callers of `SdkClient`: an application, or the apt plugin with its files and answers |
| `CacheHosts` | where the cache host comes from and when it is banned: two files, two threads, the bans |
| `DOLog` | the log: buffer, flush thread, files, rotation, close |
| `AgentShutdown` | the end of the process: signals, the destructors of `Run()`, the calls and tasks under way |
| `CurlRequestsProofs`, `TaskThreadProofs`, `AgentShutdownProofs`, `DownloadProofs`, `CacheHostsProofs`, `AptPluginProofs`, `DOLogProofs`, `RestProofs` | theorems |
| `MC...` | instances for TLC |

Definitions whose comment begins with "Variant:" are plausible mistakes in the definition
that follows them. No specification uses them. Each property has been seen to fail when
its variant takes the place of the definition (`"mutants"` in `PROJECT.json`).

### CurlRequests

`toAdd`, `active` and `toRemove` are `_handlesToAdd`, `_activeHandles` and
`_handlesToRemove`; `worker` is where the thread is in its loop. One action is one region of
code under `_mutex`: `SendRequest` (`Add`), `RemoveInactive`, `RemoveBegin` and `RemoveEnd`
(`Remove` without a wait, up to the wait, after it), `TakeOver` (the top of `_DoWork`),
`Wake`, `PerformReturns`, `Complete` (of any set of active handles), `Exit`, `DestroyBegin`,
`DropActive`, `DestroyEnd`. The destructor's `RemoveAll` does not hold `_mutex`: it drops one
handle at a time (`DropActive`), with a `Remove` in between if there is one; that both are at the
same vectors is a data race, which is taken to do no harm. What libcurl does in a transfer is that it may end at any time. `request` is
history: whether the caller may still expect a callback. One caller calls `Remove` at a
time, because the only caller is the task thread.

### TaskThread, TaskQueueSpec, TaskQueue

`ops` is the multimap: entries with a time and an insertion number. The lock is held in each
action, so an action is one region of code under `_taskQMutex`; a wait of the thread is two
states, `forever` and `until`, and a notification is a flag, so a notification that comes
while nobody waits is lost, as with the condition variable. Wake-ups may be spurious. `_AddFront` gives a task a time just before the first one;
here that is one unit, so times may be negative. `Destroy` is only taken when no call is in
progress, since the manager that owns the thread outlives the REST controller.

`TaskQueueSpec` has no time: a delayed task becomes ready whenever it likes. `TaskThread`
implements it (`ImplementsQueue`), and this is the justification for the queue and the timers
of `Download`. The mapping is at the end of `TaskThread`: the queue is the tasks that are due, in
the order of their times and of their insertion (`Ready`), and of the delayed ones it is known how
many there are of each kind (`Delayed`).

### Download, ConnectionPolicy, DownloadLifecycle

The file is `Chunks` pieces; bytes are counted in pieces. `queue` and `timers` are the task
thread's queue, with one kind of task per lambda in the code; `at` is where the task thread
is, polling or waiting in `Close` for the sake of an operation. `curl` and `wire` are the
download's one handle in `CurlRequests`, with the same three lists as Booleans and the mark
that stays behind. `content` is what was appended to the file, piece by piece: resuming at
the wrong place shows as a piece twice or out of order.

* Calls (`Call`, then `Start`, `Resume`, `ResumeComplete`, `CloseForCall`, `SetUri`, `SetPath`,
  `AnswerCall`): `_PerformStateChange` and `SetProperty` in `download.cpp`. Those that close
  the request have a second half (`FinishPause`, `FinishFinalize`, `FinishAbort`), taken
  when the worker has let go.
* Callbacks (`OnData`, `OnSuccess`, `OnFailure`, `OnDataRefused`): `http_agent.cpp` together
  with `Download::OnHeadersAvailable`, `OnData`, `OnComplete`.
* Updates (`UpdateHeaders`, `UpdateData`, `UpdateTransferred`, `FailedWithoutNetwork`,
  `FailedForGood`, `FailedForNow`): the lambdas those callbacks schedule.
* Delayed tasks (`Retry`, `RetryAfterTransientError`, `StillNoNetwork`, `CheckProgress`,
  `NoProgress`, `SkipTask`): `_SchedProgressTracking`, `_HandleTransientError` and the retry of
  `OnComplete`.
* Errors of the file system (`OpenFails`, `CloseThrows`, `ReopenTerminates`, `FinishWithError`,
  `AbortThrows`, `OnShortWrite`), with `FileFaults = TRUE`: a file fails to open, to close, or
  takes a part of a piece, which is a 0 in `content`. `file.stream` is closed, open, or lost:
  after a `close()` that fails `DOFile` keeps its descriptor, and every further try fails too.
  `_Pause` and `_Finalize` hand that error to their caller and leave the state as it was; in
  the progress check, or when `_Resume` assigns the new stream, whose assignment is
  `noexcept`, the process ends; `_Abort` goes on without cancelling the tasks, and leaves that
  to `~Download`. That another file may get the descriptor that was kept is left out.

An exception in a delayed task, which nobody catches, is the state `terminated`.

How a request ends is a status class, a result of libcurl and what the callbacks returned
(`Endings`); `FailureOf` is what `OnComplete` is told, so the kinds of failure that `Download`
chooses from are those the code can tell apart. `RangeOverflows` is the checked arithmetic of
`MakeRange`: a request for a negative range throws. With `PlainServer = FALSE` a server may
announce no length, or answer a range request with the whole file; such an answer counts as
one of `MaxFailures`.

Abstractions: one download, as downloads share nothing but the ban list (`CacheHosts`) and the
two threads; times only as "due" or "not due"; a release build, where assertions do nothing;
a status of success is 200 or 206; the pause of 30 s and the retry intervals have no length. `Unhurried`
restricts clients to calling when no update is pending; with it the properties hold that the
design aims at, without it those that hold in any case.

### AgentShutdown

`main` is where the main thread is: in the wait of `ProcessController`, and then in the
destructors of what `Run()` made, from the last to the first, each an action that adds to
`gone`: `StopListening`, `Drain` (the wait for the calls under way) and `DestroyController` of
`~RestHttpController`; `DestroyPolicy`, `StopCurl`, `JoinCurl`, `DestroyDownloads`, `StopTasks`,
`JoinTasks` of `~DownloadManager`, in the order its members are declared in; `StopIo`, `JoinIo` of
`~BoostAsioService`. `io` and `accept` are the io thread with its pending accept, `conn` the
clients' connections from `Connect` to `Reply`, `count` and `signaled` the `WaitableCounter`,
whose lock is held from `Leave` to `LeaveEnds`; `task` and `queue` are the task thread. A signal
interrupts any thread: `Terminate` and `Hangup` run the handler there, and the thread is
`stuck` when it holds the mutex that the handler locks (`Holds`): the io thread and the task thread
while they push or take, and, within what is one action here, the task thread and the curl worker
when they schedule, and the main thread in `~Download` and `~TaskThread`. Whoever needs that mutex
then waits with it (`QueueIsFree`).

C++ does not say what the use of a destroyed object does: here it works as before, or the
process crashes at some later moment (`Crash`), and `misuse` records what was used. A call is
*late* when its handler was posted in time but enters the counter after the destructor has
seen it at 0. Such a call is real: it uses the controller and the manager when they are gone,
or it waits for a task thread that has ended, for 49 days, and with it the join of the io
thread. `OnlyStragglersMeetTheGone` says that late calls are the only ones, next to an accept
that completed before its acceptor was closed, whose handler works on the listener and so on the
controller it is a member of, and which nothing waits for (`OnAccept`), a SIGHUP after the task thread was joined, and a
download that was never finalized: its `HttpAgent` calls `Remove` of a `CurlRequests` that is
gone, since `_curlOps` is declared after the downloads.

Abstractions: the queue is the set of the kinds of task in it, run in any order, since
`TaskThread` has the order and the destructor of the queue, and `CurlRequests` that of the
worker; a delayed task that makes a request while `CurlRequests` ends throws and ends the
process (`RunWork`). The mutex of the log, which the handlers lock too, is left out.

### HttpParser, RestConnection

A message is a sequence of symbols, one for each text between line ends and one each for CR
and LF. `OnData` is the parser's loop over its four states. `RestConnection` has both ends
of a connection with this parser, since agent and SDK share it: `OnRead(n)` takes any number
of the symbols that have arrived. A connection carries up to `MaxRequests` requests, the
next after the response to the one before. The SDK keeps one connection for all its requests
and makes a new one when that is lost (`do_http_client.cpp`).

A request may be anything: lines that end otherwise, a length that is no number, no request line,
more than the buffer holds. One thing is assumed of it (`RestConnectionAssumption`): if it is well
formed, its Content-Length is that of its body, as HTTP has it. Without that, the pieces do matter:
`_ParseBuf` takes the body when as many bytes are there as were announced, so of a
body that is longer than announced it depends on the reads whether this moment comes, or is
passed over and the connection waits for a close. The SDK's requests have no body.

### Uri, RestApi

A text is a sequence of delimiters and words, so that what separates, what is encoded and
what is not can be told apart, and nothing else. `ParseUri` is `inner_parse_out::parse_from`
and `write_to`, one operator for each part of a URI; `Join` is `uri_components::join`;
`EncodeQuery`, `Decode`, `SplitPath` and `SplitQuery` are the functions of those names.

`SdkCreate`, `SdkCall` and `SdkGetStatus` build the target of a request as `CDownloadImpl` does;
`OtherCall` is a request another local program makes, well formed or not. `Parse` is what
happens before a handler runs, from the request line to `RestApiParser`: its result is the
API and its parameters, or what was thrown. The actions `Serve...` are the handlers of
`rest_api_request.cpp` with the method of `DownloadManager` each calls, and what decides
about its success in `Download`; `Refuse` answers what was thrown before. `table` is
`_downloads`, `asked` is history: what the caller of the SDK wrote. The model checks the names
of all parameters before it decodes the first value; the code goes one by one, so it may
report the other of two errors, with the same effect. The listener is bound to the
loopback interface, so the comparison of the remote address is left out.

A `setproperty` request that names its download always fails: its `Id` is the first property
in the order of `_knownParams`, and `Download::SetProperty` throws for it. One without any parameter sets nothing and succeeds. `SetUri` and `SetPath`
of `Download` are therefore reached only by calls of `DownloadManager::SetDownloadProperty`, as
the tests of the agent make them.

### SdkClient

The client is a sequence of calls (`step`), each with its attempts (`stage`); the agent is
`down`, on its way through the start (`StartListening`, `DeleteOlderPortFiles`, `OpenPortFile`,
`WritePort`) or `up`, and `Die` is possible at any step. `files` holds the port files of
agents dead or alive in the order of their times. `table` is the agent's table of downloads,
which dies with it; the life of a download there is what `DownloadLifecycle` allows. A
request in transit is processed or not, its answer arrives or not. Not modelled: the reset of
a connection on which an answer is waiting unread, and the limit of the REST time-out.

### AptPlugin

`AptNext` puts the agent and the client of `SdkClient` under one of two callers. An
*application* makes one call, may cancel it, and may pause the download from another thread.
The *apt plugin* reads a command (`ReceiveAPTMessage`, with the branch of `WorkLoop` it leads
to), makes the call with a path nobody has used (`BeginCall`), and then renames, hashes and
answers (`Rename`, `Hash`), or deletes and answers (`DownloadFailed`: the call failed, or the file
could not be renamed). The client of the SDK, with
its connection, is the same for all commands. `temp` is the file the agent writes: it follows
the agent's table (`FileFollows`), so that it is there after a start that failed and after the
death of the agent. Left out are the texts: note that the `Message` of a failure is the path
of the file and not what went wrong (`main.cpp:254`), and that the renamed file stays when
hashing fails.

### CacheHosts

`disk` holds the file of the administrator and that of the SDK, `tree` and `next` what each
`JsonParser` has and when it reads again. A query takes three steps: the look at the time and
the file (`TryRefresh`), the new tree (`TakeTree`), the lookup; the task thread and the io thread
take them in any interleaving, and the overlap of a new tree with a lookup is a data race,
which ends the behaviour in `broken`. Properties speak of behaviours as far as that. One
download per original host asks for delay and host where `_Start` and `_Resume` do, and its
failures are reported where `OnComplete`'s task does, against the host and the type of that
moment (`download.cpp:704`). The properties judge the bans by the host that the failed request went
to (`culprit`, `blamed`). The two differ when a resume comes in front of the update of a failure:
then the failure is reported against the host of the new request, or of a CDN request against
the cache. That happens, and `overtaken` notes it; the two properties about bans are stated for as long
as it has not. `BanIsNotTooWide` is false without this exception (TLC finds a failure of the CDN
that is reported against the cache with `MaxCalls = 3` and `MaxHups = 0`). What the download decides then is any choice, as
`ConnectionPolicy` has the details.

### DOLog

A line is the number of the call that wrote it, a file the sequence of its lines, and its
name the second it was created in. `Write` is one call of `WriteV`, with the flush, the
rotation and the second try of a line that does not fit; `FlushThreadProc` one round of the
thread; `CloseBegin`, `Join`, `WriteStats` and `CloseEnd` the destructor, whose statistics are
logged through the logger itself. The environment fills the disk and sets the clock back
once; `trouble` notes both, and a second file of the same second. Not modelled: a `Write` that
races `Close`, which the agent excludes by destroying the log last, and what a line says.

## What the runs check

All runs allow the system to stop (`CHECK_DEADLOCK FALSE`): a client need not call, and every
bound of the environment can be used up.

| Run | Instance | Shows |
|---|---|---|
| `curl_requests` | 3 handles | `OnlyOpenRequestsRun`: no callback after `Remove` returned. `SleepsOnlyWhenIdle`: the worker knows of whatever there is to do. `RemoveReturns`, `DestructorEnds` |
| `task_thread` | 1 tag, 1 caller, 4 tasks, delays 0 and 2, clock to 2 | `WakesInTime`: no task overslept. `OrderIsKept`, `CallIsPending`, `SchedBlockEnds`, `DestructorEnds`, and `ImplementsQueue` |
| `rest_connection` | 3 requests of 6 kinds, a buffer of 13 symbols | `SplitsDoNotMatter`: the parser's state is that of the whole input at once, and its buffer never exceeds its capacity (with `OnDataUnlimited` in place of `OnData` it does). `RequestIsHandedOver`, `ExchangeEnds` |
| `sdk_client` | `AptPlugin`: an application, or a plugin with 2 commands; 2 starts of the agent, an old port file, 2 reads of a port file, 2 attempts, 2 downloads | `Returns`, `OkIsEarned`, `EndedIsForgotten`, `NoSecondDownload`, `NoServiceOnlyIfDown`. `AcquireIsAnswered`: one true answer per acquire, no file left behind |
| `rest_api` | 2 downloads, the first with 8 URLs or 10 paths, 14 requests of others | `ArgumentsArrive`: URL and path reach the table as written. `FailedCallChangesNothing`. The first also has the URL for the cache, with the resource and the original host |
| `agent_shutdown` | 2 clients, 2 requests, 1 SIGHUP and a SIGTERM at any step | `CountedCallFindsAgent`: no call that was counted meets a destroyed object, up to its release of the counter's lock. `OnlyStragglersMeetTheGone`: who does. `ShutdownEnds`: SIGTERM ends the process, unless a handler is stuck or a call late |
| `download_hurried` | 1 piece, 3 calls at any time, 2 failures, unusual answers or errors of the file system, 2 changes of the network | `EveryPieceIsCounted`, `EndedIsQuiet`, `CallsReturn`, `LeavesTransferring` |
| `download_unhurried` | 2 pieces, 4 unhurried calls, 2 failures, a cache with a fallback delay | `FileIsPrefix`, `PausedIsQuiet`, `OneRequestAtATime`, `ForeignFilesSurvive`, `ImplementsLifecycle` |
| `cache_hosts` | 2 original hosts, 2 contents of the admin file and 1 of the SDK's, 1 edit, 2 calls, 1 SIGHUP, 2 failures, clock to 2, intervals of 2 | `ChangesTakeEffect`: what is in a file for an interval is what is used. `BannedHostIsAvoided`, `BanIsNotTooWide`: a host that failed is avoided for the time of a ban, and no other, and for no other original host |
| `do_log` | a buffer of 2 lines, files of 2, 2 files kept, 5 lines, clock to 5 | `LinesAreInOrder`, `RecentLinesAreKept`: the log is the end of what was written, in order and once. `SpaceIsBounded`, `EverythingIsWritten` |

Why the bounds are enough. `CurlRequests`: one handle waits, one is queued, one is active.
`TaskThread`: two tasks of a tag, one of a caller and the destructor's, with equal,
different and passed times, meet in every order. `RestConnection`: the buffer holds the
longest regular message and is overrun by one kind of request; the second request sees what
the first leaves in the parser, the third what the second leaves. `AptPlugin`: one death
within the call and the restart after it, with the file of the dead agent present and that
of an older one at another port; a second restart repeats this from the same state. The
second command meets what the first left: a connection, a download, a file. `RestApi`: the URLs have each optional part of a URI
and each kind of delimiter, the paths one of each class of characters; requests do not
depend on one another except through the table, for which two downloads suffice. `Download`: two pieces tell "the next" from "the
first" and from "the end"; four calls are start, pause, resume and an end, of which the hurried run has
three at a time; two attempts are what the policy counts; two changes of the network lose and
regain it; a transient error and an error of a file
meet in the hurried run, where one piece is enough, as the server may repeat it and the proofs are for
any length. `MaxNoProgress` is 1 or 2 instead of 30 so that the limit is reached. There is one
path, as REST clients cannot change it (see `RestApi`). `CacheHosts`: two original hosts tell
"this one" from "all"; the clock passes the end of an interval that began at 0; the two calls
are two starts, or a start and a pause; one edit turns any content into any other. A resume after a
pause takes a third call: with `MaxCalls = 3` and without the SIGHUP the same properties hold (2.0
million states), with both the run takes too long to be one of this project's; the theorems are for any
number. `AgentShutdown`: one client
is in a call when the other connects, is accepted, or has its callback posted; with two requests
a call that is late follows one that was counted; one SIGHUP meets every place of every thread.
`DOLog`: five lines fill the buffer twice and a
file once, three old files make the logger delete from the start, and the clock passes
every file's second.

### Fairness

Threads run: the actions of the curl worker, the task thread, the io thread and the client's
thread are weakly fair, as is the return of a thread whose wait is over. Time passes: a
delayed task becomes due. Clients, the server, the network, the end of a transfer, deaths
and starts of the agent have no fairness. The curl worker's waits are bounded by a period of
2 s except for the sleep, whose end needs a notification, and so `Wake` is enabled only by
one. Strong fairness is assumed in two places of `AgentShutdown`: for the main thread, which
needs mutexes that others hold for a few instructions at a time, and for the tasks of a call
and of the stop, which are not overtaken for ever since the queue that is a set there is in
order. The two liveness properties of a download and `ShutdownEnds` have the form "again and
again": a call returns each time, Transferring is left each time.

### Disagreements with what the source says

The runs that expect a violation show a disagreement between the code and a comment, an
assertion or a test of the repository; `"findings"` in `PROJECT.json` has the quotes.

* `download_overtake` (`FileIsPrefix`): a resume that overtakes the update of the last data
  asks for that data a second time.
* `sdk_paused` (`OkMeansFinalized`): a download paused by another thread is aborted, and its
  caller told success.

Six more are stated, and no run of this project shows them:

* `ForeignFilesSurvive` with two paths, `Unhurried = FALSE`, `SendErrors = TRUE`, `Chunks = 1` and
  three calls. `download.cpp:342` says "Delete file only if this download is the
  creator/owner". `_Start` notes the ownership before it makes the request; when the request
  fails, the state stays Created, the path may still be set to that of an existing file, and
  an abort deletes that file. It takes a caller of `SetDownloadProperty`, which REST clients
  are not.
* `TransientErrorHasNoRequest`. `download.cpp:377` asserts that no request is active when a
  transient error ends. The task of an old transient error is not cancelled by a resume; run
  without a network, it takes the resumed download back into transient error while its
  request runs. TLC finds it with one piece, three hurried calls and two changes of the
  network.
* `NoFallbackIsKept`. `config_defaults.h:21` says of the value -1 that "fallback to CDN [is]
  not allowed". A ban of the cache host makes `download.cpp:528` choose the original host
  whatever that value is. With `HasMcc = TRUE`, `Fallback = "never"` and unhurried clients
  TLC finds a failure, a ban and a resume.
* `NoRequestLost`, in `CurlRequests.tla`: the mark of a `Remove` whose transfer completed by
  itself stays, and removes the next request of that handle. The progress check notices it
  later. TLC finds it with one handle.
* `FileIsPrefix` with `FileFaults = TRUE`. A short write fails the request and leaves a part of a
  piece in the file (`do_file.cpp:56`); the resume asks for that piece again and appends it.
* `ConnectTimeoutFits`. `download.cpp:392` gives requests to the cache a shorter connect
  time-out; `http_agent.cpp:191-220` sets the option when the easy handle is created and does
  not change it when the type of connection does. TLC finds it with `HasMcc = TRUE` and
  `Fallback = "custom"`.

Also known: `download.cpp:403` asserts that a range is only asked for when the length is known
and not yet reached. A server without a length, or one that ignores ranges, makes it false,
and in a release build `MakeRange` throws: to the caller of a resume as an error, in the task
of a retry to nobody, which terminates the process (`RangeOverflows` in `Download`; the
properties of `download_hurried` name the terminated state).

Also known: when `start` fails in `download_url_to_path`, the download it made stays in the
agent's table in the state Created (`do_download.cpp:114`) until the
agent exits. After a `close()` that failed, a finalize never succeeds, and an abort leaves the
file on the disk. Each resume adds its Range header to the list of the one before
(`http_agent.cpp:82`), so the second sends two.

## What is proved

For every value of the constants, by TLAPS:

| Theorem | States |
|---|---|
| `CurlRequestsProofs!TypeCorrect` | types |
| `CurlRequestsProofs!NoCallbackAfterRemove` | `OnlyOpenRequestsRun` |
| `CurlRequestsProofs!NoRemoveStranded` | `WaitingRemoveIsMarked`: a `Remove` that waits has its handle marked |
| `CurlRequestsProofs!NoLostWakeup` | `SleepsOnlyWhenIdle` |
| `TaskThreadProofs!TypeCorrect` | types |
| `TaskThreadProofs!NoTaskOverslept` | `WakesInTime` |
| `TaskThreadProofs!OrderCorrect` | `OrderIsKept` |
| `TaskThreadProofs!NoCallLost` | `CallIsPending` |
| `TaskThreadProofs!QueueImplemented` | `ImplementsQueue`, that `TaskThread` implements `TaskQueueSpec` |
| `AgentShutdownProofs!TypeCorrect` | types |
| `AgentShutdownProofs!CountedCallsAreSafe` | `CountedCallFindsAgent` |
| `AgentShutdownProofs!MisuseIsKnown` | `OnlyStragglersMeetTheGone` |
| `DownloadProofs!TypeCorrect` | types |
| `DownloadProofs!NothingOutlivesTheEnd` | `EndedIsQuiet` |
| `DownloadProofs!NoPieceIsLost` | `EveryPieceIsCounted` |
| `DownloadProofs!OthersFilesSurvive` | `ForeignFilesSurvive`, if `SendErrors = FALSE` |
| `DownloadProofs!FileStaysPrefix` | `FileIsPrefix`, under `Calm` |
| `DownloadProofs!PausedStaysQuiet` | `PausedIsQuiet`, under `Calm` |
| `DownloadProofs!OneRequest` | `OneRequestAtATime`, under `Calm` |
| `DownloadProofs!LifecycleImplemented` | `ImplementsLifecycle`, under `Calm` |
| `CacheHostsProofs!TypeCorrect` | types |
| `CacheHostsProofs!ChangesTakeEffectHolds` | `ChangesTakeEffect` |
| `CacheHostsProofs!BannedHostIsAvoidedHolds` | `BannedHostIsAvoided` |
| `CacheHostsProofs!BanIsNotTooWideHolds` | `BanIsNotTooWide` |
| `AptPluginProofs!TypeCorrect` | types |
| `AptPluginProofs!OkIsEarnedHolds` | `OkIsEarned` |
| `AptPluginProofs!EndedIsForgottenHolds` | `EndedIsForgotten` |
| `AptPluginProofs!NoSecondDownloadHolds` | `NoSecondDownload` |
| `AptPluginProofs!AcquireIsAnsweredHolds` | `AcquireIsAnswered` |
| `AptPluginProofs!NoServiceOnlyIfDownHolds` | `NoServiceOnlyIfDown` |
| `DOLogProofs!TypeCorrect` | types |
| `DOLogProofs!LinesAreInOrderHolds` | `LinesAreInOrder` |
| `DOLogProofs!RecentLinesAreKeptHolds` | `RecentLinesAreKept` |
| `DOLogProofs!SpaceIsBoundedHolds` | `SpaceIsBounded` |
| `DOLogProofs!EverythingIsWrittenHolds` | `EverythingIsWritten` |
| `RestProofs!TypeCorrect` | types of `RestConnection` |
| `RestProofs!SplitsHarmless` | `SplitsDoNotMatter` |
| `RestProofs!HandedOver` | `RequestIsHandedOver` |
| `RestProofs!FailuresAreHarmless` | `FailedCallChangesNothing` of `RestApi` |

`Calm` is `Unhurried = TRUE`, `PlainServer = TRUE`, `SendErrors = FALSE`, `FileFaults = FALSE` and
`MaxNetFlips = 0`.

Each follows from an inductive invariant of its module, with a lemma per action or group of
actions.

* `CurlRequests` assumes only that `None` is no handle. Its four invariants become inductive
  with two facts. A handle is never both queued and driven: without it, `TakeOver` could
  drive a request that `Remove` is about to close in the other list. And a worker that has
  been notified out of its sleep has nothing active yet: without it, the sleep could begin
  with a running transfer.
* `TaskThread` assumes that the destructor's task, the tags and the callers are different
  things and that delays and bounds are naturals. Its invariants become inductive with
  `EntriesInOrder`: insertion numbers are unique and below the next one, and a task
  scheduled without delay is due. The second half is what makes equal times keep their
  order, since the clock may advance between two insertions but never goes back.
  For the refinement, the place of a task in the queue is the number of those not after it
  (`PlaceIn`), and different tasks have different places. So each operation can be looked at through
  the places it changes: an insertion at the end changes none, one in front shifts all by one, the
  task that is taken had the first. When the clock advances, what was due stays in front of what
  becomes due, and the number of delayed tasks of each kind goes down by what becomes due.
  `Unschedule`, a filter by a recursive function in `TaskQueueSpec`, is followed place by place, by the
  well-foundedness of `<`.
* `AgentShutdown` assumes that its bounds are naturals. `CountMatches` says what the counter
  is worth at each place of the io thread and that its event is set exactly at 0,
  `CallIsOnce` that a call is in one place, `GoneInOrder` that only the acceptor is gone until the
  controller is, and that the controller never goes before it, and the task thread has ended before its queue is, `DrainWaits` that after
  `Drain` only a late call is under way, or one that still holds the counter's lock. `WorkHasDownload` and `CountedFinds` tie the tasks
  and the history to them.
* `Download` assumes `DownloadAssumption`; the theorems hold for hurried clients, faults of
  files, unusual servers and changes of the network, with any bounds. `EndedIsQuiet` rests on
  one fact, `CallIsOnce`: the task of a call is in the queue exactly while the call waits for
  it. So when `_CancelTasks` runs, the call's task is not in the queue, and what it takes out is
  all there is. That no callback adds to the queue afterwards is `ClosingHasNoRequest`. The
  queue is filtered by a recursive function; that nothing is left of it is proved by
  looking at the least index where something would be (`LeastElement`). `EveryPieceIsCounted` needs lemmas about counting in a sequence that grows at its end
  and shrinks at its front (`CountAppend`, `CountTail`, ...). `ForeignFilesSurvive` follows from
  `CreatedIsOwn`, a file this download created is at the path it has now, which needs that a
  download in the state Created has created none (`CreatedIsFresh`). `SendErrors` breaks just
  that, see the disagreements.
* What `Download` achieves under `Calm` rests on `CInv`, about what the queue may hold in each
  state: a call, or the update that `_Resume` schedules, is only ever the next task; the task
  of `OnComplete` is the last update of its request, whose handle is gone by then
  (`CompletionIsLast`); a download that is Transferring without a request has no updates to
  come (`RequestIsKnown`). So no update is pending when a request is made
  (`RequestWhenQuiet`), and by `EveryPieceIsCounted` the range begins at the end of the file:
  from there `NextPiece` keeps the file a prefix. `LengthIsKnown`, that the update of the headers is
  ahead of the first piece's, is what keeps `MakeRange` from throwing. Each condition of
  `Calm` is needed: the disagreements have a hurried call, a network that comes and goes, a
  short write and the unusual server; with `SendErrors` a resume whose request is refused leaves
  the download Paused with its file open, which TLC finds with three calls.
* `CacheHosts` assumes of its constants that intervals are positive, bounds naturals and a delay
  in a file a number (`DelaysAssumption`; `JsonParser::Get` takes anything else for no value). `ChangesTakeEffect`
  speaks of the moment of a lookup, but what makes it true happens before: a file is never
  trusted for longer than an interval, and one that has changed for no longer than an interval
  from its change (`TrustEnds`); and between `TryRefresh` and `TakeTree`, what a thread has read can
  differ from the file only if the file was edited at this very moment (`JustRead`), as steps
  of a query take no time. `QueriesOK` says which keys each query has left. For the bans,
  `BansAreReports` ties the times of unban to the history of failures as long as `overtaken` is false;
  it needs that the host and the type which `OnComplete`'s task looks at are still those of the request
  that failed (`CulpritIsKnown`). The two action properties then follow from the choice of host in `_Start` and `_Resume`.
* `AptPlugin` includes the agent and the client of `SdkClient`, and its invariant covers the
  application and the plugin. Its heart is `LostWithTable`: a connection is lost only by the death
  of the agent, whose table goes with it. So a create that is repeated begins with an empty
  table (`OnlyCurrent`), and an answer that arrives is still true (`AnswersAreTrue`), because on a living
  connection there is one request at a time (`Wire`) and nobody else has the download's id. An
  error in place of a status therefore means that the download is gone, and an abort or a
  finalize that was refused leaves nothing behind (`EndedIsForgotten`). `OkIsEarned` needs to know why a
  download is aborted (`AbortHasReason`) and that a transfer that was seen to be over stays over
  (`TransferredStays`). `NoServiceOnlyIfDown` rests on `PortIsFound`: the last port file is that of the
  agent that is up. `AcquireIsAnswered` adds the temporary file: whole with the end of the
  transfer, gone before the next command (`WholeWhenTransferred`, `BetweenCalls`).
* `DOLog` assumes a buffer of more than one byte and at least one file and one byte per file. The
  part of its invariant that a round of the logger changes (`Logged`) is stated of any directory, stream
  and buffer, so that one lemma each for `Flush`, `RotateLogFiles` and a line that is appended can be chained
  through `WriteV`, which does several of them in one step. `LinesAreInOrder` needs `WritesNewest`: the
  stream's file is the newest, so that what is flushed is appended at the end of everything;
  the name of a file is the second it was created in, which is why a clock that is set back breaks
  it. `SpaceIsBounded` needs `SizeIsKnown`, and that a stream that still writes had room when it was last
  looked at (`HasRoom`). `RecentLinesAreKept` needs that `_ClearOlderLogFilesIfNeeded` leaves exactly the newest
  `MaxFiles` (`NewestOf`, about cardinalities, from the library's facts on finite sets and the
  well-foundedness of `<`): what is removed is a prefix of what was logged, and something is removed only when that many stay.

* `RestConnection` assumes that a response fits into the buffer (2048 bytes in the code, a
  couple of hundred in a response) and that a well-formed request announces its body, see above. Two
  facts about the parser carry the proof. `OneMorePiece`: feeding a parser that has not failed with
  a piece gives what a new one makes of all its buffer at once; fields that were taken
  stay taken, because the first CR after them does not move when bytes are appended, and a parser
  that waits goes on from where it stopped (`FieldsGrown`, `InPieces`). And `TrackOnData`: as
  long as the bytes so far are a part of a message, the parser is at a line of that
  message (`OnTrack`), it is complete only with the last byte, and fails only for a message that
  no parser takes. The inductive invariant adds the protocol: either nothing is under way and the
  agent's parser is new (`AgentIsIdle`), or the request is on its way (`Asked`), has been handed to
  the controller (`Taken`) or answered (`Answered`), and what is in the buffer and on the wire
  together is the one message of that phase. Without it, the bytes that are left of one request
  could become part of the next.
* `FailuresAreHarmless` is about `RestApi` with any downloads, URLs and requests. All handlers but one
  change the table only with an answer of success (`ServedOrUnchanged`). A `setproperty` goes through several
  properties and stops at the first that fails, so what was set before it could stay; it does
  not, because a download is found by its `Id`, the `Id` is the first of `KnownParams`, and it cannot be set
  (`NothingIsSet`). The invariant it needs is that the table is a function.

Where the code loops over data, the models have recursive functions, not RECURSIVE operators, so
that they can be unfolded in proofs. Induction over what such a function does is a proof by the
well-foundedness of `<` on the naturals (`LeastElement`), at each place that needs it.

Model-checked only: the liveness properties, which need fairness (`RemoveReturns`, both
`DestructorEnds`, `SchedBlockEnds`, `ExchangeEnds`, `Returns`, `ShutdownEnds`, `CallsReturn`,
`LeavesTransferring`); `ArgumentsArrive` of `RestApi`, which says what encoding, joining, splitting and decoding
do to any text, an induction over texts through all of `Uri`; and `OkMeansFinalized`, which a run
shows violated. Every other property of the runs is a theorem.

## What is not modelled

* Formatting, telemetry, GUIDs, error macros: no protocol.
* Proxies: a round robin that affects nothing but the outcome of a request.
* The COM client: a wrapper of a service that is not in the repository.
* In `Download`: the list of Range headers, and that a descriptor which was kept after a failed
  `close()` may by then be another file's. `NoProgressTimeoutSeconds` is the constant
  `MaxNoProgress`: no request of a client can change it (see `RestApi`).
* In the process: the lock file, the change of user, and the exit of an idle agent, which never
  happens, as the answer to the question whether it is idle is a constant (`docs.cpp:163`).
* In `TaskThread`: scheduling methods without a caller.

## Plan

Done, in this order: `CurlRequests` and its proofs; `TaskQueue`, `ConnectionPolicy`,
`Download` and its life cycle; `TaskThread`, its abstract queue and proofs; the REST
connection with its parser; the SDK client with the port files; the log; URIs and the
REST requests; the cache hosts and the configuration; the apt plugin over the SDK client; in
`Download` the server's length and ranges; the end of the process and its proofs; in `Download`
the errors of the file system, and the proofs of what holds for hurried clients and of what
the design achieves for unhurried ones; the proofs of the cache hosts, the SDK client with the
apt plugin, and the log; the proofs of the abstract queue, the REST connection and failed calls.

Next:

1. Proofs: `ArgumentsArrive` of `RestApi`, with lemmas on what `Uri` makes of a text that was encoded;
   `ConnectionPolicy`'s operators.
2. `Download` with a history of the last call that was accepted, to say what a pause in transient
   error means to its caller.
3. The parts of the URI library that only tests call.
