--------------------------- MODULE AgentShutdown ---------------------------
(***************************************************************************)
(* How the agent ends (client-lite/src/exe/docs.cpp).  A signal handler    *)
(* sets an event, Run() returns, and the main thread destroys what Run()   *)
(* made, in reverse order, while the other threads still work:             *)
(*   - main: ProcessController::WaitForShutdown, ~RestHttpController       *)
(*     with its WaitableCounter, the members of DownloadManager (declared  *)
(*     in download_manager.h), ~TaskThread, ~BoostAsioService;             *)
(*   - io: accepts, reads and calls RestHttpController, one handler at a   *)
(*     time, until the io service is stopped;                              *)
(*   - task: runs what io and the downloads have scheduled;                *)
(*   - SIGTERM and SIGHUP, whose handler runs on a thread in the midst of  *)
(*     what that thread is doing.                                          *)
(*                                                                         *)
(* C++ leaves open what the use of a destroyed object does.  Here it works *)
(* as before, or the process crashes at any later moment; misuse records   *)
(* the objects that were used.                                             *)
(*                                                                         *)
(* A download is one that has made a request, and so has a handle.         *)
(* TaskThread and CurlRequests have their destructors in detail.  Here the *)
(* queue is the set of the kinds of task that may run, in any order: there *)
(* is one call at a time, and two refreshes or updates that wait do what   *)
(* one does.                                                               *)
(***************************************************************************)
EXTENDS Naturals

CONSTANTS
    Clients,        \* connections to the agent
    MaxRequests,    \* requests they make in all
    MaxHangups      \* times SIGHUP is sent

ASSUME BoundsAssumption == MaxRequests \in Nat /\ MaxHangups \in Nat

VARIABLES
    main,           \* where the main thread is
    shutdown,       \* _shutdownEvent is set
    gone,           \* what has been destroyed
    io,             \* where the io thread is
    accept,         \* async_accept: pending, completed (its handler is queued), or none
    conn,           \* what became of each client's connection
    requests,       \* number of requests so far
    late,           \* history: a call began after the destructor had seen the counter at 0
    count,          \* WaitableCounter::_count
    signaled,       \* WaitableCounter::_event
    queue,          \* the kinds of task that may run
    task,           \* where the task thread is
    download,       \* there is a download
    timer,          \* it has a delayed task, or a callback that will schedule one
    stuck,          \* threads whose signal handler waits for a mutex the thread holds
    hangups,        \* number of SIGHUPs so far
    misuse          \* history: destroyed objects that were used

callVars  == <<conn, requests, late, count, signaled>>
taskVars  == <<queue, task, download, timer>>
sigVars   == <<shutdown, stuck, hangups>>
vars == <<main, gone, io, accept, callVars, taskVars, sigVars, misuse>>

Objects == {"acceptor", "controller", "policy", "curl", "downloads", "tasks", "config"}
Threads == {"main", "io", "task", "curl"}
Tasks   == {"call", "work", "refresh", "stop"}
Stages  == {"away", "connecting", "accepted", "connected", "asked", "posted", "called", "broken"}

\* The wait for a signal, which holds the event's mutex while it looks, and then the
\* destructors, in order
Serving == {"looking", "waiting"}
Draining == {"closing", "draining"}
Ending  == {"drained", "noController", "noPolicy", "stoppingCurl", "noCurl", "noDownloads",
            "joiningTasks", "noTasks", "stoppingIo"}
Over    == {"ended", "crashed"}

TypeOK ==
    /\ main \in Serving \cup Draining \cup Ending \cup Over
    /\ shutdown \in BOOLEAN
    /\ gone \subseteq Objects
    /\ io \in {"free", "called", "pushing", "waiting", "replying", "replied", "leaving", "ended"}
    /\ accept \in {"pending", "completed", "none"}
    /\ conn \in [Clients -> Stages]
    /\ requests \in 0 .. MaxRequests
    /\ late \in BOOLEAN
    /\ count \in Nat
    /\ signaled \in BOOLEAN
    /\ queue \subseteq Tasks
    /\ task \in {"free", "polling", "exited"} \cup Tasks
    /\ download \in BOOLEAN /\ timer \in BOOLEAN
    /\ stuck \subseteq Threads
    /\ hangups \in 0 .. MaxHangups
    /\ misuse \subseteq Objects

Init ==
    /\ main = "waiting"
    /\ shutdown = FALSE
    /\ gone = {}
    /\ io = "free"
    /\ accept = "pending"
    /\ conn = [c \in Clients |-> "away"]
    /\ requests = 0
    /\ late = FALSE
    /\ count = 0
    /\ signaled = TRUE
    /\ queue = {}
    /\ task = "free"
    /\ download = FALSE
    /\ timer = FALSE
    /\ stuck = {}
    /\ hangups = 0
    /\ misuse = {}

Runs(thread) == main \notin Over /\ thread \notin stuck

\* What a step uses of what may be gone
Use(objects) == misuse' = misuse \cup (objects \cap gone)

\* TaskThread::_taskQMutex is free.  A thread whose signal handler waits has it for ever,
\* unless it is the main thread with the mutex of the event.
QueueIsFree ==
    /\ io # "pushing" /\ task # "polling"
    /\ stuck \subseteq (IF main = "looking" THEN {"main"} ELSE {})

-----------------------------------------------------------------------------
(***************************************************************************)
(* The main thread waits for a signal.                                     *)
(***************************************************************************)

\* ManualResetEvent::Wait locks its mutex: at first, and after a notification or 60 s, when
\* fnIsIdle says that the agent is not idle
Look ==
    /\ Runs("main")
    /\ main = "waiting"
    /\ main' = "looking"
    /\ UNCHANGED <<gone, io, accept, callVars, taskVars, sigVars, misuse>>

\* ... and unlocks it: the wait goes on, or is over
LookEnds ==
    /\ Runs("main")
    /\ main = "looking"
    /\ main' = IF shutdown THEN "closing" ELSE "waiting"
    /\ UNCHANGED <<gone, io, accept, callVars, taskVars, sigVars, misuse>>

-----------------------------------------------------------------------------
(***************************************************************************)
(* The main thread destroys what Run() made.                               *)
(***************************************************************************)
Advance(from, to, object) ==
    /\ Runs("main")
    /\ main = from
    /\ main' = to
    /\ gone' = gone \cup object
    /\ UNCHANGED <<io, accept, callVars, sigVars>>

Destroys(from, to, object) ==
    Advance(from, to, object) /\ UNCHANGED <<taskVars, misuse>>

\* RestHttpListener::Stop: connections not accepted yet are reset; a pending accept is
\* cancelled, one that has completed is not
StopListening ==
    /\ Runs("main")
    /\ main = "closing"
    /\ main' = "draining"
    /\ gone' = gone \cup {"acceptor"}
    /\ accept' = IF accept = "pending" THEN "none" ELSE accept
    /\ conn' = [c \in Clients |-> IF conn[c] = "connecting" THEN "broken" ELSE conn[c]]
    /\ UNCHANGED <<io, requests, late, count, signaled, taskVars, sigVars, misuse>>

\* Variant: the destructor does not wait for the calls under way
DrainAtOnce == Destroys("draining", "drained", {})

\* WaitableCounter::Wait
Drain ==
    /\ signaled
    /\ Destroys("draining", "drained", {})

\* ~WaitableCounter locks, so that the thread that set the event has unlocked; then go the
\* listener with its callback and the reference to the manager
DestroyController ==
    /\ io # "leaving"
    /\ Destroys("drained", "noController", {"controller"})

\* ~DownloadManager, its members from the last to the first
DestroyPolicy == Destroys("noController", "noPolicy", {"policy"})

\* ~CurlRequests: refuses new requests, joins its worker
StopCurl == Destroys("noPolicy", "stoppingCurl", {})

JoinCurl ==
    /\ "curl" \notin stuck
    /\ Destroys("stoppingCurl", "noCurl", {"curl"})

\* ~Download cancels its tasks, and ~HttpAgent calls CurlRequests::Remove
DestroyDownloads ==
    /\ download => QueueIsFree
    /\ Advance("noCurl", "noDownloads", {"downloads"})
    /\ queue' = queue \ {"work"}
    /\ timer' = FALSE
    /\ Use(IF download THEN {"curl"} ELSE {})
    /\ UNCHANGED <<task, download>>

\* ~TaskThread
StopTasks ==
    /\ QueueIsFree
    /\ Advance("noDownloads", "joiningTasks", {})
    /\ queue' = queue \cup {"stop"}
    /\ UNCHANGED <<task, download, timer, misuse>>

\* Variant: ConfigManager goes before the thread that refreshes it
JoinTasksNever == Destroys("joiningTasks", "noTasks", {"tasks", "config"})

\* The thread is joined; ~ConfigManager follows
JoinTasks ==
    /\ task = "exited"
    /\ Destroys("joiningTasks", "noTasks", {"tasks", "config"})

\* ~BoostAsioService: the io service stops once the handler it is in returns
StopIo == Destroys("noTasks", "stoppingIo", {})

JoinIo ==
    /\ io = "ended"
    /\ Destroys("stoppingIo", "ended", {})

Destroy ==
    \/ StopListening \/ Drain \/ DestroyController \/ DestroyPolicy \/ StopCurl \/ JoinCurl
    \/ DestroyDownloads \/ StopTasks \/ JoinTasks \/ StopIo \/ JoinIo

-----------------------------------------------------------------------------
(***************************************************************************)
(* The io thread, and the clients.                                         *)
(***************************************************************************)
Connection(c, from, to) == conn[c] = from /\ conn' = [conn EXCEPT ![c] = to]

clientRest == <<main, gone, io, late, count, signaled, taskVars, sigVars, misuse>>

Connect(c) ==
    /\ main \notin Over
    /\ Connection(c, "away", IF "acceptor" \in gone THEN "broken" ELSE "connecting")
    /\ UNCHANGED <<accept, requests, clientRest>>

\* A client sends a request, or the next one
Ask(c) ==
    /\ main \notin Over
    /\ requests < MaxRequests
    /\ requests' = requests + 1
    /\ Connection(c, "connected", "asked")
    /\ UNCHANGED <<accept, clientRest>>

\* The io service runs until it is stopped, one handler at a time
IoIsFree == Runs("io") /\ io = "free" /\ main # "stoppingIo"

AcceptCompletes(c) ==
    /\ IoIsFree
    /\ accept = "pending"
    /\ accept' = "completed"
    /\ Connection(c, "connecting", "accepted")
    /\ UNCHANGED <<requests, clientRest>>

\* The handler of async_accept: receive from this connection, accept the next.  It works on
\* the listener, a member of the controller, and nobody waits for it.
OnAccept(c) ==
    /\ IoIsFree
    /\ accept = "completed"
    /\ accept' = IF "acceptor" \in gone THEN "none" ELSE "pending"
    /\ Use({"acceptor", "controller"})
    /\ Connection(c, "accepted", "connected")
    /\ UNCHANGED <<main, gone, io, requests, late, count, signaled, taskVars, sigVars>>

\* HttpListenerConnection::_OnData: a whole request is parsed, its callback posted
OnData(c) ==
    /\ IoIsFree
    /\ Connection(c, "asked", "posted")
    /\ UNCHANGED <<accept, requests, clientRest>>

\* WaitableCounter::Enter
Enter ==
    /\ count' = count + 1
    /\ signaled' = IF count = 0 THEN FALSE ELSE signaled

\* RestHttpController::_HttpListenerCallback, which the connection calls by reference
BeginCall(c) ==
    /\ IoIsFree
    /\ Connection(c, "posted", "called")
    /\ io' = "called"
    /\ late' = IF main \in Serving \cup Draining THEN late ELSE TRUE
    /\ Enter
    /\ Use({"controller", "config"})
    /\ UNCHANGED <<main, gone, accept, requests, taskVars, sigVars>>

IoStep(from, to) ==
    /\ Runs("io")
    /\ io = from
    /\ io' = to
    /\ UNCHANGED <<main, gone, accept, sigVars>>

\* The request fails before it gets to the task thread
CallFails == IoStep("called", "replying") /\ UNCHANGED <<callVars, taskVars, misuse>>

\* TaskThread::SchedBlock, from the lock of the queue ...
CallLocks ==
    /\ QueueIsFree
    /\ IoStep("called", "pushing")
    /\ Use({"controller", "downloads", "tasks"})
    /\ UNCHANGED <<callVars, taskVars>>

\* ... to its unlock
CallIsQueued ==
    /\ IoStep("pushing", "waiting")
    /\ queue' = queue \cup {"call"}
    /\ UNCHANGED <<callVars, task, download, timer, misuse>>

\* HttpListenerConnection::Reply
Reply(c) ==
    /\ IoStep("replying", "replied")
    /\ Connection(c, "called", "connected")
    /\ UNCHANGED <<requests, late, count, signaled, taskVars, misuse>>

\* Variant: the event is set only by one call too many
LeaveUnsignaled ==
    /\ IoStep("replied", "leaving")
    /\ count' = count - 1
    /\ signaled' = IF count = 0 THEN TRUE ELSE signaled
    /\ UNCHANGED <<conn, requests, late, taskVars, misuse>>

\* WaitableCounter::_Leave, from its lock to the signal ...
Leave ==
    /\ IoStep("replied", "leaving")
    /\ count' = count - 1
    /\ signaled' = IF count = 1 THEN TRUE ELSE signaled
    /\ UNCHANGED <<conn, requests, late, taskVars, misuse>>

\* ... and its unlock
LeaveEnds == IoStep("leaving", "free") /\ UNCHANGED <<callVars, taskVars, misuse>>

IoEnds ==
    /\ main = "stoppingIo"
    /\ IoStep("free", "ended")
    /\ UNCHANGED <<callVars, taskVars, misuse>>

Io ==
    \/ \E c \in Clients : AcceptCompletes(c) \/ OnAccept(c) \/ OnData(c) \/ BeginCall(c) \/ Reply(c)
    \/ CallFails \/ CallLocks \/ CallIsQueued \/ Leave \/ LeaveEnds \/ IoEnds

-----------------------------------------------------------------------------
(***************************************************************************)
(* The task thread.                                                        *)
(***************************************************************************)
TaskStep(from, to) ==
    /\ Runs("task")
    /\ task = from
    /\ task' = to
    /\ UNCHANGED <<gone, accept, callVars, sigVars>>

\* _DoPoll locks the queue and takes a task
Poll ==
    /\ QueueIsFree
    /\ queue # {}
    /\ TaskStep("free", "polling")
    /\ UNCHANGED <<main, io, queue, download, timer, misuse>>

TakeTask(kind) ==
    /\ kind \in queue
    /\ TaskStep("polling", kind)
    /\ queue' = queue \ {kind}
    /\ UNCHANGED <<main, io, download, timer, misuse>>

\* A call starts a download, leaves it alone or ends it, which cancels its tasks, and
\* sets the event the io thread waits for
RunCall ==
    /\ TaskStep("call", "free")
    /\ io' = "replying"
    /\ download' \in BOOLEAN
    /\ timer' \in (IF download' THEN {timer, TRUE} ELSE {FALSE})
    /\ download' # download \/ timer' # timer => QueueIsFree
    /\ queue' = IF download' THEN queue ELSE queue \ {"work"}
    /\ Use({"downloads", "curl", "policy"})
    /\ UNCHANGED main

\* A delayed task or an update of a download: it may schedule another, and may make a
\* request, which throws while CurlRequests ends and is caught by nobody
RunWork ==
    /\ TaskStep("work", "free")
    /\ timer' \in {timer, download}
    /\ timer' # timer => QueueIsFree
    /\ main' \in {main} \cup (IF main = "stoppingCurl" THEN {"crashed"} ELSE {})
    /\ Use({"downloads", "curl", "policy"})
    /\ UNCHANGED <<io, queue, download>>

\* ConfigManager::RefreshAdminConfigs
RunRefresh ==
    /\ TaskStep("refresh", "free")
    /\ Use({"config"})
    /\ UNCHANGED <<main, io, queue, download, timer>>

\* _fRunning becomes false
RunStop ==
    /\ TaskStep("stop", "exited")
    /\ UNCHANGED <<main, io, queue, download, timer, misuse>>

Task ==
    \/ Poll \/ RunCall \/ RunWork \/ RunRefresh \/ RunStop
    \/ \E kind \in Tasks : TakeTask(kind)

\* A delayed task comes due, or a callback of the curl worker schedules an update
WorkComes ==
    /\ main \notin Over
    /\ QueueIsFree
    /\ timer \/ (download /\ "curl" \notin gone)
    /\ "work" \notin queue
    /\ timer' = FALSE
    /\ queue' = queue \cup {"work"}
    /\ UNCHANGED <<main, gone, io, accept, callVars, task, download, sigVars, misuse>>

-----------------------------------------------------------------------------
(***************************************************************************)
(* Signals.                                                                *)
(***************************************************************************)
MayRun(thread) ==
    /\ Runs(thread)
    /\ thread = "io" => io # "ended"
    /\ thread = "task" => task # "exited"
    /\ thread = "curl" => "curl" \notin gone

\* SIGTERM: SetEvent locks the mutex of the event
Terminate(thread) ==
    /\ MayRun(thread)
    /\ ~shutdown
    /\ IF main = "looking"
       THEN thread = "main" /\ stuck' = stuck \cup {"main"} /\ UNCHANGED shutdown
       ELSE shutdown' = TRUE /\ UNCHANGED stuck
    /\ UNCHANGED <<main, gone, io, accept, callVars, taskVars, hangups, misuse>>

\* What a thread does while it holds the mutex of the queue: push and take, or, in one step
\* with the lock, schedule and cancel the tasks of a download, or schedule the stop
Holds(thread) ==
    \/ thread = "io" /\ io = "pushing"
    \/ thread = "task" /\ task = "polling"
    \/ /\ QueueIsFree
       /\ \/ thread = "task" /\ task \in {"call", "work"}
          \/ thread = "curl" /\ download
          \/ thread = "main" /\ main = "noCurl" /\ download
          \/ thread = "main" /\ main = "noDownloads"

\* SIGHUP: RefreshAdminConfigs locks the queue and adds a task
Hangup(thread) ==
    /\ MayRun(thread)
    /\ hangups < MaxHangups
    /\ hangups' = hangups + 1
    /\ \/ Holds(thread) /\ stuck' = stuck \cup {thread} /\ UNCHANGED <<queue, misuse>>
       \/ /\ QueueIsFree
          /\ queue' = queue \cup {"refresh"}
          /\ Use({"tasks"})
          /\ UNCHANGED stuck
    /\ UNCHANGED <<main, gone, io, accept, callVars, task, download, timer, shutdown>>

\* What was used was really gone; with the process go its connections
Crash ==
    /\ main \notin Over
    /\ misuse # {}
    /\ main' = "crashed"
    /\ conn' = [c \in Clients |-> "broken"]
    /\ UNCHANGED <<gone, io, accept, requests, late, count, signaled, taskVars, sigVars, misuse>>

Main == Look \/ LookEnds \/ Destroy

Next ==
    \/ Main \/ Io \/ Task \/ WorkComes \/ Crash
    \/ \E c \in Clients : Connect(c) \/ Ask(c)
    \/ \E thread \in Threads : Terminate(thread) \/ Hangup(thread)

\* The threads run, and a step that has to wait for a mutex gets it: each is held
\* for a few instructions and asked for by at most two threads.  A call and the stop
\* are not overtaken for ever, since the queue is in order.
Fairness ==
    /\ SF_vars(Main) /\ WF_vars(Io) /\ WF_vars(Task)
    /\ SF_vars(\E kind \in {"call", "stop"} : TakeTask(kind))

Spec == Init /\ [][Next]_vars /\ Fairness

-----------------------------------------------------------------------------
(***************************************************************************)
(* Properties.                                                             *)
(***************************************************************************)

\* A call that entered the counter before the destructor of the controller saw it at 0
\* finds everything it uses, of all objects only the acceptor may be gone; also the counter
\* itself, until the call has left it ("_lock might not exist when _Leave gets around to
\* releasing it", waitable_counter.h:20).
CountedCallFindsAgent ==
    io \notin {"free", "ended"} /\ ~late => gone \subseteq {"acceptor"}

\* A destroyed object is only used for one of these reasons: an accept that completed
\* before the acceptor was closed, and whose handler, which nobody waits for, works on the
\* acceptor and perhaps on the controller that are gone by then; a late call; a SIGHUP
\* after the task thread was joined; or a download that outlives the policy and the curl
\* worker.
OnlyStragglersMeetTheGone ==
    /\ "controller" \in misuse => late \/ "acceptor" \in misuse
    /\ "config" \in misuse => late
    /\ misuse \cap {"policy", "curl", "downloads"} # {} => late \/ download
    /\ "tasks" \in misuse => late \/ hangups > 0

\* SIGTERM ends the process, unless a handler interrupted the holder of the mutex it
\* needs, or a late call waits for a task thread that is gone.
ShutdownEnds == []<>(~shutdown \/ main \in Over \/ stuck # {} \/ late)
=============================================================================
