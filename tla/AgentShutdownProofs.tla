------------------------ MODULE AgentShutdownProofs ------------------------
(***************************************************************************)
(* The safety invariants of AgentShutdown, proved for any number of        *)
(* clients, requests and signals.                                          *)
(***************************************************************************)
EXTENDS AgentShutdown, TLAPS

InCall == {"called", "pushing", "waiting", "replying", "replied"}

\* The one io thread is in at most one call, and the event says whether it is in none.
CountMatches ==
    /\ count = IF io \in InCall THEN 1 ELSE 0
    /\ signaled <=> count = 0

\* There is at most one task of a call, and only while the io thread waits for it.
CallIsOnce ==
    /\ "call" \in queue => io = "waiting"
    /\ task = "call" => io = "waiting" /\ "call" \notin queue

\* What works for a download exists only as long as the download.
WorkHasDownload == "work" \in queue \/ task = "work" \/ timer => download

\* Until the controller is destroyed only the acceptor is gone, and the acceptor is closed
\* before.
GoneInOrder ==
    /\ main \in Serving \cup Draining \cup {"drained"} => gone \subseteq {"acceptor"}
    /\ main \notin Serving \cup {"closing", "crashed"} => "acceptor" \in gone
    /\ "controller" \in gone => "acceptor" \in gone
    /\ gone \cap {"tasks", "config"} # {} => task = "exited"
    /\ misuse \subseteq gone

\* The main thread gets past the counter only when no counted call is under way.
DrainWaits ==
    ~late =>
        /\ io \in InCall => main \in Serving \cup Draining \cup {"crashed"}
        /\ io = "leaving" => main \in Serving \cup Draining \cup {"drained", "crashed"}

\* The same, for what such a call finds
CountedFinds == io \in InCall \cup {"leaving"} /\ ~late => gone \subseteq {"acceptor"}

IInv ==
    /\ TypeOK
    /\ CountMatches
    /\ CallIsOnce
    /\ WorkHasDownload
    /\ GoneInOrder
    /\ DrainWaits
    /\ CountedFinds
    /\ OnlyStragglersMeetTheGone

\* The start of the agent establishes the invariant.
LEMMA InitInductive == Init => IInv
<1> SUFFICES ASSUME Init PROVE IInv
    OBVIOUS
<1> USE DEF Init
<1>1. TypeOK
    <2>1. conn \in [Clients -> Stages]
        BY DEF Stages
    <2>2. requests \in 0 .. MaxRequests /\ count \in Nat /\ hangups \in 0 .. MaxHangups
        BY BoundsAssumption
    <2>3. main \in Serving /\ io = "free" /\ accept = "pending" /\ task = "free"
        BY DEF Serving
    <2>4. /\ shutdown \in BOOLEAN /\ late \in BOOLEAN /\ signaled \in BOOLEAN
          /\ download \in BOOLEAN /\ timer \in BOOLEAN
          /\ gone = {} /\ queue = {} /\ stuck = {} /\ misuse = {}
        OBVIOUS
    <2> QED
        BY <2>1, <2>2, <2>3, <2>4 DEF TypeOK
<1>2. CountMatches
    BY DEF CountMatches, InCall
<1>3. CallIsOnce /\ WorkHasDownload /\ GoneInOrder
    BY DEF CallIsOnce, WorkHasDownload, GoneInOrder, Serving
<1>4. DrainWaits /\ CountedFinds /\ OnlyStragglersMeetTheGone
    BY DEF DrainWaits, CountedFinds, OnlyStragglersMeetTheGone, InCall
<1> QED
    BY <1>1, <1>2, <1>3, <1>4 DEF IInv

\* The main thread: waiting for the signal and destroying what it made.
LEMMA MainInductive ==
    ASSUME IInv, Main
    PROVE  IInv'
<1> USE DEF IInv, callVars, taskVars, sigVars, Runs, Over, Serving, Draining, Ending
<1> DEFINE Frame == UNCHANGED <<io, count, signaled, late, task, download, hangups>>
<1>1. ASSUME Look \/ LookEnds PROVE IInv'
    BY <1>1 DEF Look, LookEnds, TypeOK, CountMatches, CallIsOnce, WorkHasDownload,
        GoneInOrder, DrainWaits, CountedFinds, OnlyStragglersMeetTheGone
<1>2. ASSUME StopListening PROVE IInv'
    <2> USE <1>2 DEF StopListening
    <2>1. TypeOK'
        BY DEF TypeOK, Objects, Stages
    <2>2. (CountMatches /\ CallIsOnce /\ WorkHasDownload)'
        BY DEF CountMatches, CallIsOnce, WorkHasDownload
    <2>3. (GoneInOrder /\ DrainWaits /\ CountedFinds /\ OnlyStragglersMeetTheGone)'
        BY DEF GoneInOrder, DrainWaits, CountedFinds, OnlyStragglersMeetTheGone
    <2> QED
        BY <2>1, <2>2, <2>3
<1>3. ASSUME Destroy, ~StopListening PROVE IInv'
    <2> USE <1>3 DEF Destroys, Advance, Destroy
    <2>0. Frame
        BY DEF Drain, DestroyController, DestroyPolicy, StopCurl, JoinCurl, DestroyDownloads,
            StopTasks, JoinTasks, StopIo, JoinIo
    <2>1. TypeOK'
        <3>1. (main \in Serving \cup Draining \cup Ending \cup Over /\ gone \subseteq Objects)'
            BY DEF TypeOK, Objects, Drain, DestroyController, DestroyPolicy, StopCurl,
                JoinCurl, DestroyDownloads, StopTasks, JoinTasks, StopIo, JoinIo
        <3>2. (queue \subseteq Tasks /\ timer \in BOOLEAN /\ misuse \subseteq Objects)'
            BY DEF TypeOK, Objects, Tasks, Use, Drain, DestroyController, DestroyPolicy, StopCurl,
                JoinCurl, DestroyDownloads, StopTasks, JoinTasks, StopIo, JoinIo
        <3>3. UNCHANGED <<shutdown, accept, conn, requests, stuck>>
            BY DEF Drain, DestroyController, DestroyPolicy, StopCurl, JoinCurl, DestroyDownloads,
                StopTasks, JoinTasks, StopIo, JoinIo
        <3> QED
            BY <2>0, <3>1, <3>2, <3>3 DEF TypeOK
    <2>2. (CountMatches /\ CallIsOnce /\ WorkHasDownload)'
        BY <2>0 DEF CountMatches, CallIsOnce, WorkHasDownload, Drain, DestroyController,
            DestroyPolicy, StopCurl, JoinCurl, DestroyDownloads, StopTasks, JoinTasks, StopIo,
            JoinIo
    <2>3. GoneInOrder'
        BY <2>0 DEF GoneInOrder, TypeOK, Use, Drain, DestroyController, DestroyPolicy, StopCurl,
            JoinCurl, DestroyDownloads, StopTasks, JoinTasks, StopIo, JoinIo
    <2>4. DrainWaits' /\ CountedFinds'
        BY <2>0 DEF CountMatches, GoneInOrder, DrainWaits, CountedFinds, InCall, Drain,
            DestroyController, DestroyPolicy, StopCurl, JoinCurl, DestroyDownloads, StopTasks,
            JoinTasks, StopIo, JoinIo
    <2>5. OnlyStragglersMeetTheGone'
        BY <2>0 DEF OnlyStragglersMeetTheGone, Use, Drain, DestroyController, DestroyPolicy,
            StopCurl, JoinCurl, DestroyDownloads, StopTasks, JoinTasks, StopIo, JoinIo
    <2> QED
        BY <2>1, <2>2, <2>3, <2>4, <2>5
<1> QED
    BY <1>1, <1>2, <1>3 DEF Main

\* The clients, and what the io thread does outside of a call.
LEMMA ClientInductive ==
    ASSUME IInv, NEW c \in Clients,
           Connect(c) \/ Ask(c) \/ AcceptCompletes(c) \/ OnAccept(c) \/ OnData(c)
    PROVE  IInv'
<1> USE DEF IInv, callVars, taskVars, sigVars, clientRest, Connection, IoIsFree, Runs
<1>1. TypeOK'
    <2>1. (conn \in [Clients -> Stages])'
        BY DEF TypeOK, Stages, Connect, Ask, AcceptCompletes, OnAccept, OnData
    <2>2. (requests \in 0 .. MaxRequests)'
        BY BoundsAssumption DEF TypeOK, Connect, Ask, AcceptCompletes, OnAccept, OnData
    <2>3. (accept \in {"pending", "completed", "none"} /\ misuse \subseteq Objects)'
        BY DEF TypeOK, Connect, Ask, AcceptCompletes, OnAccept, OnData, Use
    <2>4. UNCHANGED <<main, gone, io, late, count, signaled, taskVars, sigVars>>
        BY DEF Connect, Ask, AcceptCompletes, OnAccept, OnData
    <2> QED
        BY <2>1, <2>2, <2>3, <2>4 DEF TypeOK
<1>2. (CountMatches /\ CallIsOnce /\ WorkHasDownload /\ DrainWaits /\ CountedFinds)'
    BY DEF CountMatches, CallIsOnce, WorkHasDownload, DrainWaits, CountedFinds,
        Connect, Ask, AcceptCompletes, OnAccept, OnData
<1>3. (GoneInOrder /\ OnlyStragglersMeetTheGone)'
    <2>1. CASE OnAccept(c)
        \* The acceptor was closed before the controller was destroyed
        <3>1. "controller" \in gone => "acceptor" \in gone
            BY DEF GoneInOrder
        <3> QED
            BY <2>1, <3>1 DEF GoneInOrder, OnlyStragglersMeetTheGone, OnAccept, Use
    <2>2. CASE ~OnAccept(c)
        BY <2>2 DEF GoneInOrder, OnlyStragglersMeetTheGone, Connect, Ask, AcceptCompletes, OnData
    <2> QED
        BY <2>1, <2>2
<1> QED
    BY <1>1, <1>2, <1>3

\* A call enters the counter, and answers.
LEMMA CallInductive ==
    ASSUME IInv, NEW c \in Clients, BeginCall(c) \/ Reply(c)
    PROVE  IInv'
<1> USE DEF IInv, callVars, taskVars, sigVars, Connection, IoIsFree, Runs, InCall
<1>1. CASE BeginCall(c)
    <2> USE <1>1 DEF BeginCall, Enter
    <2>1. TypeOK'
        <3>1. (conn \in [Clients -> Stages])'
            BY DEF TypeOK, Stages
        <3>2. count' \in Nat
            BY DEF TypeOK
        <3>3. signaled' \in BOOLEAN
            BY DEF TypeOK
        <3>4. late' \in BOOLEAN
            BY DEF TypeOK
        <3>5. (io = "called" /\ misuse \subseteq Objects)'
            BY DEF TypeOK, Use
        <3>6. UNCHANGED <<main, gone, accept, requests, queue, task, download, timer, shutdown,
                          stuck, hangups>>
            OBVIOUS
        <3> QED
            BY <3>1, <3>2, <3>3, <3>4, <3>5, <3>6 DEF TypeOK
    <2>2. CountMatches'
        <3>1. count = 0 /\ io' = "called"
            BY DEF CountMatches
        <3>2. count' = 1 /\ signaled' = FALSE
            BY <3>1 DEF CountMatches
        <3> QED
            BY <3>1, <3>2 DEF CountMatches
    <2>3. (CallIsOnce /\ WorkHasDownload)'
        BY DEF CallIsOnce, WorkHasDownload
    <2>4. (DrainWaits /\ CountedFinds /\ GoneInOrder)'
        BY DEF DrainWaits, CountedFinds, GoneInOrder, Use
    <2>5. OnlyStragglersMeetTheGone'
        BY DEF GoneInOrder, OnlyStragglersMeetTheGone, Use
    <2> QED
        BY <2>1, <2>2, <2>3, <2>4, <2>5
<1>2. CASE Reply(c)
    <2> USE <1>2 DEF Reply, IoStep
    <2>1. TypeOK'
        <3>1. (conn \in [Clients -> Stages] /\ io = "replied")'
            BY DEF TypeOK, Stages
        <3>2. UNCHANGED <<main, gone, accept, requests, late, count, signaled, queue, task,
                          download, timer, shutdown, stuck, hangups, misuse>>
            OBVIOUS
        <3> QED
            BY <3>1, <3>2 DEF TypeOK
    <2>2. (CountMatches /\ CallIsOnce /\ WorkHasDownload)'
        BY DEF CountMatches, CallIsOnce, WorkHasDownload
    <2>3. (DrainWaits /\ CountedFinds /\ GoneInOrder /\ OnlyStragglersMeetTheGone)'
        BY DEF DrainWaits, CountedFinds, GoneInOrder, OnlyStragglersMeetTheGone
    <2> QED
        BY <2>1, <2>2, <2>3
<1> QED
    BY <1>1, <1>2

\* The rest of a call, up to its leave, and the end of the io thread.
LEMMA CallRestInductive ==
    ASSUME IInv, CallFails \/ CallLocks \/ CallIsQueued \/ Leave \/ LeaveEnds \/ IoEnds
    PROVE  IInv'
<1> USE DEF IInv, callVars, taskVars, sigVars, Runs, InCall, IoStep, CallFails, CallLocks,
            CallIsQueued, Leave, LeaveEnds, IoEnds
<1>1. (CountMatches /\ count \in Nat /\ signaled \in BOOLEAN)'
    <2>1. CASE Leave
        <3>1. count = 1 /\ io' = "leaving"
            BY <2>1 DEF CountMatches
        <3>2. count' = 0 /\ signaled' = TRUE
            BY <2>1, <3>1
        <3> QED
            BY <3>1, <3>2 DEF CountMatches
    <2>2. CASE ~Leave
        <3>1. count' = count /\ signaled' = signaled
            BY <2>2
        <3>2. io \in InCall <=> io' \in InCall
            BY <2>2
        <3> QED
            BY <3>1, <3>2 DEF CountMatches, TypeOK
    <2> QED
        BY <2>1, <2>2
<1>2. TypeOK'
    <2>1. (io \in InCall \cup {"free", "leaving", "ended"})'
        OBVIOUS
    <2>2. (queue \subseteq Tasks)'
        BY DEF TypeOK, Tasks
    <2>3. (misuse \subseteq Objects)'
        BY DEF TypeOK, Use
    <2>4. UNCHANGED <<main, gone, accept, conn, requests, late, task, download, timer, shutdown,
                      stuck, hangups>>
        OBVIOUS
    <2> QED
        BY <1>1, <2>1, <2>2, <2>3, <2>4 DEF TypeOK
<1>3. CallIsOnce'
    BY DEF CallIsOnce
<1>4. WorkHasDownload'
    <2>1. UNCHANGED <<task, download, timer>> /\ ("work" \in queue' => "work" \in queue)
        OBVIOUS
    <2> QED
        BY <2>1 DEF WorkHasDownload
<1>5. (DrainWaits /\ CountedFinds /\ GoneInOrder)'
    BY DEF DrainWaits, CountedFinds, GoneInOrder, Use
<1>6. OnlyStragglersMeetTheGone'
    BY DEF CountedFinds, OnlyStragglersMeetTheGone, Use
<1> QED
    BY <1>1, <1>2, <1>3, <1>4, <1>5, <1>6

\* The task thread: a task that runs finds what it needs, or its call is late, or its
\* download is still there.
LEMMA TaskInductive ==
    ASSUME IInv, Task
    PROVE  IInv'
<1> USE DEF IInv, callVars, taskVars, sigVars, Runs, TaskStep, Over
<1>1. CASE Poll \/ RunStop \/ \E kind \in Tasks : TakeTask(kind)
    <2> USE <1>1 DEF Poll, RunStop, TakeTask
    <2>1. UNCHANGED <<main, gone, io, accept, callVars, download, timer, sigVars, misuse>>
        OBVIOUS
    <2>2. (task \in {"polling", "exited"} \cup Tasks /\ queue \subseteq Tasks)'
        BY DEF TypeOK, Tasks
    <2>3. TypeOK'
        BY <2>1, <2>2 DEF TypeOK
    <2>4. (CountMatches /\ DrainWaits /\ CountedFinds /\ OnlyStragglersMeetTheGone)'
        BY <2>1 DEF CountMatches, DrainWaits, CountedFinds, OnlyStragglersMeetTheGone
    <2>5. (CallIsOnce /\ WorkHasDownload)'
        BY <2>1 DEF CallIsOnce, WorkHasDownload
    <2>6. GoneInOrder'
        BY <2>1 DEF GoneInOrder
    <2> QED
        BY <2>3, <2>4, <2>5, <2>6
<1>2. CASE RunCall
    <2> USE <1>2 DEF RunCall
    <2>0. io = "waiting" /\ task # "exited"
        BY DEF CallIsOnce
    <2>1. TypeOK'
        BY DEF TypeOK, Tasks, Use, Objects
    <2>2. CountMatches' /\ CallIsOnce'
        <3>1. io \in InCall /\ io' \in InCall /\ count' = count /\ signaled' = signaled
            BY <2>0 DEF InCall
        <3>2. CountMatches'
            BY <3>1 DEF CountMatches
        <3>3. "call" \notin queue' /\ task' # "call"
            BY DEF CallIsOnce
        <3> QED
            BY <3>2, <3>3 DEF CallIsOnce
    <2>3. WorkHasDownload'
        BY DEF WorkHasDownload, TypeOK
    <2>4. (DrainWaits /\ CountedFinds /\ GoneInOrder)'
        BY <2>0 DEF DrainWaits, CountedFinds, GoneInOrder, InCall, Use
    <2>5. OnlyStragglersMeetTheGone'
        BY <2>0 DEF CountedFinds, GoneInOrder, OnlyStragglersMeetTheGone, InCall, Use
    <2> QED
        BY <2>1, <2>2, <2>3, <2>4, <2>5
<1>3. CASE RunWork
    <2> USE <1>3 DEF RunWork
    <2>1. TypeOK'
        BY DEF TypeOK, Tasks, Use, Objects
    <2>2. (CountMatches /\ CallIsOnce /\ WorkHasDownload)'
        BY DEF CountMatches, CallIsOnce, WorkHasDownload, TypeOK
    <2>3. (DrainWaits /\ CountedFinds /\ GoneInOrder /\ OnlyStragglersMeetTheGone)'
        BY DEF DrainWaits, CountedFinds, GoneInOrder, OnlyStragglersMeetTheGone,
            WorkHasDownload, Use, Serving, Draining, Ending
    <2> QED
        BY <2>1, <2>2, <2>3
<1>4. CASE RunRefresh
    BY <1>4 DEF RunRefresh, Use, Objects, TypeOK, Tasks, CountMatches, CallIsOnce,
        WorkHasDownload, DrainWaits, CountedFinds, GoneInOrder, OnlyStragglersMeetTheGone
<1> QED
    BY <1>1, <1>2, <1>3, <1>4 DEF Task

\* What comes from outside: work of the curl worker, signals, and the crash that the use
\* of a destroyed object may be.
LEMMA OutsideInductive ==
    ASSUME IInv,
           WorkComes \/ Crash \/ \E thread \in Threads : Terminate(thread) \/ Hangup(thread)
    PROVE  IInv'
<1> USE DEF IInv, callVars, taskVars, sigVars, MayRun, Runs
<1>1. CASE WorkComes
    <2> USE <1>1 DEF WorkComes
    <2>1. UNCHANGED <<main, gone, io, accept, conn, requests, late, count, signaled, task, download,
                      shutdown, stuck, hangups, misuse>>
        OBVIOUS
    <2>2. queue' = queue \cup {"work"} /\ timer' = FALSE
        OBVIOUS
    <2>3. download
        BY DEF WorkHasDownload
    <2>4. TypeOK'
        <3>1. queue' \subseteq Tasks /\ timer' \in BOOLEAN
            BY <2>2 DEF TypeOK, Tasks
        <3> QED
            BY <2>1, <3>1 DEF TypeOK
    <2>5. (CountMatches /\ DrainWaits /\ CountedFinds /\ GoneInOrder /\ OnlyStragglersMeetTheGone)'
        BY <2>1 DEF CountMatches, DrainWaits, CountedFinds, GoneInOrder, OnlyStragglersMeetTheGone
    <2>6. CallIsOnce'
        BY <2>1, <2>2 DEF CallIsOnce
    <2>7. WorkHasDownload'
        BY <2>1, <2>3 DEF WorkHasDownload
    <2> QED
        BY <2>4, <2>5, <2>6, <2>7
<1>2. CASE Crash
    <2> USE <1>2 DEF Crash
    <2>1. UNCHANGED <<gone, io, accept, requests, late, count, signaled, queue, task, download,
                      timer, shutdown, stuck, hangups, misuse>>
        OBVIOUS
    <2>2. TypeOK'
        BY <2>1 DEF TypeOK, Over, Stages
    <2>3. (CountMatches /\ CallIsOnce /\ WorkHasDownload /\ CountedFinds)'
        BY <2>1 DEF CountMatches, CallIsOnce, WorkHasDownload, CountedFinds
    <2>4. (DrainWaits /\ GoneInOrder /\ OnlyStragglersMeetTheGone)'
        BY <2>1 DEF DrainWaits, GoneInOrder, OnlyStragglersMeetTheGone, Serving, Draining
    <2> QED
        BY <2>2, <2>3, <2>4
<1>3. ASSUME NEW thread \in Threads, Terminate(thread) PROVE IInv'
    <2> USE <1>3 DEF Terminate
    <2>1. UNCHANGED <<main, gone, io, accept, conn, requests, late, count, signaled, queue, task,
                      download, timer, hangups, misuse>>
        OBVIOUS
    <2>2. shutdown' \in BOOLEAN /\ stuck' \subseteq Threads
        BY DEF TypeOK, Threads
    <2>3. TypeOK'
        BY <2>1, <2>2 DEF TypeOK
    <2>4. (CountMatches /\ CallIsOnce /\ WorkHasDownload /\ DrainWaits /\ CountedFinds)'
        BY <2>1 DEF CountMatches, CallIsOnce, WorkHasDownload, DrainWaits, CountedFinds
    <2>5. (GoneInOrder /\ OnlyStragglersMeetTheGone)'
        BY <2>1 DEF GoneInOrder, OnlyStragglersMeetTheGone
    <2> QED
        BY <2>3, <2>4, <2>5
<1>4. ASSUME NEW thread \in Threads, Hangup(thread) PROVE IInv'
    <2> USE <1>4, BoundsAssumption DEF Hangup
    <2>0. UNCHANGED <<main, gone, io, accept, conn, requests, late, count, signaled, task, download,
                      timer, shutdown>>
        OBVIOUS
    <2>1. TypeOK'
        <3>1. hangups' \in 0 .. MaxHangups
            BY DEF TypeOK
        <3>2. queue' \subseteq Tasks /\ stuck' \subseteq Threads
            BY DEF TypeOK, Tasks
        <3>3. misuse' \subseteq Objects
            BY DEF TypeOK, Use
        <3> QED
            BY <2>0, <3>1, <3>2, <3>3 DEF TypeOK
    <2>2. (CountMatches /\ CallIsOnce /\ WorkHasDownload /\ DrainWaits /\ CountedFinds)'
        BY DEF CountMatches, CallIsOnce, WorkHasDownload, DrainWaits, CountedFinds
    <2>3. (GoneInOrder /\ OnlyStragglersMeetTheGone)'
        BY DEF GoneInOrder, OnlyStragglersMeetTheGone, Use, TypeOK
    <2> QED
        BY <2>1, <2>2, <2>3
<1> QED
    BY <1>1, <1>2, <1>3, <1>4

\* Every step, and a stuttering step, keeps the invariant.
LEMMA NextInductive == IInv /\ [Next]_vars => IInv'
<1> SUFFICES ASSUME IInv, [Next]_vars PROVE IInv'
    OBVIOUS
<1>1. CASE Main
    BY <1>1, MainInductive
<1>2. CASE Io \/ \E c \in Clients : Connect(c) \/ Ask(c)
    <2>1. ASSUME NEW c \in Clients,
                 Connect(c) \/ Ask(c) \/ AcceptCompletes(c) \/ OnAccept(c) \/ OnData(c)
          PROVE  IInv'
        BY <2>1, ClientInductive
    <2>2. ASSUME NEW c \in Clients, BeginCall(c) \/ Reply(c)
          PROVE  IInv'
        BY <2>2, CallInductive
    <2>3. ASSUME CallFails \/ CallLocks \/ CallIsQueued \/ Leave \/ LeaveEnds \/ IoEnds
          PROVE  IInv'
        BY <2>3, CallRestInductive
    <2> QED
        BY <1>2, <2>1, <2>2, <2>3 DEF Io
<1>3. CASE Task
    BY <1>3, TaskInductive
<1>4. CASE WorkComes \/ Crash \/ \E thread \in Threads : Terminate(thread) \/ Hangup(thread)
    BY <1>4, OutsideInductive
<1>5. CASE UNCHANGED vars
    BY <1>5 DEF vars, callVars, taskVars, sigVars, IInv, TypeOK, CountMatches, CallIsOnce,
        WorkHasDownload, DrainWaits, CountedFinds, GoneInOrder, OnlyStragglersMeetTheGone
<1> QED
    BY <1>1, <1>2, <1>3, <1>4, <1>5 DEF Next

\* The invariant holds throughout.
LEMMA Invariant == Spec => []IInv
BY InitInductive, NextInductive, PTL DEF Spec

\* For any clients and signals, the variables of the shutdown keep their types.
THEOREM TypeCorrect == Spec => []TypeOK
<1>1. IInv => TypeOK
    BY DEF IInv
<1> QED
    BY <1>1, Invariant, PTL

\* ~RestHttpController waits for every call that entered in time: until it has released the
\* lock of the counter, such a call never finds the counter, the controller, the manager or
\* what they hold destroyed.
THEOREM CountedCallsAreSafe == Spec => []CountedCallFindsAgent
<1>1. IInv => CountedCallFindsAgent
    BY DEF IInv, TypeOK, CountedFinds, InCall, CountedCallFindsAgent
<1> QED
    BY <1>1, Invariant, PTL

\* Destroyed objects are used only by the handler of an accept that completed before the
\* acceptor was closed, which finds neither it nor perhaps the controller, by a late call,
\* a late SIGHUP or a download that was still there.
THEOREM MisuseIsKnown == Spec => []OnlyStragglersMeetTheGone
<1>1. IInv => OnlyStragglersMeetTheGone
    BY DEF IInv
<1> QED
    BY <1>1, Invariant, PTL
=============================================================================
