--------------------------- MODULE DownloadProofs ---------------------------
(***************************************************************************)
(* Safety properties of Download, proved for files of any length, any      *)
(* number of calls, failures and network changes, any configuration of     *)
(* caches and with or without errors of the file system; then those that   *)
(* hold only in calm circumstances.                                        *)
(***************************************************************************)
EXTENDS Download, FiniteSetTheorems, WellFoundedInduction, TLAPS

-----------------------------------------------------------------------------
(***************************************************************************)
(* The type invariant, in the groups of variables that the actions name.   *)
(***************************************************************************)
TaskTypes ==
    /\ at \in {"poll", "terminated"} \cup Closings
    /\ queue \in Seq(Tasks)
    /\ timers \in [TimerTasks -> Nat]
    /\ call \in AllOperations \cup {"none"}

StatusTypes ==
    /\ st \in [state : DownloadStates, error : BOOLEAN, extError : BOOLEAN,
               total : {0, Chunks}, transferred : Nat]
    /\ tracker \in [noProgress : 0 .. MaxNoProgress, lastSeen : Nat]
    /\ conn \in Connections
    /\ httpActive \in BOOLEAN

FileTypes ==
    /\ file \in [path : Paths, created : BOOLEAN, stream : Streams]
    /\ disk \in [Paths -> {"absent", "foreign", "own"}]
    /\ content \in Seq(0 .. Chunks)

CurlTypes ==
    /\ agent \in [headersSeen : BOOLEAN, completed : BOOLEAN, start : Nat,
                  connectTimeout : {0, 3, 15}]
    /\ curl \in [queued : BOOLEAN, active : BOOLEAN, marked : BOOLEAN]
    /\ wire \in Nat

EnvTypes ==
    /\ net \in BOOLEAN
    /\ banned \in BOOLEAN
    /\ due \in BOOLEAN
    /\ used \in [calls : 0 .. MaxCalls, failures : 0 .. MaxFailures,
                 flips : 0 .. MaxNetFlips]

LEMMA BoundsAreNaturals ==
    MaxNoProgress \in Nat /\ MaxCalls \in Nat /\ MaxFailures \in Nat /\ MaxNetFlips \in Nat
BY DownloadAssumption

LEMMA TypesTogether ==
    /\ TypeOK <=> TaskTypes /\ StatusTypes /\ FileTypes /\ CurlTypes /\ EnvTypes
    /\ (TypeOK <=> TaskTypes /\ StatusTypes /\ FileTypes /\ CurlTypes /\ EnvTypes)'
<1>1. {net, banned, due} \subseteq BOOLEAN
          <=> net \in BOOLEAN /\ banned \in BOOLEAN /\ due \in BOOLEAN
    BY Zenon
<1>2. ({net, banned, due} \subseteq BOOLEAN
          <=> net \in BOOLEAN /\ banned \in BOOLEAN /\ due \in BOOLEAN)'
    BY Zenon
<1> QED
    BY <1>1, <1>2 DEF TypeOK, TaskTypes, StatusTypes, FileTypes, CurlTypes, EnvTypes

\* A queue stays a queue of tasks, whatever is added to it or taken from it.
LEMMA QueuesAreTyped ==
    ASSUME NEW q \in Seq(Tasks), NEW task \in Tasks
    PROVE  /\ Sched(q, task) \in Seq(Tasks)
           /\ SchedImmediate(q, task) \in Seq(Tasks)
           /\ q # <<>> => Tail(q) \in Seq(Tasks) /\ Head(q) \in Tasks
BY DEF Sched, SchedImmediate

LEMMA KindsAreTasks ==
    /\ FailureKinds \subseteq Tasks \ {"call"}
    /\ {"headers", "no length", "data", "completed", "transferred", "retry", "local"}
            \subseteq Tasks \ {"call"}
    /\ "local" \in FailureKinds
<1>1. FailureKinds \subseteq {"local", "client", "unreachable", "server"}
    BY DEF FailureKinds, FailureOf
<1>2. "local" \in FailureKinds
    <2> DEFINE e == [status |-> "none", curl |-> "ok", callback |-> "failed"]
    <2>1. e \in Endings /\ ~Succeeds(e) /\ FailureOf(e) = "local"
        BY DEF Endings, Succeeds, FailureOf
    <2> QED
        BY <2>1 DEF FailureKinds
<1>3. FailureKinds \subseteq Tasks
    BY DEF Tasks, OwnTasks
<1>4. {"headers", "no length", "data", "completed", "transferred", "retry"} \subseteq Tasks
    BY DEF Tasks, OwnTasks
<1> QED
    BY <1>1, <1>2, <1>3, <1>4

LEMMA ShortQueuesAreTyped == <<>> \in Seq(Tasks) /\ \A task \in Tasks : <<task>> \in Seq(Tasks)
<1>1. <<>> \in Seq(Tasks)
    OBVIOUS
<1>2. ASSUME NEW task \in Tasks PROVE <<task>> \in Seq(Tasks)
    OBVIOUS
<1> QED
    BY <1>1, <1>2

LEMMA TimersAreTyped ==
    ASSUME NEW t \in [TimerTasks -> Nat]
    PROVE  /\ \A task \in TimerTasks : SchedDelayed(t, task) \in [TimerTasks -> Nat]
           /\ \A kinds : UnscheduleDelayed(t, kinds) \in [TimerTasks -> Nat]
BY DEF SchedDelayed, UnscheduleDelayed

-----------------------------------------------------------------------------
(***************************************************************************)
(* Where the task of the call in progress is.                              *)
(***************************************************************************)
NoCallIn(q) == \A i \in DOMAIN q : q[i] # "call"

\* The task of a call is queued once, and not at all before it is scheduled or while it
\* runs; it runs for as long as the task thread waits in Close on its behalf.
CallIsOnce ==
    /\ \A i, j \in DOMAIN queue : queue[i] = "call" /\ queue[j] = "call" => i = j
    /\ call = "none" => NoCallIn(queue)
    /\ at \in {"Pause", "Finalize", "Abort"} => call = at /\ NoCallIn(queue)

\* The library has induction as the fact that < is well-founded on Nat.
Below == {p \in Nat \X Nat : p[1] < p[2]}

LEMMA LeastElement ==
    ASSUME NEW T, T \subseteq Nat, T # {}
    PROVE  \E least \in T : \A n \in T : ~(n < least)
<1>1. OpToRel(<, Nat) = Below
    BY Zenon DEF OpToRel, Below
<1>2. IsWellFoundedOn(Below, Nat)
    BY <1>1, NatLessThanWellFounded, Zenon
<1>3. PICK least \in T : \A n \in T : ~(<<n, least>> \in Below)
    BY <1>2, WFMin
<1> QED
    BY <1>3 DEF Below

\* Nothing is left of a queue of which every task is removed.
LEMMA UnscheduleAll ==
    ASSUME NEW S, NEW q \in Seq(S), NEW kinds, \A i \in 1 .. Len(q) : q[i] \in kinds
    PROVE  Unschedule(q, kinds) = <<>>
<1> DEFINE Def(f) == f = [i \in 0 .. Len(q) |->
                            IF i = 0 THEN <<>>
                            ELSE IF q[i] \in kinds THEN f[i - 1]
                            ELSE Append(f[i - 1], q[i])]
           kept == CHOOSE f : Def(f)
           Bad == {i \in 0 .. Len(q) : kept[i] # <<>>}
<1>1. Unschedule(q, kinds) = kept[Len(q)]
    BY DEF Unschedule
<1>2. Def([i \in 0 .. Len(q) |-> <<>>])
    OBVIOUS
<1>3. Def(kept)
    BY <1>2
<1>4. Bad = {}
    <2> SUFFICES ASSUME Bad # {} PROVE FALSE
        OBVIOUS
    <2> HIDE DEF kept
    <2>1. PICK least \in Bad : \A n \in Bad : ~(n < least)
        <3>1. Bad \subseteq Nat
            OBVIOUS
        <3> QED
            BY <3>1, LeastElement
    <2>2. least # 0
        BY <1>3
    <2>3. least - 1 \in 0 .. Len(q) /\ least - 1 < least /\ least \in 0 .. Len(q)
        BY <2>2
    <2>4. kept[least] = kept[least - 1]
        BY <1>3, <2>2, <2>3
    <2> QED
        BY <2>1, <2>3, <2>4
<1> QED
    BY <1>1, <1>4

\* So _CancelTasks, which spares only a call, empties the queue.
LEMMA CancelledQueue ==
    ASSUME TypeOK, CallIsOnce, at \in {"Finalize", "Abort"}
    PROVE  Unschedule(queue, OwnTasks \cup {"progress"}) = <<>>
<1>1. queue \in Seq(Tasks) /\ NoCallIn(queue)
    BY DEF TypeOK, CallIsOnce
<1>2. \A i \in 1 .. Len(queue) : queue[i] \in OwnTasks \cup {"progress"}
    BY <1>1 DEF NoCallIn, Tasks
<1> QED
    BY <1>1, <1>2, UnscheduleAll

\* The choice of a connection, and the mark of a request, stay in Connections.
LEMMA ConnectionsAreTyped ==
    ASSUME NEW c \in Connections, NEW retry, NEW n \in Nat, NEW fallback,
           NEW passed, NEW usable
    PROVE  /\ ChooseConnection(c, retry, n, fallback, passed, usable) \in Connections
           /\ MarkRequest(c, n) \in Connections
<1>1. MarkRequest(c, n) \in Connections
    BY DEF MarkRequest, Connections
<1> DEFINE d == ChooseConnection(c, retry, n, fallback, passed, usable)
           allow == c.allowMcc /\ ~(retry /\ fallback # "custom" /\ passed)
<1> DEFINE wanted == IF retry THEN RetryType(c, n, fallback, passed) ELSE "MCC"
           type == IF wanted = "MCC" /\ allow /\ usable THEN "MCC" ELSE "CDN"
           attempts == IF type # c.type THEN 1
                       ELSE IF c.attempts < MaxAttempts THEN c.attempts + 1 ELSE c.attempts
<1>2. d = [c EXCEPT !.type = type, !.allowMcc = allow, !.attempts = attempts]
    BY Zenon DEF ChooseConnection
<1>6. type \in ConnectionTypes /\ attempts \in 0 .. MaxAttempts
    <2> HIDE DEF wanted, allow
    <2> QED
        BY DEF ConnectionTypes, Connections, MaxAttempts
<1>3. allow \in BOOLEAN
    OBVIOUS
<1>4. ASSUME NEW t \in ConnectionTypes, NEW a \in 0 .. MaxAttempts, NEW b \in BOOLEAN
      PROVE  [c EXCEPT !.type = t, !.allowMcc = b, !.attempts = a] \in Connections
    BY DEF Connections
<1>5. d \in Connections
    <2> HIDE DEF d, allow, type, attempts
    <2> QED
        BY <1>2, <1>3, <1>4, <1>6
<1> QED
    BY <1>1, <1>5

\* How the status of a download changes.
Statuses == [state : DownloadStates, error : BOOLEAN, extError : BOOLEAN,
             total : {0, Chunks}, transferred : Nat]

LEMMA StatusesAreTyped ==
    ASSUME st \in Statuses
    PROVE  /\ Transferring \in Statuses
           /\ \A b, c \in BOOLEAN : PausedWith(b, c) \in Statuses
           /\ \A s \in DownloadStates : [st EXCEPT !.state = s] \in Statuses
           /\ [st EXCEPT !.error = TRUE] \in Statuses
           /\ [st EXCEPT !.transferred = @ + 1] \in Statuses
           /\ \A n \in {0, Chunks} : [st EXCEPT !.total = n] \in Statuses
<1>1. Transferring \in Statuses
    BY DEF Transferring, Statuses, DownloadStates
<1>2. \A b, c \in BOOLEAN : PausedWith(b, c) \in Statuses
    BY DEF PausedWith, Statuses, DownloadStates
<1>3. \A s \in DownloadStates : [st EXCEPT !.state = s] \in Statuses
    BY DEF Statuses
<1>4. [st EXCEPT !.error = TRUE] \in Statuses
    BY DEF Statuses
<1>5. [st EXCEPT !.transferred = @ + 1] \in Statuses
    BY DEF Statuses
<1>6. \A n \in {0, Chunks} : [st EXCEPT !.total = n] \in Statuses
    BY DEF Statuses
<1> QED
    BY <1>1, <1>2, <1>3, <1>4, <1>5, <1>6

LEMMA InitTyped == Init => TypeOK
<1> SUFFICES ASSUME Init PROVE TypeOK
    OBVIOUS
<1> USE DEF Init
<1>1. TaskTypes
    BY DEF TaskTypes, TimerTasks
<1>2. StatusTypes
    <2>1. NoConnection \in Connections
        BY DEF NoConnection, Connections, ConnectionTypes, MaxAttempts
    <2>2. /\ st \in [state : DownloadStates, error : BOOLEAN, extError : BOOLEAN,
                     total : {0, Chunks}, transferred : Nat]
          /\ tracker \in [noProgress : 0 .. MaxNoProgress, lastSeen : Nat]
        BY DownloadAssumption DEF DownloadStates
    <2>3. httpActive \in BOOLEAN
        BY Zenon
    <2> QED
        BY <2>1, <2>2, <2>3 DEF StatusTypes
<1>3. FileTypes
    BY DEF FileTypes, Streams
<1>4. CurlTypes
    BY DEF CurlTypes, NoAgent
<1>5. EnvTypes
    <2>1. MaxCalls \in Nat /\ MaxFailures \in Nat /\ MaxNetFlips \in Nat
        BY DownloadAssumption
    <2>2. net \in BOOLEAN /\ banned \in BOOLEAN /\ due \in BOOLEAN
        BY Zenon
    <2> QED
        BY <2>1, <2>2 DEF EnvTypes
<1> QED
    BY <1>1, <1>2, <1>3, <1>4, <1>5, TypesTogether

Agents == [headersSeen : BOOLEAN, completed : BOOLEAN, start : Nat, connectTimeout : {0, 3, 15}]

\* A request that is made, or refused, keeps the types.
LEMMA SendTyped ==
    ASSUME TypeOK, NEW a \in Agents, NEW retry, NEW q \in Seq(Tasks),
           NEW next \in {"poll", "terminated"}, SendHttpRequest(a, retry, q, next)
    PROVE  /\ at' \in {"poll", "terminated"} \cup Closings
           /\ queue' \in Seq(Tasks)
           /\ timers' \in [TimerTasks -> Nat]
           /\ StatusTypes'
           /\ CurlTypes'
           /\ EnvTypes'
<1> USE TypesTogether
<1>1. Chosen(retry) \in Connections
    BY ConnectionsAreTyped DEF Chosen, StatusTypes
<1>2. conn' \in Connections
    BY <1>1, ConnectionsAreTyped DEF StatusTypes, SendHttpRequest, RequestMade, RequestRefused
<1>3. \A type : CreateClient(a, type) \in Agents /\ Prepared(a, type) \in Agents
    BY DEF CreateClient, Prepared, ConnectTimeout, Agents, StatusTypes
<1>4. agent' \in Agents
    BY <1>3 DEF SendHttpRequest, RequestMade, RequestRefused
<1>5. st' \in [state : DownloadStates, error : BOOLEAN, extError : BOOLEAN,
               total : {0, Chunks}, transferred : Nat]
    BY DEF StatusTypes, SendHttpRequest, RequestMade, RequestRefused, Transferring, DownloadStates
<1>6. httpActive' \in BOOLEAN
    BY DEF StatusTypes, SendHttpRequest, RequestMade, RequestRefused
<1>7. timers' \in [TimerTasks -> Nat]
    BY TimersAreTyped DEF TaskTypes, SendHttpRequest, RequestMade, RequestRefused,
        WatchProgress, TimerTasks
<1>8. at' \in {"poll", "terminated"} \cup Closings /\ queue' \in Seq(Tasks)
    BY DEF SendHttpRequest, RequestMade, RequestRefused
<1>9. curl' \in [queued : BOOLEAN, active : BOOLEAN, marked : BOOLEAN]
    BY DEF CurlTypes, SendHttpRequest, RequestMade, RequestRefused
<1>10. UNCHANGED <<tracker, wire, net, banned, due, used>>
    BY DEF SendHttpRequest, envVars
<1> QED
    BY <1>2, <1>4, <1>5, <1>6, <1>7, <1>8, <1>9, <1>10
        DEF StatusTypes, CurlTypes, EnvTypes, Agents

\* The calls of clients, as the task thread serves them.
LEMMA RestCallTyped ==
    ASSUME TypeOK, RestCall
    PROVE  TypeOK'
<1> USE TypesTogether
<1>1. queue \in Seq(Tasks) /\ rest \in Seq(Tasks) /\ agent \in Agents /\ NoAgent \in Agents
    <2>1. queue # <<>>
        BY DEF RestCall, Start, Resume, ResumeComplete, OpenFails, ReopenTerminates, CloseForCall,
            SetUri, SetPath, AnswerCall, Dequeue
    <2> QED
        BY <2>1 DEF TaskTypes, CurlTypes, Agents, NoAgent, rest
<1>2. ASSUME Start PROVE TypeOK'
    <2>1. FileTypes'
        BY <1>2 DEF Start, FileTypes, Streams
    <2>2. call' \in AllOperations \cup {"none"}
        BY <1>2 DEF Start
    <2> QED
        BY <1>1, <1>2, <2>1, <2>2, SendTyped DEF Start, TaskTypes
<1>3. ASSUME Resume PROVE TypeOK'
    <2>1. FileTypes'
        BY <1>3 DEF Resume, Reopen, FileTypes, Streams
    <2>2. call' \in AllOperations \cup {"none"}
        BY <1>3 DEF Resume
    <2> QED
        BY <1>1, <1>3, <2>1, <2>2, SendTyped DEF Resume, TaskTypes
<1>4. ASSUME ResumeComplete \/ OpenFails \/ ReopenTerminates \/ CloseForCall \/ SetUri \/ SetPath
             \/ AnswerCall
      PROVE  TypeOK'
    <2> USE <1>4
    <2>1. SchedImmediate(rest, "transferred") \in Seq(Tasks)
        BY <1>1, QueuesAreTyped DEF Tasks, OwnTasks
    <2>2. TaskTypes'
        BY <1>1, <2>1 DEF TaskTypes, ResumeComplete, OpenFails, ReopenTerminates, CloseForCall,
            BeginClose, SetUri, SetPath, AnswerCall, Closings
    <2>3. StatusTypes'
        <3>1. UNCHANGED <<conn, httpActive>>
            BY DEF ResumeComplete, OpenFails, ReopenTerminates, CloseForCall, BeginClose, SetUri,
                SetPath, AnswerCall, ownVars
        <3>2. tracker' = tracker \/ tracker' = [tracker EXCEPT !.noProgress = 0]
            BY DEF ResumeComplete, OpenFails, ReopenTerminates, CloseForCall, BeginClose, SetUri,
                SetPath, AnswerCall, ownVars
        <3>3. st' = st \/ st' = Transferring
            BY DEF ResumeComplete, OpenFails, ReopenTerminates, CloseForCall, BeginClose, SetUri,
                SetPath, AnswerCall, ownVars
        <3> QED
            BY <3>1, <3>2, <3>3, BoundsAreNaturals, StatusesAreTyped DEF StatusTypes, Statuses
    <2>4. FileTypes'
        BY DEF FileTypes, Streams, ResumeComplete, OpenFails, ReopenTerminates, Reopen, CloseThrows,
            CloseForCall, BeginClose, SetUri, SetPath, AnswerCall, fileVars
    <2>5. CurlTypes'
        BY DEF CurlTypes, ResumeComplete, OpenFails, ReopenTerminates,
            CloseForCall, BeginClose, SetUri, SetPath, AnswerCall, curlVars
    <2>6. EnvTypes'
        BY DownloadAssumption DEF EnvTypes, ResumeComplete, OpenFails, ReopenTerminates, CloseThrows,
            MayFail, Failing,
            CloseForCall, BeginClose, SetUri, SetPath, AnswerCall, envVars
    <2> QED
        BY <2>2, <2>3, <2>4, <2>5, <2>6
<1> QED
    BY <1>2, <1>3, <1>4 DEF RestCall

\* The updates that the callbacks of a request schedule.
LEMMA UpdateTyped ==
    ASSUME TypeOK, Update
    PROVE  TypeOK'
<1> USE TypesTogether
<1>1. PICK kind \in FailureKinds \cup {"none"} :
        \/ UpdateHeaders \/ UpdateData \/ UpdateTransferred
        \/ FailedWithoutNetwork(kind) \/ FailedForGood(kind) \/ FailedForNow(kind)
    BY DEF Update
<1> USE <1>1
<1>2. rest \in Seq(Tasks) /\ Sched(rest, "retry") \in Seq(Tasks)
    <2>1. queue # <<>>
        BY DEF UpdateHeaders, UpdateData, UpdateTransferred, FailedWithoutNetwork,
            FailedForGood, FailedForNow, Failed, Dequeue
    <2> QED
        BY <2>1, QueuesAreTyped DEF TaskTypes, rest, Tasks, OwnTasks
<1>3. TaskTypes'
    <2>1. SchedDelayed(timers, "retry") \in [TimerTasks -> Nat]
          /\ SchedDelayed(timers, "transient") \in [TimerTasks -> Nat]
        BY TimersAreTyped DEF TaskTypes, TimerTasks
    <2>2. timers' \in {timers, SchedDelayed(timers, "retry"), SchedDelayed(timers, "transient")}
        BY DEF UpdateHeaders, UpdateData, UpdateTransferred, FailedWithoutNetwork,
            FailedForGood, FailedForNow, HandleTransientError, BeginClose
    <2>3. queue' \in Seq(Tasks)
        BY <1>2 DEF UpdateHeaders, UpdateData, UpdateTransferred, FailedWithoutNetwork,
            FailedForGood, FailedForNow, BeginClose
    <2>4. call' = call /\ at' \in {at, "Fatal"}
        BY DEF UpdateHeaders, UpdateData, UpdateTransferred, FailedWithoutNetwork,
            FailedForGood, FailedForNow, BeginClose
    <2> QED
        BY <2>1, <2>2, <2>3, <2>4 DEF TaskTypes, Closings
<1>4. StatusTypes'
    <2>1. UNCHANGED <<conn, tracker>>
        BY DEF UpdateHeaders, UpdateData, UpdateTransferred, FailedWithoutNetwork,
            FailedForGood, FailedForNow, BeginClose
    <2>2. httpActive' \in BOOLEAN
        BY DEF StatusTypes, UpdateHeaders, UpdateData, UpdateTransferred, FailedWithoutNetwork,
            FailedForGood, FailedForNow, BeginClose
    <2>3. st' \in [state : DownloadStates, error : BOOLEAN, extError : BOOLEAN,
                   total : {0, Chunks}, transferred : Nat]
        <3>1. \/ st' \in {st, PausedWith(FALSE, TRUE)}
              \/ st' = [st EXCEPT !.error = TRUE]
              \/ st' = [st EXCEPT !.state = "Transferred"]
              \/ st' = [st EXCEPT !.transferred = @ + 1]
              \/ \E total \in {0, Chunks} : st' = [st EXCEPT !.total = total]
            BY DEF UpdateHeaders, UpdateData, UpdateTransferred, FailedWithoutNetwork,
                FailedForGood, FailedForNow, HandleTransientError, BeginClose
        <3>2. st \in Statuses
            BY DEF StatusTypes, Statuses
        <3>3. /\ PausedWith(FALSE, TRUE) \in Statuses
              /\ [st EXCEPT !.state = "Transferred"] \in Statuses
            BY <3>2, StatusesAreTyped DEF DownloadStates
        <3>4. st' \in Statuses
            BY <3>1, <3>2, <3>3, StatusesAreTyped, Zenon
        <3> QED
            BY <3>4 DEF Statuses
    <2> QED
        BY <2>1, <2>2, <2>3 DEF StatusTypes
<1>5. FileTypes'
    BY DEF FileTypes, fileVars, UpdateHeaders, UpdateData, UpdateTransferred,
        FailedWithoutNetwork, FailedForGood, FailedForNow, BeginClose
<1>6. CurlTypes'
    BY DEF CurlTypes, curlVars, UpdateHeaders, UpdateData, UpdateTransferred,
        FailedWithoutNetwork, FailedForGood, FailedForNow, BeginClose
<1>7. EnvTypes'
    <2>1. UNCHANGED <<net, due, used>>
        BY DEF envVars, UpdateHeaders, UpdateData, UpdateTransferred,
            FailedWithoutNetwork, FailedForGood, FailedForNow, BeginClose
    <2>2. banned' \in BOOLEAN
        BY DEF EnvTypes, envVars, Report, UpdateHeaders, UpdateData, UpdateTransferred,
            FailedWithoutNetwork, FailedForGood, FailedForNow, BeginClose
    <2> QED
        BY <2>1, <2>2 DEF EnvTypes
<1> QED
    BY <1>3, <1>4, <1>5, <1>6, <1>7

\* The delayed tasks: retries and the progress check.
LEMMA DelayedTaskTyped ==
    ASSUME TypeOK, DelayedTask
    PROVE  TypeOK'
<1> USE TypesTogether
<1>1. rest \in Seq(Tasks) /\ agent \in Agents
    <2>1. queue # <<>>
        BY DEF DelayedTask, Retry, RetryAfterTransientError, StillNoNetwork, CheckProgress,
            NoProgress, SkipTask, Dequeue
    <2> QED
        BY <2>1, QueuesAreTyped DEF TaskTypes, CurlTypes, Agents, rest
<1>2. ASSUME Retry \/ RetryAfterTransientError PROVE TypeOK'
    <2>1. FileTypes' /\ call' = call
        BY <1>2 DEF Retry, RetryAfterTransientError, FileTypes, fileVars
    <2> QED
        BY <1>1, <1>2, <2>1, SendTyped DEF Retry, RetryAfterTransientError, TaskTypes
<1>3. ASSUME StillNoNetwork \/ CheckProgress \/ NoProgress \/ SkipTask PROVE TypeOK'
    <2> USE <1>3
    <2>1. TaskTypes'
        BY <1>1, TimersAreTyped DEF TaskTypes, TimerTasks, Closings, WatchProgress,
            HandleTransientError, StillNoNetwork, CheckProgress, NoProgress, BeginClose, SkipTask
    <2>2. NextTracker \in [noProgress : 0 .. MaxNoProgress, lastSeen : Nat]
        BY BoundsAreNaturals DEF NextTracker, StatusTypes
    <2>3. StatusTypes'
        <3>1. UNCHANGED <<conn, httpActive>> /\ tracker' \in {tracker, NextTracker}
            BY DEF ownVars, StillNoNetwork, CheckProgress, NoProgress, BeginClose, SkipTask
        <3>2. st' = st \/ st' = PausedWith(FALSE, TRUE)
            BY DEF ownVars, StillNoNetwork, HandleTransientError, CheckProgress, NoProgress,
                BeginClose, SkipTask
        <3> QED
            BY <2>2, <3>1, <3>2, StatusesAreTyped DEF StatusTypes, Statuses
    <2>4. FileTypes'
        BY DEF FileTypes, fileVars, StillNoNetwork, CheckProgress, NoProgress, BeginClose, SkipTask
    <2>5. CurlTypes'
        BY DEF CurlTypes, curlVars, StillNoNetwork, CheckProgress, NoProgress, BeginClose, SkipTask
    <2>6. EnvTypes'
        BY DEF EnvTypes, envVars, StillNoNetwork, CheckProgress, NoProgress, BeginClose, SkipTask
    <2> QED
        BY <2>1, <2>3, <2>4, <2>5, <2>6
<1> QED
    BY <1>2, <1>3 DEF DelayedTask

\* What follows the wait in Close.
LEMMA FinishCloseTyped ==
    ASSUME TypeOK, CallIsOnce, FinishClose
    PROVE  TypeOK'
<1> USE TypesTogether
<1>1. TaskTypes'
    <2>1. queue' = queue \/ queue' = <<>>
        BY CancelledQueue DEF CancelTasks, FinishClose, FinishPause, FinishFinalize,
            FinishAbort, FinishWithError, AbortThrows, Closed
    <2>2. timers' = timers \/ timers' = UnscheduleDelayed(timers, OwnTasks \cup {"progress"})
        BY DEF CancelTasks, FinishClose, FinishPause, FinishFinalize,
            FinishAbort, FinishWithError, AbortThrows, Closed
    <2>3. call' \in {call, "none"} /\ at' \in {"poll", "terminated"}
        BY DEF FinishClose, FinishPause, FinishFinalize,
            FinishAbort, FinishWithError, AbortThrows, Closed
    <2> QED
        BY <2>1, <2>2, <2>3, TimersAreTyped, ShortQueuesAreTyped DEF TaskTypes
<1>2. StatusTypes'
    <2>1. UNCHANGED <<tracker, conn>> /\ httpActive' \in {httpActive, FALSE}
        BY DEF FinishClose, FinishPause, FinishFinalize,
            FinishAbort, FinishWithError, AbortThrows, Closed
    <2>2. \/ st' = st
          \/ \E b, c \in BOOLEAN : st' = PausedWith(b, c)
          \/ \E s \in DownloadStates : st' = [st EXCEPT !.state = s]
        <3>1. st.error \in BOOLEAN
            BY DEF StatusTypes
        <3> QED
            BY <3>1 DEF DownloadStates, FinishClose, FinishPause, FinishFinalize,
                FinishAbort, FinishWithError, AbortThrows, Closed
    <2> QED
        BY <2>1, <2>2, StatusesAreTyped DEF StatusTypes, Statuses
<1>3. FileTypes'
    <2>1. content' = content /\ disk' \in {disk, [disk EXCEPT ![file.path] = "absent"]}
        BY DEF FinishClose, FinishPause, FinishFinalize,
            FinishAbort, FinishWithError, AbortThrows, Closed
    <2>2. \E how \in Streams : file' = [file EXCEPT !.stream = how]
        BY DEF Streams, Closes, CloseThrows, FinishClose, FinishPause, FinishFinalize,
            FinishAbort, FinishWithError, AbortThrows, Closed
    <2> QED
        BY <2>1, <2>2 DEF FileTypes, Streams
<1>4. CurlTypes'
    BY DEF CurlTypes, curlVars, FinishClose, FinishPause, FinishFinalize,
            FinishAbort, FinishWithError, AbortThrows, Closed
<1>5. EnvTypes'
    <2>1. UNCHANGED <<net, banned, due>>
        BY DEF FinishClose, FinishPause, FinishFinalize,
            FinishAbort, FinishWithError, AbortThrows, Closed
    <2>2. used' = used \/ CloseThrows
        BY DEF Closes, FinishClose, FinishPause, FinishFinalize,
            FinishAbort, FinishWithError, AbortThrows, Closed
    <2> QED
        BY <2>1, <2>2, BoundsAreNaturals DEF EnvTypes, CloseThrows, Failing, MayFail
<1> QED
    BY <1>1, <1>2, <1>3, <1>4, <1>5

\* The worker of CurlRequests and libcurl.
LEMMA CurlThreadTyped ==
    ASSUME TypeOK, CurlThread
    PROVE  TypeOK'
<1> USE TypesTogether
<1>1. PICK kind \in FailureKinds \cup {"none"} :
        \/ TakeOver \/ OnData \/ OnSuccess \/ OnShortWrite \/ OnDataRefused
        \/ OnFailure(kind) /\ kind \in FailureKinds
    BY DEF CurlThread
<1>2. TaskTypes'
    <2>1. UNCHANGED <<at, timers, call>>
        BY <1>1 DEF TakeOver, OnData, OnSuccess, OnShortWrite, OnDataRefused, OnFailure
    <2>2. \A h \in Headers : queue \o h \in Seq(Tasks)
        <3>1. Headers \subseteq {<<>>, <<"headers">>, <<"no length">>}
            BY DEF Headers
        <3>2. "headers" \in Tasks /\ "no length" \in Tasks
            BY DEF Tasks, OwnTasks
        <3>3. <<>> \in Seq(Tasks) /\ <<"headers">> \in Seq(Tasks) /\ <<"no length">> \in Seq(Tasks)
            BY <3>2, ShortQueuesAreTyped, Zenon
        <3>4. Headers \subseteq Seq(Tasks)
            BY <3>1, <3>3, Zenon
        <3> QED
            BY <3>4 DEF TaskTypes
    <2>3. queue' \in Seq(Tasks)
        <3>1. ASSUME NEW q \in Seq(Tasks), NEW task \in Tasks, OnComplete(q, task)
              PROVE  queue' \in Seq(Tasks)
            BY <3>1, QueuesAreTyped DEF OnComplete
        <3>2. queue \in Seq(Tasks) /\ FailureKinds \subseteq Tasks
            BY DEF TaskTypes, Tasks, OwnTasks
        <3>3. "headers" \in Tasks /\ "completed" \in Tasks /\ "data" \in Tasks
            BY DEF Tasks, OwnTasks
        <3>4. "local" \in FailureKinds
            BY KindsAreTasks
        <3>5. CASE TakeOver \/ OnSuccess
            BY <3>1, <3>2, <3>3, <3>5 DEF TakeOver, OnSuccess
        <3>6. CASE OnData
            <4>1. PICK h \in Headers : queue' = Sched(queue \o h, "data")
                BY <3>6 DEF OnData
            <4> QED
                BY <2>2, <3>3, <4>1, QueuesAreTyped
        <3>7. CASE OnShortWrite
            <4>1. Append(queue, "headers") \in Seq(Tasks)
                BY <3>2, <3>3
            <4>2. PICK q \in Seq(Tasks) : OnComplete(q, "local")
                BY <3>2, <3>7, <4>1 DEF OnShortWrite
            <4> QED
                BY <3>1, <3>2, <3>4, <4>2
        <3>8. CASE OnDataRefused
            <4>1. PICK h \in Headers : OnComplete(queue \o h, "local")
                BY <3>8 DEF OnDataRefused
            <4> QED
                BY <2>2, <3>1, <3>2, <3>4, <4>1
        <3>9. CASE OnFailure(kind) /\ kind \in FailureKinds
            BY <3>1, <3>2, <3>9 DEF OnFailure
        <3> QED
            BY <1>1, <3>5, <3>6, <3>7, <3>8, <3>9
    <2> QED
        BY <2>1, <2>3 DEF TaskTypes
<1>3. StatusTypes'
    BY <1>1 DEF StatusTypes, ownVars, TakeOver, OnData, OnSuccess, OnShortWrite, OnDataRefused,
        OnFailure
<1>4. FileTypes'
    <2>1. UNCHANGED <<file, disk>>
        BY <1>1 DEF fileVars, TakeOver, OnData, OnSuccess, OnShortWrite, OnDataRefused, OnFailure
    <2>2. \/ content' = content
          \/ content' = Append(content, 0)
          \/ content' = Append(content, wire + 1) /\ wire < Chunks
        BY <1>1 DEF fileVars, TakeOver, OnData, OnSuccess, OnShortWrite, OnDataRefused, OnFailure
    <2>3. Chunks \in Nat /\ wire \in Nat /\ content \in Seq(0 .. Chunks)
        BY DownloadAssumption DEF CurlTypes, FileTypes
    <2>4. content' \in Seq(0 .. Chunks)
        <3>1. \A n \in 0 .. Chunks : Append(content, n) \in Seq(0 .. Chunks)
            BY <2>3
        <3>2. 0 \in 0 .. Chunks /\ (wire < Chunks => wire + 1 \in 0 .. Chunks)
            BY <2>3
        <3> QED
            BY <2>2, <2>3, <3>1, <3>2, Zenon
    <2> QED
        BY <2>1, <2>4 DEF FileTypes
<1>5. CurlTypes'
    <2>1. wire' \in Nat
        <3>1. wire' \in {wire, wire + 1, agent.start, 0}
            BY <1>1 DEF Begin, TakeOver, OnData, OnSuccess, OnShortWrite, OnDataRefused, OnFailure
        <3>2. wire \in Nat /\ agent.start \in Nat
            BY DEF CurlTypes
        <3> QED
            BY <3>1, <3>2
    <2>2. \/ agent' = agent
          \/ agent' = [agent EXCEPT !.headersSeen = TRUE]
          \/ agent' = [agent EXCEPT !.completed = TRUE, !.headersSeen = TRUE]
        BY <1>1 DEF OnComplete, TakeOver, OnData, OnSuccess, OnShortWrite, OnDataRefused, OnFailure
    <2>3. \/ curl' = curl
          \/ curl' = [curl EXCEPT !.active = FALSE]
          \/ \E b \in BOOLEAN : curl' = [queued |-> FALSE, marked |-> FALSE, active |-> b]
        BY <1>1 DEF OnComplete, TakeOver, OnData, OnSuccess, OnShortWrite, OnDataRefused, OnFailure
    <2>4. agent' \in Agents
        <3>1. agent \in Agents
            BY DEF CurlTypes, Agents
        <3> QED
            BY <2>2, <3>1 DEF Agents
    <2>5. curl' \in [queued : BOOLEAN, active : BOOLEAN, marked : BOOLEAN]
        <3> DEFINE Handles == [queued : BOOLEAN, active : BOOLEAN, marked : BOOLEAN]
        <3>1. curl \in Handles
            BY DEF CurlTypes
        <3>2. [curl EXCEPT !.active = FALSE] \in Handles
            BY <3>1
        <3>3. \A b \in BOOLEAN : [queued |-> FALSE, marked |-> FALSE, active |-> b] \in Handles
            OBVIOUS
        <3> HIDE DEF Handles
        <3>4. curl' \in Handles
            BY <2>3, <3>1, <3>2, <3>3, Zenon
        <3> QED
            BY <3>4 DEF Handles
    <2> QED
        BY <2>1, <2>4, <2>5 DEF CurlTypes, Agents
<1>6. EnvTypes'
    <2>1. UNCHANGED <<net, banned, due>>
        BY <1>1 DEF envVars, TakeOver, OnData, OnSuccess, OnShortWrite, OnDataRefused, OnFailure
    <2>2. \/ used' = used
          \/ MayFail /\ used' = [used EXCEPT !.failures = @ + 1]
          \/ \E b \in BOOLEAN : used' = Failing(b) /\ (b => MayFail)
        <3>1. ASSUME NEW h \in Headers, used' = Failing(h = <<"no length">>)
              PROVE  \E b \in BOOLEAN : used' = Failing(b) /\ (b => MayFail)
            <4>1. h = <<"no length">> => MayFail
                <5>1. h \in {<<>>, <<"headers">>} \/ MayFail
                    BY DEF Headers, MayBeUnusual
                <5>2. <<"no length">> # <<>> /\ <<"no length">> # <<"headers">>
                    OBVIOUS
                <5> QED
                    BY <5>1, <5>2
            <4> QED
                BY <3>1, <4>1, Zenon
        <3>2. CASE TakeOver
            <4>1. ASSUME NEW from \in IF MayBeUnusual THEN {agent.start, 0} ELSE {agent.start},
                         used' = Failing(from # agent.start)
                  PROVE  \E b \in BOOLEAN : used' = Failing(b) /\ (b => MayFail)
                <5>1. from # agent.start => MayFail
                    BY DEF MayBeUnusual
                <5> QED
                    BY <4>1, <5>1, Zenon
            <4> QED
                BY <3>2, <4>1 DEF TakeOver, Begin
        <3>3. CASE OnData \/ OnDataRefused
            BY <3>1, <3>3 DEF OnData, OnDataRefused
        <3>4. CASE OnSuccess \/ OnShortWrite \/ OnFailure(kind)
            BY <3>4 DEF OnSuccess, OnShortWrite, OnFailure, envVars, Failing, MayFail
        <3> QED
            BY <1>1, <3>2, <3>3, <3>4
    <2> QED
        BY <2>1, <2>2, BoundsAreNaturals DEF EnvTypes, Failing, MayFail
<1> QED
    BY <1>2, <1>3, <1>4, <1>5, <1>6

\* Time and the environment, and a call that is scheduled.
LEMMA EnvironmentTyped ==
    ASSUME TypeOK, Environment \/ \E op \in Operations : Call(op)
    PROVE  TypeOK'
<1> USE TypesTogether
<1>1. ASSUME NEW task \in TimerTasks, TimerDue(task) PROVE TypeOK'
    <2>1. task \in Tasks
        BY DEF TimerTasks, Tasks, OwnTasks
    <2>2. timers[task] \in Nat /\ timers[task] > 0
        BY <1>1 DEF TaskTypes, TimerDue
    <2>3. timers[task] - 1 \in Nat
        BY <2>2
    <2>4. TaskTypes'
        BY <1>1, <2>1, <2>3, QueuesAreTyped DEF TaskTypes, TimerDue
    <2> QED
        BY <1>1, <2>4 DEF TimerDue, ownVars, fileVars, curlVars, envVars, StatusTypes, FileTypes,
            CurlTypes, EnvTypes
<1>2. ASSUME NEW op \in Operations, Call(op) PROVE TypeOK'
    <2>1. op \in AllOperations /\ "call" \in Tasks
        BY DownloadAssumption DEF Tasks
    <2>2. TaskTypes'
        BY <1>2, <2>1, QueuesAreTyped DEF TaskTypes, Call, ScheduleCall
    <2>3. EnvTypes'
        BY <1>2, BoundsAreNaturals DEF EnvTypes, Call
    <2> QED
        BY <1>2, <2>2, <2>3 DEF Call, ownVars, fileVars, curlVars, StatusTypes, FileTypes, CurlTypes
<1>3. ASSUME NetworkChanges \/ FallbackComesDue \/ BanEnds PROVE TypeOK'
    <2>1. EnvTypes'
        <3>1. net' \in {net, ~net} /\ banned' \in {banned, FALSE} /\ due' \in {due, TRUE}
            BY <1>3 DEF NetworkChanges, FallbackComesDue, BanEnds
        <3>2. net' \in BOOLEAN /\ banned' \in BOOLEAN /\ due' \in BOOLEAN
            BY <3>1, Zenon DEF EnvTypes
        <3>3. \/ used' = used
              \/ used.flips < MaxNetFlips /\ used' = [used EXCEPT !.flips = @ + 1]
            BY <1>3 DEF NetworkChanges, FallbackComesDue, BanEnds
        <3> QED
            BY <3>2, <3>3, BoundsAreNaturals DEF EnvTypes
    <2> QED
        BY <1>3, <2>1 DEF NetworkChanges, FallbackComesDue, BanEnds, ownVars, fileVars, curlVars,
            TaskTypes, StatusTypes, FileTypes, CurlTypes
<1> QED
    BY <1>1, <1>2, <1>3 DEF Environment

LEMMA TypeInductive ==
    ASSUME TypeOK, CallIsOnce, [Next]_vars
    PROVE  TypeOK'
<1>1. CASE Next
    BY <1>1, RestCallTyped, UpdateTyped, DelayedTaskTyped, FinishCloseTyped, CurlThreadTyped,
        EnvironmentTyped DEF Next, TaskThread
<1>2. CASE UNCHANGED vars
    BY <1>2 DEF vars, ownVars, fileVars, curlVars, envVars, TypeOK
<1> QED
    BY <1>1, <1>2

-----------------------------------------------------------------------------
(***************************************************************************)
(* The task of a call is queued once.                                      *)
(***************************************************************************)
Once(q) == \A i, j \in DOMAIN q : q[i] = "call" /\ q[j] = "call" => i = j

\* What adding a task to a queue, or taking the first one from it, does to the calls in it
LEMMA CallsInQueue ==
    ASSUME NEW q \in Seq(Tasks)
    PROVE  /\ NoCallIn(q) => Once(q) /\ Once(Append(q, "call")) /\ Once(<<"call">> \o q)
           /\ \A task \in Tasks \ {"call"} :
                /\ NoCallIn(q) => NoCallIn(Append(q, task)) /\ NoCallIn(<<task>> \o q)
                /\ Once(q) => Once(Append(q, task)) /\ Once(<<task>> \o q)
           /\ q # <<>> =>
                /\ NoCallIn(q) => NoCallIn(Tail(q))
                /\ Once(q) => Once(Tail(q))
                /\ Once(q) /\ Head(q) = "call" => NoCallIn(Tail(q))
<1> USE DEF NoCallIn, Once
<1>1. NoCallIn(q) => Once(q) /\ Once(Append(q, "call")) /\ Once(<<"call">> \o q)
    OBVIOUS
<1>2. ASSUME NEW task \in Tasks \ {"call"}
      PROVE  /\ NoCallIn(q) => NoCallIn(Append(q, task)) /\ NoCallIn(<<task>> \o q)
             /\ Once(q) => Once(Append(q, task)) /\ Once(<<task>> \o q)
    <2>1. NoCallIn(q) => NoCallIn(Append(q, task)) /\ NoCallIn(<<task>> \o q)
        OBVIOUS
    <2>2. Once(q) => Once(Append(q, task))
        OBVIOUS
    <2>3. Once(q) => Once(<<task>> \o q)
        OBVIOUS
    <2> QED
        BY <2>1, <2>2, <2>3
<1>3. ASSUME q # <<>>
      PROVE  /\ NoCallIn(q) => NoCallIn(Tail(q))
             /\ Once(q) => Once(Tail(q))
             /\ Once(q) /\ Head(q) = "call" => NoCallIn(Tail(q))
    BY <1>3
<1> QED
    BY <1>1, <1>2, <1>3

\* A callback only adds updates.
LEMMA CallbacksAdd ==
    ASSUME TypeOK, CurlThread
    PROVE  /\ NoCallIn(queue) => NoCallIn(queue')
           /\ Once(queue) => Once(queue')
<1> DEFINE More(q) == (NoCallIn(queue) => NoCallIn(q)) /\ (Once(queue) => Once(q))
<1>1. queue \in Seq(Tasks) /\ More(queue)
    BY DEF TypeOK
<1>2. ASSUME NEW q \in Seq(Tasks), More(q), NEW task \in Tasks \ {"call"}
      PROVE  Append(q, task) \in Seq(Tasks) /\ More(Append(q, task))
    <2>1. Append(q, task) \in Seq(Tasks)
        OBVIOUS
    <2>2. /\ NoCallIn(q) => NoCallIn(Append(q, task))
          /\ Once(q) => Once(Append(q, task))
        BY CallsInQueue
    <2> QED
        BY <1>2, <2>1, <2>2
<1> HIDE DEF More
<1>3. /\ FailureKinds \subseteq Tasks \ {"call"}
      /\ {"headers", "no length", "data", "completed", "local"} \subseteq Tasks \ {"call"}
    BY KindsAreTasks, Zenon
<1>4. \A h \in Headers : queue \o h \in Seq(Tasks) /\ More(queue \o h)
    <2>1. Headers \subseteq {<<>>, <<"headers">>, <<"no length">>}
        BY DEF Headers
    <2>2. queue \o <<>> = queue
        BY <1>1
    <2>3. \A task \in Tasks : queue \o <<task>> = Append(queue, task)
        BY <1>1
    <2>4. "headers" \in Tasks \ {"call"} /\ "no length" \in Tasks \ {"call"}
        BY <1>3
    <2>5. Append(queue, "headers") \in Seq(Tasks) /\ More(Append(queue, "headers"))
        BY <1>1, <1>2, <2>4
    <2>6. Append(queue, "no length") \in Seq(Tasks) /\ More(Append(queue, "no length"))
        BY <1>1, <1>2, <2>4
    <2>7. ASSUME NEW h \in Headers PROVE queue \o h \in Seq(Tasks) /\ More(queue \o h)
        <3>1. CASE h = <<>>
            BY <1>1, <2>2, <3>1
        <3>2. CASE h = <<"headers">>
            BY <2>3, <2>4, <2>5, <3>2
        <3>3. CASE h = <<"no length">>
            BY <2>3, <2>4, <2>6, <3>3
        <3> QED
            BY <2>1, <3>1, <3>2, <3>3
    <2> QED
        BY <2>7
<1>5. ASSUME NEW q \in Seq(Tasks), More(q), NEW task \in Tasks \ {"call"}, OnComplete(q, task)
      PROVE  More(queue')
    BY <1>2, <1>5 DEF OnComplete, Sched
<1>7. ASSUME TakeOver \/ OnSuccess \/ \E kind \in FailureKinds : OnFailure(kind)
      PROVE  More(queue')
    <2>1. CASE TakeOver
        BY <1>1, <2>1 DEF TakeOver
    <2>2. CASE OnSuccess
        BY <1>1, <1>3, <1>5, <2>2 DEF OnSuccess
    <2>3. ASSUME NEW kind \in FailureKinds, OnFailure(kind) PROVE More(queue')
        BY <1>1, <1>3, <1>5, <2>3 DEF OnFailure
    <2> QED
        BY <1>7, <2>1, <2>2, <2>3
<1>8. ASSUME OnShortWrite PROVE More(queue')
    <2>1. Append(queue, "headers") \in Seq(Tasks) /\ More(Append(queue, "headers"))
        BY <1>1, <1>2, <1>3
    <2>2. PICK q \in Seq(Tasks) : More(q) /\ OnComplete(q, "local")
        BY <1>1, <1>8, <2>1 DEF OnShortWrite
    <2> QED
        BY <1>3, <1>5, <2>2
<1>9. ASSUME OnData PROVE More(queue')
    <2>1. PICK h \in Headers : queue' = Append(queue \o h, "data")
        BY <1>9 DEF OnData, Sched
    <2> QED
        BY <1>2, <1>3, <1>4, <2>1
<1>10. ASSUME OnDataRefused PROVE More(queue')
    <2>1. PICK h \in Headers : OnComplete(queue \o h, "local")
        BY <1>10 DEF OnDataRefused
    <2> QED
        BY <1>3, <1>4, <1>5, <2>1
<1>11. More(queue')
    BY <1>7, <1>8, <1>9, <1>10 DEF CurlThread
<1> QED
    BY <1>11 DEF More

\* The task of a call stays the only one.
LEMMA CallInductive ==
    ASSUME TypeOK, CallIsOnce, [Next]_vars
    PROVE  CallIsOnce'
<1>1. queue \in Seq(Tasks) /\ Once(queue)
    BY DEF TypeOK, CallIsOnce, Once
<1> DEFINE Waits(a) == a \in {"Pause", "Finalize", "Abort"}
<1>2. ASSUME Once(queue'),
             call' = "none" => NoCallIn(queue'),
             Waits(at') => call' = at' /\ NoCallIn(queue')
      PROVE  CallIsOnce'
    BY <1>2 DEF CallIsOnce, Once, NoCallIn
<1>3. ASSUME NEW op \in Operations, Call(op) PROVE CallIsOnce'
    <2>1. NoCallIn(queue) /\ ~Waits(at)
        BY <1>3, DownloadAssumption DEF Call, CallIsOnce, AllOperations
    <2>2. op # "none" /\ call' = op /\ at' = at
        BY <1>3, DownloadAssumption DEF Call, ScheduleCall, AllOperations
    <2>3. Once(queue')
        BY <1>1, <1>3, <2>1, CallsInQueue DEF Call, ScheduleCall, Sched, SchedImmediate
    <2> QED
        BY <1>2, <2>1, <2>2, <2>3
<1>4. ASSUME RestCall PROVE CallIsOnce'
    <2>1. queue # <<>> /\ Head(queue) = "call" /\ at = "poll"
        BY <1>4 DEF RestCall, Start, Resume, ResumeComplete, OpenFails, ReopenTerminates, CloseForCall,
            SetUri, SetPath, AnswerCall, Dequeue
    <2>2. NoCallIn(rest) /\ rest \in Seq(Tasks) /\ call # "none"
        BY <1>1, <2>1, CallsInQueue DEF rest, CallIsOnce, NoCallIn
    <2>3. NoCallIn(SchedImmediate(rest, "transferred"))
        BY <2>2, CallsInQueue DEF SchedImmediate, Tasks, OwnTasks
    <2>4. CASE ReopenTerminates
        BY <1>1, <1>2, <2>2, <2>4 DEF ReopenTerminates
    <2>5. CASE CloseForCall
        BY <1>1, <1>2, <2>2, <2>5, CallsInQueue DEF CloseForCall, BeginClose
    <2>6. CASE \/ Start \/ Resume \/ ResumeComplete \/ OpenFails \/ SetUri \/ SetPath \/ AnswerCall
        <3>1. ~Waits(at')
            BY <2>1, <2>6 DEF Start, Resume, ResumeComplete, OpenFails, SetUri, SetPath, AnswerCall,
                SendHttpRequest, RequestMade, RequestRefused
        <3>2. NoCallIn(queue') /\ queue' \in Seq(Tasks)
            <4>1. queue' \in {rest, SchedImmediate(rest, "transferred")}
                BY <2>6 DEF Start, Resume, ResumeComplete, OpenFails, SetUri, SetPath, AnswerCall,
                    SendHttpRequest, RequestMade, RequestRefused
            <4>2. SchedImmediate(rest, "transferred") \in Seq(Tasks)
                BY <2>2, QueuesAreTyped DEF Tasks, OwnTasks
            <4> QED
                BY <2>2, <2>3, <4>1, <4>2
        <3> QED
            BY <1>2, <3>1, <3>2, CallsInQueue
    <2> QED
        BY <1>4, <2>4, <2>5, <2>6 DEF RestCall
<1>5. ASSUME Update \/ DelayedTask PROVE CallIsOnce'
    <2>1. queue # <<>> /\ at = "poll"
        BY <1>5 DEF Update, UpdateHeaders, UpdateData, UpdateTransferred, FailedWithoutNetwork,
            FailedForGood, FailedForNow, Failed, DelayedTask, Retry, RetryAfterTransientError,
            StillNoNetwork, CheckProgress, NoProgress, SkipTask, Dequeue
    <2>2. queue' \in {rest, Append(rest, "retry")} /\ call' = call /\ ~Waits(at')
        BY <1>5, <2>1 DEF Update, UpdateHeaders, UpdateData, UpdateTransferred, FailedWithoutNetwork,
            FailedForGood, FailedForNow, DelayedTask, Retry, RetryAfterTransientError,
            StillNoNetwork, CheckProgress, NoProgress, SkipTask, BeginClose, SendHttpRequest,
            RequestMade, RequestRefused, Sched
    <2>3. Tail(queue) \in Seq(Tasks) /\ "retry" \in Tasks \ {"call"}
        BY <1>1, <2>1, QueuesAreTyped, KindsAreTasks
    <2>4. Once(rest) /\ Once(Append(rest, "retry"))
        BY <1>1, <2>1, <2>3, CallsInQueue DEF rest
    <2>5. NoCallIn(queue) => NoCallIn(rest) /\ NoCallIn(Append(rest, "retry"))
        BY <1>1, <2>1, <2>3, CallsInQueue DEF rest
    <2> QED
        BY <1>2, <2>2, <2>4, <2>5 DEF CallIsOnce
<1>6. ASSUME FinishClose PROVE CallIsOnce'
    <2>1. ~Waits(at') /\ call' \in {call, "none"}
        BY <1>6 DEF FinishClose, FinishPause, FinishFinalize, FinishAbort, FinishWithError,
            AbortThrows, Closed
    <2>2. queue' \in {queue, <<>>}
        BY <1>6, CancelledQueue DEF CancelTasks, FinishClose, FinishPause, FinishFinalize,
            FinishAbort, FinishWithError, AbortThrows, Closed
    <2>3. call' = "none" => NoCallIn(queue')
        <3>1. NoCallIn(<<>>)
            BY DEF NoCallIn
        <3>2. call' = "none" => call = "none" \/ Waits(at)
            BY <1>6 DEF FinishClose, FinishPause, FinishFinalize, FinishAbort, FinishWithError,
                AbortThrows, Closed
        <3> QED
            BY <2>2, <3>1, <3>2 DEF CallIsOnce
    <2>4. Once(<<>>)
        BY DEF Once
    <2> QED
        BY <1>1, <1>2, <2>1, <2>2, <2>3, <2>4
<1>7. ASSUME CurlThread PROVE CallIsOnce'
    <2>1. UNCHANGED <<at, call>>
        BY <1>7 DEF CurlThread, TakeOver, OnData, OnSuccess, OnShortWrite, OnDataRefused, OnFailure
    <2> QED
        BY <1>1, <1>2, <1>7, <2>1, CallbacksAdd DEF CallIsOnce
<1>8. ASSUME Environment PROVE CallIsOnce'
    <2>1. UNCHANGED <<at, call>>
        BY <1>8 DEF Environment, TimerDue, NetworkChanges, FallbackComesDue, BanEnds
    <2>2. queue' = queue \/ \E task \in TimerTasks : queue' = Append(queue, task)
        BY <1>8 DEF Environment, TimerDue, NetworkChanges, FallbackComesDue, BanEnds, Sched
    <2>3. TimerTasks \subseteq Tasks \ {"call"}
        BY DEF TimerTasks, Tasks, OwnTasks
    <2> QED
        BY <1>1, <1>2, <2>1, <2>2, <2>3, CallsInQueue DEF CallIsOnce
<1>9. CASE UNCHANGED vars
    BY <1>9 DEF vars, CallIsOnce, NoCallIn
<1> QED
    BY <1>3, <1>4, <1>5, <1>6, <1>7, <1>8, <1>9 DEF Next, TaskThread

-----------------------------------------------------------------------------
(***************************************************************************)
(* A download that ended is quiet.                                         *)
(***************************************************************************)
Ended == st.state \in {"Finalized", "Aborted"}

\* While the task thread waits in Close, no request of the download is queued.
ClosingHasNoRequest == at \in Closings => ~curl.queued

\* No call is in progress, nor the task thread in Close, once the state is final.
EndedHasNoCall == Ended /\ at # "terminated" => at = "poll" /\ call = "none"

EInv ==
    /\ TypeOK
    /\ CallIsOnce
    /\ ClosingHasNoRequest
    /\ EndedHasNoCall
    /\ EndedIsQuiet

\* The task thread takes a task only of a download that has not ended, and no task but the
\* end of Finalize or Abort ends it.
LEMMA TasksDoNotEnd ==
    ASSUME EInv, RestCall \/ Update \/ DelayedTask
    PROVE  at = "poll" /\ ~Ended /\ ~Ended' /\ ClosingHasNoRequest'
<1>1. queue # <<>> /\ at = "poll"
    BY DEF RestCall, Start, Resume, ResumeComplete, OpenFails, ReopenTerminates, CloseForCall,
        SetUri, SetPath, AnswerCall, Update, UpdateHeaders, UpdateData, UpdateTransferred,
        FailedWithoutNetwork, FailedForGood, FailedForNow, Failed, DelayedTask, Retry,
        RetryAfterTransientError, StillNoNetwork, CheckProgress, NoProgress, SkipTask, Dequeue
<1>2. ~Ended
    BY <1>1 DEF EInv, EndedIsQuiet, Ended
<1>3. ASSUME RestCall PROVE ~Ended' /\ ClosingHasNoRequest'
    <2>1. st' \in {st, Transferring}
        BY <1>3 DEF RestCall, Start, Resume, ResumeComplete, OpenFails, ReopenTerminates,
            CloseForCall, BeginClose, SetUri, SetPath, AnswerCall, SendHttpRequest, RequestMade,
            RequestRefused, ownVars
    <2>2. at' \in {"poll", "terminated"} \/ CloseForCall
        BY <1>1, <1>3 DEF RestCall, Start, Resume, ResumeComplete, OpenFails, ReopenTerminates,
            SetUri, SetPath, AnswerCall, SendHttpRequest, RequestMade, RequestRefused
    <2>3. CloseForCall => ~curl'.queued
        BY DEF CloseForCall, BeginClose, EInv, TypeOK
    <2> QED
        BY <1>2, <2>1, <2>2, <2>3
            DEF Ended, Transferring, ClosingHasNoRequest, Closings, EInv, TypeOK
<1>4. ASSUME Update PROVE ~Ended' /\ ClosingHasNoRequest'
    <2>1. \/ st' = st
          \/ st'.state \in {"Paused", "Transferred"}
          \/ st'.state = st.state
        BY <1>4 DEF Update, UpdateHeaders, UpdateData, UpdateTransferred, FailedWithoutNetwork,
            FailedForGood, FailedForNow, HandleTransientError, PausedWith, BeginClose, EInv, TypeOK
    <2>2. at' = "poll" \/ \E kind \in FailureKinds : FailedForGood(kind)
        BY <1>1, <1>4 DEF Update, UpdateHeaders, UpdateData, UpdateTransferred,
            FailedWithoutNetwork, FailedForNow
    <2>3. ASSUME NEW kind \in FailureKinds, FailedForGood(kind) PROVE ~curl'.queued
        BY <2>3 DEF FailedForGood, BeginClose, EInv, TypeOK
    <2> QED
        BY <1>2, <2>1, <2>2, <2>3 DEF Ended, ClosingHasNoRequest, Closings
<1>5. ASSUME DelayedTask PROVE ~Ended' /\ ClosingHasNoRequest'
    <2>1. st' \in {st, Transferring, PausedWith(FALSE, TRUE)}
        BY <1>5 DEF DelayedTask, Retry, RetryAfterTransientError, StillNoNetwork,
            HandleTransientError, CheckProgress, NoProgress, SkipTask, BeginClose,
            SendHttpRequest, RequestMade, RequestRefused, ownVars
    <2>2. at' \in {"poll", "terminated"} \/ NoProgress
        BY <1>1, <1>5 DEF DelayedTask, Retry, RetryAfterTransientError, StillNoNetwork,
            CheckProgress, SkipTask, SendHttpRequest, RequestMade, RequestRefused
    <2>3. NoProgress => ~curl'.queued
        BY DEF NoProgress, BeginClose, EInv, TypeOK
    <2> QED
        BY <1>2, <2>1, <2>2, <2>3
            DEF Ended, Transferring, PausedWith, ClosingHasNoRequest, Closings, EInv, TypeOK
<1> QED
    BY <1>1, <1>2, <1>3, <1>4, <1>5

LEMMA EndedInductive ==
    ASSUME EInv, [Next]_vars
    PROVE  (ClosingHasNoRequest /\ EndedHasNoCall /\ EndedIsQuiet)'
<1>1. CASE RestCall \/ Update \/ DelayedTask
    BY <1>1, TasksDoNotEnd DEF EndedHasNoCall, EndedIsQuiet, Ended
<1>2. CASE FinishClose
    <2>1. at \in Closings /\ ~curl.active /\ ~curl.queued /\ curl' = curl
        BY <1>2 DEF FinishClose, FinishPause, FinishFinalize, FinishAbort, FinishWithError,
            AbortThrows, Closed, Closings, EInv, ClosingHasNoRequest, curlVars
    <2>2. ~Ended
        BY <2>1 DEF EInv, EndedHasNoCall, Closings
    <2>3. at' \in {"poll", "terminated"} /\ file'.stream # "open"
        BY <1>2 DEF FinishClose, FinishPause, FinishFinalize, FinishAbort, FinishWithError,
            AbortThrows, Closed, Closes, CloseThrows, EInv, TypeOK
    <2>4. \/ at' = "terminated"
          \/ ~Ended'
          \/ at \in {"Finalize", "Abort"} /\ CancelTasks /\ call' = "none" /\ at' = "poll"
        <3>1. CASE FinishPause
            BY <3>1 DEF FinishPause, Closed, PausedWith, Ended, EInv, TypeOK
        <3>2. CASE FinishWithError
            BY <2>2, <3>2 DEF FinishWithError, Ended
        <3>3. CASE FinishFinalize \/ FinishAbort \/ AbortThrows
            BY <3>3 DEF FinishFinalize, FinishAbort, AbortThrows, Closed
        <3> QED
            BY <1>2, <3>1, <3>2, <3>3 DEF FinishClose
    <2>5. ASSUME at \in {"Finalize", "Abort"}, CancelTasks
          PROVE  queue' = <<>> /\ \A task \in TimerTasks : timers'[task] = 0
        <3>1. queue' = <<>>
            BY <2>5, CancelledQueue DEF CancelTasks, EInv
        <3>2. TimerTasks \subseteq OwnTasks \cup {"progress"} /\ DOMAIN timers = TimerTasks
            BY DEF TimerTasks, OwnTasks, EInv, TypeOK
        <3>3. \A task \in TimerTasks : timers'[task] = 0
            BY <2>5, <3>2 DEF CancelTasks, UnscheduleDelayed
        <3> QED
            BY <3>1, <3>3
    <2>6. ClosingHasNoRequest'
        BY <2>1 DEF ClosingHasNoRequest
    <2> QED
        BY <2>1, <2>3, <2>4, <2>5, <2>6 DEF EndedHasNoCall, EndedIsQuiet, Ended
<1>3. CASE CurlThread
    <2>1. UNCHANGED <<at, st, timers, call, file>>
        BY <1>3 DEF CurlThread, TakeOver, OnData, OnSuccess, OnShortWrite, OnDataRefused, OnFailure,
            ownVars, fileVars
    <2>2. \/ TakeOver
          \/ curl.active /\ curl' \in {curl, [curl EXCEPT !.active = FALSE]}
        BY <1>3 DEF CurlThread, OnData, OnSuccess, OnShortWrite, OnDataRefused, OnFailure, OnComplete
    <2>3. ASSUME TakeOver
          PROVE  /\ ~curl'.queued /\ queue' = queue
                 /\ ~curl.queued /\ ~curl.active => ~curl'.active
        BY <2>3, Zenon DEF TakeOver
    <2>4. ~curl.queued => ~curl'.queued
        BY <2>2, <2>3 DEF EInv, TypeOK
    <2>5. ~curl.queued /\ ~curl.active => ~curl'.active /\ queue' = queue
        BY <2>2, <2>3
    <2> QED
        BY <2>1, <2>4, <2>5 DEF EInv, ClosingHasNoRequest, EndedHasNoCall, EndedIsQuiet, Ended
<1>4. CASE Environment
    <2>1. UNCHANGED <<at, st, call, file, curl>>
        BY <1>4 DEF Environment, TimerDue, NetworkChanges, FallbackComesDue, BanEnds, ownVars,
            fileVars, curlVars
    <2>2. (\A task \in TimerTasks : timers[task] = 0) => UNCHANGED <<queue, timers>>
        BY <1>4 DEF Environment, TimerDue, NetworkChanges, FallbackComesDue, BanEnds
    <2> QED
        BY <2>1, <2>2 DEF EInv, ClosingHasNoRequest, EndedHasNoCall, EndedIsQuiet, Ended
<1>5. CASE \E op \in Operations : Call(op)
    BY <1>5 DEF Call, ownVars, fileVars, curlVars, EInv, ClosingHasNoRequest, EndedHasNoCall,
        EndedIsQuiet, Ended
<1>6. CASE UNCHANGED vars
    BY <1>6 DEF vars, ownVars, fileVars, curlVars, EInv, ClosingHasNoRequest, EndedHasNoCall,
        EndedIsQuiet, Ended
<1> QED
    BY <1>1, <1>2, <1>3, <1>4, <1>5, <1>6 DEF Next, TaskThread

\* What the proofs below rest on
LEMMA EndedInvariant == Spec => []EInv
<1>1. Init => EInv
    <2> SUFFICES ASSUME Init PROVE EInv
        OBVIOUS
    <2>1. CallIsOnce /\ ClosingHasNoRequest /\ EndedHasNoCall /\ EndedIsQuiet
        BY DEF Init, CallIsOnce, NoCallIn, ClosingHasNoRequest, EndedHasNoCall, EndedIsQuiet, Ended,
            Closings
    <2> QED
        BY <2>1, InitTyped DEF EInv
<1>2. EInv /\ [Next]_vars => EInv'
    BY TypeInductive, CallInductive, EndedInductive DEF EInv
<1> QED
    BY <1>1, <1>2, PTL DEF Spec

\* The variables of a download have their types, whatever errors occur.
THEOREM TypeCorrect == Spec => []TypeOK
<1>1. EInv => TypeOK
    BY DEF EInv
<1> QED
    BY <1>1, EndedInvariant, PTL

\* After _Finalize or _Abort no task, callback or open file refers to the download
\* (download.cpp:326-359).
THEOREM NothingOutlivesTheEnd == Spec => []EndedIsQuiet
<1>1. EInv => EndedIsQuiet
    BY DEF EInv
<1> QED
    BY <1>1, EndedInvariant, PTL

-----------------------------------------------------------------------------
(***************************************************************************)
(* Every piece is counted.                                                 *)
(***************************************************************************)
LEMMA CountIsNatural ==
    ASSUME NEW S, NEW s \in Seq(S), NEW kinds
    PROVE  /\ IsFiniteSet({i \in DOMAIN s : s[i] \in kinds})
           /\ Count(s, kinds) \in Nat
<1>1. IsFiniteSet(1 .. Len(s))
    BY FS_Interval
<1>2. {i \in DOMAIN s : s[i] \in kinds} \in SUBSET (1 .. Len(s))
    OBVIOUS
<1>3. IsFiniteSet({i \in DOMAIN s : s[i] \in kinds})
    BY <1>1, <1>2, FS_Subset
<1> QED
    BY <1>3, FS_CardinalityType DEF Count

\* An element added at the end counts one if it is of those kinds.
LEMMA CountAppend ==
    ASSUME NEW S, NEW s \in Seq(S), NEW x \in S, NEW kinds
    PROVE  Count(Append(s, x), kinds) = Count(s, kinds) + (IF x \in kinds THEN 1 ELSE 0)
<1> DEFINE Here == {i \in DOMAIN s : s[i] \in kinds}
           There == {i \in DOMAIN Append(s, x) : Append(s, x)[i] \in kinds}
           last == Len(s) + 1
<1>1. IsFiniteSet(Here) /\ Cardinality(Here) \in Nat
    BY CountIsNatural, FS_CardinalityType
<1>2. last \notin Here
    OBVIOUS
<1>3. There = IF x \in kinds THEN Here \cup {last} ELSE Here
    OBVIOUS
<1>4. Cardinality(Here \cup {last}) = Cardinality(Here) + 1
    BY <1>1, <1>2, FS_AddElement
<1>5. Count(s, kinds) = Cardinality(Here) /\ Count(Append(s, x), kinds) = Cardinality(There)
    BY DEF Count
<1> HIDE DEF Here, There
<1> QED
    BY <1>1, <1>3, <1>4, <1>5

\* So does one added in front: every other element moves by one.
LEMMA CountFront ==
    ASSUME NEW S, NEW s \in Seq(S), NEW x \in S, NEW kinds
    PROVE  Count(<<x>> \o s, kinds) = Count(s, kinds) + (IF x \in kinds THEN 1 ELSE 0)
<1> DEFINE Here == {i \in DOMAIN s : s[i] \in kinds}
           Moved == {i \in 2 .. Len(s) + 1 : s[i - 1] \in kinds}
           There == {i \in DOMAIN (<<x>> \o s) : (<<x>> \o s)[i] \in kinds}
           move == [i \in Here |-> i + 1]
<1>1. IsFiniteSet(Here) /\ Cardinality(Here) \in Nat
    BY CountIsNatural, FS_CardinalityType
<1>2. ExistsBijection(Here, Moved)
    <2>1. move \in [Here -> Moved]
        OBVIOUS
    <2>2. \A i, j \in Here : move[i] = move[j] => i = j
        OBVIOUS
    <2>3. \A j \in Moved : \E i \in Here : move[i] = j
        <3> TAKE j \in Moved
        <3>1. j - 1 \in Here /\ move[j - 1] = j
            OBVIOUS
        <3> QED
            BY <3>1
    <2> HIDE DEF move
    <2> QED
        BY <2>1, <2>2, <2>3 DEF ExistsBijection, Bijection, Injection,
            IsInjective, Surjection
<1>3. IsFiniteSet(Moved) /\ Cardinality(Moved) = Cardinality(Here)
    BY <1>1, <1>2, FS_Bijection
<1>4. There = IF x \in kinds THEN Moved \cup {1} ELSE Moved
    OBVIOUS
<1>5. Cardinality(Moved \cup {1}) = Cardinality(Moved) + 1
    <2>1. 1 \notin Moved
        OBVIOUS
    <2> QED
        BY <1>3, <2>1, FS_AddElement
<1>6. Count(s, kinds) = Cardinality(Here) /\ Count(<<x>> \o s, kinds) = Cardinality(There)
    BY DEF Count
<1> HIDE DEF Here, Moved, There
<1> QED
    BY <1>1, <1>3, <1>4, <1>5, <1>6

\* And the first element that is taken away counted as much.
LEMMA CountTail ==
    ASSUME NEW S, NEW s \in Seq(S), NEW kinds, s # <<>>
    PROVE  Count(s, kinds) = Count(Tail(s), kinds) + (IF Head(s) \in kinds THEN 1 ELSE 0)
<1>1. Head(s) \in S /\ Tail(s) \in Seq(S) /\ s = <<Head(s)>> \o Tail(s)
    OBVIOUS
<1>2. Count(<<Head(s)>> \o Tail(s), kinds) =
        Count(Tail(s), kinds) + (IF Head(s) \in kinds THEN 1 ELSE 0)
    BY <1>1, CountFront, Zenon
<1> QED
    BY <1>1, <1>2, Zenon

\* The same for the pieces of a file
LEMMA CountPiece ==
    ASSUME NEW s \in Seq(0 .. Chunks), NEW x \in 0 .. Chunks
    PROVE  Count(Append(s, x), 1 .. Chunks)
            = Count(s, 1 .. Chunks) + (IF x \in 1 .. Chunks THEN 1 ELSE 0)
BY CountAppend, Zenon

\* The updates of a queue that count a piece
Pending(q) == Count(q, {"data"})

LEMMA PendingChanges ==
    ASSUME NEW q \in Seq(Tasks)
    PROVE  /\ Pending(q) \in Nat
           /\ Pending(Append(q, "data")) = Pending(q) + 1
           /\ \A task \in Tasks \ {"data"} :
                /\ Pending(Append(q, task)) = Pending(q)
                /\ Pending(<<task>> \o q) = Pending(q)
           /\ q # <<>> =>
                Pending(q) = Pending(Tail(q)) + (IF Head(q) = "data" THEN 1 ELSE 0)
<1> USE DEF Pending
<1>1. Pending(q) \in Nat
    BY CountIsNatural
<1>2. Pending(Append(q, "data")) = Pending(q) + 1
    <2>1. "data" \in Tasks
        BY KindsAreTasks
    <2> QED
        BY <2>1, CountAppend
<1>3. ASSUME NEW task \in Tasks \ {"data"}
      PROVE  Pending(Append(q, task)) = Pending(q) /\ Pending(<<task>> \o q) = Pending(q)
    <2>1. task \notin {"data"}
        OBVIOUS
    <2> QED
        BY <1>1, <2>1, CountAppend, CountFront
<1>4. ASSUME q # <<>>
      PROVE  Pending(q) = Pending(Tail(q)) + (IF Head(q) = "data" THEN 1 ELSE 0)
    BY <1>4, CountTail
<1> QED
    BY <1>1, <1>2, <1>3, <1>4

\* Every callback that puts a piece into the file queues one update that counts it.
LEMMA CallbacksCount ==
    ASSUME TypeOK, CurlThread
    PROVE  Pending(queue') - Pending(queue)
            = Count(content', 1 .. Chunks) - Count(content, 1 .. Chunks)
<1> DEFINE Same(q) == q \in Seq(Tasks) /\ Pending(q) = Pending(queue)
           written == Count(content, 1 .. Chunks)
<1>1. Same(queue) /\ Pending(queue) \in Nat /\ content \in Seq(0 .. Chunks) /\ written \in Nat
    BY PendingChanges, CountIsNatural DEF TypeOK
<1>2. ASSUME NEW q, Same(q), NEW task \in Tasks \ {"data"}
      PROVE  Same(Append(q, task))
    <2>1. Append(q, task) \in Seq(Tasks)
        BY <1>2
    <2>2. Pending(Append(q, task)) = Pending(q)
        BY <1>2, PendingChanges
    <2> QED
        BY <1>2, <2>1, <2>2
<1>3. /\ FailureKinds \subseteq Tasks \ {"data"}
      /\ "headers" \in Tasks \ {"data"} /\ "no length" \in Tasks \ {"data"}
      /\ "completed" \in Tasks \ {"data"} /\ "local" \in Tasks \ {"data"}
    <2>1. "data" \notin FailureKinds
        BY DEF FailureKinds, FailureOf
    <2> QED
        BY <2>1, KindsAreTasks
<1> HIDE DEF Same
<1>4. ASSUME NEW h \in Headers PROVE Same(queue \o h)
    <2>1. h \in {<<>>, <<"headers">>, <<"no length">>}
        BY DEF Headers
    <2>2. queue \o <<>> = queue /\ \A task \in Tasks : queue \o <<task>> = Append(queue, task)
        BY <1>1 DEF Same
    <2>3. Same(Append(queue, "headers")) /\ Same(Append(queue, "no length"))
        BY <1>1, <1>2, <1>3
    <2>4. CASE h = <<>>
        BY <1>1, <2>2, <2>4
    <2>5. CASE h = <<"headers">>
        BY <1>3, <2>2, <2>3, <2>5
    <2>6. CASE h = <<"no length">>
        BY <1>3, <2>2, <2>3, <2>6
    <2> QED
        BY <2>1, <2>4, <2>5, <2>6
<1>5. ASSUME NEW q, Same(q), NEW task \in Tasks \ {"data"}, OnComplete(q, task)
      PROVE  Pending(queue') = Pending(queue)
    BY <1>2, <1>5 DEF OnComplete, Sched, Same
<1>6. CASE TakeOver
    BY <1>1, <1>6 DEF TakeOver, fileVars
<1>7. CASE OnSuccess
    <2>1. OnComplete(queue, "completed") /\ content' = content
        BY <1>7 DEF OnSuccess, fileVars
    <2>2. Pending(queue') = Pending(queue)
        BY <1>1, <1>3, <1>5, <2>1
    <2> QED
        BY <1>1, <2>1, <2>2
<1>8. ASSUME NEW kind \in FailureKinds, OnFailure(kind)
      PROVE  Pending(queue') = Pending(queue) /\ content' = content
    BY <1>1, <1>3, <1>5, <1>8 DEF OnFailure, fileVars
<1>9. CASE OnShortWrite
    <2>1. PICK q : Same(q) /\ OnComplete(q, "local")
        <3>1. Same(Append(queue, "headers"))
            BY <1>1, <1>2, <1>3
        <3> QED
            BY <1>1, <1>9, <3>1 DEF OnShortWrite
    <2>2. Pending(queue') = Pending(queue)
        BY <1>3, <1>5, <2>1
    <2>3. 0 \in 0 .. Chunks /\ 0 \notin 1 .. Chunks
        BY DownloadAssumption
    <2>4. Count(content', 1 .. Chunks) = written
        <3>1. Count(Append(content, 0), 1 .. Chunks) = written + (IF 0 \in 1 .. Chunks THEN 1 ELSE 0)
            BY <1>1, <2>3, CountPiece, Zenon
        <3>2. content' = Append(content, 0)
            BY <1>9 DEF OnShortWrite
        <3> QED
            BY <1>1, <2>3, <3>1, <3>2
    <2> QED
        BY <1>1, <2>2, <2>4
<1>10. CASE OnData
    <2>1. PICK h \in Headers : queue' = Append(queue \o h, "data")
        BY <1>10 DEF OnData, Sched
    <2>2. Pending(queue') = Pending(queue) + 1
        BY <1>4, <2>1, PendingChanges DEF Same
    <2>3. wire + 1 \in 0 .. Chunks /\ wire + 1 \in 1 .. Chunks /\ content' = Append(content, wire + 1)
        <3>1. wire \in Nat /\ Chunks \in Nat
            BY DownloadAssumption DEF TypeOK
        <3>2. wire < Chunks /\ content' = Append(content, wire + 1)
            BY <1>10 DEF OnData
        <3> QED
            BY <3>1, <3>2
    <2>4. Count(content', 1 .. Chunks) = written + 1
        <3>1. Count(Append(content, wire + 1), 1 .. Chunks)
                = written + (IF wire + 1 \in 1 .. Chunks THEN 1 ELSE 0)
            BY <1>1, <2>3, CountPiece, Zenon
        <3> QED
            BY <1>1, <2>3, <3>1
    <2> QED
        BY <1>1, <2>2, <2>4
<1>11. CASE OnDataRefused
    <2>1. PICK h \in Headers : OnComplete(queue \o h, "local")
        BY <1>11 DEF OnDataRefused
    <2>2. content' = content
        BY <1>11 DEF OnDataRefused, fileVars
    <2>3. Pending(queue') = Pending(queue)
        BY <1>3, <1>4, <1>5, <2>1
    <2> QED
        BY <1>1, <2>2, <2>3
<1> QED
    BY <1>1, <1>6, <1>7, <1>8, <1>9, <1>10, <1>11 DEF CurlThread

LEMMA CountInductive ==
    ASSUME EInv, EveryPieceIsCounted, [Next]_vars
    PROVE  EveryPieceIsCounted'
<1>1. /\ queue \in Seq(Tasks) /\ Pending(queue) \in Nat
      /\ content \in Seq(0 .. Chunks) /\ Count(content, 1 .. Chunks) \in Nat
      /\ st.transferred \in Nat
    BY PendingChanges, CountIsNatural DEF EInv, TypeOK
<1>2. ASSUME Ended' \/ (/\ ~Ended
                        /\ content' = content
                        /\ st'.transferred + Pending(queue') = st.transferred + Pending(queue))
      PROVE  EveryPieceIsCounted'
    BY <1>1, <1>2 DEF EveryPieceIsCounted, Ended, Pending
<1>3. CASE \E op \in Operations : Call(op)
    <2>1. queue' \in {Append(queue, "call"), <<"call">> \o queue} /\ st' = st /\ content' = content
        BY <1>3 DEF Call, ScheduleCall, Sched, SchedImmediate, ownVars, fileVars
    <2>2. "call" \in Tasks \ {"data"}
        BY DEF Tasks
    <2> QED
        BY <1>1, <1>2, <2>1, <2>2, PendingChanges DEF Ended
<1>4. CASE RestCall \/ Update \/ DelayedTask
    <2>1. queue # <<>> /\ ~Ended
        BY <1>4, TasksDoNotEnd DEF RestCall, Start, Resume, ResumeComplete, OpenFails,
            ReopenTerminates, CloseForCall, SetUri, SetPath, AnswerCall, Update, UpdateHeaders,
            UpdateData, UpdateTransferred, FailedWithoutNetwork, FailedForGood, FailedForNow, Failed,
            DelayedTask, Retry, RetryAfterTransientError, StillNoNetwork, CheckProgress, NoProgress,
            SkipTask, Dequeue
    <2>2. rest \in Seq(Tasks) /\ Pending(rest) \in Nat
          /\ Pending(queue) = Pending(rest) + (IF Head(queue) = "data" THEN 1 ELSE 0)
        <3>1. Tail(queue) \in Seq(Tasks)
            BY <1>1, <2>1
        <3>2. Pending(queue) = Pending(Tail(queue)) + (IF Head(queue) = "data" THEN 1 ELSE 0)
            BY <1>1, <2>1, PendingChanges
        <3>3. Pending(Tail(queue)) \in Nat
            BY <3>1, PendingChanges
        <3> QED
            BY <3>1, <3>2, <3>3 DEF rest
    <2>3. /\ Pending(SchedImmediate(rest, "transferred")) = Pending(rest)
          /\ Pending(Append(rest, "retry")) = Pending(rest)
        <3>1. "transferred" \in Tasks \ {"data"} /\ "retry" \in Tasks \ {"data"}
            BY KindsAreTasks
        <3> QED
            BY <2>2, <3>1, PendingChanges DEF SchedImmediate
    <2>4. content' = content
        BY <1>4 DEF fileVars, RestCall, Start, Resume, ResumeComplete, OpenFails,
            ReopenTerminates, CloseForCall, SetUri, SetPath, AnswerCall, Update, UpdateHeaders,
            UpdateData, UpdateTransferred, FailedWithoutNetwork, FailedForGood, FailedForNow,
            DelayedTask, Retry, RetryAfterTransientError, StillNoNetwork, CheckProgress, NoProgress,
            SkipTask, BeginClose
    <2>5. CASE UpdateData
        <3>1. Head(queue) = "data" /\ queue' = rest /\ st'.transferred = st.transferred + 1
            BY <2>5 DEF UpdateData, Dequeue, EInv, TypeOK
        <3> QED
            <4>1. Pending(queue) = Pending(queue') + 1 /\ Pending(queue') \in Nat
                BY <2>2, <3>1
            <4>2. st'.transferred + Pending(queue') = st.transferred + Pending(queue)
                BY <1>1, <3>1, <4>1
            <4> QED
                BY <1>2, <2>1, <2>4, <4>2
    <2>6. CASE ReopenTerminates
        <3>1. st' = st /\ queue' = queue
            BY <2>6 DEF ReopenTerminates, ownVars
        <3> QED
            BY <1>2, <2>1, <2>4, <3>1
    <2>7. ASSUME ~UpdateData, ~ReopenTerminates
          PROVE  /\ Head(queue) # "data"
                 /\ queue' \in {rest, SchedImmediate(rest, "transferred"), Append(rest, "retry")}
                 /\ st'.transferred = st.transferred
        <3>1. CASE RestCall
            <4>1. st' \in {st, Transferring}
                BY <2>7, <3>1 DEF RestCall, Start, Resume, ResumeComplete, OpenFails, CloseForCall,
                    BeginClose, SetUri, SetPath, AnswerCall, SendHttpRequest, RequestMade,
                    RequestRefused, ownVars
            <4>2. queue' \in {rest, SchedImmediate(rest, "transferred")} /\ Head(queue) = "call"
                BY <2>7, <3>1 DEF RestCall, Start, Resume, ResumeComplete, OpenFails, CloseForCall,
                    BeginClose, SetUri, SetPath, AnswerCall, SendHttpRequest, RequestMade,
                    RequestRefused, Dequeue
            <4> QED
                BY <4>1, <4>2 DEF Transferring, EInv, TypeOK
        <3>2. CASE Update
            <4>1. PICK kind \in FailureKinds \cup {"none"} :
                    \/ UpdateHeaders \/ UpdateTransferred
                    \/ kind \in FailureKinds /\ (\/ FailedWithoutNetwork(kind)
                                                 \/ FailedForGood(kind) \/ FailedForNow(kind))
                BY <2>7, <3>2 DEF Update
            <4>2. queue' \in {rest, Append(rest, "retry")}
                BY <4>1 DEF UpdateHeaders, UpdateTransferred, FailedWithoutNetwork, FailedForGood,
                    FailedForNow, BeginClose, Sched
            <4>3. Head(queue) \in {"headers", "no length", "completed", "transferred", kind}
                  /\ kind # "data"
                <5>1. "data" \notin FailureKinds
                    BY DEF FailureKinds, FailureOf
                <5> QED
                    BY <4>1, <5>1 DEF UpdateHeaders, UpdateTransferred, FailedWithoutNetwork,
                        FailedForGood, FailedForNow, Failed, Dequeue
            <4>4. st'.transferred = st.transferred
                BY <4>1 DEF UpdateHeaders, UpdateTransferred, FailedWithoutNetwork, FailedForGood,
                    FailedForNow, HandleTransientError, PausedWith, BeginClose, EInv, TypeOK
            <4> QED
                BY <4>2, <4>3, <4>4
        <3>3. CASE DelayedTask
            <4>1. st' \in {st, Transferring, PausedWith(FALSE, TRUE)}
                BY <3>3 DEF DelayedTask, Retry, RetryAfterTransientError, StillNoNetwork,
                    HandleTransientError, CheckProgress, NoProgress, SkipTask, BeginClose,
                    SendHttpRequest, RequestMade, RequestRefused, ownVars
            <4>2. queue' = rest /\ Head(queue) \in TimerTasks
                BY <3>3 DEF DelayedTask, Retry, RetryAfterTransientError, StillNoNetwork, CheckProgress,
                    NoProgress, SkipTask, BeginClose, SendHttpRequest, RequestMade, RequestRefused,
                    Dequeue, TimerTasks
            <4> QED
                BY <4>1, <4>2 DEF Transferring, PausedWith, TimerTasks, EInv, TypeOK
        <3> QED
            BY <1>4, <3>1, <3>2, <3>3
    <2>8. CASE ~UpdateData /\ ~ReopenTerminates
        <3>1. Pending(queue') = Pending(rest) /\ Pending(queue) = Pending(rest)
            <4>1. Head(queue) # "data"
                  /\ queue' \in {rest, SchedImmediate(rest, "transferred"), Append(rest, "retry")}
                BY <2>7, <2>8
            <4>2. Pending(queue') = Pending(rest)
                BY <2>3, <4>1, Zenon
            <4>3. Pending(queue) = Pending(rest)
                BY <2>2, <4>1
            <4> QED
                BY <4>2, <4>3
        <3> QED
            BY <1>2, <2>1, <2>4, <2>7, <2>8, <3>1
    <2> QED
        BY <2>5, <2>6, <2>8
<1>5. CASE FinishClose
    <2>1. at \in Closings /\ ~Ended /\ content' = content
        BY <1>5 DEF FinishClose, FinishPause, FinishFinalize, FinishAbort, FinishWithError,
            AbortThrows, Closed, Closings, EInv, EndedHasNoCall
    <2>2. CASE FinishPause \/ FinishWithError
        <3>1. queue' = queue
            BY <2>2 DEF FinishPause, FinishWithError
        <3>2. st'.transferred = st.transferred
            <4>1. st' = st \/ \E b, c \in BOOLEAN : st' = PausedWith(b, c)
                <5>1. st.error \in BOOLEAN
                    BY DEF EInv, TypeOK
                <5> QED
                    BY <2>2, <5>1 DEF FinishPause, FinishWithError, Closed
            <4> QED
                BY <4>1 DEF PausedWith, EInv, TypeOK
        <3> QED
            BY <1>2, <2>1, <3>1, <3>2
    <2>3. CASE FinishFinalize \/ FinishAbort \/ AbortThrows
        BY <1>2, <2>3 DEF FinishFinalize, FinishAbort, AbortThrows, Ended, EInv, TypeOK
    <2> QED
        BY <1>5, <2>2, <2>3 DEF FinishClose
<1>6. CASE CurlThread
    <2>1. st' = st
        BY <1>6 DEF CurlThread, TakeOver, OnData, OnSuccess, OnShortWrite, OnDataRefused, OnFailure,
            ownVars
    <2>2. TypeOK'
        BY <1>6, CurlThreadTyped DEF EInv
    <2>3. Pending(queue') \in Nat /\ Count(content', 1 .. Chunks) \in Nat
        BY <2>2, PendingChanges, CountIsNatural DEF TypeOK
    <2>4. Pending(queue') - Pending(queue)
            = Count(content', 1 .. Chunks) - Count(content, 1 .. Chunks)
        BY <1>6, CallbacksCount DEF EInv
    <2> QED
        BY <1>1, <2>1, <2>3, <2>4 DEF EveryPieceIsCounted, Pending
<1>7. CASE Environment
    <2>1. st' = st /\ content' = content
        BY <1>7 DEF Environment, TimerDue, NetworkChanges, FallbackComesDue, BanEnds, ownVars, fileVars
    <2>2. queue' = queue \/ \E task \in TimerTasks : queue' = Append(queue, task)
        BY <1>7 DEF Environment, TimerDue, NetworkChanges, FallbackComesDue, BanEnds, Sched
    <2>3. TimerTasks \subseteq Tasks \ {"data"}
        BY DEF TimerTasks, Tasks, OwnTasks
    <2>4. Pending(queue') = Pending(queue)
        <3>1. \A task \in TimerTasks : Pending(Append(queue, task)) = Pending(queue)
            BY <1>1, <2>3, PendingChanges
        <3>2. CASE queue' = queue
            BY <3>2
        <3>3. CASE \E task \in TimerTasks : queue' = Append(queue, task)
            <4>1. PICK task \in TimerTasks : queue' = Append(queue, task)
                BY <3>3
            <4> QED
                BY <3>1, <4>1
        <3> QED
            BY <2>2, <3>2, <3>3
    <2>5. CASE Ended
        BY <1>2, <2>1, <2>5 DEF Ended
    <2>6. CASE ~Ended
        BY <1>2, <2>1, <2>4, <2>6
    <2> QED
        BY <2>5, <2>6
<1>8. CASE UNCHANGED vars
    BY <1>8 DEF vars, ownVars, fileVars, EveryPieceIsCounted
<1> QED
    BY <1>3, <1>4, <1>5, <1>6, <1>7, <1>8 DEF Next, TaskThread

\* Until the download ends, BytesTransferred and the updates that are queued account for
\* every piece OnData wrote, and for no part of one (download.cpp:643-664).
THEOREM NoPieceIsLost == Spec => []EveryPieceIsCounted
<1>1. Init => EveryPieceIsCounted
    <2> SUFFICES ASSUME Init PROVE EveryPieceIsCounted
        OBVIOUS
    <2>1. \A kinds : {i \in DOMAIN <<>> : <<>>[i] \in kinds} = {}
        OBVIOUS
    <2>2. \A kinds : Count(<<>>, kinds) = 0
        BY <2>1, FS_EmptySet DEF Count
    <2> QED
        BY <2>2 DEF Init, EveryPieceIsCounted
<1>2. EInv /\ EveryPieceIsCounted /\ [Next]_vars => EveryPieceIsCounted'
    BY CountInductive
<1> QED
    BY <1>1, <1>2, EndedInvariant, PTL DEF Spec

-----------------------------------------------------------------------------
(***************************************************************************)
(* Files of others survive, as long as a request that is prepared is sent. *)
(***************************************************************************)

\* Nothing was requested before the first Start, nor a file created.
CreatedIsFresh ==
    st.state = "Created" =>
        /\ ~file.created /\ st.transferred = 0
        /\ ~curl.queued /\ ~curl.active
        /\ \A i \in DOMAIN queue : queue[i] = "call"
        /\ \A task \in TimerTasks : timers[task] = 0

\* The file a download created is not there as somebody else's.
CreatedIsOwn == file.created => disk[file.path] # "foreign"

FInv == EInv /\ CreatedIsFresh /\ CreatedIsOwn

\* In the state Created only a call can be the next task, and the request of Start is made.
LEMMA CreatedTasks ==
    ASSUME FInv, ~SendErrors, st.state = "Created", RestCall \/ Update \/ DelayedTask
    PROVE  /\ \/ Start /\ st'.state = "Transferring"
              \/ /\ UNCHANGED <<st, timers, disk>> /\ queue' = rest
                 /\ ~curl'.queued /\ ~curl'.active /\ file'.created = file.created
           /\ Head(queue) = "call" /\ queue # <<>>
<1>1. queue \in Seq(Tasks) /\ (queue # <<>> => Head(queue) = "call")
    BY DEF FInv, EInv, TypeOK, CreatedIsFresh
<1>2. RestCall /\ queue # <<>>
    <2>1. queue # <<>>
        BY DEF RestCall, Start, Resume, ResumeComplete, OpenFails, ReopenTerminates, CloseForCall,
            SetUri, SetPath, AnswerCall, Update, UpdateHeaders, UpdateData, UpdateTransferred,
            FailedWithoutNetwork, FailedForGood, FailedForNow, Failed, DelayedTask, Retry,
            RetryAfterTransientError, StillNoNetwork, CheckProgress, NoProgress, SkipTask, Dequeue
    <2>2. "call" \notin FailureKinds
        BY KindsAreTasks
    <2>3. ~Update /\ ~DelayedTask
        BY <1>1, <2>1, <2>2 DEF Update, UpdateHeaders, UpdateData, UpdateTransferred,
            FailedWithoutNetwork, FailedForGood, FailedForNow, Failed, DelayedTask, Retry,
            RetryAfterTransientError, StillNoNetwork, CheckProgress, NoProgress, SkipTask, Dequeue
    <2> QED
        BY <2>1, <2>3
<1>3. CASE Start
    <2>1. ~RangeOverflows /\ ~curl.queued
        <3>1. st.transferred = 0 /\ st.total \in {0, Chunks} /\ Chunks \in Nat /\ ~curl.queued
            BY DownloadAssumption DEF FInv, EInv, TypeOK, CreatedIsFresh
        <3> QED
            BY <3>1 DEF RangeOverflows
    <2>2. st' = Transferring
        BY <1>3, <2>1 DEF Start, SendHttpRequest, RequestMade, RequestRefused
    <2> QED
        BY <1>1, <1>2, <1>3, <2>2 DEF Transferring, FInv, EInv, TypeOK
<1>4. CASE CloseForCall
    <2>1. ~curl.active
        BY DEF FInv, CreatedIsFresh
    <2>2. ~curl'.queued /\ ~curl'.active
        BY <1>4, <2>1 DEF CloseForCall, BeginClose, FInv, EInv, TypeOK
    <2> QED
        BY <1>1, <1>2, <1>4, <2>2 DEF CloseForCall, BeginClose, fileVars
<1>5. CASE OpenFails \/ SetPath \/ AnswerCall
    <2>1. UNCHANGED <<st, curl, timers, disk>> /\ queue' = rest
        BY <1>5 DEF OpenFails, SetPath, AnswerCall, ownVars, fileVars, curlVars
    <2>3. ~curl.queued /\ ~curl.active
        BY DEF FInv, CreatedIsFresh
    <2>2. file'.created = file.created
        BY <1>5 DEF OpenFails, SetPath, AnswerCall, fileVars, FInv, EInv, TypeOK
    <2> QED
        BY <1>1, <1>2, <2>1, <2>2, <2>3
<1> QED
    BY <1>2, <1>3, <1>4, <1>5 DEF RestCall, Resume, ResumeComplete, ReopenTerminates, SetUri

\* The state is Created at first and never again.
LEMMA FreshInductive ==
    ASSUME FInv, ~SendErrors, [Next]_vars
    PROVE  CreatedIsFresh'
<1> SUFFICES ASSUME st'.state = "Created" PROVE CreatedIsFresh'
    BY DEF CreatedIsFresh
<1>1. st.state = "Created" /\ st' = st
    <2>1. \/ st' = st
          \/ st'.state \in {"Transferring", "Transferred", "Paused", "Finalized", "Aborted"}
          \/ ~UNCHANGED st /\ (UpdateHeaders \/ UpdateData
                                \/ \E kind \in FailureKinds : FailedForNow(kind))
        <3>1. CASE RestCall
            BY <3>1 DEF RestCall, Start, Resume, ResumeComplete, OpenFails, ReopenTerminates,
                CloseForCall, BeginClose, SetUri, SetPath, AnswerCall, SendHttpRequest, RequestMade,
                RequestRefused, ownVars, Transferring, FInv, EInv, TypeOK
        <3>2. CASE Update
            BY <3>2 DEF Update, UpdateTransferred, FailedWithoutNetwork, FailedForGood,
                HandleTransientError, PausedWith, BeginClose, FInv, EInv, TypeOK
        <3>3. CASE DelayedTask
            BY <3>3 DEF DelayedTask, Retry, RetryAfterTransientError, StillNoNetwork,
                HandleTransientError, CheckProgress, NoProgress, SkipTask, BeginClose,
                SendHttpRequest, RequestMade, RequestRefused, ownVars, Transferring, PausedWith,
                FInv, EInv, TypeOK
        <3>4. CASE FinishClose
            BY <3>4 DEF FinishClose, FinishPause, FinishFinalize, FinishAbort, FinishWithError,
                AbortThrows, Closed, PausedWith, FInv, EInv, TypeOK
        <3>5. CASE CurlThread \/ Environment \/ UNCHANGED vars \/ \E op \in Operations : Call(op)
            BY <3>5 DEF CurlThread, TakeOver, OnData, OnSuccess, OnShortWrite, OnDataRefused,
                OnFailure, Environment, TimerDue, NetworkChanges, FallbackComesDue, BanEnds, Call,
                vars, ownVars
        <3> QED
            BY <3>1, <3>2, <3>3, <3>4, <3>5 DEF Next, TaskThread
    <2>2. ASSUME UpdateHeaders \/ UpdateData \/ \E kind \in FailureKinds : FailedForNow(kind)
          PROVE  FALSE
        <3>1. st.state = "Created"
            BY <2>2 DEF UpdateHeaders, UpdateData, FailedForNow, FInv, EInv, TypeOK
        <3>2. Update
            BY <2>2 DEF Update
        <3>3. Head(queue) = "call"
            BY <3>1, <3>2, CreatedTasks
        <3>4. "call" \notin FailureKinds
            BY KindsAreTasks
        <3> QED
            BY <2>2, <3>3, <3>4 DEF UpdateHeaders, UpdateData, FailedForNow, Failed, Dequeue
    <2> QED
        BY <2>1, <2>2
<1>2. queue \in Seq(Tasks)
    BY DEF FInv, EInv, TypeOK
<1> USE DEF CreatedIsFresh
<1>3. CASE RestCall \/ Update \/ DelayedTask
    <2>1. /\ UNCHANGED <<st, timers, disk>> /\ queue' = rest /\ ~curl'.queued /\ ~curl'.active
          /\ file'.created = file.created /\ queue # <<>>
        BY <1>1, <1>3, CreatedTasks
    <2>2. \A i \in DOMAIN rest : rest[i] = "call"
        BY <1>1, <1>2, <2>1 DEF FInv, rest
    <2> QED
        BY <1>1, <2>1, <2>2 DEF FInv
<1>4. CASE FinishClose
    <2>1. UNCHANGED <<queue, timers, curl>> /\ file'.created = file.created
        <3>1. FinishWithError
            <4>1. FinishFinalize \/ FinishAbort \/ AbortThrows => st'.state \in {"Finalized", "Aborted"}
                BY DEF FinishFinalize, FinishAbort, AbortThrows, FInv, EInv, TypeOK
            <4>2. FinishPause => \E b, c : st' = PausedWith(b, c)
                BY DEF FinishPause, Closed
            <4>3. \A b, c : PausedWith(b, c).state = "Paused"
                BY DEF PausedWith, FInv, EInv, TypeOK
            <4> QED
                BY <1>1, <1>4, <4>1, <4>2, <4>3 DEF FinishClose
        <3> QED
            BY <3>1 DEF FinishWithError, CloseThrows, curlVars, FInv, EInv, TypeOK
    <2> QED
        BY <1>1, <2>1 DEF FInv
<1>5. CASE CurlThread
    <2>1. ~curl.queued /\ ~curl.active
        BY <1>1 DEF FInv
    <2>2. TakeOver
        BY <1>5, <2>1 DEF CurlThread, OnData, OnSuccess, OnShortWrite, OnDataRefused, OnFailure
    <2>3. ~curl'.queued /\ ~curl'.active
        BY <2>1, <2>2, Zenon DEF TakeOver
    <2>4. UNCHANGED <<queue, timers, file>>
        BY <2>2 DEF TakeOver, fileVars
    <2> QED
        BY <1>1, <2>3, <2>4 DEF FInv
<1>6. CASE Environment
    <2>1. UNCHANGED <<queue, timers, curl, file>>
        BY <1>1, <1>6 DEF Environment, TimerDue, NetworkChanges, FallbackComesDue, BanEnds, curlVars,
            fileVars, FInv
    <2> QED
        BY <1>1, <2>1 DEF FInv
<1>7. CASE \E op \in Operations : Call(op)
    <2>1. UNCHANGED <<timers, curl, file>>
        BY <1>7 DEF Call, curlVars, fileVars
    <2>2. queue' \in {Append(queue, "call"), <<"call">> \o queue}
        BY <1>7 DEF Call, ScheduleCall, Sched, SchedImmediate
    <2>3. \A i \in DOMAIN queue' : queue'[i] = "call"
        <3>1. \A i \in DOMAIN queue : queue[i] = "call"
            BY <1>1 DEF FInv
        <3>2. CASE queue' = Append(queue, "call")
            BY <1>2, <3>1, <3>2
        <3>3. CASE queue' = <<"call">> \o queue
            BY <1>2, <3>1, <3>3
        <3> QED
            BY <2>2, <3>2, <3>3
    <2> QED
        BY <1>1, <2>1, <2>3 DEF FInv
<1>8. CASE UNCHANGED vars
    BY <1>1, <1>8 DEF vars, curlVars, fileVars, FInv
<1> QED
    BY <1>3, <1>4, <1>5, <1>6, <1>7, <1>8 DEF Next, TaskThread

\* What a step may do to the files on disk
LEMMA OwnInductive ==
    ASSUME FInv, [Next]_vars
    PROVE  /\ CreatedIsOwn'
           /\ \A p \in Paths : disk[p] = "foreign" => disk'[p] = "foreign"
<1>1. /\ disk \in [Paths -> {"absent", "foreign", "own"}] /\ file.path \in Paths
      /\ file \in [path : Paths, created : BOOLEAN, stream : Streams]
    BY DEF FInv, EInv, TypeOK
<1>2. CASE Start
    <2>1. disk[file.path] = "absent" /\ disk' = [disk EXCEPT ![file.path] = "own"]
          /\ file'.path = file.path
        BY <1>1, <1>2 DEF Start
    <2> QED
        BY <1>1, <2>1 DEF CreatedIsOwn
<1>3. CASE SetPath
    <2>1. disk' = disk /\ ~file'.created
        BY <1>1, <1>3 DEF SetPath, FInv, CreatedIsFresh
    <2> QED
        BY <2>1 DEF CreatedIsOwn
<1>4. CASE FinishAbort
    <2>1. file'.path = file.path /\ file'.created = file.created
        BY <1>1, <1>4 DEF FinishAbort, Closes
    <2>2. disk' = IF file.created THEN [disk EXCEPT ![file.path] = "absent"] ELSE disk
        BY <1>4 DEF FinishAbort
    <2> QED
        BY <1>1, <2>1, <2>2 DEF FInv, CreatedIsOwn
<1>5. CASE UNCHANGED disk /\ file'.path = file.path /\ file'.created = file.created
    BY <1>1, <1>5 DEF FInv, CreatedIsOwn
<1>6. ASSUME [Next]_vars, ~Start, ~SetPath, ~FinishAbort
      PROVE  UNCHANGED disk /\ file'.path = file.path /\ file'.created = file.created
    <2>1. CASE RestCall
        BY <1>1, <1>6, <2>1 DEF RestCall, Resume, ResumeComplete, Reopen, OpenFails,
            ReopenTerminates, CloseThrows, CloseForCall, BeginClose, SetUri, AnswerCall, fileVars
    <2>2. CASE Update \/ DelayedTask
        BY <2>2 DEF Update, UpdateHeaders, UpdateData, UpdateTransferred, FailedWithoutNetwork,
            FailedForGood, FailedForNow, DelayedTask, Retry, RetryAfterTransientError,
            StillNoNetwork, CheckProgress, NoProgress, SkipTask, BeginClose, fileVars
    <2>3. CASE FinishClose
        BY <1>1, <1>6, <2>3 DEF FinishClose, FinishPause, FinishFinalize, FinishWithError,
            AbortThrows, Closes, CloseThrows
    <2>4. CASE CurlThread \/ Environment \/ UNCHANGED vars \/ \E op \in Operations : Call(op)
        BY <2>4 DEF CurlThread, TakeOver, OnData, OnSuccess, OnShortWrite, OnDataRefused,
            OnFailure, Environment, TimerDue, NetworkChanges, FallbackComesDue, BanEnds, Call,
            vars, fileVars
    <2> QED
        BY <1>6, <2>1, <2>2, <2>3, <2>4 DEF Next, TaskThread
<1> QED
    BY <1>2, <1>3, <1>4, <1>5, <1>6

\* A file that is not the download's own is neither written nor deleted, by Abort least of
\* all (download.cpp:340-350).
THEOREM OthersFilesSurvive == ~SendErrors => (Spec => ForeignFilesSurvive)
<1> SUFFICES ASSUME ~SendErrors PROVE Spec => ForeignFilesSurvive
    OBVIOUS
<1>1. Init => CreatedIsFresh /\ CreatedIsOwn
    BY DEF Init, CreatedIsFresh, CreatedIsOwn
<1>2. EInv /\ CreatedIsFresh /\ CreatedIsOwn /\ [Next]_vars => (CreatedIsFresh /\ CreatedIsOwn)'
    BY FreshInductive, OwnInductive DEF FInv
<1>3. EInv /\ CreatedIsFresh /\ CreatedIsOwn /\ [Next]_vars
        => [\A p \in Paths : disk[p] = "foreign" => disk'[p] = "foreign"]_vars
    BY OwnInductive DEF FInv
<1> QED
    BY <1>1, <1>2, <1>3, EndedInvariant, PTL DEF Spec, ForeignFilesSurvive

-----------------------------------------------------------------------------
(***************************************************************************)
(* What the design of Download achieves when clients wait for the updates  *)
(* that are pending, the network is stable, the server announces lengths   *)
(* and honours ranges, and files and proxies do not fail: the file is a    *)
(* prefix of the source, there is one request at a time, a paused download *)
(* is quiet, and the life cycle is that of DownloadLifecycle.  Proved for  *)
(* any length, number of calls and failures, and configuration of caches.  *)
(***************************************************************************)
Calm == Unhurried /\ PlainServer /\ ~SendErrors /\ ~FileFaults /\ MaxNetFlips = 0

\* The tasks of OnComplete, and all tasks of callbacks
Completions == {"completed"} \cup FailureKinds
Updates == {"headers", "no length", "data"} \cup Completions

NoneOf(q, kinds) == \A i \in DOMAIN q : q[i] \notin kinds
OnlyFirst(q, task) == \A i \in DOMAIN q : q[i] = task => i = 1

\* A call, and the update of _Resume, are only ever the next task; the task of OnComplete is
\* the last update of its request.
Ordered(q) ==
    /\ OnlyFirst(q, "call") /\ OnlyFirst(q, "transferred")
    /\ \A i, j \in DOMAIN q : i < j /\ q[i] \in Completions => q[j] \notin Updates

\* The length is known before the first piece is counted.
Announced(q, total) ==
    \A i \in DOMAIN q :
        q[i] = "data" => total = Chunks \/ \E j \in DOMAIN q : j < i /\ q[j] = "headers"

\* Nothing that Calm excludes has happened.
NothingUnusual ==
    /\ net
    /\ at # "terminated"
    /\ file.stream # "lost"
    /\ st.state = "Paused" /\ st.extError => st.error
    /\ NoneOf(queue, {"no length"})

\* No update is behind a call, but for those of the request the call finds.
InFront ==
    /\ Ordered(queue)
    /\ ~NoneOf(queue, {"call"}) \/ ~NoneOf(queue, {"transferred"}) => at = "poll"
    /\ ~NoneOf(queue, {"call"}) /\ st.state # "Transferring" => NoneOf(queue, Updates)
    /\ ~NoneOf(queue, {"transferred"}) =>
        /\ st.state = "Transferring" /\ ~httpActive
        /\ Len(content) = Chunks

\* When the task of OnComplete is queued its request is gone.
CompletionIsLast ==
    /\ ~NoneOf(queue, Completions) =>
        /\ ~curl.queued /\ ~curl.active
        /\ st.state \in {"Transferring", "Paused"}
    /\ ~NoneOf(queue, {"completed"}) => Len(content) = Chunks

\* The request of a download that is Transferring is known to it, and a download that is
\* Transferring without one has no updates to come.
RequestIsKnown ==
    /\ ~(curl.queued /\ curl.active)
    /\ curl.queued \/ curl.active => httpActive /\ st.state = "Transferring"
    /\ httpActive => st.state \in {"Transferring", "Aborted"}
    /\ st.state = "Transferring" /\ ~httpActive => NoneOf(queue, Updates)
    /\ st.state = "Transferring" => file.stream = "open"
    /\ st.state = "Paused" => file.stream = "closed"

\* The state in which the task thread waits in Close
ClosingState ==
    /\ at \in {"Pause", "NoProgress"} => st.state = "Transferring"
    /\ at = "Fatal" => st.state \in {"Transferring", "Paused"}
    /\ at = "Finalize" => st.state = "Transferred"

LengthIsKnown ==
    /\ Announced(queue, st.total)
    /\ curl.active /\ agent.headersSeen => st.total = Chunks \/ ~NoneOf(queue, {"headers"})
    /\ curl.queued => ~agent.headersSeen
    /\ st.transferred > 0 => st.total = Chunks

\* A request begins, and goes on, where the file ends.
NextPiece ==
    /\ FileIsPrefix
    /\ Len(content) <= Chunks
    /\ curl.active => wire = Len(content)
    /\ curl.queued => agent.start = Len(content)

CInv ==
    /\ NothingUnusual
    /\ InFront
    /\ CompletionIsLast
    /\ RequestIsKnown
    /\ ClosingState
    /\ LengthIsKnown
    /\ NextPiece

KInv == FInv /\ EveryPieceIsCounted /\ CInv

-----------------------------------------------------------------------------
(***************************************************************************)
(* The queue.                                                              *)
(***************************************************************************)
LEMMA KindsDiffer ==
    /\ Updates \subseteq Tasks
    /\ Completions \subseteq Updates
    /\ {"call", "transferred", "retry", "transient", "progress"} \cap Updates = {}
    /\ {"headers", "data", "no length"} \cap Completions = {}
    /\ "completed" \notin FailureKinds /\ "completed" \in Completions
    /\ FailureKinds \subseteq Completions
<1>1. FailureKinds \subseteq Tasks
    BY KindsAreTasks
<1>2. {"call", "transferred", "retry", "transient", "progress", "headers", "data", "no length",
       "completed"} \cap FailureKinds = {}
    BY DEF FailureKinds, FailureOf
<1>3. {"headers", "data", "no length", "completed"} \subseteq Tasks
    BY DEF Tasks, OwnTasks
<1> QED
    BY <1>1, <1>2, <1>3 DEF Updates, Completions

\* What is left when the first task is taken
LEMMA TailOf ==
    ASSUME NEW q \in Seq(Tasks), q # <<>>
    PROVE  /\ \A kinds : NoneOf(q, kinds) <=> Head(q) \notin kinds /\ NoneOf(Tail(q), kinds)
           /\ \A task : OnlyFirst(q, task) => NoneOf(Tail(q), {task})
           /\ Ordered(q) => Ordered(Tail(q))
           /\ Ordered(q) => NoneOf(Tail(q), {"call"}) /\ NoneOf(Tail(q), {"transferred"})
           /\ Ordered(q) /\ Head(q) \in Completions => NoneOf(Tail(q), Updates)
           /\ \A total : Announced(q, total) /\ Head(q) # "headers" => Announced(Tail(q), total)
           /\ \A total : Announced(q, total) /\ Head(q) = "data" => total = Chunks
<1> DEFINE r == Tail(q)
<1>1. /\ r \in Seq(Tasks) /\ 1 \in DOMAIN q /\ q[1] = Head(q)
      /\ \A i \in DOMAIN r : i + 1 \in DOMAIN q /\ r[i] = q[i + 1] /\ i + 1 > 1
      /\ \A i \in DOMAIN q : i = 1 \/ (i - 1 \in DOMAIN r /\ r[i - 1] = q[i] /\ i > 1)
      /\ DOMAIN q \subseteq Nat /\ DOMAIN r \subseteq Nat
    OBVIOUS
<1> HIDE DEF r
<1>2. \A kinds : NoneOf(q, kinds) <=> Head(q) \notin kinds /\ NoneOf(r, kinds)
    BY <1>1 DEF NoneOf
<1>3. \A task : OnlyFirst(q, task) => NoneOf(r, {task})
    BY <1>1 DEF OnlyFirst, NoneOf
<1>4. Ordered(q) => Ordered(r)
    <2>1. \A i, j \in DOMAIN r : i < j => i + 1 < j + 1
        BY <1>1
    <2>2. \A task : NoneOf(r, {task}) => OnlyFirst(r, task)
        BY DEF NoneOf, OnlyFirst
    <2>3. Ordered(q) => \A i, j \in DOMAIN r : i < j /\ r[i] \in Completions => r[j] \notin Updates
        BY <1>1, <2>1 DEF Ordered
    <2>4. Ordered(q) => OnlyFirst(r, "call") /\ OnlyFirst(r, "transferred")
        BY <1>3, <2>2 DEF Ordered
    <2> QED
        BY <2>3, <2>4 DEF Ordered
<1>5. Ordered(q) => NoneOf(r, {"call"}) /\ NoneOf(r, {"transferred"})
    BY <1>3 DEF Ordered
<1>6. Ordered(q) /\ Head(q) \in Completions => NoneOf(r, Updates)
    BY <1>1 DEF Ordered, NoneOf
<1>7. ASSUME NEW total, Announced(q, total), Head(q) # "headers" PROVE Announced(r, total)
    <2> SUFFICES ASSUME NEW i \in DOMAIN r, r[i] = "data", total # Chunks
                 PROVE  \E j \in DOMAIN r : j < i /\ r[j] = "headers"
        BY DEF Announced
    <2>1. PICK j \in DOMAIN q : j < i + 1 /\ q[j] = "headers"
        BY <1>1, <1>7 DEF Announced
    <2>2. j - 1 \in DOMAIN r /\ r[j - 1] = "headers" /\ j - 1 < i
        BY <1>1, <1>7, <2>1
    <2> QED
        BY <2>2
<1>8. ASSUME NEW total, Announced(q, total), Head(q) = "data" PROVE total = Chunks
    BY <1>1, <1>8 DEF Announced
<1> QED
    BY <1>2, <1>3, <1>4, <1>5, <1>6, <1>7, <1>8 DEF r

\* A task is added at the end.
LEMMA AppendTo ==
    ASSUME NEW q \in Seq(Tasks), NEW task \in Tasks
    PROVE  /\ \A kinds : NoneOf(Append(q, task), kinds) <=> NoneOf(q, kinds) /\ task \notin kinds
           /\ Ordered(q) /\ task \notin {"call", "transferred"}
                /\ (task \in Updates => NoneOf(q, Completions)) => Ordered(Append(q, task))
           /\ \A total : Announced(q, total)
                /\ (task = "data" => total = Chunks \/ ~NoneOf(q, {"headers"}))
                    => Announced(Append(q, task), total)
<1> DEFINE r == Append(q, task)
           n == Len(q) + 1
<1>1. /\ n \in DOMAIN r /\ r[n] = task /\ DOMAIN q \subseteq DOMAIN r
      /\ \A i \in DOMAIN q : r[i] = q[i] /\ i < n
      /\ \A i \in DOMAIN r : i = n \/ i \in DOMAIN q
      /\ DOMAIN r \subseteq Nat
    OBVIOUS
<1> HIDE DEF r, n
<1>2. \A kinds : NoneOf(r, kinds) <=> NoneOf(q, kinds) /\ task \notin kinds
    BY <1>1 DEF NoneOf
<1>3. ASSUME Ordered(q), task \notin {"call", "transferred"}, task \in Updates => NoneOf(q, Completions)
      PROVE  Ordered(r)
    <2>1. OnlyFirst(r, "call") /\ OnlyFirst(r, "transferred")
        BY <1>1, <1>3 DEF Ordered, OnlyFirst
    <2>2. ASSUME NEW i \in DOMAIN r, NEW j \in DOMAIN r, i < j, r[i] \in Completions
          PROVE  r[j] \notin Updates
        <3>1. i # n
            BY <1>1, <2>2
        <3> QED
            BY <1>1, <1>3, <2>2, <3>1 DEF Ordered, NoneOf
    <2> QED
        BY <2>1, <2>2 DEF Ordered
<1>4. ASSUME NEW total, Announced(q, total),
             task = "data" => total = Chunks \/ ~NoneOf(q, {"headers"})
      PROVE  Announced(r, total)
    BY <1>1, <1>4 DEF Announced, NoneOf
<1> QED
    BY <1>2, <1>3, <1>4 DEF r

\* Less is in a smaller set of kinds.
LEMMA NoneOfFewer ==
    ASSUME NEW q, NEW kinds, NEW fewer, fewer \subseteq kinds, NoneOf(q, kinds)
    PROVE  NoneOf(q, fewer)
BY DEF NoneOf

LEMMA NoneOfEmpty ==
    /\ \A kinds : NoneOf(<<>>, kinds)
    /\ Ordered(<<>>)
    /\ \A total : Announced(<<>>, total)
    /\ \A q : Announced(q, Chunks)
BY DEF NoneOf, Ordered, OnlyFirst, Announced

-----------------------------------------------------------------------------
(***************************************************************************)
(* The steps that are left.                                                *)
(***************************************************************************)

\* Tasks that take the next task and do little else
SmallTask ==
    SetUri \/ SetPath \/ AnswerCall \/ UpdateHeaders \/ UpdateData \/ CheckProgress \/ SkipTask

Request == Start \/ Resume \/ Retry

Closing == CloseForCall \/ NoProgress \/ \E kind \in FailureKinds : FailedForGood(kind)

CalmTask ==
    \/ SmallTask \/ Request \/ ResumeComplete \/ Closing \/ UpdateTransferred
    \/ \E kind \in FailureKinds : FailedForNow(kind)

Finishing == FinishPause \/ FinishFinalize \/ FinishAbort

CalmCallback == OnData \/ OnSuccess \/ \E kind \in FailureKinds : OnFailure(kind)

CalmEnvironment ==
    (\E task \in TimerTasks : TimerDue(task)) \/ FallbackComesDue \/ BanEnds

\* Without its faults a download takes one of these steps.
LEMMA CalmSteps ==
    ASSUME Calm, KInv, Next
    PROVE  /\ \/ CalmTask \/ Finishing \/ TakeOver \/ CalmCallback \/ CalmEnvironment
              \/ \E op \in Operations : Call(op)
           /\ net' = net
<1>1. net /\ file.stream # "lost" /\ ~IsTransientError(st)
    BY DEF KInv, CInv, NothingUnusual, IsTransientError
<1>2. ~NetworkChanges
    BY DEF NetworkChanges, Calm, KInv, FInv, EInv, TypeOK
<1>3. ~CloseThrows /\ ~OpenFails /\ ~OnShortWrite
    BY <1>1 DEF CloseThrows, OpenFails, OnShortWrite, Calm
<1>4. ~OnDataRefused
    BY DEF OnDataRefused, KInv, CInv, RequestIsKnown
<1>5. CASE RestCall
    <2>1. CalmTask
        BY <1>3, <1>5 DEF RestCall, CalmTask, SmallTask, Request, Closing, ReopenTerminates
    <2>2. net' = net
        BY <1>5 DEF RestCall, Start, Resume, ResumeComplete, OpenFails, ReopenTerminates,
            CloseForCall, BeginClose, SetUri, SetPath, AnswerCall, SendHttpRequest, envVars
    <2> QED
        BY <2>1, <2>2
<1>6. CASE Update
    <2>1. CalmTask
        BY <1>1, <1>6 DEF Update, CalmTask, SmallTask, Closing, FailedWithoutNetwork
    <2>2. net' = net
        BY <1>6 DEF Update, UpdateHeaders, UpdateData, UpdateTransferred, FailedWithoutNetwork,
            FailedForGood, FailedForNow, BeginClose, envVars
    <2> QED
        BY <2>1, <2>2
<1>7. CASE DelayedTask
    <2>1. CalmTask
        BY <1>1, <1>7 DEF DelayedTask, CalmTask, SmallTask, Request, Closing,
            RetryAfterTransientError, StillNoNetwork
    <2>2. net' = net
        BY <1>7 DEF DelayedTask, Retry, RetryAfterTransientError, StillNoNetwork, CheckProgress,
            NoProgress, SkipTask, BeginClose, SendHttpRequest, envVars
    <2> QED
        BY <2>1, <2>2
<1>8. CASE FinishClose
    <2>1. Finishing
        BY <1>3, <1>8 DEF FinishClose, Finishing, FinishWithError, AbortThrows
    <2>2. net' = net
        BY <1>8 DEF FinishClose, FinishPause, FinishFinalize, FinishAbort, FinishWithError,
            AbortThrows
    <2> QED
        BY <2>1, <2>2
<1>9. CASE CurlThread
    <2>1. TakeOver \/ CalmCallback
        BY <1>3, <1>4, <1>9 DEF CurlThread, CalmCallback
    <2>2. net' = net
        BY <1>9 DEF CurlThread, TakeOver, OnData, OnSuccess, OnShortWrite, OnDataRefused, OnFailure,
            envVars
    <2> QED
        BY <2>1, <2>2
<1>10. CASE Environment
    <2>1. CalmEnvironment
        BY <1>2, <1>10 DEF Environment, CalmEnvironment
    <2>2. net' = net
        BY <2>1 DEF CalmEnvironment, TimerDue, FallbackComesDue, BanEnds, envVars
    <2> QED
        BY <2>1, <2>2
<1>11. CASE \E op \in Operations : Call(op)
    BY <1>11 DEF Call
<1> QED
    BY <1>5, <1>6, <1>7, <1>8, <1>9, <1>10, <1>11 DEF Next, TaskThread

\* What the lemmas below use of the types
LEMMA KTypes ==
    ASSUME KInv
    PROVE  /\ queue \in Seq(Tasks)
           /\ st \in [state : DownloadStates, error : BOOLEAN, extError : BOOLEAN,
                      total : {0, Chunks}, transferred : Nat]
           /\ st.transferred \in Nat /\ st.total \in {0, Chunks}
           /\ file \in [path : Paths, created : BOOLEAN, stream : Streams]
           /\ content \in Seq(0 .. Chunks) /\ Len(content) \in Nat
           /\ agent \in Agents
           /\ curl \in [queued : BOOLEAN, active : BOOLEAN, marked : BOOLEAN]
           /\ wire \in Nat
           /\ Chunks \in Nat \ {0}
BY DownloadAssumption DEF KInv, FInv, EInv, TypeOK, Agents

\* A task that leaves the request alone and only counts
LEMMA TaskTaken ==
    ASSUME KInv, queue # <<>>, at = "poll", at' = "poll", queue' = rest,
           UNCHANGED <<curl, agent, wire, content, httpActive, net>>,
           file'.stream = file.stream,
           st'.state = st.state, st'.error = st.error, st'.extError = st.extError,
           st'.total = IF Head(queue) = "headers" THEN Chunks ELSE st.total,
           st'.transferred = st.transferred \/ Head(queue) = "data"
    PROVE  CInv'
<1>1. queue \in Seq(Tasks)
    BY KTypes
<1>2. \A kinds : NoneOf(queue, kinds) <=> Head(queue) \notin kinds /\ NoneOf(queue', kinds)
    BY <1>1, TailOf DEF rest
<1>3. Ordered(queue')
    BY <1>1, TailOf DEF rest, KInv, CInv, InFront
<1>4. NothingUnusual'
    BY <1>2 DEF NothingUnusual, KInv, CInv
<1>5. InFront'
    BY <1>2, <1>3 DEF InFront, KInv, CInv
<1>6. CompletionIsLast'
    BY <1>2 DEF CompletionIsLast, KInv, CInv
<1>7. RequestIsKnown'
    BY <1>2 DEF RequestIsKnown, KInv, CInv
<1>8. ClosingState'
    BY DEF ClosingState
<1>9. LengthIsKnown'
    <2>1. LengthIsKnown
        BY DEF KInv, CInv
    <2>2. Announced(queue', st'.total)
        <3>1. CASE Head(queue) = "headers"
            BY <3>1, NoneOfEmpty
        <3>2. CASE Head(queue) # "headers"
            BY <1>1, <2>1, <3>2, TailOf DEF LengthIsKnown, rest
        <3> QED
            BY <3>1, <3>2
    <2>3. st'.transferred > 0 => st'.total = Chunks
        <3>1. Head(queue) = "data" => st.total = Chunks
            BY <1>1, <2>1, TailOf DEF LengthIsKnown
        <3> QED
            BY <2>1, <3>1 DEF LengthIsKnown
    <2>4. curl'.active /\ agent'.headersSeen => st'.total = Chunks \/ ~NoneOf(queue', {"headers"})
        BY <1>2, <2>1 DEF LengthIsKnown
    <2> QED
        BY <2>1, <2>2, <2>3, <2>4 DEF LengthIsKnown
<1>10. NextPiece'
    BY DEF NextPiece, FileIsPrefix, KInv, CInv
<1> QED
    BY <1>4, <1>5, <1>6, <1>7, <1>8, <1>9, <1>10 DEF CInv

LEMMA SmallTaskKeeps ==
    ASSUME KInv, SmallTask, net' = net
    PROVE  CInv'
<1>1. /\ queue # <<>> /\ at = "poll" /\ at' = "poll" /\ queue' = rest
      /\ UNCHANGED <<curl, agent, wire, content, httpActive>>
    BY DEF SmallTask, SetUri, SetPath, AnswerCall, UpdateHeaders, UpdateData, CheckProgress,
        SkipTask, Dequeue, ownVars, fileVars, curlVars
<1>2. file'.stream = file.stream
    BY KTypes DEF SmallTask, SetUri, SetPath, AnswerCall, UpdateHeaders, UpdateData, CheckProgress,
        SkipTask, fileVars
<1>3. /\ st'.state = st.state /\ st'.error = st.error /\ st'.extError = st.extError
      /\ st'.total = IF Head(queue) = "headers" THEN Chunks ELSE st.total
      /\ st'.transferred = st.transferred \/ Head(queue) = "data"
    <2>1. CASE UpdateHeaders
        <3>1. Head(queue) = "headers"
            <4>1. NoneOf(queue, {"no length"})
                BY DEF KInv, CInv, NothingUnusual
            <4>2. Head(queue) # "no length"
                BY <1>1, <4>1, KTypes, TailOf
            <4> QED
                BY <2>1, <4>2 DEF UpdateHeaders, Dequeue
        <3> QED
            BY <2>1, <3>1, KTypes DEF UpdateHeaders
    <2>2. CASE UpdateData
        BY <2>2, KTypes DEF UpdateData, Dequeue
    <2>3. CASE SetUri \/ SetPath \/ AnswerCall \/ CheckProgress \/ SkipTask
        BY <2>3 DEF SetUri, SetPath, AnswerCall, CheckProgress, SkipTask, Dequeue, ownVars
    <2> QED
        BY <2>1, <2>2, <2>3 DEF SmallTask
<1> QED
    BY <1>1, <1>2, <1>3, TaskTaken

\* When no update is pending BytesTransferred is the length of the file.
LEMMA AllIsCounted ==
    ASSUME KInv, NoneOf(queue, {"data"}), ~Ended
    PROVE  st.transferred = Len(content)
<1>1. Len(content) \in Nat /\ st.transferred \in Nat /\ DOMAIN content = 1 .. Len(content)
    BY KTypes
<1>2. {i \in DOMAIN content : content[i] \in 1 .. Chunks} = 1 .. Len(content)
    <2>1. FileIsPrefix /\ Len(content) <= Chunks
        BY DEF KInv, CInv, NextPiece
    <2>2. \A i \in 1 .. Len(content) : content[i] \in 1 .. Chunks
        BY <1>1, <2>1, KTypes DEF FileIsPrefix
    <2> QED
        BY <1>1, <2>2
<1>3. Count(content, 1 .. Chunks) = Len(content)
    <2>1. \A n \in Nat : Cardinality(1 .. n) = n
        BY FS_Interval
    <2>2. Cardinality(1 .. Len(content)) = Len(content)
        BY <1>1, <2>1
    <2> QED
        BY <1>2, <2>2, Zenon DEF Count
<1>4. Count(queue, {"data"}) = 0
    <2>1. {i \in DOMAIN queue : queue[i] \in {"data"}} = {}
        BY DEF NoneOf
    <2> QED
        BY <2>1, FS_EmptySet DEF Count
<1> QED
    BY <1>1, <1>3, <1>4 DEF KInv, EveryPieceIsCounted, Ended

\* No update is pending when a request is made.
LEMMA RequestWhenQuiet ==
    ASSUME KInv, Request \/ ResumeComplete
    PROVE  /\ queue # <<>> /\ at = "poll" /\ ~Ended
           /\ NoneOf(rest, {"call"}) /\ NoneOf(rest, {"transferred"}) /\ Ordered(rest)
           /\ NoneOf(rest, Updates) /\ NoneOf(queue, {"data"})
           /\ ~curl.queued /\ ~curl.active /\ ~httpActive
           /\ st.transferred = Len(content)
<1>1. /\ queue # <<>> /\ at = "poll" /\ Head(queue) \in {"call", "retry"}
      /\ st.state \in {"Created", "Paused", "Transferring"}
      /\ st.state = "Transferring" => Retry
      /\ st.state # "Transferring" => Head(queue) = "call"
    BY DEF Request, Start, Resume, Retry, ResumeComplete, Dequeue
<1>2. ~Ended
    BY <1>1 DEF Ended
<1>3. \A kinds : NoneOf(queue, kinds) <=> Head(queue) \notin kinds /\ NoneOf(rest, kinds)
    BY <1>1, KTypes, TailOf DEF rest
<1>4. NoneOf(queue, Updates) /\ ~httpActive
    <2>1. CASE st.state = "Transferring"
        BY <1>1, <2>1 DEF Retry, KInv, CInv, RequestIsKnown
    <2>2. CASE st.state # "Transferring"
        <3>1. ~NoneOf(queue, {"call"})
            BY <1>1, <1>3, <2>2
        <3>2. NoneOf(queue, Updates)
            BY <2>2, <3>1 DEF KInv, CInv, InFront
        <3>3. ~httpActive
            BY <1>1, <2>2 DEF KInv, CInv, RequestIsKnown
        <3> QED
            BY <3>2, <3>3
    <2> QED
        BY <2>1, <2>2
<1>5. NoneOf(queue, {"data"})
    <2>1. {"data"} \subseteq Updates
        BY DEF Updates
    <2> QED
        BY <1>4, <2>1, NoneOfFewer, Zenon
<1>6. ~curl.queued /\ ~curl.active
    BY <1>4 DEF KInv, CInv, RequestIsKnown
<1>7. NoneOf(rest, {"call"}) /\ NoneOf(rest, {"transferred"}) /\ Ordered(rest)
    BY <1>1, KTypes, TailOf DEF KInv, CInv, InFront, rest
<1>8. st.transferred = Len(content)
    BY <1>2, <1>5, AllIsCounted
<1> QED
    BY <1>1, <1>2, <1>3, <1>4, <1>5, <1>6, <1>7, <1>8

\* Start, Resume and Retry ask for what comes after the end of the file.
LEMMA RequestKeeps ==
    ASSUME Calm, KInv, Request, net' = net
    PROVE  /\ CInv'
           /\ st'.state = "Transferring" /\ content' = content
<1> DEFINE Unsent(q) == NoneOf(q, {"call"}) /\ NoneOf(q, {"transferred"}) /\ NoneOf(q, Updates)
<1>1. /\ Unsent(rest) /\ Ordered(rest) /\ st.transferred = Len(content)
      /\ ~curl.queued /\ ~curl.active /\ ~httpActive
    BY RequestWhenQuiet
<1>2. ~RangeOverflows /\ (st.transferred > 0 => st.total = Chunks)
    <2>1. Len(content) <= Chunks /\ (st.transferred > 0 => st.total = Chunks)
        BY DEF KInv, CInv, NextPiece, LengthIsKnown
    <2> QED
        BY <1>1, <2>1, KTypes DEF RangeOverflows
<1>3. PICK a \in Agents, retry \in BOOLEAN : RequestMade(a, retry, rest) /\ wire' = wire
    <2>1. agent \in Agents /\ NoAgent \in Agents
        BY KTypes DEF NoAgent, Agents
    <2>2. ASSUME NEW a \in Agents, NEW retry \in BOOLEAN, NEW next,
                 SendHttpRequest(a, retry, rest, next)
          PROVE  RequestMade(a, retry, rest) /\ wire' = wire
        BY <1>1, <1>2, <2>2 DEF SendHttpRequest, RequestRefused, Calm
    <2> QED
        BY <2>1, <2>2 DEF Request, Start, Resume, Retry
<1>4. /\ at' = "poll" /\ queue' = rest /\ httpActive'
      /\ curl'.queued /\ ~curl'.active
    BY <1>1, <1>3, KTypes DEF RequestMade
<1>5. /\ st'.state = "Transferring" /\ st'.total = st.total /\ st'.transferred = st.transferred
    BY <1>3, KTypes DEF RequestMade, Transferring
<1>6. ~agent'.headersSeen /\ agent'.start = st.transferred
    <2>1. agent' = Prepared(a, conn'.type)
        BY <1>3 DEF RequestMade
    <2>2. \A type : CreateClient(a, type) = [a EXCEPT !.connectTimeout = CreateClient(a, type).connectTimeout]
        BY DEF CreateClient, Agents
    <2> QED
        BY <2>1, <2>2 DEF Prepared, Agents
<1>7. content' = content /\ file'.stream = "open"
    <2>1. CASE Start
        BY <2>1, KTypes DEF Start
    <2>2. CASE Resume
        BY <2>2, KTypes DEF Resume, Reopen
    <2>3. CASE Retry
        BY <2>3 DEF Retry, fileVars, KInv, CInv, RequestIsKnown
    <2> QED
        BY <2>1, <2>2, <2>3 DEF Request
<1>8. NoneOf(rest, {"no length"}) /\ NoneOf(rest, Completions) /\ NoneOf(rest, {"data"})
      /\ NoneOf(rest, {"completed"})
    <2>1. /\ {"no length"} \subseteq Updates /\ Completions \subseteq Updates
          /\ {"data"} \subseteq Updates /\ {"completed"} \subseteq Updates
        BY DEF Updates, Completions
    <2> QED
        BY <1>1, <2>1, NoneOfFewer, Zenon
<1>9. NothingUnusual'
    BY <1>4, <1>5, <1>7, <1>8 DEF NothingUnusual, KInv, CInv
<1>10. InFront'
    BY <1>1, <1>4 DEF InFront
<1>11. CompletionIsLast'
    BY <1>4, <1>8 DEF CompletionIsLast
<1>12. RequestIsKnown'
    BY <1>4, <1>5, <1>7 DEF RequestIsKnown
<1>13. ClosingState'
    BY <1>4 DEF ClosingState
<1>14. LengthIsKnown'
    <2>1. Announced(rest, st'.total)
        BY <1>8 DEF NoneOf, Announced
    <2> QED
        BY <1>2, <1>4, <1>5, <1>6, <2>1 DEF LengthIsKnown
<1>15. NextPiece'
    BY <1>1, <1>4, <1>6, <1>7 DEF NextPiece, FileIsPrefix, KInv, CInv
<1> QED
    BY <1>5, <1>7, <1>9, <1>10, <1>11, <1>12, <1>13, <1>14, <1>15 DEF CInv

\* _Resume of a download whose last update came after the pause
LEMMA ResumeCompleteKeeps ==
    ASSUME KInv, ResumeComplete, net' = net
    PROVE  /\ CInv'
           /\ st.state = "Paused" /\ st'.state = "Transferring" /\ content' = content
<1>1. /\ NoneOf(rest, {"call"}) /\ NoneOf(rest, {"transferred"}) /\ NoneOf(rest, Updates)
      /\ rest \in Seq(Tasks) /\ at = "poll"
      /\ ~curl.queued /\ ~curl.active /\ ~httpActive
    BY RequestWhenQuiet, KTypes DEF rest
<1>2. Len(content) = Chunks /\ st.total = Chunks
    <2>1. st.transferred = Len(content) /\ st.total # 0 /\ st.transferred = st.total
        BY RequestWhenQuiet DEF ResumeComplete
    <2> QED
        BY <2>1, KTypes
<1>3. /\ queue' = <<"transferred">> \o rest
      /\ UNCHANGED <<at, curl, agent, wire, content, httpActive>>
      /\ st.state = "Paused"
    BY DEF ResumeComplete, SchedImmediate, curlVars
<1>4. st'.state = "Transferring" /\ st'.total = st.total /\ file'.stream = "open"
    BY KTypes DEF ResumeComplete, Transferring, Reopen
<1>5. /\ queue' \in Seq(Tasks) /\ queue' # <<>>
      /\ Head(queue') = "transferred" /\ Tail(queue') = rest
    <2>1. "transferred" \in Tasks
        BY KindsAreTasks
    <2> QED
        BY <1>1, <1>3, <2>1
<1>6. \A kinds : NoneOf(queue', kinds) <=> "transferred" \notin kinds /\ NoneOf(rest, kinds)
    <2>1. \A kinds : NoneOf(queue', kinds)
                        <=> Head(queue') \notin kinds /\ NoneOf(Tail(queue'), kinds)
        BY <1>5, TailOf, Zenon
    <2> QED
        BY <1>5, <2>1, Zenon
<1>7. NoneOf(queue', Updates) /\ NoneOf(queue', {"call"})
    <2>1. "transferred" \notin Updates /\ "transferred" \notin {"call"}
        BY KindsDiffer
    <2> QED
        BY <1>1, <1>6, <2>1, Zenon
<1>8. /\ NoneOf(queue', {"no length"}) /\ NoneOf(queue', Completions) /\ NoneOf(queue', {"data"})
      /\ NoneOf(queue', {"completed"})
    <2>1. /\ {"no length"} \subseteq Updates /\ Completions \subseteq Updates
          /\ {"data"} \subseteq Updates /\ {"completed"} \subseteq Updates
        BY DEF Updates, Completions
    <2> QED
        BY <1>7, <2>1, NoneOfFewer, Zenon
<1>9. Ordered(queue')
    <2>1. OnlyFirst(queue', "call")
        BY <1>7 DEF NoneOf, OnlyFirst
    <2>2. OnlyFirst(queue', "transferred")
        <3>1. \A i \in DOMAIN queue' : i = 1 \/ (i - 1 \in DOMAIN rest /\ rest[i - 1] = queue'[i])
            BY <1>1, <1>3
        <3> QED
            BY <1>1, <3>1 DEF NoneOf, OnlyFirst
    <2> QED
        BY <1>8, <2>1, <2>2 DEF Ordered, NoneOf
<1>10. NothingUnusual'
    BY <1>1, <1>3, <1>4, <1>8 DEF NothingUnusual, KInv, CInv
<1>11. InFront'
    BY <1>1, <1>2, <1>3, <1>4, <1>7, <1>9 DEF InFront
<1>12. CompletionIsLast'
    BY <1>8 DEF CompletionIsLast
<1>13. RequestIsKnown'
    BY <1>1, <1>3, <1>4, <1>7 DEF RequestIsKnown
<1>14. ClosingState'
    BY <1>1, <1>3 DEF ClosingState
<1>15. LengthIsKnown'
    BY <1>1, <1>2, <1>3, <1>4, NoneOfEmpty DEF LengthIsKnown
<1>16. NextPiece'
    BY <1>3 DEF NextPiece, FileIsPrefix, KInv, CInv
<1> QED
    BY <1>3, <1>4, <1>10, <1>11, <1>12, <1>13, <1>14, <1>15, <1>16 DEF CInv

\* A completion is taken: its request is gone and no update is left.
LEMMA CompletionTaken ==
    ASSUME KInv, at = "poll", queue # <<>>, Head(queue) \in Completions
    PROVE  /\ NoneOf(rest, Updates) /\ ~curl.queued /\ ~curl.active
           /\ st.state \in {"Transferring", "Paused"}
           /\ Head(queue) = "completed" => Len(content) = Chunks
<1>1. \A kinds : NoneOf(queue, kinds) <=> Head(queue) \notin kinds /\ NoneOf(rest, kinds)
    BY KTypes, TailOf DEF rest
<1>2. NoneOf(rest, Updates)
    BY KTypes, TailOf DEF KInv, CInv, InFront, rest
<1> QED
    BY <1>1, <1>2 DEF KInv, CInv, CompletionIsLast

\* The operations that go through Close, as far as their wait
LEMMA ClosingKeeps ==
    ASSUME KInv, Closing, net' = net
    PROVE  CInv' /\ st' = st /\ content' = content
<1>1. /\ queue # <<>> /\ at = "poll" /\ queue' = rest /\ Head(queue) # "headers"
      /\ UNCHANGED <<st, agent, wire, content, file>>
    BY KindsDiffer DEF Closing, CloseForCall, NoProgress, FailedForGood, Failed, Dequeue, BeginClose, fileVars
<1>2. ~curl'.queued /\ curl'.active = curl.active
    BY KTypes DEF Closing, CloseForCall, NoProgress, FailedForGood, BeginClose
<1>3. \/ httpActive' = httpActive
      \/ ~httpActive' /\ NoneOf(rest, Updates) /\ ~curl.active
    <2>1. ASSUME NEW kind \in FailureKinds, FailedForGood(kind)
          PROVE  ~httpActive' /\ NoneOf(rest, Updates) /\ ~curl.active
        <3>1. Head(queue) \in Completions
            BY <2>1, KindsDiffer DEF FailedForGood, Failed, Dequeue
        <3> QED
            BY <1>1, <2>1, <3>1, CompletionTaken DEF FailedForGood
    <2>2. CloseForCall \/ NoProgress => httpActive' = httpActive
        BY DEF CloseForCall, NoProgress
    <2> QED
        BY <2>1, <2>2 DEF Closing
<1>4. at' # "terminated" /\ ClosingState'
    <2>1. CASE CloseForCall
        BY <1>1, <2>1 DEF CloseForCall, BeginClose, ClosingState
    <2>2. CASE NoProgress
        BY <1>1, <2>2 DEF NoProgress, BeginClose, ClosingState
    <2>3. ASSUME NEW kind \in FailureKinds, FailedForGood(kind)
          PROVE  at' # "terminated" /\ ClosingState'
        <3>1. Head(queue) \in Completions
            BY <2>3, KindsDiffer DEF FailedForGood, Failed, Dequeue
        <3> QED
            BY <1>1, <2>3, <3>1, CompletionTaken DEF FailedForGood, BeginClose, ClosingState
    <2> QED
        BY <2>1, <2>2, <2>3 DEF Closing
<1>5. \A kinds : NoneOf(queue, kinds) <=> Head(queue) \notin kinds /\ NoneOf(queue', kinds)
    BY <1>1, KTypes, TailOf DEF rest
<1>6. NoneOf(queue', {"call"}) /\ NoneOf(queue', {"transferred"}) /\ Ordered(queue')
    BY <1>1, KTypes, TailOf DEF KInv, CInv, InFront, rest
<1>7. NothingUnusual'
    BY <1>1, <1>4, <1>5 DEF NothingUnusual, KInv, CInv
<1>8. InFront'
    BY <1>6 DEF InFront
<1>9. CompletionIsLast'
    BY <1>1, <1>2, <1>5 DEF CompletionIsLast, KInv, CInv
<1>10. RequestIsKnown'
    BY <1>1, <1>2, <1>3, <1>5 DEF RequestIsKnown, KInv, CInv
<1>11. LengthIsKnown'
    <2>1. Announced(queue', st.total)
        BY <1>1, KTypes, TailOf DEF LengthIsKnown, KInv, CInv, rest
    <2> QED
        BY <1>1, <1>2, <1>5, <2>1 DEF LengthIsKnown, KInv, CInv
<1>12. NextPiece'
    BY <1>1, <1>2 DEF NextPiece, FileIsPrefix, KInv, CInv
<1> QED
    BY <1>1, <1>4, <1>7, <1>8, <1>9, <1>10, <1>11, <1>12 DEF CInv

\* The end of a transfer, and a failure that is retried
LEMMA EndOfRequestKeeps ==
    ASSUME KInv, net' = net,
           UpdateTransferred \/ \E kind \in FailureKinds : FailedForNow(kind)
    PROVE  /\ CInv'
           /\ content' = content
           /\ \/ st'.state = st.state
              \/ /\ st'.state = "Transferred" /\ st.state \in {"Transferring", "Paused"}
                 /\ Len(content) = Chunks
<1>1. /\ queue # <<>> /\ at = "poll" /\ at' = "poll"
      /\ \/ Head(queue) \in Completions
         \/ UpdateTransferred /\ Head(queue) = "transferred"
      /\ UNCHANGED <<curl, agent, wire, content, file>>
    <2>1. UNCHANGED <<at, curl, agent, wire, content, file>>
        BY DEF UpdateTransferred, FailedForNow, curlVars, fileVars
    <2>2. /\ queue # <<>> /\ at = "poll"
          /\ \/ Head(queue) \in FailureKinds
             \/ UpdateTransferred /\ Head(queue) \in {"completed", "transferred"}
        BY DEF UpdateTransferred, FailedForNow, Failed, Dequeue
    <2>3. FailureKinds \subseteq Completions /\ "completed" \in Completions
        BY KindsDiffer
    <2> QED
        BY <2>1, <2>2, <2>3
<1>2. /\ NoneOf(rest, {"call"}) /\ NoneOf(rest, {"transferred"}) /\ Ordered(rest)
      /\ rest \in Seq(Tasks)
    BY <1>1, KTypes, TailOf DEF KInv, CInv, InFront, rest
<1>3. \A kinds : NoneOf(queue, kinds) <=> Head(queue) \notin kinds /\ NoneOf(rest, kinds)
    BY <1>1, KTypes, TailOf DEF rest
<1>4. /\ NoneOf(rest, Updates) /\ ~curl.queued /\ ~curl.active
      /\ st.state \in {"Transferring", "Paused"}
      /\ UpdateTransferred => Len(content) = Chunks
      /\ ~httpActive'
    <2>1. CASE Head(queue) \in Completions
        <3>1. Head(queue) # "transferred"
            BY <2>1, KindsDiffer
        <3>2. UpdateTransferred => Head(queue) = "completed"
            BY <3>1 DEF UpdateTransferred, Dequeue
        <3>3. ~httpActive'
            BY <3>1 DEF UpdateTransferred, FailedForNow
        <3> QED
            BY <1>1, <2>1, <3>2, <3>3, CompletionTaken
    <2>2. CASE UpdateTransferred /\ Head(queue) = "transferred"
        <3>1. ~NoneOf(queue, {"transferred"})
            BY <1>3, <2>2
        <3>2. st.state = "Transferring" /\ ~httpActive /\ Len(content) = Chunks
            BY <3>1 DEF KInv, CInv, InFront
        <3>3. NoneOf(queue, Updates) /\ ~curl.queued /\ ~curl.active
            BY <3>2 DEF KInv, CInv, RequestIsKnown
        <3>4. ~httpActive'
            BY <2>2, <3>2 DEF UpdateTransferred
        <3> QED
            BY <1>3, <3>2, <3>3, <3>4
    <2> QED
        BY <1>1, <2>1, <2>2
<1>5. queue' = rest \/ queue' = Append(rest, "retry")
    BY DEF UpdateTransferred, FailedForNow, Sched
<1>6. /\ NoneOf(queue', {"call"}) /\ NoneOf(queue', {"transferred"}) /\ Ordered(queue')
      /\ NoneOf(queue', Updates)
    <2>1. "retry" \in Tasks /\ "retry" \notin Updates
        BY KindsAreTasks, KindsDiffer
    <2>2. /\ NoneOf(Append(rest, "retry"), {"call"}) /\ NoneOf(Append(rest, "retry"), {"transferred"})
          /\ NoneOf(Append(rest, "retry"), Updates) /\ Ordered(Append(rest, "retry"))
        BY <1>2, <1>4, <2>1, AppendTo
    <2> QED
        BY <1>2, <1>4, <1>5, <2>2
<1>7. /\ NoneOf(queue', {"no length"}) /\ NoneOf(queue', Completions) /\ NoneOf(queue', {"data"})
      /\ NoneOf(queue', {"completed"})
    <2>1. /\ {"no length"} \subseteq Updates /\ Completions \subseteq Updates
          /\ {"data"} \subseteq Updates /\ {"completed"} \subseteq Updates
        BY DEF Updates, Completions
    <2> QED
        BY <1>6, <2>1, NoneOfFewer, Zenon
<1>8. /\ st'.state = IF UpdateTransferred THEN "Transferred" ELSE st.state
      /\ st'.extError = st.extError /\ st'.total = st.total /\ st'.transferred = st.transferred
      /\ st.error => st'.error
    <2>1. CASE UpdateTransferred
        BY <2>1, KTypes DEF UpdateTransferred
    <2>2. ASSUME ~UpdateTransferred, NEW kind \in FailureKinds, FailedForNow(kind)
          PROVE  st' = [st EXCEPT !.error = TRUE]
        BY <2>2 DEF FailedForNow
    <2> QED
        BY <2>1, <2>2, KTypes
<1>9. NothingUnusual'
    BY <1>1, <1>7, <1>8 DEF NothingUnusual, KInv, CInv
<1>10. InFront'
    BY <1>6 DEF InFront
<1>11. CompletionIsLast'
    BY <1>7 DEF CompletionIsLast
<1>12. RequestIsKnown'
    BY <1>1, <1>4, <1>6, <1>8 DEF RequestIsKnown, KInv, CInv
<1>13. ClosingState'
    BY <1>1 DEF ClosingState
<1>14. LengthIsKnown'
    <2>1. Announced(queue', st'.total)
        BY <1>7 DEF NoneOf, Announced
    <2> QED
        BY <1>1, <1>4, <1>8, <2>1 DEF LengthIsKnown, KInv, CInv
<1>15. NextPiece'
    BY <1>1, <1>4 DEF NextPiece, FileIsPrefix, KInv, CInv
<1> QED
    BY <1>1, <1>4, <1>8, <1>9, <1>10, <1>11, <1>12, <1>13, <1>14, <1>15 DEF CInv

\* What follows the wait in Close
LEMMA FinishingKeeps ==
    ASSUME KInv, Finishing, net' = net
    PROVE  CInv'
<1>1. /\ at \in Closings /\ at' = "poll" /\ ~curl.queued /\ ~curl.active
      /\ UNCHANGED <<curl, agent, wire, content>>
    BY DEF Finishing, FinishPause, FinishFinalize, FinishAbort, Closed, Closings, curlVars,
        KInv, FInv, EInv, ClosingHasNoRequest
<1>2. file'.stream = "closed"
    BY KTypes DEF Finishing, FinishPause, FinishFinalize, FinishAbort, Closes
<1>3. NextPiece'
    BY <1>1 DEF NextPiece, FileIsPrefix, KInv, CInv
<1>4. ClosingState'
    BY <1>1 DEF ClosingState
<1>5. CASE FinishPause
    <2>1. /\ at \in {"Pause", "Fatal", "NoProgress"}
          /\ queue' = queue /\ ~httpActive'
        BY <1>5 DEF FinishPause, Closed
    <2>2. /\ st'.state = "Paused" /\ (st'.extError => st'.error)
          /\ st'.total = st.total /\ st'.transferred = st.transferred
        BY <1>5, <2>1, KTypes DEF FinishPause, PausedWith
    <2>3. NoneOf(queue, {"call"}) /\ NoneOf(queue, {"transferred"})
        BY <2>1 DEF KInv, CInv, InFront
    <2>4. NothingUnusual'
        BY <1>1, <1>2, <2>1, <2>2 DEF NothingUnusual, KInv, CInv
    <2>5. InFront'
        BY <2>1, <2>3 DEF InFront, KInv, CInv
    <2>6. CompletionIsLast'
        BY <1>1, <2>1, <2>2 DEF CompletionIsLast, KInv, CInv
    <2>7. RequestIsKnown'
        BY <1>1, <1>2, <2>1, <2>2 DEF RequestIsKnown
    <2>8. LengthIsKnown'
        BY <1>1, <2>1, <2>2 DEF LengthIsKnown, KInv, CInv
    <2> QED
        BY <1>3, <1>4, <2>4, <2>5, <2>6, <2>7, <2>8 DEF CInv
<1>6. CASE FinishFinalize \/ FinishAbort
    <2>1. queue' = <<>>
        <3>1. at \in {"Finalize", "Abort"} /\ CancelTasks
            BY <1>6 DEF FinishFinalize, FinishAbort, Closed
        <3> QED
            BY <3>1, CancelledQueue DEF CancelTasks, KInv, FInv, EInv
    <2>2. /\ st'.state \in {"Finalized", "Aborted"}
          /\ st'.total = st.total /\ st'.transferred = st.transferred
        BY <1>6, KTypes DEF FinishFinalize, FinishAbort
    <2>3. httpActive' => st'.state = "Aborted"
        <3>1. CASE FinishFinalize
            BY <3>1 DEF FinishFinalize
        <3>2. CASE FinishAbort
            BY <3>2, KTypes DEF FinishAbort
        <3> QED
            BY <1>6, <3>1, <3>2
    <2>4. /\ \A kinds : NoneOf(queue', kinds)
          /\ Ordered(queue') /\ \A total : Announced(queue', total)
        BY <2>1, NoneOfEmpty
    <2>5. NothingUnusual'
        BY <1>1, <1>2, <2>2, <2>4 DEF NothingUnusual, KInv, CInv
    <2>6. InFront'
        BY <2>4 DEF InFront
    <2>7. CompletionIsLast'
        BY <2>4 DEF CompletionIsLast
    <2>8. RequestIsKnown'
        BY <1>1, <2>2, <2>3 DEF RequestIsKnown
    <2>9. LengthIsKnown'
        BY <1>1, <2>2, <2>4 DEF LengthIsKnown, KInv, CInv
    <2> QED
        BY <1>3, <1>4, <2>5, <2>6, <2>7, <2>8, <2>9 DEF CInv
<1> QED
    BY <1>5, <1>6 DEF Finishing

\* The worker takes over what is queued, and lets go of what is marked.
LEMMA TakeOverKeeps ==
    ASSUME Calm, KInv, TakeOver, net' = net
    PROVE  CInv'
<1>1. UNCHANGED <<at, queue, st, httpActive, file, content, agent>>
    BY DEF TakeOver, ownVars, fileVars
<1>2. ~curl'.queued /\ (curl'.active => curl.active \/ curl.queued)
    BY Zenon DEF TakeOver
<1>3. curl'.active => IF curl.active THEN wire' = wire ELSE wire' = agent.start
    <2>1. ~MayBeUnusual
        BY DEF MayBeUnusual, Calm
    <2>2. Begin(curl'.active /\ ~curl.active)
        BY DEF TakeOver
    <2> QED
        BY <2>1, <2>2 DEF Begin
<1>4. NothingUnusual'
    BY <1>1 DEF NothingUnusual, KInv, CInv
<1>5. InFront'
    BY <1>1 DEF InFront, KInv, CInv
<1>6. CompletionIsLast'
    BY <1>1, <1>2 DEF CompletionIsLast, KInv, CInv
<1>7. RequestIsKnown'
    BY <1>1, <1>2 DEF RequestIsKnown, KInv, CInv
<1>8. ClosingState'
    BY <1>1 DEF ClosingState, KInv, CInv
<1>9. LengthIsKnown'
    BY <1>1, <1>2 DEF LengthIsKnown, KInv, CInv
<1>10. NextPiece'
    BY <1>1, <1>2, <1>3 DEF NextPiece, FileIsPrefix, KInv, CInv
<1> QED
    BY <1>4, <1>5, <1>6, <1>7, <1>8, <1>9, <1>10 DEF CInv

\* While a request is active no call but one that finds it is queued, and no completion.
LEMMA ActiveRequest ==
    ASSUME KInv, curl.active
    PROVE  /\ ~curl.queued /\ httpActive /\ st.state = "Transferring"
           /\ NoneOf(queue, Completions) /\ NoneOf(queue, {"transferred"})
           /\ wire = Len(content)
BY DEF KInv, CInv, RequestIsKnown, CompletionIsLast, InFront, NextPiece

\* The next piece is appended, and its update queued behind the length.
LEMMA PieceKeeps ==
    ASSUME Calm, KInv, OnData, net' = net
    PROVE  /\ CInv'
           /\ st.state = "Transferring" /\ st' = st
           /\ Len(content) < Chunks /\ Len(content') = Len(content) + 1
<1>1. /\ curl.active /\ wire < Chunks
      /\ content' = Append(content, wire + 1) /\ wire' = wire + 1
      /\ UNCHANGED <<at, st, httpActive, file, curl>>
      /\ agent'.headersSeen
    BY KTypes DEF OnData, ownVars, Agents
<1>2. /\ ~curl.queued /\ httpActive /\ st.state = "Transferring"
      /\ NoneOf(queue, Completions) /\ NoneOf(queue, {"transferred"})
      /\ wire = Len(content)
    BY <1>1, ActiveRequest
<1>3. PICK q \in Seq(Tasks) :
        /\ queue' = Append(q, "data")
        /\ \/ q = queue /\ agent.headersSeen
           \/ q = Append(queue, "headers")
    <2>1. "headers" \in Tasks
        BY KindsAreTasks
    <2>2. Headers = IF agent.headersSeen THEN {<<>>} ELSE {<<"headers">>}
        BY DEF Headers, MayBeUnusual, Calm
    <2>3. PICK h \in Headers : queue' = Append(queue \o h, "data")
        BY DEF OnData, Sched
    <2>4. queue \o <<>> = queue /\ queue \o <<"headers">> = Append(queue, "headers")
        BY <2>1, KTypes
    <2>5. queue \in Seq(Tasks) /\ Append(queue, "headers") \in Seq(Tasks)
        BY <2>1, KTypes
    <2> QED
        BY <2>2, <2>3, <2>4, <2>5
<1>4. "data" \in Tasks /\ "headers" \in Tasks
      /\ "data" \notin Completions /\ "headers" \notin Completions
    BY KindsAreTasks, KindsDiffer
<1>5. /\ \A kinds : NoneOf(Append(queue, "headers"), kinds) <=> NoneOf(queue, kinds) /\ "headers" \notin kinds
      /\ \A kinds : NoneOf(Append(q, "data"), kinds) <=> NoneOf(q, kinds) /\ "data" \notin kinds
    BY <1>4, KTypes, AppendTo, Zenon
<1>6. NoneOf(q, Completions) /\ Ordered(q)
    <2>1. NoneOf(Append(queue, "headers"), Completions)
        BY <1>2, <1>4, <1>5
    <2>2. Ordered(queue) /\ Ordered(Append(queue, "headers"))
        BY <1>2, <1>4, KTypes, AppendTo DEF KInv, CInv, InFront
    <2> QED
        BY <1>2, <1>3, <2>1, <2>2
<1>7. NoneOf(queue', Completions) /\ Ordered(queue') /\ NoneOf(queue', {"completed"})
    <2>1. NoneOf(queue', Completions)
        BY <1>3, <1>4, <1>5, <1>6
    <2>2. Ordered(queue')
        BY <1>3, <1>4, <1>6, AppendTo
    <2>3. {"completed"} \subseteq Completions
        BY DEF Completions
    <2> QED
        BY <2>1, <2>2, <2>3, NoneOfFewer, Zenon
<1>8. NoneOf(queue', {"transferred"}) /\ NoneOf(queue', {"no length"})
      /\ (NoneOf(queue, {"call"}) => NoneOf(queue', {"call"}))
      /\ (NoneOf(queue', {"headers"}) => NoneOf(queue, {"headers"}))
    <2>1. NoneOf(queue, {"no length"})
        BY DEF KInv, CInv, NothingUnusual
    <2> QED
        BY <1>2, <1>3, <1>5, <2>1
<1>9. st.total = Chunks \/ ~NoneOf(q, {"headers"})
    <2>1. CASE q = queue /\ agent.headersSeen
        BY <1>1, <2>1 DEF LengthIsKnown, KInv, CInv
    <2>2. CASE q = Append(queue, "headers")
        BY <1>5, <2>2
    <2> QED
        BY <1>3, <2>1, <2>2
<1>10. Announced(queue', st.total)
    <2>1. Announced(queue, st.total)
        BY DEF LengthIsKnown, KInv, CInv
    <2>2. Announced(Append(queue, "headers"), st.total)
        <3>1. queue \in Seq(Tasks)
            BY KTypes
        <3> QED
            BY <1>4, <2>1, <3>1, AppendTo
    <2>3. Announced(q, st.total)
        BY <1>3, <2>1, <2>2
    <2> QED
        BY <1>3, <1>4, <1>9, <2>3, AppendTo
<1>11. NothingUnusual'
    BY <1>1, <1>8 DEF NothingUnusual, KInv, CInv
<1>12. InFront'
    BY <1>1, <1>2, <1>7, <1>8 DEF InFront, KInv, CInv
<1>13. CompletionIsLast'
    BY <1>7 DEF CompletionIsLast
<1>14. RequestIsKnown'
    BY <1>1, <1>2 DEF RequestIsKnown, KInv, CInv
<1>15. ClosingState'
    BY <1>1 DEF ClosingState, KInv, CInv
<1>16. LengthIsKnown'
    <2>1. st.total = Chunks \/ ~NoneOf(queue', {"headers"})
        BY <1>3, <1>5, <1>9
    <2> QED
        BY <1>1, <1>2, <1>10, <2>1 DEF LengthIsKnown, KInv, CInv
<1>17. Len(content') = Len(content) + 1 /\ NextPiece'
    <2>1. FileIsPrefix /\ Len(content) < Chunks
        BY <1>1, <1>2 DEF NextPiece, KInv, CInv
    <2>2. /\ Len(content') = Len(content) + 1
          /\ \A i \in DOMAIN content' : content'[i] = IF i = Len(content) + 1 THEN wire + 1 ELSE content[i]
          /\ \A i \in DOMAIN content' : i = Len(content) + 1 \/ i \in DOMAIN content
        <3>1. wire + 1 \in 0 .. Chunks
            BY <1>1, KTypes
        <3> QED
            BY <1>1, <3>1, KTypes
    <2>3. FileIsPrefix'
        BY <1>2, <2>1, <2>2 DEF FileIsPrefix
    <2>4. Len(content') <= Chunks /\ wire' = Len(content')
        BY <1>1, <1>2, <2>1, <2>2, KTypes
    <2> QED
        BY <1>1, <1>2, <2>2, <2>3, <2>4 DEF NextPiece
<1> QED
    BY <1>1, <1>2, <1>11, <1>12, <1>13, <1>14, <1>15, <1>16, <1>17 DEF CInv

\* A request ends: its completion is queued behind all its updates.
LEMMA EndKeeps ==
    ASSUME Calm, KInv, OnSuccess \/ \E kind \in FailureKinds : OnFailure(kind), net' = net
    PROVE  CInv' /\ st' = st /\ content' = content
<1>1. PICK task \in Completions :
        /\ OnComplete(queue, task) /\ (task = "completed" => wire = Chunks)
        /\ curl.active
        /\ UNCHANGED <<at, st, httpActive, file, content, wire>>
    <2>1. CASE OnSuccess
        BY <2>1, KindsDiffer DEF OnSuccess, ownVars, fileVars
    <2>2. ASSUME NEW kind \in FailureKinds, OnFailure(kind)
          PROVE  /\ OnComplete(queue, kind) /\ kind \in Completions /\ kind # "completed"
                 /\ curl.active
                 /\ UNCHANGED <<at, st, httpActive, file, content, wire>>
        BY <2>2, KindsDiffer DEF OnFailure, ownVars, fileVars
    <2> QED
        BY <2>1, <2>2
<1>2. /\ ~curl.queued /\ httpActive /\ st.state = "Transferring"
      /\ NoneOf(queue, Completions) /\ NoneOf(queue, {"transferred"})
      /\ wire = Len(content)
    BY <1>1, ActiveRequest
<1>3. /\ ~curl'.queued /\ ~curl'.active
      /\ queue' = queue \/ queue' = Append(queue, task)
    BY <1>1, <1>2, KTypes DEF OnComplete, Sched
<1>4. /\ task \in Tasks /\ task \in Updates
      /\ task \notin {"call", "transferred", "headers", "data", "no length"}
    BY <1>1, KindsDiffer
<1>5. /\ \A kinds : NoneOf(Append(queue, task), kinds) <=> NoneOf(queue, kinds) /\ task \notin kinds
      /\ Ordered(queue) => Ordered(Append(queue, task))
      /\ Announced(queue, st.total) => Announced(Append(queue, task), st.total)
    <2>1. queue \in Seq(Tasks)
        BY KTypes
    <2> QED
        BY <1>2, <1>4, <2>1, AppendTo
<1>6. /\ NoneOf(queue', {"transferred"}) /\ NoneOf(queue', {"no length"})
      /\ NoneOf(queue, {"call"}) => NoneOf(queue', {"call"})
      /\ Ordered(queue') /\ Announced(queue', st.total)
    <2>1. NoneOf(queue, {"no length"}) /\ Ordered(queue) /\ Announced(queue, st.total)
        BY DEF KInv, CInv, NothingUnusual, InFront, LengthIsKnown
    <2> QED
        BY <1>2, <1>3, <1>4, <1>5, <2>1
<1>7. ~NoneOf(queue', {"completed"}) => Len(content) = Chunks
    <2>1. {"completed"} \subseteq Completions
        BY DEF Completions
    <2>2. NoneOf(queue, {"completed"})
        BY <1>2, <2>1, NoneOfFewer, Zenon
    <2>3. task # "completed" => NoneOf(queue', {"completed"})
        BY <1>3, <1>5, <2>2
    <2> QED
        BY <1>1, <1>2, <2>3
<1>8. NothingUnusual'
    BY <1>1, <1>6 DEF NothingUnusual, KInv, CInv
<1>9. InFront'
    BY <1>1, <1>2, <1>6 DEF InFront, KInv, CInv
<1>10. CompletionIsLast'
    BY <1>1, <1>2, <1>3, <1>7 DEF CompletionIsLast
<1>11. RequestIsKnown'
    BY <1>1, <1>2, <1>3 DEF RequestIsKnown, KInv, CInv
<1>12. ClosingState'
    BY <1>1 DEF ClosingState, KInv, CInv
<1>13. LengthIsKnown'
    BY <1>1, <1>3, <1>6 DEF LengthIsKnown, KInv, CInv
<1>14. NextPiece'
    BY <1>1, <1>3 DEF NextPiece, FileIsPrefix, KInv, CInv
<1> QED
    BY <1>1, <1>8, <1>9, <1>10, <1>11, <1>12, <1>13, <1>14 DEF CInv

\* Timers, the environment, and steps that change nothing
LEMMA EnvironmentKeeps ==
    ASSUME KInv, CalmEnvironment \/ UNCHANGED vars, net' = net
    PROVE  CInv' /\ st' = st /\ content' = content
<1>1. UNCHANGED <<at, st, httpActive, file, content, agent, curl, wire>>
    BY DEF CalmEnvironment, TimerDue, FallbackComesDue, BanEnds, vars, ownVars, fileVars, curlVars
<1>2. queue' = queue \/ \E task \in TimerTasks : queue' = Append(queue, task)
    BY DEF CalmEnvironment, TimerDue, FallbackComesDue, BanEnds, vars, Sched
<1>3. /\ \A kinds : kinds \cap TimerTasks = {} => (NoneOf(queue', kinds) <=> NoneOf(queue, kinds))
      /\ Ordered(queue') /\ Announced(queue', st.total)
    <2>1. Ordered(queue) /\ Announced(queue, st.total)
        BY DEF KInv, CInv, InFront, LengthIsKnown
    <2>2. ASSUME NEW task \in TimerTasks
          PROVE  /\ \A kinds : kinds \cap TimerTasks = {} =>
                        (NoneOf(Append(queue, task), kinds) <=> NoneOf(queue, kinds))
                 /\ Ordered(Append(queue, task)) /\ Announced(Append(queue, task), st.total)
        <3>1. task \in Tasks /\ task \notin {"call", "transferred", "data"} /\ task \notin Updates
            <4>1. task \in {"retry", "transient", "progress"}
                BY DEF TimerTasks
            <4>2. task \in Tasks
                BY <4>1 DEF Tasks, OwnTasks
            <4>3. task \notin Updates
                BY <4>1, KindsDiffer
            <4> QED
                BY <4>1, <4>2, <4>3
        <3>2. queue \in Seq(Tasks)
            BY KTypes
        <3>3. \A kinds : NoneOf(Append(queue, task), kinds) <=> NoneOf(queue, kinds) /\ task \notin kinds
            BY <3>1, <3>2, AppendTo
        <3>4. Ordered(Append(queue, task)) /\ Announced(Append(queue, task), st.total)
            BY <2>1, <3>1, <3>2, AppendTo
        <3> QED
            BY <3>3, <3>4
    <2> QED
        BY <1>2, <2>1, <2>2
<1>4. /\ {"call"} \cap TimerTasks = {} /\ {"transferred"} \cap TimerTasks = {}
      /\ {"no length"} \cap TimerTasks = {} /\ {"headers"} \cap TimerTasks = {}
      /\ {"completed"} \cap TimerTasks = {}
      /\ Completions \cap TimerTasks = {} /\ Updates \cap TimerTasks = {}
    BY KindsDiffer DEF TimerTasks
<1>5. /\ NoneOf(queue', {"call"}) <=> NoneOf(queue, {"call"})
      /\ NoneOf(queue', {"transferred"}) <=> NoneOf(queue, {"transferred"})
      /\ NoneOf(queue', {"no length"}) <=> NoneOf(queue, {"no length"})
      /\ NoneOf(queue', {"headers"}) <=> NoneOf(queue, {"headers"})
      /\ NoneOf(queue', {"completed"}) <=> NoneOf(queue, {"completed"})
      /\ NoneOf(queue', Completions) <=> NoneOf(queue, Completions)
      /\ NoneOf(queue', Updates) <=> NoneOf(queue, Updates)
    BY <1>3, <1>4
<1>6. NothingUnusual'
    BY <1>1, <1>5 DEF NothingUnusual, KInv, CInv
<1>7. InFront'
    BY <1>1, <1>3, <1>5 DEF InFront, KInv, CInv
<1>8. CompletionIsLast'
    BY <1>1, <1>5 DEF CompletionIsLast, KInv, CInv
<1>9. RequestIsKnown'
    BY <1>1, <1>5 DEF RequestIsKnown, KInv, CInv
<1>10. ClosingState'
    BY <1>1 DEF ClosingState, KInv, CInv
<1>11. LengthIsKnown'
    BY <1>1, <1>3, <1>5 DEF LengthIsKnown, KInv, CInv
<1>12. NextPiece'
    BY <1>1 DEF NextPiece, FileIsPrefix, KInv, CInv
<1> QED
    BY <1>1, <1>6, <1>7, <1>8, <1>9, <1>10, <1>11, <1>12 DEF CInv

\* An unhurried call comes when there is nothing else to do.
LEMMA CallKeeps ==
    ASSUME Calm, KInv, NEW op \in Operations, Call(op), net' = net
    PROVE  CInv' /\ st' = st /\ content' = content
<1>1. /\ queue = <<>> /\ at = "poll"
      /\ UNCHANGED <<at, st, httpActive, file, content, agent, curl, wire>>
    BY DEF Call, Calm, ownVars, fileVars, curlVars
<1>2. queue' = <<"call">>
    BY <1>1 DEF Call, ScheduleCall, Sched, SchedImmediate
<1>3. /\ \A kinds : "call" \notin kinds => NoneOf(queue', kinds)
      /\ Ordered(queue') /\ Announced(queue', st.total)
    BY <1>2 DEF NoneOf, Ordered, OnlyFirst, Announced
<1>4. /\ NoneOf(queue', {"transferred"}) /\ NoneOf(queue', {"no length"})
      /\ NoneOf(queue', {"completed"}) /\ NoneOf(queue', Completions) /\ NoneOf(queue', Updates)
    <2>1. "call" \notin Completions /\ "call" \notin Updates
        BY KindsDiffer
    <2> QED
        BY <1>3, <2>1
<1>5. NoneOf(queue, {"headers"})
    BY <1>1, NoneOfEmpty
<1>6. NothingUnusual'
    BY <1>1, <1>4 DEF NothingUnusual, KInv, CInv
<1>7. InFront'
    BY <1>1, <1>3, <1>4 DEF InFront
<1>8. CompletionIsLast'
    BY <1>4 DEF CompletionIsLast
<1>9. RequestIsKnown'
    BY <1>1, <1>4 DEF RequestIsKnown, KInv, CInv
<1>10. ClosingState'
    BY <1>1 DEF ClosingState
<1>11. LengthIsKnown'
    BY <1>1, <1>3, <1>5 DEF LengthIsKnown, KInv, CInv
<1>12. NextPiece'
    BY <1>1 DEF NextPiece, FileIsPrefix, KInv, CInv
<1> QED
    BY <1>1, <1>6, <1>7, <1>8, <1>9, <1>10, <1>11, <1>12 DEF CInv

-----------------------------------------------------------------------------
(***************************************************************************)
(* The invariant, and what a step is to a caller.                          *)
(***************************************************************************)
Seen == <<st.state, Len(content)>>

\* What the steps of the task thread after a wait in Close are to a caller
LEMMA FinishingSeen ==
    ASSUME KInv, Finishing
    PROVE  content' = content /\ (st'.state = st.state \/ Lifecycle!Next)
<1>1. content' = content
    BY DEF Finishing, FinishPause, FinishFinalize, FinishAbort
<1>2. Len(content) \in Nat
    BY KTypes
<1>3. CASE FinishPause
    <2>1. st'.state = "Paused"
        BY <1>3, KTypes DEF FinishPause, PausedWith, Closed
    <2>2. st.state \in {"Transferring", "Paused"}
        BY <1>3 DEF FinishPause, Closed, KInv, CInv, ClosingState
    <2>3. st.state = "Transferring" => Lifecycle!Pause
        BY <1>1, <2>1 DEF Lifecycle!Pause
    <2> QED
        BY <1>1, <2>1, <2>2, <2>3 DEF Lifecycle!Next
<1>4. CASE FinishFinalize
    <2>1. st'.state = "Finalized"
        BY <1>4, KTypes DEF FinishFinalize
    <2>2. st.state = "Transferred"
        BY <1>4 DEF FinishFinalize, Closed, KInv, CInv, ClosingState
    <2> QED
        BY <1>1, <2>1, <2>2 DEF Lifecycle!Next, Lifecycle!Finalize
<1>5. CASE FinishAbort
    <2>1. st'.state = "Aborted"
        BY <1>5, KTypes DEF FinishAbort
    <2>2. at = "Abort"
        BY <1>5 DEF FinishAbort, Closed
    <2>3. ~Ended
        BY <2>2 DEF KInv, FInv, EInv, EndedHasNoCall
    <2> QED
        BY <1>1, <2>1, <2>3 DEF Lifecycle!Next, Lifecycle!Abort, Ended
<1> QED
    BY <1>3, <1>4, <1>5 DEF Finishing

\* Steps that a caller does not see
LEMMA UnseenSteps ==
    ASSUME KInv, SmallTask \/ TakeOver
    PROVE  UNCHANGED Seen
<1>1. content' = content
    BY DEF SmallTask, SetUri, SetPath, AnswerCall, UpdateHeaders, UpdateData, CheckProgress,
        SkipTask, TakeOver, fileVars
<1>2. st'.state = st.state
    BY KTypes DEF SmallTask, SetUri, SetPath, AnswerCall, UpdateHeaders, UpdateData, CheckProgress,
        SkipTask, TakeOver, ownVars
<1> QED
    BY <1>1, <1>2 DEF Seen

LEMMA CalmInductive ==
    ASSUME Calm, KInv, [Next]_vars
    PROVE  CInv' /\ [Lifecycle!Next]_<<st.state, Len(content)>>
<1> SUFFICES CInv' /\ (Lifecycle!Next \/ UNCHANGED Seen)
    BY DEF Seen
<1>1. net' = net
    BY CalmSteps DEF vars, envVars
<1>2. CASE SmallTask
    BY <1>1, <1>2, SmallTaskKeeps, UnseenSteps
<1>3. CASE Request
    <2>1. CInv' /\ st'.state = "Transferring" /\ content' = content
        BY <1>1, <1>3, RequestKeeps
    <2>2. st.state \in {"Created", "Paused", "Transferring"}
        BY <1>3 DEF Request, Start, Resume, Retry
    <2> QED
        BY <2>1, <2>2 DEF Seen, Lifecycle!Next, Lifecycle!Transfer
<1>4. CASE ResumeComplete
    BY <1>1, <1>4, ResumeCompleteKeeps DEF Lifecycle!Next, Lifecycle!Transfer
<1>5. CASE Closing
    BY <1>1, <1>5, ClosingKeeps DEF Seen
<1>6. CASE UpdateTransferred \/ \E kind \in FailureKinds : FailedForNow(kind)
    BY <1>1, <1>6, EndOfRequestKeeps DEF Seen, Lifecycle!Next, Lifecycle!Finish
<1>7. CASE Finishing
    BY <1>1, <1>7, FinishingKeeps, FinishingSeen DEF Seen
<1>8. CASE TakeOver
    BY <1>1, <1>8, TakeOverKeeps, UnseenSteps
<1>9. CASE OnData
    BY <1>1, <1>9, PieceKeeps DEF Lifecycle!Next, Lifecycle!Receive
<1>10. CASE OnSuccess \/ \E kind \in FailureKinds : OnFailure(kind)
    BY <1>1, <1>10, EndKeeps DEF Seen
<1>11. CASE CalmEnvironment \/ UNCHANGED vars
    BY <1>1, <1>11, EnvironmentKeeps DEF Seen
<1>12. CASE \E op \in Operations : Call(op)
    BY <1>1, <1>12, CallKeeps DEF Seen
<1> QED
    BY <1>2, <1>3, <1>4, <1>5, <1>6, <1>7, <1>8, <1>9, <1>10, <1>11, <1>12, CalmSteps
    DEF CalmTask, CalmCallback

\* What the theorems below rest on
LEMMA CalmInvariant == Calm => (Spec => []KInv)
<1> SUFFICES ASSUME Calm PROVE Spec => []KInv
    OBVIOUS
<1>1. Init => CreatedIsFresh /\ CreatedIsOwn /\ CInv
    <2> SUFFICES ASSUME Init PROVE CreatedIsFresh /\ CreatedIsOwn /\ CInv
        OBVIOUS
    <2>1. CreatedIsFresh /\ CreatedIsOwn
        BY DEF Init, CreatedIsFresh, CreatedIsOwn
    <2>2. /\ \A kinds : NoneOf(queue, kinds)
          /\ Ordered(queue) /\ \A total : Announced(queue, total)
        BY NoneOfEmpty DEF Init
    <2>3. NothingUnusual /\ RequestIsKnown
        <3>1. file.stream = "closed" /\ st.state = "Created" /\ net /\ at = "poll"
              /\ ~curl.queued /\ ~curl.active /\ ~httpActive
            BY DEF Init
        <3> QED
            BY <2>2, <3>1 DEF NothingUnusual, RequestIsKnown
    <2>4. InFront /\ CompletionIsLast /\ ClosingState /\ LengthIsKnown
        BY <2>2 DEF Init, InFront, CompletionIsLast, ClosingState, LengthIsKnown
    <2>5. NextPiece
        BY DownloadAssumption DEF Init, NextPiece, FileIsPrefix
    <2> QED
        BY <2>1, <2>3, <2>4, <2>5 DEF CInv
<1>2. EInv /\ EveryPieceIsCounted /\ CreatedIsFresh /\ CreatedIsOwn /\ CInv /\ [Next]_vars
        => (CreatedIsFresh /\ CreatedIsOwn /\ CInv)'
    BY FreshInductive, OwnInductive, CalmInductive DEF KInv, FInv, Calm
<1>3. EInv /\ EveryPieceIsCounted /\ CreatedIsFresh /\ CreatedIsOwn /\ CInv => KInv
    BY DEF KInv, FInv
<1> QED
    BY <1>1, <1>2, <1>3, EndedInvariant, NoPieceIsLost, PTL DEF Spec

\* The file is the beginning of the source, piece by piece, whatever pauses, failures and
\* resumes there were: each request starts at BytesTransferred, which is the length of the
\* file whenever one is made (_SendHttpRequest, download.cpp:384-423).
THEOREM FileStaysPrefix == Calm => (Spec => []FileIsPrefix)
<1>1. KInv => FileIsPrefix
    BY DEF KInv, CInv, NextPiece
<1> QED
    BY <1>1, CalmInvariant, PTL

\* A paused download makes no request and keeps no open file (_Pause, download.cpp:317-323).
THEOREM PausedStaysQuiet == Calm => (Spec => []PausedIsQuiet)
<1>1. KInv => PausedIsQuiet
    BY DEF KInv, CInv, RequestIsKnown, PausedIsQuiet
<1> QED
    BY <1>1, CalmInvariant, PTL

\* There is one request at a time, and the download knows of it (http_agent.h:46).
THEOREM OneRequest == Calm => (Spec => []OneRequestAtATime)
<1>1. KInv => OneRequestAtATime
    BY DEF KInv, CInv, RequestIsKnown, OneRequestAtATime
<1> QED
    BY <1>1, CalmInvariant, PTL

\* A caller sees the life cycle of DownloadLifecycle: pieces only while transferring, and
\* Transferred only with all of them (_PerformStateChange, download.cpp:154-255).
THEOREM LifecycleImplemented == Calm => (Spec => ImplementsLifecycle)
<1>1. Init => Lifecycle!Init
    BY DEF Init, Lifecycle!Init
<1>2. Calm /\ KInv /\ [Next]_vars => [Lifecycle!Next]_<<st.state, Len(content)>>
    BY CalmInductive
<1> SUFFICES ASSUME Calm PROVE Spec => ImplementsLifecycle
    OBVIOUS
<1>3. KInv /\ [Next]_vars => [Lifecycle!Next]_<<st.state, Len(content)>>
    BY <1>2
<1> QED
    BY <1>1, <1>3, CalmInvariant, PTL DEF Spec, ImplementsLifecycle, Lifecycle!Spec
=============================================================================
