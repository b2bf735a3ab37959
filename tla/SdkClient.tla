----------------------------- MODULE SdkClient -----------------------------
(***************************************************************************)
(* A client of the SDK against an agent that may die and be started again: *)
(*   - download::download_url_to_path and start_and_wait_until_completion  *)
(*     (sdk-cpp/src/do_download.cpp), CDownloadImpl::Init;                 *)
(*   - CHttpClient::SendRequest, which connects anew and repeats a request *)
(*     once when the connection is lost, and CPortFinder;                  *)
(*   - the start of the agent (exe/docs.cpp), which listens, deletes old   *)
(*     port files and writes its own, and the REST operations on its       *)
(*     table of downloads, which no restart survives.                      *)
(*                                                                         *)
(* A download is its state here (see Download for the rest).  The retry of *)
(* CHttpClient is the flag mayRetry; each SDK call is one step of the      *)
(* client's program, and each REST request one exchange within it.         *)
(***************************************************************************)
EXTENDS Naturals, Sequences

CONSTANTS
    Ports,          \* ports the agent may get
    OldPorts,       \* ports of agents that ran before, in the files they left
    MaxStarts,      \* bound of the starts of the agent
    PortReads,      \* how often GetDOPort looks for a port file (12 in the code)
    InitTries,      \* g_maxNumRetryAttempts
    MaxCreated      \* bound of the downloads created

ASSUME SdkClientAssumption ==
    /\ 0 \notin Ports \cup OldPorts
    /\ MaxStarts \in Nat
    /\ PortReads \in Nat \ {0}
    /\ InitTries \in Nat \ {0}
    /\ MaxCreated \in Nat

Ids == 1 .. MaxCreated
Steps == {"make", "start", "first", "poll", "finalize", "abort", "done"}
States == {"Created", "Transferring", "Transferred", "TransientError", "Failed", "Paused"}
Results == {"ok", "error", "no_service", "timed_out", "canceled", "failed"}

VARIABLES
    agent,      \* the process: down, listening, cleaned, opened, up
    nth,        \* number of its start
    port,       \* the port it listens on
    files,      \* the port files, the newest last: a port, or 0 while empty
    table,      \* _downloads: the state of each id, or "none"
    created,    \* ids in use so far
    request,    \* the request on its way, or "none"
    answer,     \* the response on its way, or NoAnswer
    step,       \* where the program of the client is
    stage,      \* of its SDK call: call, find, wait
    link,       \* the start of the agent it is connected to; 0 before the first
    mayRetry,   \* parameter retry of SendRequest
    reads,      \* port file reads left
    tries,      \* tries of Init left
    id,         \* _id; 0 before make
    seen,       \* the last status
    timedOut,   \* variable of that name
    result,     \* what the client is told in the end
    late,       \* the time-out has passed
    cancelled,  \* isCancelled
    finalized,  \* history: ids finalized
    steady      \* history: the agent was up, and is, since the SDK call began

agentVars  == <<agent, nth, port, files>>
tableVars  == <<table, created, finalized>>
wireVars   == <<request, answer>>
clientVars == <<step, stage, link, mayRetry, reads, tries, id, seen, timedOut, result>>
flagVars   == <<late, cancelled>>
vars == <<agentVars, tableVars, wireVars, clientVars, flagVars, steady>>

Answers == [code : {"none", "ok", "error"}, id : Ids \cup {0}, state : States \cup {"none"}]
NoAnswer == [code |-> "none", id |-> 0, state |-> "none"]

TypeOK ==
    /\ agent \in {"down", "listening", "cleaned", "opened", "up"}
    /\ nth \in 0 .. MaxStarts
    /\ port \in Ports
    /\ files \in Seq(Ports \cup OldPorts \cup {0})
    /\ table \in [Ids -> States \cup {"none"}]
    /\ created \in 0 .. MaxCreated
    /\ request \in Steps \cup {"none"}
    /\ answer \in Answers
    /\ step \in Steps
    /\ stage \in {"call", "find", "wait"}
    /\ link \in 0 .. MaxStarts
    /\ mayRetry \in BOOLEAN
    /\ reads \in 0 .. PortReads
    /\ tries \in 1 .. InitTries
    /\ id \in 0 .. MaxCreated
    /\ seen \in States \cup {"none"}
    /\ timedOut \in BOOLEAN
    /\ result \in Results \cup {"none"}
    /\ late \in BOOLEAN
    /\ cancelled \in BOOLEAN
    /\ finalized \subseteq Ids
    /\ steady \in BOOLEAN

Init ==
    /\ agent = "down" /\ nth = 0 /\ port \in Ports
    /\ files \in {<<>>} \cup {<<p>> : p \in OldPorts}
    /\ table = [i \in Ids |-> "none"] /\ created = 0 /\ finalized = {}
    /\ request = "none" /\ answer = NoAnswer
    /\ step = "make" /\ stage = "call" /\ link = 0 /\ mayRetry = TRUE
    /\ reads = 0 /\ tries = InitTries
    /\ id = 0 /\ seen = "none" /\ timedOut = FALSE /\ result = "none"
    /\ late = FALSE /\ cancelled = FALSE
    /\ steady = FALSE

-----------------------------------------------------------------------------
(***************************************************************************)
(* The agent: how it starts and dies, and what its downloads do.           *)
(***************************************************************************)

\* RestHttpListener::Start: the first free port
StartListening ==
    /\ agent = "down" /\ nth < MaxStarts
    /\ agent' = "listening"
    /\ nth' = nth + 1
    /\ port' \in Ports
    /\ UNCHANGED <<files, tableVars, wireVars, clientVars, flagVars, steady>>

\* _DeleteOlderPortFiles; a file that cannot be removed stays
DeleteOlderPortFiles ==
    /\ agent = "listening"
    /\ agent' = "cleaned"
    /\ files' \in {<<>>, files}
    /\ UNCHANGED <<nth, port, tableVars, wireVars, clientVars, flagVars, steady>>

OpenPortFile ==
    /\ agent = "cleaned"
    /\ agent' = "opened"
    /\ files' = Append(files, 0)
    /\ UNCHANGED <<nth, port, tableVars, wireVars, clientVars, flagVars, steady>>

WritePort ==
    /\ agent = "opened"
    /\ agent' = "up"
    /\ files' = [files EXCEPT ![Len(files)] = port]
    /\ UNCHANGED <<nth, port, tableVars, wireVars, clientVars, flagVars, steady>>

\* The process ends, by a signal or a fault.  The port file stays, the downloads do
\* not.  A response that was sent may still arrive.
Die ==
    /\ agent # "down"
    /\ agent' = "down"
    /\ table' = [i \in Ids |-> "none"]
    /\ request' = "none"
    /\ answer' \in {answer, NoAnswer}
    /\ steady' = FALSE
    /\ UNCHANGED <<nth, port, files, created, finalized, clientVars, flagVars>>

\* Download, as a client sees it
Progress ==
    /\ \E i \in Ids, to \in {"Transferring", "Transferred", "TransientError", "Failed"} :
        /\ \/ table[i] = "Transferring"
           \/ table[i] = "TransientError" /\ to = "Transferring"
        /\ table[i] # to
        /\ table' = [table EXCEPT ![i] = to]
    /\ UNCHANGED <<agentVars, created, finalized, wireVars, clientVars, flagVars, steady>>

\* download::pause, called by another thread while this one waits
OtherThreadPauses ==
    /\ \E i \in Ids :
        /\ table[i] = "Transferring"
        /\ table' = [table EXCEPT ![i] = "Paused"]
    /\ UNCHANGED <<agentVars, created, finalized, wireVars, clientVars, flagVars, steady>>

Respond(code, i, state) ==
    /\ answer' = [code |-> code, id |-> i, state |-> state]
    /\ request' = "none"

Refuse == Respond("error", 0, "none") /\ UNCHANGED <<table, finalized>>
Accept(i, state) ==
    /\ table' = [table EXCEPT ![i] = state]
    /\ Respond("ok", i, state)

\* The operations on a download that there is
ServeKnown ==
    CASE request = "start" -> Refuse \/ (Accept(id, "Transferring") /\ UNCHANGED finalized)
      [] request \in {"first", "poll"} ->
            Respond("ok", id, table[id]) /\ UNCHANGED <<table, finalized>>
      [] request = "finalize" ->
            IF table[id] = "Transferred"
            THEN Accept(id, "none") /\ finalized' = finalized \cup {id}
            ELSE Refuse
      [] request = "abort" -> Accept(id, "none") /\ UNCHANGED finalized

\* RestApiRequest::Process on the table of downloads: an unknown id is an error, and
\* make and start may fail, for instance because the file exists
Serve ==
    /\ agent # "down"
    /\ request # "none"
    /\ IF request = "make"
       THEN \/ /\ created < MaxCreated
               /\ created' = created + 1
               /\ Accept(created + 1, "Created")
               /\ UNCHANGED finalized
            \/ Refuse /\ UNCHANGED created
       ELSE /\ UNCHANGED created
            /\ IF table[id] = "none" THEN Refuse ELSE ServeKnown
    /\ UNCHANGED <<agentVars, clientVars, flagVars, steady>>

-----------------------------------------------------------------------------
(***************************************************************************)
(* The client.                                                             *)
(***************************************************************************)
Connected == link = nth /\ agent # "down"

\* The next SDK call of the program
Proceed(next) ==
    /\ step' = next
    /\ stage' = "call"
    /\ mayRetry' = TRUE
    /\ steady' = (agent = "up")

End(told) == Proceed("done") /\ result' = told

\* Variant: one try more than there are
TryAgainOnceMore == tries >= 1

\* The loop of Init
TryAgain == tries > 1

\* An exception of SendRequest: Init catches no_service and tries again
Throw(error) ==
    /\ IF step = "make" /\ error = "no_service" /\ TryAgain
       THEN /\ tries' = tries - 1
            /\ stage' = "call"
            /\ mayRetry' = TRUE
            /\ UNCHANGED <<step, result, steady>>
       ELSE End(error) /\ UNCHANGED tries
    /\ UNCHANGED <<id, seen, timedOut>>

FindPort ==
    /\ stage' = "find"
    /\ reads' = PortReads

\* GetInstance constructs the CHttpClient, which connects
Construct ==
    /\ step # "done" /\ stage = "call"
    /\ link = 0
    /\ FindPort
    /\ UNCHANGED <<agentVars, tableVars, wireVars, step, link, mayRetry, tries, id, seen,
                   timedOut, result, flagVars, steady>>

\* Variant: the newest of the files is not looked for
DiscoverOldestPort == Head(files)

\* g_DiscoverDOPort
DiscoverDOPort == files[Len(files)]

\* One round of GetDOPort, and the connection when there is a port
_InitializeDOConnection ==
    /\ stage = "find"
    /\ CASE (files = <<>> \/ DiscoverDOPort = 0) /\ reads > 1 ->
                /\ reads' = reads - 1
                /\ UNCHANGED <<step, stage, link, mayRetry, tries, id, seen, timedOut,
                               result, steady>>
         [] (files = <<>> \/ DiscoverDOPort = 0) /\ reads = 1 ->
                Throw("no_service") /\ UNCHANGED <<reads, link>>
         [] OTHER ->
                IF agent # "down" /\ DiscoverDOPort = port
                THEN /\ link' = nth
                     /\ stage' = "call"
                     /\ UNCHANGED <<step, mayRetry, reads, tries, id, seen, timedOut, result,
                                    steady>>
                ELSE Throw("no_service") /\ UNCHANGED <<reads, link>>
    /\ UNCHANGED <<agentVars, tableVars, wireVars, flagVars>>

\* HttpRequest::Serialize
Send ==
    /\ step # "done" /\ stage = "call"
    /\ ~(step = "poll" /\ cancelled)
    /\ link # 0 /\ Connected
    /\ request' = step
    /\ answer' = NoAnswer
    /\ stage' = "wait"
    /\ UNCHANGED <<agentVars, tableVars, step, link, mayRetry, reads, tries, id, seen,
                   timedOut, result, flagVars, steady>>

\* Variant: a client that does not wait for an answer for ever
ConnectionOrPatienceIsLost == ~Connected \/ stage = "wait"

ConnectionIsLost == ~Connected

\* The write or the read fails: catch of system_error in SendRequest
LoseConnection ==
    /\ step # "done"
    /\ ConnectionIsLost
    /\ \/ stage = "call" /\ link # 0 /\ ~(step = "poll" /\ cancelled)
       \/ stage = "wait" /\ answer = NoAnswer
    /\ IF mayRetry
       THEN /\ mayRetry' = FALSE
            /\ FindPort
            /\ UNCHANGED <<step, tries, id, seen, timedOut, result, steady>>
       ELSE Throw("error") /\ UNCHANGED reads
    /\ UNCHANGED <<agentVars, tableVars, wireVars, link, flagVars>>

Unfinished(state) == state \in {"Created", "Transferring", "TransientError"}

\* Variant: the time-out is only looked at when nothing is going on
LeaveLoopWhenSettled(state) ==
    IF Unfinished(state) THEN Proceed("poll") /\ UNCHANGED result
    ELSE IF state = "Transferred" THEN Proceed("finalize") /\ UNCHANGED result
    ELSE Proceed("abort") /\ UNCHANGED result

\* Variant: the caller is told of the time-out without an abort
LeaveLoopAtOnce(state) ==
    IF Unfinished(state) /\ ~late THEN Proceed("poll") /\ UNCHANGED result
    ELSE IF state = "Transferred" THEN Proceed("finalize") /\ UNCHANGED result
    ELSE IF late THEN End("timed_out")
    ELSE Proceed("abort") /\ UNCHANGED result

\* The condition of the loop, and what follows it
LeaveLoop(state) ==
    IF Unfinished(state) /\ ~late THEN Proceed("poll") /\ UNCHANGED result
    ELSE IF state = "Transferred" THEN Proceed("finalize") /\ UNCHANGED result
    ELSE Proceed("abort") /\ UNCHANGED result

\* What the caller is told after an abort.  The error code of a download that was
\* paused by a call is 0, which is success.
Verdict ==
    IF cancelled THEN "canceled"
    ELSE IF timedOut THEN "timed_out"
    ELSE IF seen = "Failed" THEN "failed"
    ELSE "ok"

\* Variant: an error of finalize is not passed on
EndAnyway(code, told) == End(IF code = "ok" \/ told = "ok" THEN told ELSE "error")

\* DO_RETURN_IF_FAILED of the last call
EndWith(code, told) == End(IF code = "ok" THEN told ELSE "error")

\* HttpResponse::Deserialize, and the program up to its next call
Receive ==
    /\ stage = "wait"
    /\ answer # NoAnswer
    /\ answer' = NoAnswer
    /\ id' = IF step = "make" THEN answer.id ELSE id
    /\ seen' = IF step \in {"first", "poll"} THEN answer.state ELSE seen
    /\ timedOut' = (timedOut \/ (step = "poll" /\ answer.code = "ok" /\ late))
    /\ IF answer.code = "error" /\ step \notin {"finalize", "abort"} THEN End("error")
       ELSE CASE step = "make" -> Proceed("start") /\ UNCHANGED result
              [] step = "start" -> Proceed("first") /\ UNCHANGED result
              [] step = "first" -> Proceed("poll") /\ UNCHANGED result
              [] step = "poll" -> LeaveLoop(answer.state)
              [] step = "finalize" -> EndWith(answer.code, "ok")
              [] step = "abort" -> EndWith(answer.code, Verdict)
    /\ UNCHANGED <<agentVars, tableVars, request, link, reads, tries, flagVars>>

\* isCancelled is looked at before each round of the loop
BreakLoop ==
    /\ step = "poll" /\ stage = "call"
    /\ cancelled
    /\ Proceed(IF seen = "Transferred" THEN "finalize" ELSE "abort")
    /\ UNCHANGED <<agentVars, tableVars, wireVars, link, reads, tries, id, seen, timedOut,
                   result, flagVars>>

TimePasses ==
    /\ step \in {"first", "poll", "finalize", "abort"}
    /\ ~late
    /\ late' = TRUE
    /\ UNCHANGED <<agentVars, tableVars, wireVars, clientVars, cancelled, steady>>

Cancel ==
    /\ step # "done"
    /\ ~cancelled
    /\ cancelled' = TRUE
    /\ UNCHANGED <<agentVars, tableVars, wireVars, clientVars, late, steady>>

Boot == StartListening \/ DeleteOlderPortFiles \/ OpenPortFile \/ WritePort
Client ==
    \/ Construct \/ _InitializeDOConnection \/ Send \/ LoseConnection \/ Receive
    \/ BreakLoop

Next ==
    \/ Boot \/ Die \/ Progress \/ OtherThreadPauses \/ Serve
    \/ Client \/ TimePasses \/ Cancel

\* The client runs, an agent that lives answers, and time passes.  The agent need not
\* be started, nor a download get anywhere.
Fairness == WF_vars(Client) /\ WF_vars(Serve) /\ WF_vars(TimePasses)

Spec == Init /\ [][Next]_vars /\ Fairness

-----------------------------------------------------------------------------
(***************************************************************************)
(* Properties.                                                             *)
(***************************************************************************)

\* Success means that the agent finalized this very download, whatever died in
\* between, with one exception: see OkMeansFinalized.
OkIsEarned == result = "ok" => id \in finalized \/ seen = "Paused"

\* When the caller learns how its download ended, the agent has forgotten it, so the
\* file is not written to any more (FinalizeDownload, AbortDownload erase it).
EndedIsForgotten ==
    result \in {"ok", "timed_out", "canceled", "failed"} => table[id] = "none"

\* no_service is the truth: the agent was not up all the time of the call, however old
\* the port files that lie about.
NoServiceOnlyIfDown == [][result' = "no_service" /\ result # "no_service" => ~steady]_vars

\* The assertion that a download that ended paused has an error (do_download.cpp:153):
\* an abort is never reported as success.  Does not hold.
OkMeansFinalized == result = "ok" => id \in finalized
=============================================================================
