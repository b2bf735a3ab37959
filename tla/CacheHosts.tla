----------------------------- MODULE CacheHosts -----------------------------
(***************************************************************************)
(* Where an agent's cache host (MCC) comes from, and when it is banned:    *)
(*   - two JSON files, each behind a JsonParser that reads it again when   *)
(*     it is queried after RefreshInterval (util/do_json_parser.cpp), and  *)
(*     ConfigManager over both (config/config_manager.cpp);                *)
(*   - MCCManager with the bans of hosts (config/mcc_manager.cpp);         *)
(*   - the downloads that ask it, as far as they do (download.cpp).        *)
(* The io thread queries the admin file for every request; the task thread *)
(* queries both files for a download and reads the admin file again after  *)
(* a SIGHUP.  There is no lock between the two.                            *)
(*                                                                         *)
(* A file's content is a function from keys to values.  Time stands still  *)
(* while a query or a request is served.  There is one download per        *)
(* original host, and what it decides after a failure (download.cpp, see   *)
(* ConnectionPolicy) is any choice.  MaxTime, MaxEdits, MaxCalls, MaxHups  *)
(* and MaxFailures bound the environment.                                  *)
(***************************************************************************)
EXTENDS Integers, Sequences

CONSTANTS
    AdminContents, SdkContents, \* what administrators and the SDK may write
    Malformed, Missing,         \* a file that cannot be parsed, and none
    Origins,                    \* original hosts, one download each
    RefreshInterval, BanInterval,
    MaxTime, MaxEdits, MaxCalls, MaxHups, MaxFailures

Files == {"admin", "sdk"}
Empty == [key \in {} |-> {}]

ASSUME CacheHostsAssumption ==
    /\ {RefreshInterval, BanInterval} \subseteq Nat \ {0}
    /\ {MaxTime, MaxEdits, MaxCalls, MaxHups, MaxFailures} \subseteq Nat

\* A value that is no number is as good as none (JsonParser::Get)
ASSUME DelaysAssumption ==
    \A c \in AdminContents \cup SdkContents, key \in {"bg", "fg"} :
        key \in DOMAIN c => c[key] \in Int

VARIABLES
    disk,    \* the two files: a content, Malformed or Missing
    tree,    \* JsonParser::_tree
    next,    \* JsonParser::_nextRefreshTime
    task,    \* the task thread in a query
    io,      \* the io thread in a query, or waiting for the task thread
    hups,    \* RefreshAdminConfigs tasks in the queue
    dl,      \* the downloads
    unban,   \* _mccHosts: the time of unban per cache host and original host
    blamed,  \* history: when a request to a cache host was last judged to have failed
    overtaken, \* history: a request was made before the failure of the last was judged
    edited,  \* history: when a file was last written
    now,
    used,
    broken   \* a data race has destroyed a tree; the behaviour is undefined

vars == <<disk, tree, next, task, io, hups, dl, unban, blamed, overtaken, edited, now, used, broken>>

\* Cache hosts there may be; the empty name is none
Hosts ==
    (UNION {{c[key] : key \in DOMAIN c \cap {"host", "gateway"}} :
               c \in AdminContents \cup SdkContents}) \ {""}

\* Keys by file and name; a query stops at the first key that is there.
\* The fallback delay for background downloads comes before that for foreground
\* ones, the host of the administrator before the IoT gateway of the SDK.
DelayKeys == << <<"admin", "bg">>, <<"admin", "fg">> >>
HostKeys  == << <<"admin", "host">>, <<"sdk", "gateway">> >>
ValidateKeys == << <<"admin", "validate">> >>

All == "all original hosts"
Never == -1          \* g_cacheHostFallbackDelayNoFallback
NoDelay == {}        \* _mccFallbackDue not set; else the set of one value
NoTime == -BanInterval

Idle == [stage |-> "idle", todo |-> <<>>, got |-> Empty, job |-> "none", origin |-> "none"]

TypeOK ==
    /\ disk \in [Files -> AdminContents \cup SdkContents \cup {Empty, Malformed, Missing}]
    /\ tree \in [Files -> AdminContents \cup SdkContents \cup {Empty}]
    /\ next \in [Files -> Nat]
    /\ {task.stage, io.stage} \subseteq {"idle", "check", "swap", "lookup", "waiting"}
    /\ hups \in 0 .. MaxHups
    /\ dl \in [Origins ->
          [state : {"new", "running", "transient", "paused"},
           open : BOOLEAN,                           \* a request is under way
           type : {"None", "MCC", "CDN"},            \* _connectionType
           host : Hosts \cup {""},                   \* _mccHost
           allowMcc : BOOLEAN,                       \* _fAllowMcc
           delay : SUBSET Int,                       \* _mccFallbackDue, as configured
           failed : {"none", "client", "unreachable", "server"}, \* OnComplete's task
           culprit : Hosts \cup {""}]]                \* history: the cache host that failed
    /\ unban \in [Hosts -> [Origins \cup {All} -> 0 .. MaxTime + BanInterval]]
    /\ blamed \in [Hosts -> [Origins \cup {All} -> NoTime .. MaxTime]]
    /\ overtaken \in BOOLEAN
    /\ edited \in [Files -> 0 .. MaxTime]
    /\ now \in 0 .. MaxTime
    /\ used \in [edits : 0 .. MaxEdits, calls : 0 .. MaxCalls, hups : 0 .. MaxHups,
                 failures : 0 .. MaxFailures]
    /\ broken \in BOOLEAN

\* The agent creates the admin file when there is none (JsonParser::JsonParser)
Init ==
    /\ \E a \in AdminContents \cup {Empty}, s \in SdkContents \cup {Missing} :
          disk = [admin |-> a, sdk |-> s]
    /\ tree = [f \in Files |-> Empty]
    /\ next = [f \in Files |-> 0]
    /\ task = Idle
    /\ io = Idle
    /\ hups = 0
    /\ dl = [o \in Origins |-> [state |-> "new", open |-> FALSE, type |-> "None", host |-> "",
                                allowMcc |-> TRUE, delay |-> NoDelay, failed |-> "none",
                                culprit |-> ""]]
    /\ unban = [h \in Hosts |-> [o \in Origins \cup {All} |-> 0]]
    /\ blamed = [h \in Hosts |-> [o \in Origins \cup {All} |-> NoTime]]
    /\ overtaken = FALSE
    /\ edited = [f \in Files |-> 0]
    /\ now = 0
    /\ used = [edits |-> 0, calls |-> 0, hups |-> 0, failures |-> 0]
    /\ broken = FALSE

-----------------------------------------------------------------------------
(* The files *)

Write(f, content) ==
    /\ used.edits < MaxEdits
    /\ content # disk[f]
    /\ disk' = [disk EXCEPT ![f] = content]
    /\ edited' = [edited EXCEPT ![f] = now]
    /\ used' = [used EXCEPT !.edits = @ + 1]
    /\ UNCHANGED <<tree, next, task, io, hups, dl, unban, blamed, overtaken, now, broken>>

\* An administrator writes the file, in one piece or not, or removes it
EditAdminConfigs ==
    \E content \in AdminContents \cup {Malformed, Missing} : Write("admin", content)

\* WriteIoTConnectionStringToConfigFile truncates the file and writes it anew
SetIoTConnectionString ==
    \E content \in SdkContents \cup {Malformed} : Write("sdk", content)

-----------------------------------------------------------------------------
(* A query: check whether to read the file, take the new tree, look up *)

Query(keys, job, o) ==
    [stage |-> "check", todo |-> keys, got |-> Empty, job |-> job, origin |-> o]

FileOf(t) == Head(t.todo)[1]
KeyOf(t)  == Head(t.todo)[2]

IsRecent(t) == t.job # "Refresh" /\ now < next[FileOf(t)]

\* Variant: every query moves the time of the next reading
TryRefreshSliding(t, t1) ==
    LET f == FileOf(t)
    IN  /\ next' = [next EXCEPT ![f] = now + RefreshInterval]
        /\ t1 = IF IsRecent(t) \/ disk[f] \in {Malformed, Missing}
                THEN [t EXCEPT !.stage = "lookup"]
                ELSE [t EXCEPT !.stage = "swap", !.got = disk[f]]

\* _TryRefresh up to the point where read_json has parsed the file.  A file that
\* cannot be parsed leaves the tree as it is, until the next interval is over.
TryRefresh(t, t1) ==
    LET f == FileOf(t)
        done == IF t.job = "Refresh" THEN Idle ELSE [t EXCEPT !.stage = "lookup"]
    IN  \/ /\ IsRecent(t)
           /\ t1 = done
           /\ UNCHANGED next
        \/ /\ ~IsRecent(t)
           /\ disk[f] = Malformed
           /\ t1 = done
           /\ next' = [next EXCEPT ![f] = now + RefreshInterval]
        \/ /\ ~IsRecent(t)
           /\ disk[f] # Malformed
           /\ t1 = [t EXCEPT !.stage = "swap",
                             !.got = IF disk[f] = Missing THEN Empty ELSE disk[f]]
           /\ UNCHANGED next

\* ... and the rest of it: the new tree takes the place of the old one
TakeTree(t, t1) ==
    LET f == FileOf(t)
    IN  /\ tree' = [tree EXCEPT ![f] = t.got]
        /\ next' = [next EXCEPT ![f] = now + RefreshInterval]
        /\ t1 = IF t.job = "Refresh" THEN Idle ELSE [t EXCEPT !.stage = "lookup"]

Found(t) == KeyOf(t) \in DOMAIN tree[FileOf(t)]

TaskRefreshes ==
    /\ task.stage = "check"
    /\ TryRefresh(task, task')
    /\ UNCHANGED <<disk, tree, io, hups, dl, unban, blamed, overtaken, edited, now, used, broken>>

TaskTakesTree ==
    /\ task.stage = "swap"
    /\ TakeTree(task, task')
    /\ UNCHANGED <<disk, io, hups, dl, unban, blamed, overtaken, edited, now, used, broken>>

IoRefreshes ==
    /\ io.stage = "check"
    /\ TryRefresh(io, io')
    /\ UNCHANGED <<disk, tree, task, hups, dl, unban, blamed,
                   overtaken, edited, now, used, broken>>

IoTakesTree ==
    /\ io.stage = "swap"
    /\ TakeTree(io, io')
    /\ UNCHANGED <<disk, task, hups, dl, unban, blamed, overtaken, edited, now, used, broken>>

\* Two threads at the tree of the admin file, one of them replacing it
Race ==
    /\ {task.stage, io.stage} \subseteq {"swap", "lookup"}
    /\ "swap" \in {task.stage, io.stage}
    /\ FileOf(task) = FileOf(io)
    /\ broken' = TRUE
    /\ UNCHANGED <<disk, tree, next, task, io, hups, dl, unban, blamed,
                   overtaken, edited, now, used>>

-----------------------------------------------------------------------------
(* Bans: ReportHostError, IsBanned *)

\* Variant: a ban for one original host takes the place of those for others
BanForOnlyOne(h, o) ==
    [unban EXCEPT ![h] = [x \in Origins \cup {All} |->
        IF x = o THEN now + BanInterval ELSE IF x = All THEN @[x] ELSE 0]]

BanForOriginalHost(h, o) == [unban EXCEPT ![h][o] = now + BanInterval]

Ban(h) == [unban EXCEPT ![h][All] = now + BanInterval]

\* A client error speaks of one original host, a silent host of all of them
ReportHostError(kind, h, o) ==
    unban' = CASE kind = "client" -> BanForOriginalHost(h, o)
               [] kind = "unreachable" -> Ban(h)
               [] OTHER -> unban

\* History: what is to be said of the cache host, if any, that the failed request went to
Blame(kind, h, o) ==
    blamed' = CASE h # "" /\ kind = "client" -> [blamed EXCEPT ![h][o] = now]
                [] h # "" /\ kind = "unreachable" -> [blamed EXCEPT ![h][All] = now]
                [] OTHER -> blamed

IsBanned(h, o) == now < unban[h][All] \/ now < unban[h][o]

-----------------------------------------------------------------------------
(* Downloads on the task thread *)

\* _SendHttpRequest of d with a wish: MCC is used if there is one that may be
SendHttpRequest(d, o, type) ==
    [d EXCEPT !.state = "running", !.open = TRUE,
              !.type = IF type = "MCC" /\ d.allowMcc /\ d.host # "" /\ ~IsBanned(d.host, o)
                       THEN "MCC" ELSE "CDN"]

\* History: the request of a start or a resume, which come in front of the queue, precedes
\* the update of the failure before
Overtakes(o) == overtaken' = (overtaken \/ dl[o].failed # "none")

\* A lookup of the task thread finds nothing and there is another key to ask for
TaskAsksNext ==
    /\ task.stage = "lookup"
    /\ ~Found(task)
    /\ Len(task.todo) > 1
    /\ task' = [task EXCEPT !.stage = "check", !.todo = Tail(@)]
    /\ UNCHANGED <<disk, tree, next, io, hups, dl, unban, blamed,
                   overtaken, edited, now, used, broken>>

Answered(t) == t.stage = "lookup" /\ (Found(t) \/ Len(t.todo) = 1)
Answer(t, default) == IF Found(t) THEN tree[FileOf(t)][KeyOf(t)] ELSE default

\* _Start has the fallback delay and asks for the host
TakeDelay ==
    /\ Answered(task)
    /\ task.job = "Delay"
    /\ dl' = [dl EXCEPT ![task.origin].delay =
                 IF Found(task) THEN {Answer(task, Never)} ELSE NoDelay]
    /\ task' = Query(HostKeys, "Host", task.origin)
    /\ UNCHANGED <<disk, tree, next, io, hups, unban, blamed,
                   overtaken, edited, now, used, broken>>

\* _Start or _Resume has the host and makes the request; the caller has its answer
TakeHost ==
    /\ Answered(task)
    /\ task.job = "Host"
    /\ LET o == task.origin
           d == [dl[o] EXCEPT !.host = Answer(task, "")]
       IN  /\ dl' = [dl EXCEPT ![o] = SendHttpRequest(d, o, "MCC")]
           /\ Overtakes(o)
    /\ task' = Idle
    /\ io' = Idle
    /\ UNCHANGED <<disk, tree, next, hups, unban, blamed, edited, now, used, broken>>

\* The update of a failed request is over: the download is in state s, without a request
Judged(o, s) ==
    dl' = [dl EXCEPT ![o].failed = "none", ![o].culprit = "", ![o].state = s, ![o].open = FALSE]

\* Variant: the check _UsingMcc() is forgotten, and failures of the CDN are reported too
UpdateFailedOfAnyType(o) ==
    /\ task = Idle
    /\ dl[o].failed # "none"
    /\ IF dl[o].host # "" THEN ReportHostError(dl[o].failed, dl[o].host, o) ELSE UNCHANGED unban
    /\ Blame(dl[o].failed, dl[o].culprit, o)
    /\ \E s \in {dl[o].state, "paused"} : Judged(o, s)
    /\ UNCHANGED <<disk, tree, next, task, io, hups, overtaken, edited, now, used, broken>>

\* A failed request is reported, against the host of this moment, and the download
\* retries, pauses or waits for the network (OnComplete's task)
UpdateFailed(o) ==
    /\ task = Idle
    /\ dl[o].failed # "none"
    /\ \/ Judged(o, "transient") /\ UNCHANGED <<unban, blamed>>
       \/ /\ IF dl[o].type = "MCC" THEN ReportHostError(dl[o].failed, dl[o].host, o)
             ELSE UNCHANGED unban
          /\ Blame(dl[o].failed, dl[o].culprit, o)
          /\ \E s \in {dl[o].state, "paused"} : Judged(o, s)
    /\ UNCHANGED <<disk, tree, next, task, io, hups, overtaken, edited, now, used, broken>>

\* The retry of a failed request, with the type that its policy wants; MCC may be
\* given up for good when falling back is a matter of a delay, and the delay is over
Retry(o) ==
    /\ task = Idle
    /\ dl[o].state = "running" /\ ~dl[o].open /\ dl[o].failed = "none"
    /\ \E type \in {"MCC", "CDN"}, giveUp \in BOOLEAN :
          /\ giveUp => type = "CDN" /\ dl[o].delay \notin {NoDelay, {Never}}
          /\ LET d == [dl[o] EXCEPT !.allowMcc = @ /\ ~giveUp]
             IN  dl' = [dl EXCEPT ![o] = SendHttpRequest(d, o, type)]
    /\ UNCHANGED <<disk, tree, next, task, io, hups, unban, blamed,
                   overtaken, edited, now, used, broken>>

\* The network is back: the request is made again, without asking for the host
ResumeAfterTransientError(o) ==
    /\ task = Idle
    /\ dl[o].state = "transient"
    /\ dl' = [dl EXCEPT ![o] = SendHttpRequest(@, o, "MCC")]
    /\ Overtakes(o)
    /\ UNCHANGED <<disk, tree, next, task, io, hups, unban, blamed, edited, now, used, broken>>

\* The curl worker: a request fails
Fail(o, kind) ==
    /\ used.failures < MaxFailures
    /\ dl[o].open /\ dl[o].failed = "none"
    /\ dl' = [dl EXCEPT ![o].failed = kind,
                        ![o].culprit = IF dl[o].type = "MCC" THEN dl[o].host ELSE ""]
    /\ used' = [used EXCEPT !.failures = @ + 1]
    /\ UNCHANGED <<disk, tree, next, task, io, hups, unban, blamed,
                   overtaken, edited, now, broken>>

-----------------------------------------------------------------------------
(* Requests of clients, on the io thread *)

\* _HttpListenerCallback asks the admin file first, whatever the request.  Clients
\* make the calls that the state of the download allows at that time.
Call(o, op) ==
    /\ io = Idle
    /\ op = IF dl[o].state = "running" THEN "pause" ELSE "start"
    /\ used.calls < MaxCalls
    /\ io' = Query(ValidateKeys, op, o)
    /\ used' = [used EXCEPT !.calls = @ + 1]
    /\ UNCHANGED <<disk, tree, next, task, hups, dl, unban, blamed,
                   overtaken, edited, now, broken>>

\* ... and then schedules the operation on the task thread, and waits
Dispatch ==
    /\ io.stage = "lookup"
    /\ io' = [io EXCEPT !.stage = "waiting"]
    /\ UNCHANGED <<disk, tree, next, task, hups, dl, unban, blamed,
                   overtaken, edited, now, used, broken>>

Serving(op, o) == task = Idle /\ io.stage = "waiting" /\ io.job = op /\ io.origin = o

Start(o) ==
    /\ Serving("start", o)
    /\ dl[o].state = "new"
    /\ task' = Query(DelayKeys, "Delay", o)
    /\ UNCHANGED <<disk, tree, next, io, hups, dl, unban, blamed,
                   overtaken, edited, now, used, broken>>

\* _Resume asks for the host unless MCC has been given up
Resume(o) ==
    /\ Serving("start", o)
    /\ dl[o].state \in {"paused", "transient"}
    /\ IF dl[o].allowMcc
       THEN /\ task' = Query(HostKeys, "Host", o)
            /\ UNCHANGED <<io, dl, overtaken>>
       ELSE /\ dl' = [dl EXCEPT ![o] = SendHttpRequest(@, o, "MCC")]
            /\ Overtakes(o)
            /\ io' = Idle
            /\ UNCHANGED task
    /\ UNCHANGED <<disk, tree, next, hups, unban, blamed, edited, now, used, broken>>

\* The failure of a request that was closed may still have to be reported
Pause(o) ==
    /\ Serving("pause", o)
    /\ dl[o].state = "running"
    /\ dl' = [dl EXCEPT ![o].state = "paused", ![o].open = FALSE]
    /\ io' = Idle
    /\ UNCHANGED <<disk, tree, next, task, hups, unban, blamed,
                   overtaken, edited, now, used, broken>>

\* A call the state does not allow
Refuse(o) ==
    /\ \/ Serving("start", o) /\ dl[o].state = "running"
       \/ Serving("pause", o) /\ dl[o].state # "running"
    /\ io' = Idle
    /\ UNCHANGED <<disk, tree, next, task, hups, dl, unban, blamed,
                   overtaken, edited, now, used, broken>>

\* SIGHUP: RefreshAdminConfigs is put in front of the task queue
Hup ==
    /\ used.hups < MaxHups
    /\ used' = [used EXCEPT !.hups = @ + 1]
    /\ hups' = hups + 1
    /\ UNCHANGED <<disk, tree, next, task, io, dl, unban, blamed, overtaken, edited, now, broken>>

RefreshAdminConfigs ==
    /\ task = Idle
    /\ hups > 0
    /\ hups' = hups - 1
    /\ task' = Query(ValidateKeys, "Refresh", "none")
    /\ UNCHANGED <<disk, tree, next, io, dl, unban, blamed, overtaken, edited, now, used, broken>>

Tick ==
    /\ now < MaxTime
    /\ task = Idle
    /\ io = Idle
    /\ now' = now + 1
    /\ UNCHANGED <<disk, tree, next, task, io, hups, dl, unban, blamed,
                   overtaken, edited, used, broken>>

Next ==
    /\ ~broken
    /\ \/ EditAdminConfigs \/ SetIoTConnectionString
       \/ TaskRefreshes \/ TaskTakesTree \/ TaskAsksNext \/ TakeDelay \/ TakeHost
       \/ IoRefreshes \/ IoTakesTree \/ Dispatch \/ Race
       \/ \E o \in Origins :
             \/ Start(o) \/ Resume(o) \/ Pause(o) \/ Refuse(o)
             \/ UpdateFailed(o) \/ Retry(o) \/ ResumeAfterTransientError(o)
             \/ \E op \in {"start", "pause"} : Call(o, op)
             \/ \E kind \in {"client", "unreachable", "server"} : Fail(o, kind)
       \/ Hup \/ RefreshAdminConfigs
       \/ Tick

Spec == Init /\ [][Next]_vars

-----------------------------------------------------------------------------
(* Properties *)

\* A change of a file takes effect within RefreshInterval: a query that looks at
\* an older tree comes less than that after the change, also when a file could not
\* be read in between (JsonParser::_TryRefresh).
ChangesTakeEffect ==
    \A t \in {task, io} :
        LET f == FileOf(t)
            content == IF disk[f] = Missing THEN Empty ELSE disk[f]
        IN  t.stage = "lookup" /\ disk[f] # Malformed /\ tree[f] # content
            => now < edited[f] + RefreshInterval

Blamed(h, o) ==
    \E x \in {o, All} : now < blamed[h][x] + BanInterval

Begins(o) == ~dl[o].open /\ dl'[o].open

\* As long as no resume has overtaken the update of a failure, which is then reported
\* against the host of the new request (download.cpp:704): no request goes to a cache
\* host to which a request failed, for all original hosts or for this one, within the last
\* BanInterval, whatever failed for others and whichever host was configured in between
\* (MCCManager, download.cpp:528).
BannedHostIsAvoided ==
    [][\A o \in Origins :
          ~overtaken /\ Begins(o) /\ dl'[o].type = "MCC" => ~Blamed(dl'[o].host, o)]_vars

\* Under the same condition a ban is not wider than the failure: a start or a resume goes
\* to the cache host, where there is one and it has not been given up, unless a request to
\* that host failed, for this original host or for all, less than BanInterval ago
\* (MCCManager::IsBanned, Download::_UsingMcc).
BanIsNotTooWide ==
    [][\A o \in Origins :
          /\ ~overtaken /\ Begins(o) /\ dl[o].state # "running"
          /\ dl'[o].allowMcc /\ dl'[o].host # ""
          /\ dl'[o].type = "CDN"
          => Blamed(dl'[o].host, o)]_vars
=============================================================================
