-------------------------- MODULE CacheHostsProofs --------------------------
(***************************************************************************)
(* What CacheHosts promises of configurations and bans, proved for any     *)
(* contents of the files, any hosts, intervals and bounds.                 *)
(***************************************************************************)
EXTENDS CacheHosts, TLAPS

Trees == AdminContents \cup SdkContents \cup {Empty}

\* Tail(DelayKeys) and Tail(HostKeys)
LastDelayKey == << <<"admin", "fg">> >>
LastHostKey  == << <<"sdk", "gateway">> >>

\* A query of the task thread, or of the io thread, and the keys it still has to ask for
TaskQueries ==
    {Idle}
    \cup [stage : {"check", "swap", "lookup"}, todo : {DelayKeys, LastDelayKey},
          got : Trees, job : {"Delay"}, origin : Origins]
    \cup [stage : {"check", "swap", "lookup"}, todo : {HostKeys, LastHostKey},
          got : Trees, job : {"Host"}, origin : Origins]
    \cup [stage : {"check", "swap"}, todo : {ValidateKeys},
          got : Trees, job : {"Refresh"}, origin : {"none"}]

IoQueries ==
    {Idle}
    \cup [stage : {"check", "swap", "lookup", "waiting"}, todo : {ValidateKeys},
          got : Trees, job : {"start", "pause"}, origin : Origins]

QueriesOK == task \in TaskQueries /\ io \in IoQueries

\* The tree that the file would give, and whether f has changed since it was read into t
Content(f) == IF disk[f] = Missing THEN Empty ELSE disk[f]
Differs(f, t) == disk[f] # Malformed /\ t # Content(f)

\* No file is trusted for longer than an interval, and one that has changed no longer than
\* an interval from its change.
TrustEnds ==
    \A f \in Files :
        /\ next[f] <= now + RefreshInterval
        /\ Differs(f, tree[f]) => next[f] <= edited[f] + RefreshInterval

\* What a thread has just read can only have changed at this moment.
JustRead ==
    \A t \in {task, io} :
        t.stage = "swap" /\ Differs(FileOf(t), t.got) => edited[FileOf(t)] = now

\* The host that a failure will be reported against is the one that the request went to.
Accused(d) ==
    d.failed # "none" => d.culprit = IF d.type = "MCC" THEN d.host ELSE ""

CulpritIsKnown == ~overtaken => \A o \in Origins : Accused(dl[o])

\* The time of unban is the time when the host was last found to have failed, and an
\* interval.
BansAreReports ==
    ~overtaken =>
        \A h \in Hosts, x \in Origins \cup {All} : unban[h][x] = blamed[h][x] + BanInterval

\* No refresh is queued without a SIGHUP.
HupsAreCounted == hups <= used.hups

IInv ==
    /\ TypeOK
    /\ QueriesOK
    /\ HupsAreCounted
    /\ TrustEnds
    /\ JustRead
    /\ ChangesTakeEffect
    /\ CulpritIsKnown
    /\ BansAreReports

-----------------------------------------------------------------------------
(* Queries *)

\* A query asks one of the two files for one of the keys there are.
LEMMA QueryHasKey ==
    ASSUME NEW t \in TaskQueries \cup IoQueries, t.stage # "idle"
    PROVE  /\ FileOf(t) \in Files
           /\ t.todo \in {DelayKeys, LastDelayKey, HostKeys, LastHostKey, ValidateKeys}
           /\ t.got \in Trees
           /\ t.job = "Delay" => KeyOf(t) \in {"bg", "fg"}
           /\ t.job = "Host" => KeyOf(t) \in {"host", "gateway"}
<1>1. t # Idle
    BY DEF Idle
<1>2. t.todo \in {DelayKeys, LastDelayKey, HostKeys, LastHostKey, ValidateKeys} /\ t.got \in Trees
    BY <1>1 DEF TaskQueries, IoQueries
<1>3. /\ t.job = "Delay" => t.todo \in {DelayKeys, LastDelayKey}
      /\ t.job = "Host" => t.todo \in {HostKeys, LastHostKey}
    BY <1>1 DEF TaskQueries, IoQueries
<1>4. /\ Head(DelayKeys) = <<"admin", "bg">> /\ Head(LastDelayKey) = <<"admin", "fg">>
      /\ Head(HostKeys) = <<"admin", "host">> /\ Head(LastHostKey) = <<"sdk", "gateway">>
      /\ Head(ValidateKeys) = <<"admin", "validate">>
    BY DEF DelayKeys, LastDelayKey, HostKeys, LastHostKey, ValidateKeys
<1>5. FileOf(t) \in Files
    BY <1>2, <1>4 DEF FileOf, Files
<1>6. /\ t.job = "Delay" => KeyOf(t) \in {"bg", "fg"}
      /\ t.job = "Host" => KeyOf(t) \in {"host", "gateway"}
    BY <1>3, <1>4 DEF KeyOf
<1> QED
    BY <1>2, <1>5, <1>6

\* The keys that are left when the first one was not found
LEMMA NextKey ==
    ASSUME NEW todo \in {DelayKeys, LastDelayKey, HostKeys, LastHostKey, ValidateKeys},
           Len(todo) > 1
    PROVE  \/ todo = DelayKeys /\ Tail(todo) = LastDelayKey
           \/ todo = HostKeys /\ Tail(todo) = LastHostKey
<1>1. \A a, b : Tail(<<a, b>>) = <<b>>
    OBVIOUS
<1>2. /\ Tail(DelayKeys) = LastDelayKey
      /\ Tail(HostKeys) = LastHostKey
    BY <1>1 DEF DelayKeys, LastDelayKey, HostKeys, LastHostKey
<1>3. ~(Len(LastDelayKey) > 1) /\ ~(Len(LastHostKey) > 1) /\ ~(Len(ValidateKeys) > 1)
    BY DEF LastDelayKey, LastHostKey, ValidateKeys
<1>4. todo = DelayKeys \/ todo = HostKeys
    BY <1>3, Zenon
<1> QED
    BY <1>2, <1>4, Zenon

\* What a query of the task thread finds is a delay or a cache host.
LEMMA AnswerTyped ==
    ASSUME TypeOK, QueriesOK, task.stage # "idle"
    PROVE  /\ task.job = "Delay" => Answer(task, Never) \in Int
           /\ task.job = "Host" => Answer(task, "") \in Hosts \cup {""}
<1>1. tree[FileOf(task)] \in AdminContents \cup SdkContents \cup {Empty}
    BY QueryHasKey DEF TypeOK, QueriesOK
<1>2. CASE Found(task)
    <2>1. tree[FileOf(task)] \in AdminContents \cup SdkContents
        BY <1>1, <1>2 DEF Found, Empty
    <2>2. task.job = "Delay" => KeyOf(task) \in {"bg", "fg"}
        BY QueryHasKey DEF QueriesOK
    <2>3. task.job = "Host" => KeyOf(task) \in {"host", "gateway"}
        BY QueryHasKey DEF QueriesOK
    <2>4. task.job = "Delay" => tree[FileOf(task)][KeyOf(task)] \in Int
        BY <1>2, <2>1, <2>2, DelaysAssumption DEF Found
    <2>5. task.job = "Host" => tree[FileOf(task)][KeyOf(task)] \in Hosts \cup {""}
        <3> DEFINE c == tree[FileOf(task)]
        <3> SUFFICES ASSUME task.job = "Host" PROVE c[KeyOf(task)] \in Hosts \cup {""}
            OBVIOUS
        <3>1. KeyOf(task) \in DOMAIN c \cap {"host", "gateway"}
            BY <1>2, <2>3 DEF Found
        <3>2. c[KeyOf(task)] \in {c[key] : key \in DOMAIN c \cap {"host", "gateway"}}
            BY <3>1
        <3> HIDE DEF c
        <3>3. c[KeyOf(task)] \in
                UNION {{x[key] : key \in DOMAIN x \cap {"host", "gateway"}} :
                          x \in AdminContents \cup SdkContents}
            BY <2>1, <3>2 DEF c
        <3> QED
            BY <3>3 DEF Hosts
    <2> QED
        BY <1>2, <2>4, <2>5 DEF Answer
<1>3. CASE ~Found(task)
    BY <1>3 DEF Answer, Never
<1> QED
    BY <1>2, <1>3, Zenon

-----------------------------------------------------------------------------
(* The files *)

\* Steps that leave the files alone, and neither read one nor come to look one up
LEMMA FilesFrame ==
    ASSUME TrustEnds, JustRead, ChangesTakeEffect,
           UNCHANGED <<disk, tree, next, edited, now>>,
           task' = task \/ task'.stage \in {"idle", "check"},
           io' = io \/ io'.stage \in {"idle", "check", "waiting"}
    PROVE  (TrustEnds /\ JustRead /\ ChangesTakeEffect)'
<1>1. TrustEnds'
    BY DEF TrustEnds, Differs, Content
<1>2. \A t \in {task', io'} : t.stage \in {"swap", "lookup"} => t \in {task, io}
    OBVIOUS
<1>3. JustRead'
    BY <1>2 DEF JustRead, Differs, Content, FileOf
<1>4. ChangesTakeEffect'
    BY <1>2 DEF ChangesTakeEffect, FileOf
<1> QED
    BY <1>1, <1>3, <1>4

\* ChangesTakeEffect, said with the words of this module
LEMMA LookupIsTimely ==
    ChangesTakeEffect <=>
        \A t \in {task, io} :
            t.stage = "lookup" /\ Differs(FileOf(t), tree[FileOf(t)])
            => now < edited[FileOf(t)] + RefreshInterval
BY DEF ChangesTakeEffect, Differs, Content

\* A query goes from one stage to the next.
LEMMA QueryGoesOn ==
    ASSUME NEW t \in TaskQueries \cup IoQueries, t.stage # "idle", NEW s, NEW g
    PROVE  /\ [t EXCEPT !.stage = s].stage = s
           /\ [t EXCEPT !.stage = s].todo = t.todo
           /\ [t EXCEPT !.stage = s, !.got = g].stage = s
           /\ [t EXCEPT !.stage = s, !.got = g].todo = t.todo
           /\ [t EXCEPT !.stage = s, !.got = g].got = g
<1>1. t # Idle
    BY DEF Idle
<1> QED
    BY <1>1 DEF TaskQueries, IoQueries

\* A thread decides whether to read a file, and reads it.
LEMMA RefreshInductive ==
    ASSUME TypeOK, TrustEnds, JustRead, ChangesTakeEffect,
           NEW t \in TaskQueries \cup IoQueries, t.stage # "idle", NEW t1, TryRefresh(t, t1),
           \A x \in {task', io'} : x = t1 \/ x \in {task, io},
           UNCHANGED <<disk, tree, edited, now>>
    PROVE  (TrustEnds /\ JustRead /\ ChangesTakeEffect)'
<1> DEFINE f == FileOf(t)
<1> USE DEF Differs, Content
<1>0. /\ f \in Files
      /\ RefreshInterval \in Nat \ {0} /\ now \in Nat
      /\ next \in [Files -> Nat] /\ \A g \in Files : edited[g] \in Nat
    <2>1. f \in Files
        BY QueryHasKey
    <2>2. RefreshInterval \in Nat \ {0} /\ MaxTime \in Nat
        BY CacheHostsAssumption
    <2>3. /\ now \in 0 .. MaxTime /\ edited \in [Files -> 0 .. MaxTime]
          /\ next \in [Files -> Nat] /\ DOMAIN tree = Files
        BY DEF TypeOK
    <2> QED
        BY <2>1, <2>2, <2>3
<1>1. \/ next' = next
      \/ disk[f] = Malformed /\ next' = [next EXCEPT ![f] = now + RefreshInterval]
    BY DEF TryRefresh
<1>2. TrustEnds'
    BY <1>0, <1>1 DEF TrustEnds
<1>3. \/ t1.stage = "idle"
      \/ /\ t1.stage = "lookup" /\ FileOf(t1) = f
         /\ disk[f] = Malformed \/ now < next[f]
      \/ t1.stage = "swap" /\ FileOf(t1) = f /\ t1.got = Content(f)
    <2>1. Idle.stage = "idle"
        BY DEF Idle
    <2>2. CASE IsRecent(t)
        <3>1. t1 = Idle \/ t1 = [t EXCEPT !.stage = "lookup"]
            BY <2>2 DEF TryRefresh
        <3>2. [t EXCEPT !.stage = "lookup"].stage = "lookup"
              /\ FileOf([t EXCEPT !.stage = "lookup"]) = f
            BY QueryGoesOn DEF FileOf
        <3> QED
            BY <2>1, <2>2, <3>1, <3>2 DEF IsRecent
    <2>3. CASE ~IsRecent(t) /\ disk[f] = Malformed
        <3>1. t1 = Idle \/ t1 = [t EXCEPT !.stage = "lookup"]
            BY <2>3 DEF TryRefresh
        <3>2. [t EXCEPT !.stage = "lookup"].stage = "lookup"
              /\ FileOf([t EXCEPT !.stage = "lookup"]) = f
            BY QueryGoesOn DEF FileOf
        <3> QED
            BY <2>1, <2>3, <3>1, <3>2
    <2>4. CASE ~IsRecent(t) /\ disk[f] # Malformed
        <3>1. t1 = [t EXCEPT !.stage = "swap", !.got = Content(f)]
            BY <2>4 DEF TryRefresh
        <3> QED
            BY <3>1, QueryGoesOn DEF FileOf
    <2> QED
        BY <2>2, <2>3, <2>4
<1>4. JustRead'
    <2> SUFFICES ASSUME NEW x \in {task', io'}, x.stage = "swap",
                        Differs(FileOf(x), x.got)'
                 PROVE  edited'[FileOf(x)] = now'
        BY DEF JustRead, FileOf
    <2>1. CASE x \in {task, io}
        BY <2>1 DEF JustRead, FileOf
    <2>2. CASE x = t1
        BY <2>2, <1>3
    <2> QED
        BY <2>1, <2>2
<1>5. ChangesTakeEffect'
    <2> SUFFICES ASSUME NEW x \in {task', io'}, x.stage = "lookup",
                        Differs(FileOf(x), tree[FileOf(x)])
                 PROVE  now < edited[FileOf(x)] + RefreshInterval
        BY DEF ChangesTakeEffect, FileOf
    <2>1. CASE x \in {task, io}
        BY <2>1, LookupIsTimely
    <2>2. CASE x = t1
        <3>1. FileOf(x) = f /\ now < next[f]
            BY <2>2, <1>3
        <3>2. next[f] <= edited[f] + RefreshInterval
            BY <1>0, <3>1 DEF TrustEnds
        <3> QED
            BY <1>0, <3>1, <3>2
    <2> QED
        BY <2>1, <2>2
<1> QED
    BY <1>2, <1>4, <1>5

\* A thread replaces a tree by what it has read.
LEMMA TakeTreeInductive ==
    ASSUME TypeOK, TrustEnds, JustRead, ChangesTakeEffect,
           NEW t \in TaskQueries \cup IoQueries, t \in {task, io}, t.stage = "swap",
           NEW t1, TakeTree(t, t1),
           \A x \in {task', io'} : x = t1 \/ x \in {task, io},
           UNCHANGED <<disk, edited, now>>
    PROVE  (TrustEnds /\ JustRead /\ ChangesTakeEffect)'
<1> DEFINE f == FileOf(t)
<1> USE DEF Differs, Content
<1>0. /\ f \in Files
      /\ RefreshInterval \in Nat \ {0} /\ now \in Nat
      /\ next \in [Files -> Nat] /\ \A g \in Files : edited[g] \in Nat
      /\ DOMAIN tree = Files
    <2>1. f \in Files
        BY QueryHasKey
    <2>2. RefreshInterval \in Nat \ {0} /\ MaxTime \in Nat
        BY CacheHostsAssumption
    <2>3. /\ now \in 0 .. MaxTime /\ edited \in [Files -> 0 .. MaxTime]
          /\ next \in [Files -> Nat] /\ DOMAIN tree = Files
        BY DEF TypeOK
    <2> QED
        BY <2>1, <2>2, <2>3
<1>1. /\ tree' = [tree EXCEPT ![f] = t.got]
      /\ next' = [next EXCEPT ![f] = now + RefreshInterval]
    BY DEF TakeTree
<1>2. Differs(f, t.got) => edited[f] = now
    BY DEF JustRead
<1>3. TrustEnds'
    BY <1>0, <1>1, <1>2 DEF TrustEnds
<1>4. \/ t1.stage = "idle"
      \/ t1.stage = "lookup" /\ FileOf(t1) = f
    <2>1. Idle.stage = "idle"
        BY DEF Idle
    <2> QED
        BY <2>1, QueryGoesOn DEF TakeTree, FileOf
<1>5. JustRead'
    <2> SUFFICES ASSUME NEW x \in {task', io'}, x.stage = "swap",
                        Differs(FileOf(x), x.got)'
                 PROVE  edited'[FileOf(x)] = now'
        BY DEF JustRead, FileOf
    <2>1. x \in {task, io}
        BY <1>4
    <2> QED
        BY <2>1 DEF JustRead, FileOf
<1>6. ChangesTakeEffect'
    <2> SUFFICES ASSUME NEW x \in {task', io'}, x.stage = "lookup",
                        Differs(FileOf(x), tree'[FileOf(x)])
                 PROVE  now < edited[FileOf(x)] + RefreshInterval
        BY DEF ChangesTakeEffect, FileOf
    <2>1. CASE FileOf(x) = f
        <3>1. edited[f] = now
            BY <2>1, <1>0, <1>1, <1>2
        <3> QED
            BY <2>1, <3>1, <1>0
    <2>2. CASE FileOf(x) # f
        <3>1. x \in {task, io} /\ tree'[FileOf(x)] = tree[FileOf(x)]
            BY <2>2, <1>0, <1>1, <1>4
        <3> QED
            BY <3>1, LookupIsTimely
    <2> QED
        BY <2>1, <2>2
<1> QED
    BY <1>3, <1>5, <1>6

\* A file is written.
LEMMA WriteInductive ==
    ASSUME TypeOK, QueriesOK, TrustEnds, JustRead, ChangesTakeEffect,
           NEW f \in Files, NEW content, Write(f, content)
    PROVE  (TrustEnds /\ JustRead /\ ChangesTakeEffect)'
<1> USE DEF Differs, Content
<1>0. RefreshInterval \in Nat \ {0} /\ MaxTime \in Nat
    BY CacheHostsAssumption
<1>1. /\ now \in Nat /\ DOMAIN edited = Files /\ DOMAIN disk = Files
      /\ \A g \in Files : edited[g] \in Nat
    <2>1. now \in 0 .. MaxTime /\ edited \in [Files -> 0 .. MaxTime] /\ DOMAIN disk = Files
        BY DEF TypeOK
    <2> QED
        BY <1>0, <2>1
<1>2. /\ edited' = [edited EXCEPT ![f] = now] /\ disk' = [disk EXCEPT ![f] = content]
      /\ UNCHANGED <<tree, next, task, io, now>>
    BY DEF Write
<1>3. \A g \in Files : edited'[g] = now \/ (edited'[g] = edited[g] /\ disk'[g] = disk[g])
    BY <1>1, <1>2
<1>4. TrustEnds'
    BY <1>2, <1>3 DEF TrustEnds
<1>5. \A t \in {task, io} : t.stage # "idle" => FileOf(t) \in Files
    BY QueryHasKey DEF QueriesOK
<1>6. JustRead'
    BY <1>2, <1>3, <1>5 DEF JustRead, FileOf
<1>7. ChangesTakeEffect'
    <2> SUFFICES ASSUME NEW t \in {task, io}, t.stage = "lookup",
                        Differs(FileOf(t), tree[FileOf(t)])'
                 PROVE  now < edited'[FileOf(t)] + RefreshInterval
        BY <1>2 DEF ChangesTakeEffect, FileOf
    <2>1. FileOf(t) \in Files
        BY <1>5
    <2>2. CASE edited'[FileOf(t)] = now
        BY <2>2, <1>0, <1>1
    <2>3. CASE edited'[FileOf(t)] = edited[FileOf(t)] /\ disk'[FileOf(t)] = disk[FileOf(t)]
        BY <2>3, <1>2, LookupIsTimely DEF FileOf
    <2> QED
        BY <2>1, <2>2, <2>3, <1>3
<1> QED
    BY <1>4, <1>6, <1>7

\* Time passes while no thread is at a file.
LEMMA TickInductive ==
    ASSUME TypeOK, TrustEnds, Tick
    PROVE  (TrustEnds /\ JustRead /\ ChangesTakeEffect)'
<1>1. /\ now' = now + 1 /\ task' = Idle /\ io' = Idle
      /\ UNCHANGED <<disk, tree, next, edited>>
    BY DEF Tick
<1>2. Idle.stage = "idle"
    BY DEF Idle
<1>3. JustRead' /\ ChangesTakeEffect'
    BY <1>1, <1>2 DEF JustRead, ChangesTakeEffect
<1>4. TrustEnds'
    <2>1. RefreshInterval \in Nat /\ now \in Nat /\ next \in [Files -> Nat]
        <3>1. RefreshInterval \in Nat \ {0} /\ MaxTime \in Nat
            BY CacheHostsAssumption
        <3>2. now \in 0 .. MaxTime /\ next \in [Files -> Nat]
            BY DEF TypeOK
        <3> QED
            BY <3>1, <3>2
    <2> QED
        BY <1>1, <2>1 DEF TrustEnds, Differs, Content
<1> QED
    BY <1>3, <1>4

\* The steps that are not about the files, by what they leave alone
Elsewhere ==
    \/ TaskAsksNext \/ TakeDelay \/ TakeHost \/ Dispatch \/ Race
    \/ \E o \in Origins :
          \/ Start(o) \/ Resume(o) \/ Pause(o) \/ Refuse(o)
          \/ UpdateFailed(o) \/ Retry(o) \/ ResumeAfterTransientError(o)
          \/ \E op \in {"start", "pause"} : Call(o, op)
          \/ \E kind \in {"client", "unreachable", "server"} : Fail(o, kind)
    \/ Hup \/ RefreshAdminConfigs

\* ... which is enough for the files: a query they begin, or go on with, is yet to check.
LEMMA ElsewhereFiles ==
    ASSUME QueriesOK, TrustEnds, JustRead, ChangesTakeEffect, Elsewhere
    PROVE  (TrustEnds /\ JustRead /\ ChangesTakeEffect)'
<1>1. UNCHANGED <<disk, tree, next, edited, now>>
    BY DEF Elsewhere, TaskAsksNext, TakeDelay, TakeHost, Dispatch, Race, Start, Resume, Pause,
        Refuse, UpdateFailed, Retry, ResumeAfterTransientError, Call, Fail, Hup,
        RefreshAdminConfigs
<1>2. /\ Idle.stage = "idle"
      /\ \A keys, job, o : Query(keys, job, o).stage = "check"
    BY DEF Idle, Query
<1>3. CASE TaskAsksNext
    <2>1. task # Idle /\ task' = [task EXCEPT !.stage = "check", !.todo = Tail(@)]
        BY <1>3, <1>2 DEF TaskAsksNext
    <2>2. task'.stage = "check" /\ io' = io
        BY <1>3, <2>1 DEF TaskAsksNext, QueriesOK, TaskQueries
    <2> QED
        BY <1>1, <2>2, FilesFrame
<1>4. CASE Dispatch
    <2>1. io # Idle /\ io' = [io EXCEPT !.stage = "waiting"]
        BY <1>4, <1>2 DEF Dispatch
    <2>2. io'.stage = "waiting" /\ task' = task
        BY <1>4, <2>1 DEF Dispatch, QueriesOK, IoQueries
    <2> QED
        BY <1>1, <2>2, FilesFrame
<1>5. CASE ~TaskAsksNext /\ ~Dispatch
    <2> DEFINE Begun(t, t1) == t1 = t \/ t1 = Idle \/ \E keys, job, o : t1 = Query(keys, job, o)
    <2>1. ASSUME TakeDelay \/ TakeHost \/ Race \/ Hup \/ RefreshAdminConfigs
          PROVE  Begun(task, task') /\ Begun(io, io')
        BY <2>1 DEF TakeDelay, TakeHost, Race, Hup, RefreshAdminConfigs
    <2>2. ASSUME NEW o \in Origins, Start(o) \/ Resume(o) \/ Pause(o) \/ Refuse(o)
          PROVE  Begun(task, task') /\ Begun(io, io')
        BY <2>2 DEF Start, Resume, Pause, Refuse
    <2>3. ASSUME NEW o \in Origins,
                 UpdateFailed(o) \/ Retry(o) \/ ResumeAfterTransientError(o)
          PROVE  Begun(task, task') /\ Begun(io, io')
        BY <2>3 DEF UpdateFailed, Retry, ResumeAfterTransientError
    <2>4. ASSUME NEW o \in Origins, NEW op, Call(o, op)
          PROVE  Begun(task, task') /\ Begun(io, io')
        BY <2>4 DEF Call
    <2>5. ASSUME NEW o \in Origins, NEW kind, Fail(o, kind)
          PROVE  Begun(task, task') /\ Begun(io, io')
        BY <2>5 DEF Fail
    <2>6. Begun(task, task') /\ Begun(io, io')
        BY <1>5, <2>1, <2>2, <2>3, <2>4, <2>5, Zenon DEF Elsewhere
    <2>7. /\ task' = task \/ task'.stage \in {"idle", "check"}
          /\ io' = io \/ io'.stage \in {"idle", "check"}
        BY <2>6, <1>2
    <2> QED
        BY <1>1, <2>7, FilesFrame
<1> QED
    BY <1>3, <1>4, <1>5

-----------------------------------------------------------------------------
(* Types *)

\* A new query, and the end of one
LEMMA QueryTyped ==
    /\ \A o \in Origins :
          /\ Query(DelayKeys, "Delay", o) \in TaskQueries
          /\ Query(HostKeys, "Host", o) \in TaskQueries
          /\ \A op \in {"start", "pause"} : Query(ValidateKeys, op, o) \in IoQueries
    /\ Query(ValidateKeys, "Refresh", "none") \in TaskQueries
    /\ Idle \in TaskQueries /\ Idle \in IoQueries
BY DEF Query, TaskQueries, IoQueries, Trees

\* The stages of a query follow one another.
LEMMA StagesTyped ==
    ASSUME NEW t
    PROVE  /\ t \in TaskQueries /\ t.stage # "idle" =>
                /\ \A g \in Trees : [t EXCEPT !.stage = "swap", !.got = g] \in TaskQueries
                /\ t.job # "Refresh" => [t EXCEPT !.stage = "lookup"] \in TaskQueries
                /\ t.stage = "lookup" => t.origin \in Origins /\ t.job \in {"Delay", "Host"}
           /\ t \in IoQueries /\ t.stage # "idle" =>
                /\ \A g \in Trees : [t EXCEPT !.stage = "swap", !.got = g] \in IoQueries
                /\ t.job \in {"start", "pause"}
                /\ [t EXCEPT !.stage = "lookup"] \in IoQueries
                /\ [t EXCEPT !.stage = "waiting"] \in IoQueries
<1>1. Idle.stage = "idle"
    BY DEF Idle
<1>2. ASSUME t \in TaskQueries, t.stage # "idle"
      PROVE  /\ \A g \in Trees : [t EXCEPT !.stage = "swap", !.got = g] \in TaskQueries
             /\ t.job # "Refresh" => [t EXCEPT !.stage = "lookup"] \in TaskQueries
             /\ t.stage = "lookup" => t.origin \in Origins /\ t.job \in {"Delay", "Host"}
    <2>1. t # Idle
        BY <1>1, <1>2
    <2> QED
        BY <1>2, <2>1 DEF TaskQueries
<1>3. ASSUME t \in IoQueries, t.stage # "idle"
      PROVE  /\ \A g \in Trees : [t EXCEPT !.stage = "swap", !.got = g] \in IoQueries
             /\ t.job \in {"start", "pause"}
             /\ [t EXCEPT !.stage = "lookup"] \in IoQueries
             /\ [t EXCEPT !.stage = "waiting"] \in IoQueries
    <2>1. t # Idle
        BY <1>1, <1>3
    <2> QED
        BY <1>3, <2>1 DEF IoQueries
<1> QED
    BY <1>2, <1>3

\* A thread that has decided has a query again, or none.
LEMMA RefreshTyped ==
    ASSUME TypeOK, NEW t, t.stage # "idle", NEW t1, TryRefresh(t, t1)
    PROVE  /\ t \in TaskQueries => t1 \in TaskQueries
           /\ t \in IoQueries => t1 \in IoQueries
           /\ t \in TaskQueries \cup IoQueries => next' \in [Files -> Nat]
<1> DEFINE f == FileOf(t)
<1>1. t \in TaskQueries \cup IoQueries => f \in Files
    BY QueryHasKey
<1>2. ASSUME f \in Files, disk[f] # Malformed, disk[f] # Missing
      PROVE  disk[f] \in Trees
    <2>1. disk \in [Files -> AdminContents \cup SdkContents \cup {Empty, Malformed, Missing}]
        BY DEF TypeOK
    <2> QED
        BY <1>2, <2>1 DEF Trees
<1>3. \/ t1 = Idle
      \/ t.job # "Refresh" /\ t1 = [t EXCEPT !.stage = "lookup"]
      \/ \E g \in {Empty, disk[f]} :
            /\ t1 = [t EXCEPT !.stage = "swap", !.got = g]
            /\ g = Empty \/ (disk[f] # Malformed /\ disk[f] # Missing)
    BY DEF TryRefresh
<1>4. Empty \in Trees
    BY DEF Trees
<1>5. ASSUME f \in Files
      PROVE  \/ t1 = Idle
             \/ t.job # "Refresh" /\ t1 = [t EXCEPT !.stage = "lookup"]
             \/ \E g \in Trees : t1 = [t EXCEPT !.stage = "swap", !.got = g]
    BY <1>2, <1>3, <1>4, <1>5
<1>6. ASSUME t \in TaskQueries PROVE t1 \in TaskQueries
    BY <1>1, <1>5, <1>6, StagesTyped, QueryTyped, Zenon
<1>7. ASSUME t \in IoQueries PROVE t1 \in IoQueries
    BY <1>1, <1>5, <1>7, StagesTyped, QueryTyped, Zenon
<1>8. t \in TaskQueries \cup IoQueries => next' \in [Files -> Nat]
    <2>1. next' = next \/ next' = [next EXCEPT ![f] = now + RefreshInterval]
        BY DEF TryRefresh
    <2>2. next \in [Files -> Nat] /\ now \in 0 .. MaxTime
        BY DEF TypeOK
    <2>3. now + RefreshInterval \in Nat
        BY <2>2, CacheHostsAssumption
    <2> QED
        BY <2>1, <2>2, <2>3
<1> QED
    BY <1>6, <1>7, <1>8

\* ... and so has one that has taken the tree.
LEMMA TakeTreeTyped ==
    ASSUME TypeOK, NEW t \in TaskQueries \cup IoQueries, t.stage = "swap",
           NEW t1, TakeTree(t, t1)
    PROVE  /\ t \in TaskQueries => t1 \in TaskQueries
           /\ t \in IoQueries => t1 \in IoQueries
           /\ tree' \in [Files -> Trees] /\ next' \in [Files -> Nat]
<1>1. FileOf(t) \in Files /\ t.got \in Trees
    BY QueryHasKey
<1>2. /\ tree \in [Files -> Trees] /\ next \in [Files -> Nat] /\ now \in 0 .. MaxTime
    BY DEF TypeOK, Trees
<1>3. now + RefreshInterval \in Nat
    BY <1>2, CacheHostsAssumption
<1>4. tree' \in [Files -> Trees] /\ next' \in [Files -> Nat]
    BY <1>1, <1>2, <1>3 DEF TakeTree
<1>5. t1 = Idle \/ (t.job # "Refresh" /\ t1 = [t EXCEPT !.stage = "lookup"])
    BY DEF TakeTree
<1> QED
    BY <1>4, <1>5, StagesTyped, QueryTyped

\* The queries of the two threads
LEMMA QueriesInductive ==
    ASSUME TypeOK, QueriesOK, Next
    PROVE  QueriesOK'
<1>0. Idle.stage = "idle"
    BY DEF Idle
<1>1. ASSUME EditAdminConfigs \/ SetIoTConnectionString \/ Race \/ Hup \/ Tick
      PROVE  UNCHANGED <<task, io>>
    BY <1>1 DEF EditAdminConfigs, SetIoTConnectionString, Write, Race, Hup, Tick
<1>2. ASSUME TaskRefreshes PROVE QueriesOK'
    BY <1>2, RefreshTyped DEF QueriesOK, TaskRefreshes
<1>3. ASSUME IoRefreshes PROVE QueriesOK'
    BY <1>3, RefreshTyped DEF QueriesOK, IoRefreshes
<1>4. ASSUME TaskTakesTree PROVE QueriesOK'
    BY <1>4, TakeTreeTyped DEF QueriesOK, TaskTakesTree
<1>5. ASSUME IoTakesTree PROVE QueriesOK'
    BY <1>5, TakeTreeTyped DEF QueriesOK, IoTakesTree
<1>6. ASSUME Dispatch PROVE QueriesOK'
    BY <1>6, StagesTyped DEF QueriesOK, Dispatch
<1>7. ASSUME TaskAsksNext PROVE QueriesOK'
    <2> USE <1>7 DEF TaskAsksNext
    <2>1. /\ \/ task.todo = DelayKeys /\ Tail(task.todo) = LastDelayKey
             \/ task.todo = HostKeys /\ Tail(task.todo) = LastHostKey
          /\ task # Idle
        BY <1>0, QueryHasKey, NextKey DEF QueriesOK
    <2>2. task' = [task EXCEPT !.stage = "check", !.todo = Tail(task.todo)] /\ io' = io
        OBVIOUS
    <2>3. DelayKeys # HostKeys /\ DelayKeys # LastHostKey /\ HostKeys # LastDelayKey
          /\ ValidateKeys # DelayKeys /\ ValidateKeys # HostKeys
        BY DEF DelayKeys, HostKeys, LastHostKey, LastDelayKey, ValidateKeys
    <2>4. task' \in TaskQueries
        <3>1. CASE task.todo = DelayKeys /\ Tail(task.todo) = LastDelayKey
            <4>1. task \in [stage : {"check", "swap", "lookup"}, todo : {DelayKeys, LastDelayKey},
                            got : Trees, job : {"Delay"}, origin : Origins]
                BY <2>1, <2>3, <3>1 DEF QueriesOK, TaskQueries
            <4> QED
                BY <2>2, <3>1, <4>1 DEF TaskQueries
        <3>2. CASE task.todo = HostKeys /\ Tail(task.todo) = LastHostKey
            <4>1. task \in [stage : {"check", "swap", "lookup"}, todo : {HostKeys, LastHostKey},
                            got : Trees, job : {"Host"}, origin : Origins]
                BY <2>1, <2>3, <3>2 DEF QueriesOK, TaskQueries
            <4> QED
                BY <2>2, <3>2, <4>1 DEF TaskQueries
        <3> QED
            BY <2>1, <3>1, <3>2
    <2> QED
        BY <2>2, <2>4 DEF QueriesOK
<1>8. ASSUME TakeDelay \/ TakeHost \/ RefreshAdminConfigs PROVE QueriesOK'
    <2>1. TakeDelay => task.origin \in Origins
        BY StagesTyped DEF QueriesOK, TakeDelay, Answered
    <2> QED
        BY <1>8, <2>1, QueryTyped DEF QueriesOK, TakeDelay, TakeHost, RefreshAdminConfigs
<1>9. ASSUME NEW o \in Origins, Start(o) \/ Resume(o) \/ Pause(o) \/ Refuse(o)
      PROVE  QueriesOK'
    BY <1>9, QueryTyped DEF QueriesOK, Start, Resume, Pause, Refuse
<1>10. ASSUME NEW o \in Origins, UpdateFailed(o) \/ Retry(o) \/ ResumeAfterTransientError(o)
       PROVE  QueriesOK'
    BY <1>10 DEF QueriesOK, UpdateFailed, Retry, ResumeAfterTransientError
<1>11. ASSUME NEW o \in Origins, NEW op \in {"start", "pause"}, Call(o, op) PROVE QueriesOK'
    BY <1>11, QueryTyped DEF QueriesOK, Call
<1>12. ASSUME NEW o \in Origins, NEW kind, Fail(o, kind) PROVE QueriesOK'
    BY <1>12 DEF QueriesOK, Fail
<1>13. UNCHANGED <<task, io>> => QueriesOK'
    BY DEF QueriesOK
<1> QED
    BY <1>1, <1>2, <1>3, <1>4, <1>5, <1>6, <1>7, <1>8, <1>9, <1>10, <1>11, <1>12, <1>13, Zenon
        DEF Next

\* A download, as TypeOK has it
Downloads ==
    [state : {"new", "running", "transient", "paused"},
     open : BOOLEAN, type : {"None", "MCC", "CDN"}, host : Hosts \cup {""},
     allowMcc : BOOLEAN, delay : SUBSET Int,
     failed : {"none", "client", "unreachable", "server"}, culprit : Hosts \cup {""}]

\* A request is made: it goes to the CDN, or to a cache host that is not banned.
LEMMA SendTyped ==
    ASSUME NEW d \in Downloads, NEW o, NEW type \in {"MCC", "CDN"}
    PROVE  /\ SendHttpRequest(d, o, type) \in Downloads
           /\ SendHttpRequest(d, o, type).host = d.host
           /\ SendHttpRequest(d, o, type).failed = d.failed
           /\ SendHttpRequest(d, o, type).allowMcc => d.allowMcc
           /\ SendHttpRequest(d, o, type).type = "MCC" =>
                d.host # "" /\ ~IsBanned(d.host, o)
           /\ type = "MCC" /\ d.allowMcc /\ d.host # ""
              /\ SendHttpRequest(d, o, type).type = "CDN" => IsBanned(d.host, o)
BY DEF SendHttpRequest, Downloads

\* The steps that leave the downloads as they are
NotAtDownloads ==
    \/ EditAdminConfigs \/ SetIoTConnectionString
    \/ TaskRefreshes \/ TaskTakesTree \/ TaskAsksNext
    \/ IoRefreshes \/ IoTakesTree \/ Dispatch \/ Race
    \/ Hup \/ RefreshAdminConfigs \/ Tick
    \/ \E o \in Origins :
          Start(o) \/ Refuse(o) \/ \E op \in {"start", "pause"} : Call(o, op)

LEMMA DownloadsUnchanged == NotAtDownloads => dl' = dl
BY DEF NotAtDownloads, EditAdminConfigs, SetIoTConnectionString, Write, TaskRefreshes,
    TaskTakesTree, TaskAsksNext, IoRefreshes, IoTakesTree, Dispatch, Race, Hup,
    RefreshAdminConfigs, Tick, Start, Refuse, Call

\* What the steps change of the downloads
LEMMA DownloadsTyped ==
    ASSUME TypeOK, QueriesOK, Next
    PROVE  dl' \in [Origins -> Downloads]
<1>0. dl \in [Origins -> Downloads]
    BY DEF TypeOK, Downloads
<1>1. ASSUME NEW o \in Origins, NEW d \in Downloads, dl' = [dl EXCEPT ![o] = d]
      PROVE  dl' \in [Origins -> Downloads]
    BY <1>0, <1>1
<1>2. ASSUME TakeDelay PROVE dl' \in [Origins -> Downloads]
    <2> DEFINE v == IF Found(task) THEN {Answer(task, Never)} ELSE NoDelay
    <2>1. /\ dl' = [dl EXCEPT ![task.origin].delay = v]
          /\ task.stage = "lookup" /\ task.job = "Delay"
        BY <1>2 DEF TakeDelay, Answered
    <2>2. task.origin \in Origins /\ v \in SUBSET Int
        BY <2>1, AnswerTyped, StagesTyped DEF QueriesOK, NoDelay
    <2> HIDE DEF v
    <2> QED
        <3>1. [dl[task.origin] EXCEPT !.delay = v] \in Downloads
            <4>1. \A d \in Downloads : \A w \in SUBSET Int : [d EXCEPT !.delay = w] \in Downloads
                BY DEF Downloads
            <4> QED
                BY <1>0, <2>2, <4>1
        <3>2. dl' = [dl EXCEPT ![task.origin] = [dl[task.origin] EXCEPT !.delay = v]]
            BY <2>1
        <3> QED
            BY <1>1, <2>2, <3>1, <3>2
<1>3. ASSUME TakeHost PROVE dl' \in [Origins -> Downloads]
    <2> DEFINE o == task.origin
               d == [dl[o] EXCEPT !.host = Answer(task, "")]
    <2>1. /\ dl' = [dl EXCEPT ![o] = SendHttpRequest(d, o, "MCC")]
          /\ task.stage = "lookup" /\ task.job = "Host"
        BY <1>3 DEF TakeHost, Answered
    <2>2. o \in Origins /\ Answer(task, "") \in Hosts \cup {""}
        BY <2>1, AnswerTyped, StagesTyped DEF QueriesOK
    <2>3. d \in Downloads
        <3>1. \A e \in Downloads : \A h \in Hosts \cup {""} : [e EXCEPT !.host = h] \in Downloads
            BY DEF Downloads
        <3> QED
            BY <1>0, <2>2, <3>1
    <2> QED
        BY <1>1, <2>1, <2>2, <2>3, SendTyped
<1>4. ASSUME NEW o \in Origins, UpdateFailed(o) PROVE dl' \in [Origins -> Downloads]
    <2>1. PICK s \in {"transient", dl[o].state, "paused"} : Judged(o, s)
        BY <1>4 DEF UpdateFailed
    <2> DEFINE d == [dl[o] EXCEPT !.failed = "none", !.culprit = "", !.state = s, !.open = FALSE]
    <2>2. dl' = [dl EXCEPT ![o] = d]
        BY <1>0, <2>1 DEF Judged
    <2>3. d \in Downloads
        BY <1>0 DEF Downloads
    <2> QED
        BY <1>1, <2>2, <2>3
<1>5. ASSUME NEW o \in Origins, Retry(o) PROVE dl' \in [Origins -> Downloads]
    <2>1. PICK type \in {"MCC", "CDN"}, giveUp \in BOOLEAN :
            LET d == [dl[o] EXCEPT !.allowMcc = @ /\ ~giveUp]
            IN  dl' = [dl EXCEPT ![o] = SendHttpRequest(d, o, type)]
        BY <1>5 DEF Retry
    <2>2. [dl[o] EXCEPT !.allowMcc = @ /\ ~giveUp] \in Downloads
        BY <1>0, ZenonT(30) DEF Downloads
    <2> QED
        BY <1>1, <2>1, <2>2, SendTyped
<1>6. ASSUME NEW o \in Origins, ResumeAfterTransientError(o)
      PROVE  dl' \in [Origins -> Downloads]
    <2>1. dl' = [dl EXCEPT ![o] = SendHttpRequest(dl[o], o, "MCC")]
        BY <1>6 DEF ResumeAfterTransientError
    <2>2. SendHttpRequest(dl[o], o, "MCC") \in Downloads
        BY <1>0, SendTyped
    <2> QED
        BY <1>1, <2>1, <2>2
<1>7. ASSUME NEW o \in Origins, Resume(o) PROVE dl' \in [Origins -> Downloads]
    <2>1. dl' = dl \/ dl' = [dl EXCEPT ![o] = SendHttpRequest(dl[o], o, "MCC")]
        BY <1>7 DEF Resume
    <2>2. SendHttpRequest(dl[o], o, "MCC") \in Downloads
        BY <1>0, SendTyped
    <2> QED
        BY <1>0, <1>1, <2>1, <2>2
<1>8. ASSUME NEW o \in Origins, Pause(o) PROVE dl' \in [Origins -> Downloads]
    <2>1. dl' = [dl EXCEPT ![o] = [dl[o] EXCEPT !.state = "paused", !.open = FALSE]]
        BY <1>0, <1>8 DEF Pause
    <2>2. [dl[o] EXCEPT !.state = "paused", !.open = FALSE] \in Downloads
        BY <1>0, ZenonT(30) DEF Downloads
    <2> QED
        BY <1>1, <2>1, <2>2
<1>9. ASSUME NEW o \in Origins, NEW kind \in {"client", "unreachable", "server"},
             Fail(o, kind)
      PROVE  dl' \in [Origins -> Downloads]
    <2> DEFINE c == IF dl[o].type = "MCC" THEN dl[o].host ELSE ""
    <2>1. dl' = [dl EXCEPT ![o] = [dl[o] EXCEPT !.failed = kind, !.culprit = c]]
        BY <1>0, <1>9 DEF Fail
    <2>2. [dl[o] EXCEPT !.failed = kind, !.culprit = c] \in Downloads
        BY <1>0, ZenonT(30) DEF Downloads
    <2> QED
        BY <1>1, <2>1, <2>2
<1>10. NotAtDownloads => dl' = dl
    BY DownloadsUnchanged
<1> QED
    BY <1>0, <1>2, <1>3, <1>4, <1>5, <1>6, <1>7, <1>8, <1>9, <1>10, Zenon
        DEF Next, NotAtDownloads

\* A request that is made leaves no failure behind, or overtakes it.
LEMMA CulpritInductive ==
    ASSUME TypeOK, QueriesOK, CulpritIsKnown, Next
    PROVE  CulpritIsKnown' /\ overtaken' \in BOOLEAN /\ (overtaken => overtaken')
<1>0. dl \in [Origins -> Downloads] /\ overtaken \in BOOLEAN
    BY DEF TypeOK, Downloads
<1> DEFINE Goal == CulpritIsKnown' /\ overtaken' \in BOOLEAN /\ (overtaken => overtaken')
<1>1. ASSUME NEW o \in Origins, NEW d, dl' = [dl EXCEPT ![o] = d],
             overtaken' \in {overtaken, TRUE}, ~overtaken' => Accused(d)
      PROVE  Goal
    <2>1. overtaken' \in BOOLEAN /\ (overtaken => overtaken')
        <3>1. CASE overtaken' = overtaken
            BY <1>0, <3>1, Zenon
        <3>2. CASE overtaken' = TRUE
            BY <3>2, Zenon
        <3> QED
            BY <1>1, <3>1, <3>2, Zenon
    <2>2. ASSUME ~overtaken', NEW q \in Origins PROVE Accused(dl'[q])
        <3>1. Accused(dl[q])
            BY <2>1, <2>2 DEF CulpritIsKnown
        <3>2. dl'[q] = IF q = o THEN d ELSE dl[q]
            BY <1>0, <1>1
        <3> QED
            BY <1>1, <2>2, <3>1, <3>2
    <2>3. CulpritIsKnown'
        BY <2>2 DEF CulpritIsKnown, Accused
    <2> QED
        BY <2>1, <2>3
<1>2. ASSUME NEW o \in Origins, NEW d \in Downloads, NEW type \in {"MCC", "CDN"},
             d.failed = dl[o].failed, dl' = [dl EXCEPT ![o] = SendHttpRequest(d, o, type)],
             Overtakes(o) \/ (dl[o].failed = "none" /\ overtaken' = overtaken)
      PROVE  Goal
    <2>1. overtaken' \in {overtaken, TRUE} /\ (~overtaken' => dl[o].failed = "none")
        BY <1>0, <1>2 DEF Overtakes
    <2>2. ~overtaken' => Accused(SendHttpRequest(d, o, type))
        BY <1>2, <2>1, SendTyped DEF Accused
    <2> QED
        BY <1>1, <1>2, <2>1, <2>2
<1>3. ASSUME TakeDelay PROVE Goal
    <2> DEFINE o == task.origin
               v == IF Found(task) THEN {Answer(task, Never)} ELSE NoDelay
               d == [dl[o] EXCEPT !.delay = v]
    <2>1. /\ dl' = [dl EXCEPT ![o] = d] /\ overtaken' = overtaken
          /\ task.stage = "lookup"
        BY <1>3 DEF TakeDelay, Answered
    <2>2. o \in Origins
        BY <2>1, StagesTyped DEF QueriesOK
    <2>3. ~overtaken' => Accused(d)
        <3>1. dl[o] \in Downloads
            BY <1>0, <2>2
        <3>2. /\ d.failed = dl[o].failed /\ d.culprit = dl[o].culprit
              /\ d.type = dl[o].type /\ d.host = dl[o].host
            BY <3>1 DEF Downloads
        <3> QED
            BY <2>1, <2>2, <3>2 DEF CulpritIsKnown, Accused
    <2> HIDE DEF d
    <2> QED
        BY <1>1, <2>1, <2>2, <2>3
<1>4. ASSUME TakeHost PROVE Goal
    <2> DEFINE o == task.origin
               d == [dl[o] EXCEPT !.host = Answer(task, "")]
    <2>1. /\ dl' = [dl EXCEPT ![o] = SendHttpRequest(d, o, "MCC")] /\ Overtakes(o)
          /\ task.stage = "lookup" /\ task.job = "Host"
        BY <1>4 DEF TakeHost, Answered
    <2>2. o \in Origins /\ Answer(task, "") \in Hosts \cup {""}
        BY <2>1, AnswerTyped, StagesTyped DEF QueriesOK
    <2>3. d \in Downloads /\ d.failed = dl[o].failed
        <3>1. dl[o] \in Downloads
            BY <1>0, <2>2
        <3> QED
            BY <2>2, <3>1 DEF Downloads
    <2> HIDE DEF d
    <2> QED
        BY <1>2, <2>1, <2>2, <2>3
<1>5. ASSUME NEW o \in Origins, UpdateFailed(o) PROVE Goal
    <2>1. PICK s \in {"transient", dl[o].state, "paused"} : Judged(o, s)
        BY <1>5 DEF UpdateFailed
    <2> DEFINE d == [dl[o] EXCEPT !.failed = "none", !.culprit = "", !.state = s, !.open = FALSE]
    <2>2. dl' = [dl EXCEPT ![o] = d] /\ overtaken' = overtaken
        BY <1>0, <1>5, <2>1 DEF Judged, UpdateFailed
    <2>3. Accused(d)
        BY <1>0 DEF Accused, Downloads
    <2> HIDE DEF d
    <2> QED
        BY <1>1, <2>2, <2>3
<1>6. ASSUME NEW o \in Origins, Retry(o) PROVE Goal
    <2>1. PICK type \in {"MCC", "CDN"}, giveUp \in BOOLEAN :
            LET d == [dl[o] EXCEPT !.allowMcc = @ /\ ~giveUp]
            IN  dl' = [dl EXCEPT ![o] = SendHttpRequest(d, o, type)]
        BY <1>6 DEF Retry
    <2>2. [dl[o] EXCEPT !.allowMcc = @ /\ ~giveUp] \in Downloads
        BY <1>0, Zenon DEF Downloads
    <2>3. [dl[o] EXCEPT !.allowMcc = @ /\ ~giveUp].failed = dl[o].failed
        BY <1>0 DEF Downloads
    <2>4. dl[o].failed = "none" /\ overtaken' = overtaken
        BY <1>6 DEF Retry
    <2> QED
        BY <1>2, <2>1, <2>2, <2>3, <2>4
<1>7. ASSUME NEW o \in Origins, ResumeAfterTransientError(o) PROVE Goal
    <2>1. dl' = [dl EXCEPT ![o] = SendHttpRequest(dl[o], o, "MCC")] /\ Overtakes(o)
        BY <1>7 DEF ResumeAfterTransientError
    <2> QED
        BY <1>0, <1>2, <2>1
<1>8. ASSUME NEW o \in Origins, Resume(o) PROVE Goal
    <2>1. \/ dl' = dl /\ overtaken' = overtaken
          \/ dl' = [dl EXCEPT ![o] = SendHttpRequest(dl[o], o, "MCC")] /\ Overtakes(o)
        BY <1>8 DEF Resume
    <2> QED
        BY <1>0, <1>2, <2>1 DEF CulpritIsKnown
<1>9. ASSUME NEW o \in Origins, Pause(o) PROVE Goal
    <2> DEFINE d == [dl[o] EXCEPT !.state = "paused", !.open = FALSE]
    <2>1. dl' = [dl EXCEPT ![o] = d] /\ overtaken' = overtaken
        BY <1>0, <1>9 DEF Pause
    <2>2. ~overtaken' => Accused(d)
        BY <1>0, <2>1, ZenonT(30) DEF CulpritIsKnown, Accused, Downloads
    <2> HIDE DEF d
    <2> QED
        BY <1>1, <2>1, <2>2
<1>10. ASSUME NEW o \in Origins, NEW kind \in {"client", "unreachable", "server"}, Fail(o, kind)
       PROVE  Goal
    <2> DEFINE c == IF dl[o].type = "MCC" THEN dl[o].host ELSE ""
               d == [dl[o] EXCEPT !.failed = kind, !.culprit = c]
    <2>1. dl' = [dl EXCEPT ![o] = d] /\ overtaken' = overtaken
        BY <1>0, <1>10 DEF Fail
    <2>2. Accused(d)
        BY <1>0, ZenonT(30) DEF Accused, Downloads
    <2> HIDE DEF d
    <2> QED
        BY <1>1, <2>1, <2>2
<1>11. ASSUME NotAtDownloads PROVE Goal
    <2>1. dl' = dl
        BY <1>11, DownloadsUnchanged
    <2>2. overtaken' = overtaken
        BY <1>11 DEF NotAtDownloads, EditAdminConfigs, SetIoTConnectionString, Write, TaskRefreshes,
            TaskTakesTree, TaskAsksNext, IoRefreshes, IoTakesTree, Dispatch, Race, Hup,
            RefreshAdminConfigs, Tick, Start, Refuse, Call
    <2> QED
        BY <1>0, <2>1, <2>2 DEF CulpritIsKnown
<1> QED
    BY <1>3, <1>4, <1>5, <1>6, <1>7, <1>8, <1>9, <1>10, <1>11, Zenon DEF Next, NotAtDownloads

\* As long as no failure is overtaken, the ban and what is to be said of the culprit are
\* written together, for the same host.
LEMMA BansInductive ==
    ASSUME TypeOK, QueriesOK, CulpritIsKnown, BansAreReports, Next
    PROVE  /\ BansAreReports'
           /\ unban' \in [Hosts -> [Origins \cup {All} -> 0 .. MaxTime + BanInterval]]
           /\ blamed' \in [Hosts -> [Origins \cup {All} -> NoTime .. MaxTime]]
<1> DEFINE Times == [Origins \cup {All} -> 0 .. MaxTime + BanInterval]
           Reports == [Origins \cup {All} -> NoTime .. MaxTime]
<1>0. unban \in [Hosts -> Times] /\ blamed \in [Hosts -> Reports]
    BY DEF TypeOK
<1>1. now \in 0 .. MaxTime /\ MaxTime \in Nat /\ BanInterval \in Nat \ {0}
    BY CacheHostsAssumption DEF TypeOK
<1>2. now \in NoTime .. MaxTime /\ now + BanInterval \in 0 .. MaxTime + BanInterval
    BY <1>1 DEF NoTime
<1>3. ASSUME NEW f \in [Hosts -> Times], NEW h, NEW x \in Origins \cup {All}
      PROVE  [f EXCEPT ![h][x] = now + BanInterval] \in [Hosts -> Times]
    <2>1. CASE h \in Hosts
        <3>1. [f[h] EXCEPT ![x] = now + BanInterval] \in Times
            BY <1>2, <2>1
        <3> HIDE DEF Times
        <3> QED
            BY <2>1, <3>1
    <2> QED
        BY <2>1
<1>4. ASSUME NEW f \in [Hosts -> Reports], NEW h, NEW x \in Origins \cup {All}
      PROVE  [f EXCEPT ![h][x] = now] \in [Hosts -> Reports]
    <2>1. CASE h \in Hosts
        <3>1. [f[h] EXCEPT ![x] = now] \in Reports
            BY <1>2, <2>1
        <3> HIDE DEF Reports
        <3> QED
            BY <2>1, <3>1
    <2> QED
        BY <2>1
<1>5. ASSUME NEW o \in Origins, UpdateFailed(o)
      PROVE  BansAreReports' /\ unban' \in [Hosts -> Times] /\ blamed' \in [Hosts -> Reports]
    <2> DEFINE d == dl[o]
               at(kind) == IF kind = "client" THEN o ELSE All
               Bannable == d.failed \in {"client", "unreachable"}
    <2>0. d \in Downloads /\ d.failed # "none"
        BY <1>5 DEF TypeOK, Downloads, UpdateFailed
    <2>1. CASE UNCHANGED <<unban, blamed>>
        BY <1>0, <1>5, <2>1 DEF BansAreReports, UpdateFailed
    <2>2. CASE ~UNCHANGED <<unban, blamed>>
        <3>1. /\ IF d.type = "MCC" THEN ReportHostError(d.failed, d.host, o) ELSE UNCHANGED unban
              /\ Blame(d.failed, d.culprit, o)
              /\ overtaken' = overtaken
            BY <1>5, <2>2 DEF UpdateFailed
        <3> DEFINE x == at(d.failed)
        <3>2. unban' = IF d.type = "MCC" /\ Bannable
                       THEN [unban EXCEPT ![d.host][x] = now + BanInterval] ELSE unban
            BY <3>1 DEF ReportHostError, BanForOriginalHost, Ban
        <3>3. blamed' = IF d.culprit # "" /\ Bannable
                        THEN [blamed EXCEPT ![d.culprit][x] = now] ELSE blamed
            BY <3>1 DEF Blame
        <3>4. x \in Origins \cup {All}
            OBVIOUS
        <3>5. unban' \in [Hosts -> Times] /\ blamed' \in [Hosts -> Reports]
            <4> HIDE DEF Times, Reports, x, Bannable
            <4> QED
                BY <1>0, <1>3, <1>4, <3>2, <3>3, <3>4
        <3>6. BansAreReports'
            <4> SUFFICES ASSUME ~overtaken, NEW h \in Hosts, NEW y \in Origins \cup {All}
                         PROVE  unban'[h][y] = blamed'[h][y] + BanInterval
                BY <3>1 DEF BansAreReports
            <4>1. d.culprit = IF d.type = "MCC" THEN d.host ELSE ""
                BY <2>0 DEF CulpritIsKnown, Accused
            <4>2. h # ""
                BY DEF Hosts
            <4>3. unban[h][y] = blamed[h][y] + BanInterval
                BY DEF BansAreReports
            <4> HIDE DEF d, x, Bannable
            <4>4. CASE d.type = "MCC" /\ Bannable /\ d.host = h /\ x = y
                BY <1>0, <1>1, <3>2, <3>3, <4>1, <4>2, <4>4
            <4>5. CASE ~(d.type = "MCC" /\ Bannable /\ d.host = h /\ x = y)
                <5>1. unban'[h][y] = unban[h][y]
                    BY <1>0, <3>2, <4>5
                <5>2. blamed'[h][y] = blamed[h][y]
                    <6>1. CASE d.culprit = h /\ Bannable
                        <7>1. d.type = "MCC" /\ d.host = h /\ x # y
                            BY <4>1, <4>2, <4>5, <6>1
                        <7>2. blamed' = [blamed EXCEPT ![h][x] = now]
                            BY <3>3, <4>2, <6>1
                        <7> QED
                            BY <1>0, <7>1, <7>2
                    <6>2. CASE ~(d.culprit = h /\ Bannable)
                        BY <1>0, <3>3, <6>2
                    <6> QED
                        BY <6>1, <6>2
                <5> QED
                    BY <4>3, <5>1, <5>2
            <4> QED
                BY <4>4, <4>5
        <3> QED
            BY <3>5, <3>6
    <2> QED
        BY <2>1, <2>2
<1>6. ASSUME ~\E o \in Origins : UpdateFailed(o)
      PROVE  UNCHANGED <<unban, blamed>>
    BY <1>6 DEF Next, EditAdminConfigs, SetIoTConnectionString, Write, TaskRefreshes,
        TaskTakesTree, TaskAsksNext, TakeDelay, TakeHost, IoRefreshes, IoTakesTree, Dispatch,
        Race, Start, Resume, Pause, Refuse, Retry, ResumeAfterTransientError, Call, Fail, Hup,
        RefreshAdminConfigs, Tick
<1>7. ASSUME UNCHANGED <<unban, blamed>>
      PROVE  BansAreReports' /\ unban' \in [Hosts -> Times] /\ blamed' \in [Hosts -> Reports]
    BY <1>0, <1>7, CulpritInductive DEF BansAreReports
<1> QED
    BY <1>5, <1>6, <1>7

\* The files, as far as their types go
LEMMA FilesTyped ==
    ASSUME TypeOK, QueriesOK, Next
    PROVE  /\ disk' \in [Files -> AdminContents \cup SdkContents \cup {Empty, Malformed, Missing}]
           /\ tree' \in [Files -> Trees] /\ next' \in [Files -> Nat]
           /\ edited' \in [Files -> 0 .. MaxTime]
<1> DEFINE OnDisk == [Files -> AdminContents \cup SdkContents \cup {Empty, Malformed, Missing}]
<1>0. /\ disk \in OnDisk /\ tree \in [Files -> Trees] /\ next \in [Files -> Nat]
      /\ edited \in [Files -> 0 .. MaxTime] /\ now \in 0 .. MaxTime
    BY DEF TypeOK, Trees
<1>1. ASSUME EditAdminConfigs \/ SetIoTConnectionString
      PROVE  /\ disk' \in OnDisk /\ edited' \in [Files -> 0 .. MaxTime]
             /\ UNCHANGED <<tree, next>>
    <2>1. PICK f \in Files :
            \E content \in AdminContents \cup SdkContents \cup {Malformed, Missing} :
                Write(f, content)
        BY <1>1 DEF EditAdminConfigs, SetIoTConnectionString, Files
    <2> QED
        BY <1>0, <2>1 DEF Write
<1>2. ASSUME TaskRefreshes \/ IoRefreshes
      PROVE  next' \in [Files -> Nat] /\ UNCHANGED <<disk, tree, edited>>
    BY <1>2, RefreshTyped DEF TaskRefreshes, IoRefreshes, QueriesOK
<1>3. ASSUME TaskTakesTree \/ IoTakesTree
      PROVE  /\ tree' \in [Files -> Trees] /\ next' \in [Files -> Nat]
             /\ UNCHANGED <<disk, edited>>
    BY <1>3, TakeTreeTyped DEF TaskTakesTree, IoTakesTree, QueriesOK
<1>4. Elsewhere \/ Tick => UNCHANGED <<disk, tree, next, edited>>
    BY DEF Elsewhere, TaskAsksNext, TakeDelay, TakeHost, Dispatch, Race, Start, Resume, Pause,
        Refuse, UpdateFailed, Retry, ResumeAfterTransientError, Call, Fail, Hup,
        RefreshAdminConfigs, Tick
<1>5. Next => \/ EditAdminConfigs \/ SetIoTConnectionString \/ TaskRefreshes \/ IoRefreshes
              \/ TaskTakesTree \/ IoTakesTree \/ Elsewhere \/ Tick
    BY DEF Next, Elsewhere
<1> QED
    BY <1>0, <1>1, <1>2, <1>3, <1>4, <1>5

\* The counters and the clock
LEMMA CountersInductive ==
    ASSUME TypeOK, HupsAreCounted, Next
    PROVE  /\ HupsAreCounted'
           /\ hups' \in 0 .. MaxHups /\ now' \in 0 .. MaxTime /\ broken' \in BOOLEAN
           /\ used' \in [edits : 0 .. MaxEdits, calls : 0 .. MaxCalls, hups : 0 .. MaxHups,
                         failures : 0 .. MaxFailures]
<1> DEFINE Counters == [edits : 0 .. MaxEdits, calls : 0 .. MaxCalls, hups : 0 .. MaxHups,
                        failures : 0 .. MaxFailures]
<1>0. /\ hups \in 0 .. MaxHups /\ now \in 0 .. MaxTime /\ broken \in BOOLEAN /\ used \in Counters
      /\ hups <= used.hups
    BY DEF TypeOK, HupsAreCounted
<1>1. {MaxTime, MaxEdits, MaxCalls, MaxHups, MaxFailures} \subseteq Nat
    BY CacheHostsAssumption
<1>2. ASSUME used' = used, now' = now \/ Tick, broken' \in BOOLEAN,
             hups' = hups \/ RefreshAdminConfigs
      PROVE  /\ used' \in Counters /\ now' \in 0 .. MaxTime
             /\ hups' \in 0 .. MaxHups /\ hups' <= used'.hups
    BY <1>0, <1>1, <1>2 DEF Tick, RefreshAdminConfigs
<1>3. ASSUME NEW f, NEW content, Write(f, content)
      PROVE  /\ used' \in Counters /\ used'.hups = used.hups
             /\ UNCHANGED <<hups, now, broken>>
    BY <1>0, <1>1, <1>3 DEF Write
<1>4. ASSUME NEW o, NEW op, Call(o, op)
      PROVE  /\ used' \in Counters /\ used'.hups = used.hups
             /\ UNCHANGED <<hups, now, broken>>
    BY <1>0, <1>1, <1>4 DEF Call
<1>5. ASSUME NEW o, NEW kind, Fail(o, kind)
      PROVE  /\ used' \in Counters /\ used'.hups = used.hups
             /\ UNCHANGED <<hups, now, broken>>
    <2>1. /\ used.failures < MaxFailures /\ used' = [used EXCEPT !.failures = @ + 1]
          /\ UNCHANGED <<hups, now, broken>>
        BY <1>5 DEF Fail
    <2> QED
        BY <1>0, <1>1, <2>1
<1>6. ASSUME Hup
      PROVE  /\ used' \in Counters /\ UNCHANGED <<now, broken>>
             /\ hups' \in 0 .. MaxHups /\ hups' <= used'.hups
    BY <1>0, <1>1, <1>6 DEF Hup
<1>7. ASSUME NEW o, \/ Start(o) \/ Resume(o) \/ Pause(o) \/ Refuse(o)
                    \/ UpdateFailed(o) \/ Retry(o) \/ ResumeAfterTransientError(o)
      PROVE  UNCHANGED <<used, now, broken, hups>>
    BY <1>7 DEF Start, Resume, Pause, Refuse, UpdateFailed, Retry, ResumeAfterTransientError
<1>8. ASSUME \/ TaskRefreshes \/ TaskTakesTree \/ TaskAsksNext \/ TakeDelay \/ TakeHost
             \/ IoRefreshes \/ IoTakesTree \/ Dispatch \/ Race \/ RefreshAdminConfigs \/ Tick
      PROVE  /\ used' = used /\ broken' \in BOOLEAN
             /\ now' = now \/ Tick
             /\ hups' = hups \/ RefreshAdminConfigs
    BY <1>0, <1>8 DEF TaskRefreshes, TaskTakesTree, TaskAsksNext, TakeDelay, TakeHost, IoRefreshes,
        IoTakesTree, Dispatch, Race, RefreshAdminConfigs, Tick
<1>9. EditAdminConfigs \/ SetIoTConnectionString => \E f, content : Write(f, content)
    BY DEF EditAdminConfigs, SetIoTConnectionString
<1>10. /\ used' \in Counters /\ now' \in 0 .. MaxTime /\ broken' \in BOOLEAN
       /\ hups' \in 0 .. MaxHups /\ hups' <= used'.hups
    <2>1. CASE EditAdminConfigs \/ SetIoTConnectionString
        BY <2>1, <1>0, <1>3, <1>9
    <2>2. CASE Hup
        BY <2>2, <1>0, <1>6
    <2>3. CASE \/ TaskRefreshes \/ TaskTakesTree \/ TaskAsksNext \/ TakeDelay \/ TakeHost
               \/ IoRefreshes \/ IoTakesTree \/ Dispatch \/ Race \/ RefreshAdminConfigs \/ Tick
        BY <2>3, <1>2, <1>8, Zenon
    <2>4. CASE \E o \in Origins :
                  \/ Start(o) \/ Resume(o) \/ Pause(o) \/ Refuse(o)
                  \/ UpdateFailed(o) \/ Retry(o) \/ ResumeAfterTransientError(o)
        BY <2>4, <1>0, <1>7
    <2>5. CASE \E o \in Origins :
                  \/ \E op \in {"start", "pause"} : Call(o, op)
                  \/ \E kind \in {"client", "unreachable", "server"} : Fail(o, kind)
        BY <2>5, <1>0, <1>4, <1>5
    <2> QED
        BY <2>1, <2>2, <2>3, <2>4, <2>5, Zenon DEF Next
<1> QED
    BY <1>10 DEF HupsAreCounted

\* The start of the agent establishes the invariant.
LEMMA InitInductive == Init => IInv
<1> SUFFICES ASSUME Init PROVE IInv
    OBVIOUS
<1>0. /\ {MaxTime, MaxEdits, MaxCalls, MaxHups, MaxFailures} \subseteq Nat
      /\ {RefreshInterval, BanInterval} \subseteq Nat \ {0}
    BY CacheHostsAssumption
<1>1. /\ tree = [f \in Files |-> Empty] /\ next = [f \in Files |-> 0]
      /\ task = Idle /\ io = Idle /\ Idle.stage = "idle"
      /\ unban = [h \in Hosts |-> [o \in Origins \cup {All} |-> 0]]
      /\ blamed = [h \in Hosts |-> [o \in Origins \cup {All} |-> NoTime]]
      /\ edited = [f \in Files |-> 0] /\ now = 0 /\ hups = 0
      /\ used = [edits |-> 0, calls |-> 0, hups |-> 0, failures |-> 0] /\ broken = FALSE
    BY DEF Init, Idle
<1>2. TypeOK
    <2>1. disk \in [Files -> AdminContents \cup SdkContents \cup {Empty, Malformed, Missing}]
        <3>1. PICK a \in AdminContents \cup {Empty}, s \in SdkContents \cup {Missing} :
                disk = [admin |-> a, sdk |-> s]
            BY Zenon DEF Init
        <3> QED
            BY <3>1 DEF Files
    <2>2. /\ tree \in [Files -> AdminContents \cup SdkContents \cup {Empty}]
          /\ next \in [Files -> Nat]
        BY <1>1
    <2>3. edited \in [Files -> 0 .. MaxTime] /\ hups \in 0 .. MaxHups /\ now \in 0 .. MaxTime
        BY <1>0, <1>1
    <2>4. {task.stage, io.stage} \subseteq {"idle", "check", "swap", "lookup", "waiting"}
        BY <1>1
    <2>5. dl \in [Origins -> Downloads]
        <3>1. dl = [o \in Origins |->
                      [state |-> "new", open |-> FALSE, type |-> "None", host |-> "",
                       allowMcc |-> TRUE, delay |-> NoDelay, failed |-> "none",
                       culprit |-> ""]]
            BY DEF Init
        <3>2. NoDelay \in SUBSET Int
            BY DEF NoDelay
        <3> QED
            BY <3>1, <3>2 DEF Downloads
    <2>6. unban \in [Hosts -> [Origins \cup {All} -> 0 .. MaxTime + BanInterval]]
        <3>1. 0 \in 0 .. MaxTime + BanInterval
            BY <1>0
        <3> QED
            BY <1>1, <3>1
    <2>7. blamed \in [Hosts -> [Origins \cup {All} -> NoTime .. MaxTime]]
        <3>1. NoTime \in NoTime .. MaxTime
            BY <1>0 DEF NoTime
        <3> QED
            BY <1>1, <3>1
    <2>9. overtaken \in BOOLEAN
        BY DEF Init
    <2>8. used \in [edits : 0 .. MaxEdits, calls : 0 .. MaxCalls, hups : 0 .. MaxHups,
                    failures : 0 .. MaxFailures]
        BY <1>0, <1>1
    <2> QED
        BY <1>1, <2>1, <2>2, <2>3, <2>4, <2>5, <2>6, <2>7, <2>8, <2>9 DEF TypeOK, Downloads
<1>3. QueriesOK
    BY <1>1, QueryTyped DEF QueriesOK
<1>4. TrustEnds
    BY <1>0, <1>1 DEF TrustEnds
<1>5. HupsAreCounted /\ JustRead /\ ChangesTakeEffect
    BY <1>1 DEF JustRead, ChangesTakeEffect, HupsAreCounted
<1>6. BansAreReports
    BY <1>0, <1>1 DEF BansAreReports, NoTime
<1>7. CulpritIsKnown
    BY DEF CulpritIsKnown, Accused, Init
<1> QED
    BY <1>2, <1>3, <1>4, <1>5, <1>6, <1>7 DEF IInv

\* Every step keeps it.
LEMMA StepInductive == IInv /\ [Next]_vars => IInv'
<1> SUFFICES ASSUME IInv, [Next]_vars PROVE IInv'
    OBVIOUS
<1> USE DEF IInv
<1>1. CASE UNCHANGED vars
    BY <1>1 DEF vars, TypeOK, QueriesOK, TrustEnds, JustRead, ChangesTakeEffect, BansAreReports,
        CulpritIsKnown, HupsAreCounted, Differs, Content, FileOf
<1>2. CASE Next
    <2>1. QueriesOK'
        BY <1>2, QueriesInductive
    <2>2. TypeOK'
        <3>1. {task.stage, io.stage}' \subseteq {"idle", "check", "swap", "lookup", "waiting"}
            BY <2>1 DEF QueriesOK, TaskQueries, IoQueries, Idle
        <3>2. dl' \in [Origins -> Downloads]
            BY <1>2, DownloadsTyped
        <3> QED
            BY <1>2, <3>1, <3>2, FilesTyped, BansInductive, CulpritInductive, CountersInductive
                DEF TypeOK, Downloads, Trees
    <2>3. (TrustEnds /\ JustRead /\ ChangesTakeEffect)'
        <3>1. CASE EditAdminConfigs \/ SetIoTConnectionString
            BY <3>1, WriteInductive DEF EditAdminConfigs, SetIoTConnectionString, Files
        <3>2. CASE TaskRefreshes
            BY <3>2, RefreshInductive DEF TaskRefreshes, QueriesOK
        <3>3. CASE IoRefreshes
            BY <3>3, RefreshInductive DEF IoRefreshes, QueriesOK
        <3>4. CASE TaskTakesTree
            BY <3>4, TakeTreeInductive DEF TaskTakesTree, QueriesOK
        <3>5. CASE IoTakesTree
            BY <3>5, TakeTreeInductive DEF IoTakesTree, QueriesOK
        <3>6. CASE Elsewhere
            BY <3>6, ElsewhereFiles
        <3>7. CASE Tick
            BY <3>7, TickInductive
        <3> QED
            BY <1>2, <3>1, <3>2, <3>3, <3>4, <3>5, <3>6, <3>7 DEF Next, Elsewhere
    <2>4. BansAreReports' /\ CulpritIsKnown' /\ HupsAreCounted'
        BY <1>2, BansInductive, CulpritInductive, CountersInductive
    <2> QED
        BY <2>1, <2>2, <2>3, <2>4
<1> QED
    BY <1>1, <1>2

LEMMA Invariant == Spec => []IInv
BY InitInductive, StepInductive, PTL DEF Spec

-----------------------------------------------------------------------------
(* Theorems *)

\* The variables have their types, in all behaviours of the files, the threads and the
\* downloads: in particular what a configuration names is a cache host or no name, and a
\* delay is a number, whichever thread replaced the tree.
THEOREM TypeCorrect == Spec => []TypeOK
<1>1. IInv => TypeOK
    BY DEF IInv
<1> QED
    BY <1>1, Invariant, PTL

\* A change of a file takes effect within RefreshInterval of JsonParser::_TryRefresh, for
\* any contents, any interval and any number of changes, and on both threads.
THEOREM ChangesTakeEffectHolds == Spec => []ChangesTakeEffect
<1>1. IInv => ChangesTakeEffect
    BY DEF IInv
<1> QED
    BY <1>1, Invariant, PTL

\* MCCManager::IsBanned says which requests failed within the last interval, no less and no
\* more.
LEMMA BannedIsBlamed ==
    ASSUME IInv, ~overtaken, NEW h \in Hosts, NEW o \in Origins
    PROVE  IsBanned(h, o) <=> Blamed(h, o)
BY DEF IInv, BansAreReports, IsBanned, Blamed

\* The requests that begin, and how
LEMMA BeginsBySending ==
    ASSUME IInv, Next, NEW o \in Origins, Begins(o)
    PROVE  \E d \in Downloads, type \in {"MCC", "CDN"} :
              /\ dl'[o] = SendHttpRequest(d, o, type)
              /\ type = "MCC" \/ dl[o].state = "running"
<1> USE DEF IInv, Begins
<1>0. dl \in [Origins -> Downloads]
    BY DEF TypeOK, Downloads
<1>1. ASSUME NEW p, NEW e, dl' = [dl EXCEPT ![p] = e]
      PROVE  p = o /\ dl'[o] = e
    BY <1>0, <1>1
<1>2. CASE TakeHost
    <2> DEFINE p == task.origin
               d == [dl[p] EXCEPT !.host = Answer(task, "")]
    <2>1. dl' = [dl EXCEPT ![p] = SendHttpRequest(d, p, "MCC")] /\ task.stage = "lookup"
          /\ task.job = "Host"
        BY <1>2 DEF TakeHost, Answered
    <2>2. p = o /\ dl'[o] = SendHttpRequest(d, p, "MCC")
        BY <2>1, <1>1
    <2>3. Answer(task, "") \in Hosts \cup {""}
        BY <2>1, AnswerTyped
    <2>4. d \in Downloads
        <3>1. \A e \in Downloads : \A h \in Hosts \cup {""} : [e EXCEPT !.host = h] \in Downloads
            BY DEF Downloads
        <3>2. dl[o] \in Downloads
            BY <1>0
        <3> QED
            BY <2>2, <2>3, <3>1, <3>2
    <2> HIDE DEF d
    <2> QED
        BY <2>2, <2>4
<1>3. CASE \E p \in Origins : Retry(p)
    <2>1. PICK p \in Origins, type \in {"MCC", "CDN"}, giveUp \in BOOLEAN :
            /\ dl[p].state = "running"
            /\ LET d == [dl[p] EXCEPT !.allowMcc = @ /\ ~giveUp]
               IN  dl' = [dl EXCEPT ![p] = SendHttpRequest(d, p, type)]
        BY <1>3 DEF Retry
    <2>2. [dl[p] EXCEPT !.allowMcc = @ /\ ~giveUp] \in Downloads
        <3>1. dl[p] \in Downloads
            BY <1>0
        <3> QED
            BY <3>1, Zenon DEF Downloads
    <2>3. p = o /\ dl'[o] = SendHttpRequest([dl[p] EXCEPT !.allowMcc = @ /\ ~giveUp], p, type)
        BY <2>1, <1>1
    <2> QED
        BY <2>1, <2>2, <2>3
<1>4. CASE \E p \in Origins : ResumeAfterTransientError(p) \/ Resume(p)
    <2>1. PICK p \in Origins : dl' = [dl EXCEPT ![p] = SendHttpRequest(dl[p], p, "MCC")]
        BY <1>4 DEF ResumeAfterTransientError, Resume
    <2>2. p = o /\ dl'[o] = SendHttpRequest(dl[p], p, "MCC")
        BY <2>1, <1>1
    <2> QED
        BY <1>0, <2>2
<1>5. ~(\/ TakeHost \/ \E p \in Origins : Retry(p)
        \/ \E p \in Origins : ResumeAfterTransientError(p) \/ Resume(p)) => ~dl'[o].open
    <2>1. ASSUME TakeDelay PROVE dl'[o].open = dl[o].open
        <3>1. PICK v : dl' = [dl EXCEPT ![task.origin].delay = v]
            BY <2>1 DEF TakeDelay
        <3> DEFINE q == task.origin
                   d == [dl[q] EXCEPT !.delay = v]
        <3>2. CASE q = o
            <4>1. dl'[o] = d
                BY <1>0, <3>1, <3>2
            <4>2. d.open = dl[q].open
                BY <1>0, <3>2, ZenonT(30) DEF Downloads
            <4> QED
                BY <3>2, <4>1, <4>2, Zenon
        <3>3. CASE q # o
            BY <1>0, <3>1, <3>3
        <3> QED
            BY <3>2, <3>3
    <2>2. ASSUME NEW p \in Origins, UpdateFailed(p) \/ Pause(p)
          PROVE  dl'[o].open = dl[o].open \/ dl'[o].open = FALSE
        <3>1. PICK s : Judged(p, s) \/ dl' = [dl EXCEPT ![p].state = s, ![p].open = FALSE]
            BY <2>2 DEF UpdateFailed, Pause
        <3>2. dl[p] \in Downloads /\ DOMAIN dl = Origins
            BY <1>0
        <3>3. CASE p = o
            <4>1. CASE Judged(p, s)
                <5> DEFINE d == [dl[p] EXCEPT !.failed = "none", !.culprit = "", !.state = s,
                                              !.open = FALSE]
                <5>1. dl'[p] = d
                    BY <3>2, <4>1 DEF Judged
                <5>2. d.open = FALSE
                    BY <3>2 DEF Downloads
                <5> QED
                    BY <3>3, <5>1, <5>2, Zenon
            <4>2. CASE dl' = [dl EXCEPT ![p].state = s, ![p].open = FALSE]
                <5> DEFINE d == [dl[p] EXCEPT !.state = s, !.open = FALSE]
                <5>1. dl'[p] = d
                    BY <3>2, <4>2
                <5>2. d.open = FALSE
                    BY <3>2 DEF Downloads
                <5> QED
                    BY <3>3, <5>1, <5>2, Zenon
            <4> QED
                BY <3>1, <4>1, <4>2
        <3>4. CASE p # o
            BY <3>1, <3>2, <3>4 DEF Judged
        <3> QED
            BY <3>3, <3>4
    <2>3. ASSUME NEW p \in Origins, NEW kind, Fail(p, kind) PROVE dl'[o].open = dl[o].open
        BY <1>0, <2>3 DEF Fail, Downloads
    <2>4. NotAtDownloads => dl' = dl
        BY DownloadsUnchanged
    <2> QED
        BY <2>1, <2>2, <2>3, <2>4, Zenon DEF Next, NotAtDownloads
<1> QED
    BY <1>2, <1>3, <1>4, <1>5

\* While no resume has overtaken the report of a failure: no request goes to a cache host
\* to which a request failed, for its original host or for all, within the last BanInterval.
\* The times of MCCManager are those of the failures that were judged, and the host that is
\* reported is the one that the request went to.
THEOREM BannedHostIsAvoidedHolds == Spec => BannedHostIsAvoided
<1> DEFINE Avoided ==
        \A o \in Origins :
          ~overtaken /\ Begins(o) /\ dl'[o].type = "MCC" => ~Blamed(dl'[o].host, o)
<1>1. ASSUME IInv, Next PROVE Avoided
    <2> SUFFICES ASSUME NEW o \in Origins, ~overtaken, Begins(o), dl'[o].type = "MCC"
                 PROVE  ~Blamed(dl'[o].host, o)
        OBVIOUS
    <2>1. PICK d \in Downloads, type \in {"MCC", "CDN"} : dl'[o] = SendHttpRequest(d, o, type)
        BY <1>1, BeginsBySending
    <2>2. d.host # "" /\ ~IsBanned(d.host, o) /\ dl'[o].host = d.host
        <3>1. SendHttpRequest(d, o, type).type = "MCC" /\ d \in Downloads /\ type \in {"MCC", "CDN"}
            BY <2>1
        <3>2. d.host # "" /\ ~IsBanned(d.host, o) /\ SendHttpRequest(d, o, type).host = d.host
            BY <3>1, SendTyped
        <3> QED
            BY <2>1, <3>2
    <2>3. d.host \in Hosts
        BY <2>2 DEF Downloads
    <2> QED
        BY <1>1, <2>2, <2>3, BannedIsBlamed
<1>2. IInv /\ [Next]_vars => [Avoided]_vars
    BY <1>1
<1> QED
    BY <1>2, Invariant, PTL DEF Spec, BannedHostIsAvoided

\* While no resume has overtaken the report of a failure: a ban is not wider than it.  Where
\* a start or a resume goes to the CDN although there is a cache host, a request to that very
\* host failed, for its original host or for all, and not long ago.
THEOREM BanIsNotTooWideHolds == Spec => BanIsNotTooWide
<1> DEFINE NotTooWide ==
        \A o \in Origins :
          /\ ~overtaken /\ Begins(o) /\ dl[o].state # "running"
          /\ dl'[o].allowMcc /\ dl'[o].host # ""
          /\ dl'[o].type = "CDN"
          => Blamed(dl'[o].host, o)
<1>1. ASSUME IInv, Next PROVE NotTooWide
    <2> SUFFICES ASSUME NEW o \in Origins, ~overtaken, Begins(o), dl[o].state # "running",
                        dl'[o].allowMcc, dl'[o].host # "", dl'[o].type = "CDN"
                 PROVE  Blamed(dl'[o].host, o)
        OBVIOUS
    <2>1. PICK d \in Downloads, type \in {"MCC", "CDN"} :
            /\ dl'[o] = SendHttpRequest(d, o, type)
            /\ type = "MCC" \/ dl[o].state = "running"
        BY <1>1, BeginsBySending
    <2>2. /\ SendHttpRequest(d, o, type).host = d.host
          /\ SendHttpRequest(d, o, type).allowMcc => d.allowMcc
        <3>1. d \in Downloads /\ type \in {"MCC", "CDN"}
            BY <2>1
        <3> QED
            BY <3>1, SendTyped
    <2>3. type = "MCC" /\ d.allowMcc /\ d.host # "" /\ dl'[o].host = d.host
        BY <2>1, <2>2
    <2>4. SendHttpRequest(d, o, type).type = "CDN"
        BY <2>1
    <2>5. IsBanned(d.host, o)
        BY <2>1, <2>3, <2>4, SendTyped
    <2>6. d.host \in Hosts
        BY <2>3 DEF Downloads
    <2> QED
        BY <1>1, <2>3, <2>5, <2>6, BannedIsBlamed
<1>2. IInv /\ [Next]_vars => [NotTooWide]_vars
    BY <1>1
<1> QED
    BY <1>2, Invariant, PTL DEF Spec, BanIsNotTooWide
=============================================================================
