-------------------------- MODULE AptPluginProofs --------------------------
(***************************************************************************)
(* What a caller of download_url_to_path is told, and what becomes of its  *)
(* download and its file: the invariants of AptPlugin and SdkClient,       *)
(* proved for any ports, retries, starts of the agent and commands.        *)
(***************************************************************************)
EXTENDS AptPlugin, TLAPS

Started == {"start", "first", "poll", "finalize", "abort"}   \* steps with an _id
Resting == {"none", "Created"}                               \* nothing writes its file

\* A request is under way only on a connection that lives, and its answer is for the step
\* that waits for it.
Wire ==
    /\ request # "none" => request = step /\ stage = "wait" /\ answer = NoAnswer /\ Connected
    /\ answer # NoAnswer => stage = "wait" /\ request = "none" /\ answer.code # "none"
    /\ step = "done" => stage = "call"
    /\ stage = "find" => ~Connected
    /\ link <= nth
    /\ agent # "down" => nth # 0

\* A connection is lost only with the agent, and its table with it.
LostWithTable == ~Connected => \A i \in Ids : table[i] = "none"

\* Ids are given out in order and never twice.
IdsInOrder ==
    /\ \A i \in Ids : table[i] # "none" => i <= created
    /\ id <= created /\ answer.id <= created
    /\ \A i \in earlier : i <= created
    /\ \A i \in finalized : i <= created /\ table[i] = "none"
    /\ step = "make" => id = 0
    /\ step \in Started => id # 0 /\ id \notin earlier
    /\ step = "make" /\ answer.code = "ok" => answer.id # 0 /\ answer.id \notin earlier

\* The download of this command is the only one, but for what earlier commands left at rest.
Current == IF step = "make" THEN answer.id ELSE id
OnlyCurrent ==
    /\ \A i \in Ids \ earlier : table[i] # "none" => i = Current
    /\ \A i \in earlier : table[i] \in Resting

\* Before the start is answered, and when the call has ended, nothing is written.
AtRest ==
    /\ step \in {"make", "done"} => \A i \in Ids : table[i] \in Resting
    /\ step = "start" /\ answer.code # "ok" => table[id] \in Resting

\* What an answer says is still so when it arrives, for only the agent's death changes it.
AnswersAreTrue ==
    /\ answer.code = "error" /\ step \in {"first", "poll"} => table[id] = "none"
    /\ answer.code # "none" /\ step \in {"finalize", "abort"} => table[id] = "none"
    /\ answer.code = "ok" /\ step = "finalize" => id \in finalized
    /\ answer.code = "ok" /\ step \in {"first", "poll"} => answer.state # "none"

\* A transfer that was seen to be over stays over.
TransferredStays ==
    /\ step \in {"first", "poll"} /\ answer.state = "Transferred" =>
          table[id] \in {"none", "Transferred"}
    /\ step = "poll" /\ seen = "Transferred" => table[id] \in {"none", "Transferred"}
    /\ step = "finalize" => table[id] \in {"none", "Transferred"}

\* Why a download is aborted
AbortHasReason == step = "abort" => cancelled \/ timedOut \/ seen \in {"Failed", "Paused"}

\* The caller has its result when the call is over.
ResultIsLast ==
    /\ result # "none" => step = "done"
    /\ result \in {"ok", "timed_out", "canceled", "failed"} => id # 0

\* An agent that is up can be found by its port file.
PortIsFound ==
    /\ agent \in {"opened", "up"} => files # <<>>
    /\ agent = "up" => files[Len(files)] = port
    /\ steady => agent = "up"

\* The plugin neither pauses nor cancels.
PluginIsPlain ==
    caller = "apt" =>
        /\ ~cancelled
        /\ "Paused" \notin {seen, answer.state}
        /\ \A i \in Ids : table[i] # "Paused"

\* A file is whole when its transfer is over, unless it was never there.
WholeWhenTransferred ==
    /\ \A i \in Ids : table[i] = "Transferred" => temp # "partial"
    /\ answer.code = "ok" /\ step = "finalize" => temp # "partial"
    /\ caller = "apt" /\ result = "ok" => temp # "partial"

\* The plugin between two calls
BetweenCalls ==
    /\ phase # "calling" => caller = "apt" /\ step \in {"make", "done"} /\ stage = "call"
    /\ caller = "apt" =>
        /\ phase # "calling" => temp = "none"
        /\ phase = "hashing" => dest = "whole"
        /\ dest # "none" => dest = "whole"
        /\ acquires = Len(replies) + (IF phase \in {"calling", "hashing"} THEN 1 ELSE 0)

IInv ==
    /\ AptTypeOK
    /\ Wire
    /\ LostWithTable
    /\ IdsInOrder
    /\ OnlyCurrent
    /\ AtRest
    /\ AnswersAreTrue
    /\ TransferredStays
    /\ AbortHasReason
    /\ ResultIsLast
    /\ PortIsFound
    /\ PluginIsPlain
    /\ WholeWhenTransferred
    /\ BetweenCalls
    /\ OkIsEarned
    /\ EndedIsForgotten

-----------------------------------------------------------------------------
(* The agent *)

\* The file stays as it is when the table does.
LEMMA FileRests ==
    ASSUME FileFollows, table' = table, ~StartFails
    PROVE  temp' = temp
<1>1. \A from, to : Becomes(from, to) => \E i \in Ids : table[i] \in from /\ table[i] = to
    BY DEF Becomes
<1>2. ~Becomes({"Created"}, "Transferring") /\ ~Becomes({"Transferring"}, "Transferred")
    BY <1>1
<1>3. ~Becomes(States \ {"Created"}, "none")
    BY <1>1 DEF States
<1> QED
    BY <1>2, <1>3 DEF FileFollows

\* A port file is written where it was opened.
LEMMA PortFileWritten ==
    ASSUME NEW S, NEW q \in Seq(S), q # <<>>, NEW p \in S
    PROVE  /\ [q EXCEPT ![Len(q)] = p] \in Seq(S)
           /\ [q EXCEPT ![Len(q)] = p] # <<>>
           /\ LET r == [q EXCEPT ![Len(q)] = p] IN r[Len(r)] = p
OBVIOUS

\* The _id of a step that has one, and of the answer to make
LEMMA IdTyped ==
    ASSUME AptTypeOK, IdsInOrder
    PROVE  /\ step \in Started => id \in Ids
           /\ result \in {"ok", "timed_out", "canceled", "failed"} /\ ResultIsLast => id \in Ids
           /\ step = "make" /\ answer.code = "ok" => answer.id \in Ids
           /\ created \in 0 .. MaxCreated /\ MaxCreated \in Nat
<1>1. /\ id \in 0 .. MaxCreated /\ created \in 0 .. MaxCreated /\ answer.id \in Ids \cup {0}
      /\ MaxCreated \in Nat
    BY SdkClientAssumption DEF AptTypeOK, TypeOK, Answers
<1> QED
    BY <1>1 DEF IdsInOrder, ResultIsLast, Ids

\* The agent starts: it listens, removes old port files and writes its own.
LEMMA BootInductive ==
    ASSUME IInv, Boot, FileFollows, UNCHANGED pluginVars
    PROVE  IInv'
<1> USE DEF IInv, tableVars, wireVars, clientVars, flagVars, pluginVars
<1>1. /\ UNCHANGED <<tableVars, wireVars, clientVars, flagVars, steady, pluginVars>>
    BY DEF Boot, StartListening, DeleteOlderPortFiles, OpenPortFile, WritePort
<1>2. temp' = temp
    BY <1>1, FileRests DEF StartFails
<1>3. /\ agent' \in {"listening", "cleaned", "opened", "up"} /\ nth' \in 0 .. MaxStarts
      /\ port' \in Ports /\ files' \in Seq(Ports \cup OldPorts \cup {0})
      /\ agent' \in {"opened", "up"} => files' # <<>>
      /\ agent' = "up" => files'[Len(files')] = port'
      /\ agent # "up"
    <2> DEFINE S == Ports \cup OldPorts \cup {0}
    <2>0. /\ files \in Seq(S) /\ port \in Ports /\ nth \in 0 .. MaxStarts
          /\ agent = "opened" => files # <<>>
        BY DEF AptTypeOK, TypeOK, PortIsFound
    <2> HIDE DEF S
    <2>1. CASE StartListening
        <3>1. nth' \in 0 .. MaxStarts
            BY <2>0, <2>1, SdkClientAssumption DEF StartListening
        <3> QED
            BY <2>0, <2>1, <3>1 DEF StartListening, S
    <2>2. CASE DeleteOlderPortFiles
        <3>1. files' \in Seq(S)
            <4>1. <<>> \in Seq(S)
                OBVIOUS
            <4>2. files' = <<>> \/ files' = files
                BY <2>2 DEF DeleteOlderPortFiles
            <4> QED
                BY <2>0, <4>1, <4>2
        <3>2. agent' = "cleaned" /\ UNCHANGED <<nth, port>> /\ agent # "up"
            BY <2>2 DEF DeleteOlderPortFiles
        <3> QED
            BY <2>0, <3>1, <3>2 DEF S
    <2>3. CASE OpenPortFile
        <3>1. 0 \in S
            BY DEF S
        <3> QED
            BY <2>0, <2>3, <3>1 DEF OpenPortFile, S
    <2>4. CASE WritePort
        <3>1. port \in S
            BY <2>0 DEF S
        <3> QED
            BY <2>0, <2>4, <3>1, PortFileWritten DEF WritePort, S
    <2> QED
        BY <2>1, <2>2, <2>3, <2>4 DEF Boot
<1>4. AptTypeOK' /\ PortIsFound'
    BY <1>1, <1>2, <1>3 DEF AptTypeOK, TypeOK, PortIsFound
<1>5. (Connected => Connected') /\ (Connected' => Connected) /\ nth' >= nth /\ nth' # 0
    BY <1>3 DEF Connected, Boot, StartListening, DeleteOlderPortFiles, OpenPortFile, WritePort,
        Wire, AptTypeOK, TypeOK
<1>6. Wire' /\ LostWithTable'
    BY <1>1, <1>3, <1>5 DEF Wire, LostWithTable, AptTypeOK, TypeOK
<1>7. (IdsInOrder /\ OnlyCurrent /\ AtRest /\ AnswersAreTrue)'
    BY <1>1 DEF IdsInOrder, OnlyCurrent, Current, AtRest, AnswersAreTrue
<1>8. (TransferredStays /\ AbortHasReason /\ ResultIsLast /\ PluginIsPlain)'
    BY <1>1 DEF TransferredStays, AbortHasReason, ResultIsLast, PluginIsPlain
<1>9. (WholeWhenTransferred /\ BetweenCalls /\ OkIsEarned /\ EndedIsForgotten)'
    BY <1>1, <1>2 DEF WholeWhenTransferred, BetweenCalls, OkIsEarned, EndedIsForgotten
<1> QED
    BY <1>4, <1>6, <1>7, <1>8, <1>9

\* The agent dies: its downloads are forgotten, their files stay.
LEMMA DieInductive ==
    ASSUME IInv, Die, FileFollows, UNCHANGED pluginVars
    PROVE  IInv'
<1> USE DEF IInv, tableVars, wireVars, clientVars, flagVars, pluginVars
<1>1. /\ agent' = "down" /\ table' = [i \in Ids |-> "none"] /\ request' = "none" /\ ~steady'
      /\ answer' = answer \/ answer' = NoAnswer
      /\ UNCHANGED <<nth, port, files, created, finalized, clientVars, flagVars, pluginVars>>
    BY DEF Die
<1>2. temp' = temp
    <2>1. ~Becomes({"Created"}, "Transferring") /\ ~Becomes({"Transferring"}, "Transferred")
        BY <1>1 DEF Becomes
    <2> QED
        BY <1>1, <2>1 DEF FileFollows
<1>3. AptTypeOK' /\ PortIsFound'
    <2>1. steady' \in BOOLEAN /\ table' \in [Ids -> States \cup {"none"}]
        BY <1>1 DEF Die
    <2>2. answer' \in Answers
        BY <1>1 DEF AptTypeOK, TypeOK, NoAnswer, Answers
    <2> QED
        BY <1>1, <1>2, <2>1, <2>2 DEF AptTypeOK, TypeOK, PortIsFound
<1>4. ~Connected' /\ (answer' # NoAnswer => answer' = answer)
    BY <1>1 DEF Connected
<1>5. Wire' /\ LostWithTable'
    BY <1>1, <1>4 DEF Wire, LostWithTable
<1>6. NoAnswer.id = 0 /\ NoAnswer.code = "none" /\ NoAnswer.state = "none"
    BY DEF NoAnswer
<1>7. created \in Nat /\ finalized \subseteq Ids /\ \A i \in Ids : table'[i] = "none"
    BY <1>1, IdTyped DEF AptTypeOK, TypeOK
<1>8. (IdsInOrder /\ OnlyCurrent)'
    BY <1>1, <1>4, <1>6, <1>7 DEF IdsInOrder, OnlyCurrent, Resting, AptTypeOK
<1>9. (AtRest /\ AnswersAreTrue /\ TransferredStays)'
    BY <1>1, <1>4, <1>6, <1>7, IdTyped DEF AtRest, AnswersAreTrue, TransferredStays, Resting,
        Started
<1>10. (AbortHasReason /\ ResultIsLast /\ PluginIsPlain)'
    BY <1>1, <1>4, <1>6, <1>7 DEF AbortHasReason, ResultIsLast, PluginIsPlain
<1>11. (WholeWhenTransferred /\ BetweenCalls)'
    BY <1>1, <1>2, <1>4, <1>6, <1>7 DEF WholeWhenTransferred, BetweenCalls
<1>12. (OkIsEarned /\ EndedIsForgotten)'
    BY <1>1, <1>7, IdTyped DEF OkIsEarned, EndedIsForgotten
<1> QED
    BY <1>3, <1>5, <1>8, <1>9, <1>10, <1>11, <1>12

\* What writes a file is the download of the call under way.
LEMMA OnlyCurrentWrites ==
    ASSUME IInv, NEW i \in Ids, table[i] \notin Resting
    PROVE  i = id /\ step \in Started /\ result = "none" /\ Connected /\ i <= created
BY DEF IInv, AptTypeOK, TypeOK, OnlyCurrent, Current, AtRest, LostWithTable, IdsInOrder,
    ResultIsLast, Resting, Steps, Started

\* A download goes on, or another thread pauses it.
LEMMA ProgressInductive ==
    ASSUME IInv, Progress \/ (caller = "application" /\ OtherThreadPauses),
           FileFollows, UNCHANGED pluginVars
    PROVE  IInv'
<1> USE DEF IInv, tableVars, wireVars, clientVars, flagVars, pluginVars, agentVars
<1>1. PICK i \in Ids, to \in States \ {"Created"} :
        /\ table[i] \in {"Transferring", "TransientError"} /\ table[i] # to
        /\ to = "Transferred" => table[i] = "Transferring"
        /\ table' = [table EXCEPT ![i] = to]
        /\ to = "Paused" => caller = "application"
        /\ UNCHANGED <<agentVars, created, finalized, wireVars, clientVars, flagVars, steady,
                       pluginVars>>
    BY DEF Progress, OtherThreadPauses, States
<1>2. table \in [Ids -> States \cup {"none"}] /\ temp \in Contents
    BY DEF AptTypeOK, TypeOK
<1>3. i = id /\ step \in Started /\ result = "none" /\ Connected /\ i <= created
    BY <1>1, OnlyCurrentWrites DEF Resting
<1>4. table[i] \in States /\ to \in States /\ table'[i] = to /\ i \notin finalized
      /\ \A j \in Ids : j # i => table'[j] = table[j]
    BY <1>1, <1>2 DEF States, IdsInOrder
<1>5. /\ to = "Transferred" => temp' # "partial"
      /\ temp' \in {temp, "whole"}
    <2>1. ~Becomes({"Created"}, "Transferring") /\ ~Becomes(States \ {"Created"}, "none")
        BY <1>1, <1>4 DEF Becomes, States
    <2>2. ~StartFails
        BY <1>1 DEF StartFails
    <2>3. CASE Becomes({"Transferring"}, "Transferred")
        BY <2>1, <2>3 DEF FileFollows
    <2>4. CASE ~Becomes({"Transferring"}, "Transferred")
        <3>1. temp' = temp
            BY <2>1, <2>2, <2>4 DEF FileFollows
        <3>2. to # "Transferred"
            BY <1>1, <1>4, <2>4 DEF Becomes
        <3> QED
            BY <3>1, <3>2
    <2> QED
        BY <2>3, <2>4
<1>6. AptTypeOK'
    <2>1. table' \in [Ids -> States \cup {"none"}]
        BY <1>1, <1>2, <1>4
    <2>2. temp' \in Contents
        BY <1>2, <1>5 DEF Contents
    <2> QED
        BY <1>1, <2>1, <2>2 DEF AptTypeOK, TypeOK
<1>7. (Wire /\ LostWithTable /\ PortIsFound)'
    BY <1>1, <1>3 DEF Wire, LostWithTable, PortIsFound, Connected
<1>8. IdsInOrder'
    BY <1>1, <1>3, <1>4 DEF IdsInOrder, AptTypeOK, TypeOK
<1>9. (OnlyCurrent /\ AtRest /\ AnswersAreTrue /\ TransferredStays)'
    <2>1. i \notin earlier
        BY <1>1 DEF OnlyCurrent, Resting
    <2>2. OnlyCurrent'
        BY <1>1, <1>3, <1>4, <2>1 DEF OnlyCurrent, Current, AptTypeOK, Started
    <2>3. (AtRest /\ AnswersAreTrue /\ TransferredStays)'
        BY <1>1, <1>3, <1>4 DEF AtRest, AnswersAreTrue, TransferredStays, Resting, Started
    <2> QED
        BY <2>2, <2>3
<1>10. (AbortHasReason /\ ResultIsLast)'
    BY <1>1 DEF AbortHasReason, ResultIsLast
<1>11. PluginIsPlain'
    BY <1>1, <1>4 DEF PluginIsPlain
<1>12. WholeWhenTransferred'
    BY <1>1, <1>3, <1>4, <1>5 DEF WholeWhenTransferred, AnswersAreTrue, Started
<1>13. BetweenCalls'
    BY <1>1, <1>3 DEF BetweenCalls, Started
<1>14. (OkIsEarned /\ EndedIsForgotten)'
    BY <1>1, <1>3 DEF OkIsEarned, EndedIsForgotten
<1> QED
    BY <1>6, <1>7, <1>8, <1>9, <1>10, <1>11, <1>12, <1>13, <1>14

\* What the agent answers, and what it changes for it
MakeServed ==
    /\ step = "make" /\ created < MaxCreated
    /\ created' = created + 1
    /\ table' = [table EXCEPT ![created + 1] = "Created"]
    /\ answer' = [code |-> "ok", id |-> created + 1, state |-> "Created"]
    /\ UNCHANGED <<finalized, temp>>

Refused ==
    /\ step \in {"make", "start"} \/ table[id] = "none"
       \/ (step = "finalize" /\ table[id] # "Transferred")
    /\ answer' = [code |-> "error", id |-> 0, state |-> "none"]
    /\ temp' = temp \/ (step = "start" /\ table[id] = "Created" /\ temp' = "partial")
    /\ UNCHANGED <<table, created, finalized>>

StartServed ==
    /\ step = "start" /\ table[id] # "none"
    /\ table' = [table EXCEPT ![id] = "Transferring"]
    /\ answer' = [code |-> "ok", id |-> id, state |-> "Transferring"]
    /\ temp' = "partial"
    /\ UNCHANGED <<created, finalized>>

StatusServed ==
    /\ step \in {"first", "poll"} /\ table[id] # "none"
    /\ answer' = [code |-> "ok", id |-> id, state |-> table[id]]
    /\ UNCHANGED <<table, created, finalized, temp>>

FinalizeServed ==
    /\ step = "finalize" /\ table[id] = "Transferred"
    /\ table' = [table EXCEPT ![id] = "none"]
    /\ finalized' = finalized \cup {id}
    /\ answer' = [code |-> "ok", id |-> id, state |-> "none"]
    /\ UNCHANGED <<created, temp>>

AbortServed ==
    /\ step = "abort" /\ table[id] # "none"
    /\ table' = [table EXCEPT ![id] = "none"]
    /\ answer' = [code |-> "ok", id |-> id, state |-> "none"]
    /\ temp' \in {temp, "none"}
    /\ UNCHANGED <<created, finalized>>

ServeFrame ==
    /\ request = step /\ request' = "none"
    /\ stage = "wait" /\ step # "done" /\ result = "none" /\ phase = "calling"
    /\ answer = NoAnswer /\ Connected
    /\ UNCHANGED <<agentVars, clientVars, flagVars, steady, pluginVars>>

LEMMA ServeCases ==
    ASSUME IInv, Serve, FileFollows, UNCHANGED pluginVars
    PROVE  /\ ServeFrame
           /\ \/ MakeServed \/ Refused \/ StartServed \/ StatusServed
              \/ FinalizeServed \/ AbortServed
<1> USE DEF IInv
<1>1. ServeFrame
    <2>1. /\ request # "none"
          /\ UNCHANGED <<agentVars, clientVars, flagVars, steady, pluginVars>>
        BY DEF Serve
    <2>2. request = step /\ stage = "wait" /\ answer = NoAnswer /\ Connected /\ step # "done"
        BY <2>1 DEF Wire
    <2>3. step = "make" \/ step \in {"start", "first", "poll", "finalize", "abort"}
        BY <2>2 DEF AptTypeOK, TypeOK, Steps
    <2>4. request' = "none"
        BY <2>2, <2>3 DEF Serve, ServeKnown, Accept, Refuse, Respond
    <2> QED
        BY <2>1, <2>2, <2>4 DEF ServeFrame, ResultIsLast, BetweenCalls
<1>2. table \in [Ids -> States \cup {"none"}] /\ created \in 0 .. MaxCreated
    BY DEF AptTypeOK, TypeOK
<1>3. agent' # "down" /\ agent' = agent
    BY <1>1 DEF ServeFrame, agentVars, Connected
<1>4. CASE step = "make"
    <2>1. CASE created < MaxCreated /\ created' = created + 1
               /\ Accept(created + 1, "Created") /\ UNCHANGED finalized
        <3>1. table[created + 1] = "none" /\ created + 1 \in Ids
            BY <1>2, <2>1, SdkClientAssumption DEF IdsInOrder, Ids
        <3>2. table'[created + 1] = "Created"
              /\ \A j \in Ids : j # created + 1 => table'[j] = table[j]
            BY <1>2, <2>1, <3>1 DEF Accept
        <3>3. /\ ~Becomes({"Created"}, "Transferring")
              /\ ~Becomes({"Transferring"}, "Transferred")
              /\ ~Becomes(States \ {"Created"}, "none")
            BY <3>1, <3>2 DEF Becomes, States
        <3>4. temp' = temp
            BY <1>1, <1>3, <1>4, <3>3 DEF FileFollows, StartFails, ServeFrame
        <3> QED
            BY <1>1, <1>4, <2>1, <3>4 DEF MakeServed, Accept, Respond
    <2>2. CASE Refuse /\ UNCHANGED created
        <3>1. temp' = temp
            BY <1>1, <1>4, <2>2, FileRests DEF Refuse, StartFails, ServeFrame
        <3> QED
            BY <1>1, <1>4, <2>2, <3>1 DEF Refused, Refuse, Respond
    <2> QED
        BY <1>1, <1>4, <2>1, <2>2 DEF Serve, ServeFrame
<1>5. CASE step # "make"
    <2>0. step \in Started /\ id \in Ids
        BY <1>1, <1>5, IdTyped DEF ServeFrame, AptTypeOK, TypeOK, Steps, Started
    <2>1. created' = created
        BY <1>1, <1>5 DEF Serve, ServeFrame
    <2>2. \/ table[id] = "none" /\ Refuse
          \/ table[id] # "none" /\ ServeKnown
        BY <1>1, <1>5 DEF Serve, ServeFrame
    <2>3. ASSUME Refuse, step = "start" \/ table[id] = "none"
                         \/ (step = "finalize" /\ table[id] # "Transferred")
          PROVE  Refused
        <3>1. temp' = temp \/ (StartFails /\ temp' \in {temp, "partial"})
            <4>1. CASE ~StartFails
                BY <2>3, <4>1, FileRests DEF Refuse
            <4>2. CASE StartFails
                <5>1. /\ ~Becomes({"Created"}, "Transferring")
                      /\ ~Becomes({"Transferring"}, "Transferred")
                      /\ ~Becomes(States \ {"Created"}, "none")
                    BY <2>3 DEF Refuse, Becomes, States
                <5> QED
                    BY <1>3, <4>2, <5>1 DEF FileFollows
            <4> QED
                BY <4>1, <4>2
        <3>2. temp' = temp \/ (step = "start" /\ table[id] = "Created" /\ temp' = "partial")
            BY <1>1, <3>1 DEF StartFails, ServeFrame
        <3> QED
            BY <2>1, <2>3, <3>2 DEF Refused, Refuse, Respond
    <2>4. ASSUME NEW to, table' = [table EXCEPT ![id] = to]
          PROVE  /\ table'[id] = to /\ \A j \in Ids : j # id => table'[j] = table[j]
        BY <1>2, <2>0, <2>4
    <2>5. CASE Refuse /\ step = "start"
        BY <1>1, <2>3, <2>5
    <2>6. CASE step = "start" /\ table[id] # "none" /\ Accept(id, "Transferring")
               /\ UNCHANGED finalized
        <3>1. table[id] = "Created" /\ id \notin finalized
            BY <1>1, <2>0, <2>6 DEF AtRest, Resting, ServeFrame, NoAnswer, IdsInOrder
        <3>2. Becomes({"Created"}, "Transferring")
            BY <2>0, <2>4, <2>6, <3>1 DEF Becomes, Accept
        <3>3. temp' = "partial"
            BY <3>2 DEF FileFollows
        <3> QED
            BY <1>1, <2>1, <2>6, <3>3 DEF StartServed, Accept, Respond
    <2>7. CASE step \in {"first", "poll"} /\ table[id] # "none"
               /\ Respond("ok", id, table[id]) /\ UNCHANGED <<table, finalized>>
        <3>1. temp' = temp
            BY <1>1, <2>7, FileRests DEF StartFails, ServeFrame
        <3> QED
            BY <1>1, <2>1, <2>7, <3>1 DEF StatusServed, Respond
    <2>8. CASE step = "finalize" /\ table[id] = "Transferred" /\ Accept(id, "none")
               /\ finalized' = finalized \cup {id}
        <3>1. /\ ~Becomes({"Created"}, "Transferring")
              /\ ~Becomes({"Transferring"}, "Transferred")
              /\ ~Becomes(States \ {"Created"}, "none")
            BY <1>2, <2>0, <2>8 DEF Becomes, States, Accept
        <3>2. temp' = temp
            BY <1>1, <1>3, <2>8, <3>1 DEF FileFollows, StartFails, ServeFrame
        <3> QED
            BY <1>1, <2>1, <2>8, <3>2 DEF FinalizeServed, Accept, Respond
    <2>9. CASE step = "abort" /\ table[id] # "none" /\ Accept(id, "none") /\ UNCHANGED finalized
        <3>1. /\ ~Becomes({"Created"}, "Transferring")
              /\ ~Becomes({"Transferring"}, "Transferred")
            BY <1>2, <2>0, <2>9 DEF Becomes, Accept
        <3>2. temp' \in {temp, "none"}
            BY <1>1, <1>3, <2>9, <3>1 DEF FileFollows, StartFails, ServeFrame
        <3> QED
            BY <1>1, <2>1, <2>9, <3>2 DEF AbortServed, Accept, Respond
    <2>10. CASE table[id] # "none" /\ ServeKnown
        <3>1. request = step /\ step \in {"start", "first", "poll", "finalize", "abort"}
            BY <1>1, <2>0 DEF ServeFrame, Started
        <3>2. \/ step = "start" /\ (Refuse \/ (Accept(id, "Transferring") /\ UNCHANGED finalized))
              \/ /\ step \in {"first", "poll"}
                 /\ Respond("ok", id, table[id]) /\ UNCHANGED <<table, finalized>>
              \/ /\ step = "finalize" /\ table[id] = "Transferred"
                 /\ Accept(id, "none") /\ finalized' = finalized \cup {id}
              \/ step = "finalize" /\ table[id] # "Transferred" /\ Refuse
              \/ step = "abort" /\ Accept(id, "none") /\ UNCHANGED finalized
            BY <2>10, <3>1 DEF ServeKnown
        <3> QED
            BY <2>10, <2>3, <2>5, <2>6, <2>7, <2>8, <2>9, <3>2, <1>1
    <2> QED
        BY <1>1, <2>2, <2>3, <2>10
<1> QED
    BY <1>4, <1>5

\* Facts of the state in which the agent answers
LEMMA ServeState ==
    ASSUME IInv, ServeFrame
    PROVE  /\ table \in [Ids -> States \cup {"none"}] /\ temp \in Contents
           /\ created \in 0 .. MaxCreated /\ MaxCreated \in Nat /\ finalized \subseteq Ids
           /\ step = "make" \/ (step \in Started /\ id \in Ids /\ id <= created)
           /\ answer.code = "none" /\ answer.id = 0 /\ answer.state = "none"
           /\ Connected' /\ request' = "none" /\ result' = "none" /\ stage' = "wait"
           /\ step' = step /\ id' = id /\ phase' = "calling"
           /\ \A i \in Ids \ earlier : table[i] # "none" => i = (IF step = "make" THEN 0 ELSE id)
<1> USE DEF IInv
<1>1. answer.code = "none" /\ answer.id = 0 /\ answer.state = "none"
    BY DEF ServeFrame, NoAnswer
<1>2. \A i \in Ids \ earlier : table[i] # "none" => i = (IF step = "make" THEN 0 ELSE id)
    BY <1>1 DEF OnlyCurrent, Current
<1>3. /\ Connected' /\ request' = "none" /\ result' = "none" /\ stage' = "wait"
      /\ step' = step /\ id' = id /\ phase' = "calling"
    BY DEF ServeFrame, Connected, agentVars, clientVars, pluginVars
<1>4. /\ table \in [Ids -> States \cup {"none"}] /\ temp \in Contents
      /\ created \in 0 .. MaxCreated /\ MaxCreated \in Nat /\ finalized \subseteq Ids
    BY SdkClientAssumption DEF AptTypeOK, TypeOK
<1>5. step = "make" \/ (step \in Started /\ id \in Ids /\ id <= created)
    BY IdTyped DEF ServeFrame, AptTypeOK, TypeOK, Steps, Started, IdsInOrder
<1> QED
    BY <1>1, <1>2, <1>3, <1>4, <1>5

\* What no answer touches
LEMMA ServeKeeps ==
    ASSUME IInv, ServeFrame, answer' \in Answers, answer'.code # "none",
           table' \in [Ids -> States \cup {"none"}], temp' \in Contents,
           created' \in 0 .. MaxCreated, finalized' \subseteq Ids
    PROVE  /\ (AptTypeOK /\ Wire /\ LostWithTable /\ PortIsFound)'
           /\ (AbortHasReason /\ ResultIsLast /\ BetweenCalls /\ OkIsEarned)'
           /\ EndedIsForgotten'
<1> USE DEF IInv, agentVars, clientVars, flagVars, pluginVars
<1>1. /\ UNCHANGED <<agentVars, clientVars, flagVars, steady, pluginVars>>
      /\ request' = "none" /\ stage = "wait" /\ result = "none" /\ phase = "calling"
      /\ Connected' /\ step # "done"
    BY ServeState DEF ServeFrame
<1>2. AptTypeOK'
    BY <1>1 DEF AptTypeOK, TypeOK, Steps
<1>3. Wire'
    BY <1>1 DEF Wire
<1>4. LostWithTable' /\ PortIsFound'
    BY <1>1 DEF LostWithTable, PortIsFound
<1>5. (AbortHasReason /\ ResultIsLast /\ OkIsEarned /\ EndedIsForgotten)'
    BY <1>1 DEF AbortHasReason, ResultIsLast, OkIsEarned, EndedIsForgotten
<1>6. BetweenCalls'
    BY <1>1 DEF BetweenCalls
<1> QED
    BY <1>2, <1>3, <1>4, <1>5, <1>6

LEMMA MakeInductive ==
    ASSUME IInv, ServeFrame, MakeServed
    PROVE  IInv'
<1> USE DEF IInv, agentVars, clientVars, flagVars, pluginVars
<1> DEFINE n == created + 1
<1>0. UNCHANGED <<agentVars, clientVars, flagVars, steady, pluginVars>> /\ step = "make"
    BY DEF ServeFrame, MakeServed
<1>1. /\ n \in Ids /\ table[n] = "none" /\ table'[n] = "Created" /\ created' = n
      /\ \A j \in Ids : j # n => table'[j] = table[j]
      /\ answer'.code = "ok" /\ answer'.id = n /\ answer'.state = "Created"
      /\ UNCHANGED <<finalized, temp>>
    BY ServeState DEF MakeServed, Ids, IdsInOrder
<1>2. /\ answer' \in Answers /\ created' \in 0 .. MaxCreated
      /\ table' \in [Ids -> States \cup {"none"}]
    BY <1>1, ServeState DEF MakeServed, Answers, States, Ids
<1>3. \A j \in Ids \ earlier : table[j] = "none"
    BY <1>0, ServeState DEF Ids
<1>4. n \notin earlier /\ n \notin finalized
    BY ServeState DEF IdsInOrder
<1>5. IdsInOrder'
    <2>1. id \in Nat /\ \A i \in earlier \cup finalized : i \in Nat
        BY DEF AptTypeOK, TypeOK, Ids
    <2>2. \A i \in Ids : table'[i] # "none" => i <= created'
        BY <1>1, ServeState DEF IdsInOrder, Ids
    <2>3. \A i \in finalized' : i <= created' /\ table'[i] = "none"
        BY <1>1, <1>4, <2>1, ServeState DEF IdsInOrder
    <2> QED
        BY <1>0, <1>1, <2>1, <2>2, <2>3, ServeState DEF IdsInOrder, Started, Ids
<1>6. OnlyCurrent'
    BY <1>0, <1>1, <1>3, <1>4 DEF OnlyCurrent, Current, AptTypeOK
<1>7. AtRest'
    BY <1>0, <1>1 DEF AtRest, Resting
<1>8. (AnswersAreTrue /\ TransferredStays)'
    BY <1>0 DEF AnswersAreTrue, TransferredStays
<1>9. (PluginIsPlain /\ WholeWhenTransferred)'
    <2>1. \A j \in Ids : table'[j] = table[j] \/ table'[j] = "Created"
        BY <1>1
    <2> QED
        BY <1>0, <1>1, <2>1 DEF PluginIsPlain, WholeWhenTransferred
<1> QED
    BY <1>1, <1>2, <1>5, <1>6, <1>7, <1>8, <1>9, ServeKeeps, ServeState

LEMMA RefusedInductive ==
    ASSUME IInv, ServeFrame, Refused
    PROVE  IInv'
<1> USE DEF IInv, agentVars, clientVars, flagVars, pluginVars
<1>0. /\ UNCHANGED <<agentVars, clientVars, flagVars, steady, pluginVars>>
      /\ answer'.code = "error" /\ answer'.id = 0 /\ answer'.state = "none"
      /\ UNCHANGED <<table, created, finalized>>
      /\ step \in {"make", "start"} \/ table[id] = "none"
         \/ (step = "finalize" /\ table[id] # "Transferred")
      /\ temp' = temp \/ (step = "start" /\ temp' = "partial")
    BY DEF ServeFrame, Refused
<1>1. answer' \in Answers /\ temp' \in Contents
    BY ServeState DEF Refused, Answers, Contents
<1>2. (IdsInOrder /\ OnlyCurrent /\ AtRest)'
    BY <1>0, ServeState DEF IdsInOrder, OnlyCurrent, Current, AtRest
<1>3. AnswersAreTrue' /\ TransferredStays'
    BY <1>0, ServeState DEF AnswersAreTrue, TransferredStays
<1>4. PluginIsPlain'
    BY <1>0 DEF PluginIsPlain
<1>5. WholeWhenTransferred'
    <2>1. ASSUME step = "start", NEW i \in Ids PROVE table[i] # "Transferred"
        BY <2>1, ServeState DEF AtRest, OnlyCurrent, Resting
    <2> QED
        BY <1>0, <2>1, ServeState DEF WholeWhenTransferred
<1> QED
    BY <1>0, <1>1, <1>2, <1>3, <1>4, <1>5, ServeKeeps, ServeState

LEMMA StartInductive ==
    ASSUME IInv, ServeFrame, StartServed
    PROVE  IInv'
<1> USE DEF IInv, agentVars, clientVars, flagVars, pluginVars
<1>0. /\ UNCHANGED <<agentVars, clientVars, flagVars, steady, pluginVars>> /\ step = "start"
      /\ answer'.code = "ok" /\ answer'.id = id /\ answer'.state = "Transferring"
      /\ UNCHANGED <<created, finalized>> /\ temp' = "partial"
    BY DEF ServeFrame, StartServed
<1>1. /\ id \in Ids /\ table[id] # "none" /\ table'[id] = "Transferring"
      /\ \A j \in Ids : j # id => table'[j] = table[j]
    BY <1>0, ServeState DEF StartServed, Started
<1>2. \A j \in Ids : table[j] \in Resting
    BY <1>0, <1>1, ServeState DEF AtRest, OnlyCurrent, Resting
<1>3. /\ answer' \in Answers /\ temp' \in Contents
      /\ table' \in [Ids -> States \cup {"none"}]
    BY <1>0, <1>1, ServeState DEF StartServed, Answers, States, Contents
<1>4. IdsInOrder'
    BY <1>0, <1>1, ServeState DEF IdsInOrder, Started
<1>5. id \notin earlier
    BY <1>0 DEF IdsInOrder, Started
<1>6. (OnlyCurrent /\ AtRest /\ AnswersAreTrue /\ TransferredStays)'
    <2>1. earlier \subseteq Ids
        BY DEF AptTypeOK
    <2>2. OnlyCurrent'
        BY <1>0, <1>1, <1>5, <2>1 DEF OnlyCurrent, Current
    <2> QED
        BY <1>0, <2>2 DEF AtRest, AnswersAreTrue, TransferredStays
<1>7. PluginIsPlain' /\ WholeWhenTransferred'
    BY <1>0, <1>1, <1>2, ServeState DEF PluginIsPlain, WholeWhenTransferred, Resting
<1> QED
    BY <1>0, <1>3, <1>4, <1>6, <1>7, ServeKeeps, ServeState

LEMMA StatusInductive ==
    ASSUME IInv, ServeFrame, StatusServed
    PROVE  IInv'
<1> USE DEF IInv, agentVars, clientVars, flagVars, pluginVars
<1>0. /\ UNCHANGED <<agentVars, clientVars, flagVars, steady, pluginVars>>
      /\ step \in {"first", "poll"} /\ table[id] # "none"
      /\ answer'.code = "ok" /\ answer'.id = id /\ answer'.state = table[id]
      /\ UNCHANGED <<table, created, finalized, temp>>
    BY DEF ServeFrame, StatusServed
<1>1. id \in Ids /\ table[id] \in States
    BY <1>0, ServeState
<1>2. answer' \in Answers /\ temp' \in Contents
    BY <1>0, <1>1, ServeState DEF StatusServed, Answers
<1>3. (IdsInOrder /\ OnlyCurrent /\ AtRest)'
    BY <1>0, ServeState DEF IdsInOrder, OnlyCurrent, Current, AtRest
<1>4. (AnswersAreTrue /\ TransferredStays)'
    BY <1>0, <1>1 DEF AnswersAreTrue, TransferredStays
<1>5. PluginIsPlain' /\ WholeWhenTransferred'
    BY <1>0, <1>1 DEF PluginIsPlain, WholeWhenTransferred
<1> QED
    BY <1>0, <1>2, <1>3, <1>4, <1>5, ServeKeeps, ServeState

LEMMA FinalizeInductive ==
    ASSUME IInv, ServeFrame, FinalizeServed
    PROVE  IInv'
<1> USE DEF IInv, agentVars, clientVars, flagVars, pluginVars
<1>0. /\ UNCHANGED <<agentVars, clientVars, flagVars, steady, pluginVars>> /\ step = "finalize"
      /\ answer'.code = "ok" /\ answer'.id = id /\ answer'.state = "none"
      /\ UNCHANGED <<created, temp>> /\ finalized' = finalized \cup {id}
    BY DEF ServeFrame, FinalizeServed
<1>1. /\ id \in Ids /\ table[id] = "Transferred" /\ table'[id] = "none"
      /\ \A j \in Ids : j # id => table'[j] = table[j]
    BY <1>0, ServeState DEF FinalizeServed
<1>2. /\ answer' \in Answers /\ finalized' \subseteq Ids
      /\ table' \in [Ids -> States \cup {"none"}]
    BY <1>0, <1>1, ServeState DEF FinalizeServed, Answers
<1>3. IdsInOrder'
    BY <1>0, <1>1, <1>2, ServeState DEF IdsInOrder
<1>4. OnlyCurrent'
    BY <1>0, <1>1 DEF OnlyCurrent, Current, Resting, AptTypeOK
<1>5. (AtRest /\ AnswersAreTrue /\ TransferredStays)'
    BY <1>0, <1>1 DEF AtRest, AnswersAreTrue, TransferredStays
<1>6. PluginIsPlain' /\ WholeWhenTransferred'
    BY <1>0, <1>1 DEF PluginIsPlain, WholeWhenTransferred
<1> QED
    BY <1>0, <1>2, <1>3, <1>4, <1>5, <1>6, ServeKeeps, ServeState

LEMMA AbortInductive ==
    ASSUME IInv, ServeFrame, AbortServed
    PROVE  IInv'
<1> USE DEF IInv, agentVars, clientVars, flagVars, pluginVars
<1>0. /\ UNCHANGED <<agentVars, clientVars, flagVars, steady, pluginVars>> /\ step = "abort"
      /\ answer'.code = "ok" /\ answer'.id = id /\ answer'.state = "none"
      /\ UNCHANGED <<created, finalized>> /\ temp' \in {temp, "none"}
    BY DEF ServeFrame, AbortServed
<1>1. /\ id \in Ids /\ table'[id] = "none"
      /\ \A j \in Ids : j # id => table'[j] = table[j]
    BY <1>0, ServeState DEF AbortServed
<1>2. /\ answer' \in Answers /\ temp' \in Contents
      /\ table' \in [Ids -> States \cup {"none"}]
    BY <1>0, <1>1, ServeState DEF AbortServed, Answers, Contents
<1>3. IdsInOrder'
    BY <1>0, <1>1, ServeState DEF IdsInOrder
<1>4. OnlyCurrent'
    BY <1>0, <1>1 DEF OnlyCurrent, Current, Resting, AptTypeOK
<1>5. (AtRest /\ AnswersAreTrue /\ TransferredStays)'
    BY <1>0, <1>1 DEF AtRest, AnswersAreTrue, TransferredStays
<1>6. PluginIsPlain' /\ WholeWhenTransferred'
    BY <1>0, <1>1, ServeState DEF PluginIsPlain, WholeWhenTransferred
<1> QED
    BY <1>0, <1>2, <1>3, <1>4, <1>5, <1>6, ServeKeeps, ServeState

\* The agent answers a request.
LEMMA ServeInductive ==
    ASSUME IInv, Serve, FileFollows, UNCHANGED pluginVars
    PROVE  IInv'
BY ServeCases, MakeInductive, RefusedInductive, StartInductive, StatusInductive,
    FinalizeInductive, AbortInductive

-----------------------------------------------------------------------------
(* The client *)

Environment == <<agentVars, tableVars, flagVars, pluginVars, temp>>

\* The next SDK call
LEMMA Proceeds ==
    ASSUME NEW next, Proceed(next)
    PROVE  /\ step' = next /\ stage' = "call" /\ mayRetry' \in BOOLEAN
           /\ steady' \in BOOLEAN /\ (steady' => agent = "up")
BY DEF Proceed

\* What the steps of the client have in common
LEMMA ClientKeeps ==
    ASSUME IInv, phase = "calling", UNCHANGED Environment,
           link' = link \/ (link' = nth /\ Connected'),
           answer' = answer \/ answer' = NoAnswer,
           request' = "none" \/ request' = request \/ request' \in Steps,
           step' \in Steps, stage' \in {"call", "find", "wait"},
           mayRetry' \in BOOLEAN, reads' \in 0 .. PortReads, tries' \in 1 .. InitTries,
           id' \in 0 .. MaxCreated, seen' \in {seen, answer.state},
           timedOut' \in BOOLEAN, result' \in Results \cup {"none"},
           steady' \in BOOLEAN, steady' => (agent = "up")
    PROVE  (AptTypeOK /\ LostWithTable /\ PortIsFound /\ PluginIsPlain /\ BetweenCalls)'
<1> USE DEF IInv, Environment, agentVars, tableVars, flagVars, pluginVars
<1>0. /\ answer \in Answers /\ seen \in States \cup {"none"} /\ link \in 0 .. MaxStarts
      /\ nth \in 0 .. MaxStarts /\ request \in Steps \cup {"none"}
    BY DEF AptTypeOK, TypeOK
<1>1. AptTypeOK'
    <2>1. answer' \in Answers
        BY <1>0 DEF NoAnswer, Answers
    <2>2. seen' \in States \cup {"none"}
        BY <1>0 DEF Answers
    <2>3. link' \in 0 .. MaxStarts /\ request' \in Steps \cup {"none"}
        BY <1>0
    <2> QED
        BY <2>1, <2>2, <2>3 DEF AptTypeOK, TypeOK
<1>2. LostWithTable'
    BY DEF LostWithTable, Connected
<1>3. PortIsFound'
    BY DEF PortIsFound
<1>4. PluginIsPlain'
    <2>1. answer'.state \in {answer.state, "none"}
        BY DEF NoAnswer
    <2> QED
        BY <2>1 DEF PluginIsPlain
<1>5. BetweenCalls'
    BY DEF BetweenCalls
<1> QED
    BY <1>1, <1>2, <1>3, <1>4, <1>5

\* Steps within the SDK call: no answer comes or goes, and the program stays where it is.
LEMMA WithinCallInductive ==
    ASSUME IInv, phase = "calling", UNCHANGED Environment,
           UNCHANGED <<step, id, seen, timedOut, result, steady>>, step # "done",
           answer = NoAnswer, answer' = NoAnswer,
           link' = link \/ (link' = nth /\ Connected'),
           request' = "none" \/ (request' = step /\ stage' = "wait" /\ Connected'),
           stage' \in {"call", "find", "wait"}, stage' = "find" => ~Connected',
           mayRetry' \in BOOLEAN, reads' \in 0 .. PortReads, tries' \in 1 .. InitTries
    PROVE  IInv'
<1> USE DEF IInv, Environment, agentVars, tableVars, flagVars, pluginVars
<1>0. /\ step \in Steps /\ id \in 0 .. MaxCreated /\ timedOut \in BOOLEAN
      /\ result \in Results \cup {"none"} /\ steady \in BOOLEAN /\ (steady => agent = "up")
    BY DEF AptTypeOK, TypeOK, PortIsFound
<1>1. (AptTypeOK /\ LostWithTable /\ PortIsFound /\ PluginIsPlain /\ BetweenCalls)'
    BY <1>0, ClientKeeps
<1>2. Wire'
    <2>1. link' <= nth /\ link \in Nat /\ nth \in Nat
        BY DEF Wire, AptTypeOK, TypeOK
    <2> QED
        BY <2>1 DEF Wire, Connected
<1>3. (IdsInOrder /\ OnlyCurrent /\ AtRest)'
    BY DEF IdsInOrder, OnlyCurrent, Current, AtRest
<1>4. (AnswersAreTrue /\ TransferredStays /\ AbortHasReason /\ ResultIsLast)'
    BY DEF AnswersAreTrue, TransferredStays, AbortHasReason, ResultIsLast
<1>5. (WholeWhenTransferred /\ OkIsEarned /\ EndedIsForgotten)'
    BY DEF WholeWhenTransferred, OkIsEarned, EndedIsForgotten
<1> QED
    BY <1>1, <1>2, <1>3, <1>4, <1>5

\* The call has ended, and its download is at rest.
LEMMA EndInductive ==
    ASSUME IInv, phase = "calling", UNCHANGED Environment, link' = link,
           NEW told \in Results, End(told), answer' = NoAnswer, request' = "none",
           \A i \in Ids : table[i] \in Resting,
           id' = Current, seen' \in {seen, answer.state}, timedOut' \in BOOLEAN,
           reads' \in 0 .. PortReads, tries' \in 1 .. InitTries,
           told \in {"ok", "timed_out", "canceled", "failed"} =>
               /\ step \in {"finalize", "abort"} /\ table[id] = "none"
               /\ told = "ok" => /\ id \in finalized \/ seen' = "Paused"
                                 /\ caller = "apt" => temp # "partial"
    PROVE  IInv'
<1> USE DEF IInv, Environment, agentVars, tableVars, flagVars, pluginVars
<1>0. /\ step' = "done" /\ stage' = "call" /\ mayRetry' \in BOOLEAN /\ result' = told
      /\ steady' \in BOOLEAN /\ (steady' => agent = "up")
    BY Proceeds DEF End
<1>1. Current \in 0 .. MaxCreated /\ Current <= created
    <2>1. id \in 0 .. MaxCreated /\ answer.id \in Ids \cup {0} /\ MaxCreated \in Nat
        BY SdkClientAssumption DEF AptTypeOK, TypeOK, Answers
    <2>2. id <= created /\ answer.id <= created
        BY DEF IdsInOrder
    <2> QED
        BY <2>1, <2>2 DEF Current, Ids
<1>2. (AptTypeOK /\ LostWithTable /\ PortIsFound /\ PluginIsPlain /\ BetweenCalls)'
    BY <1>0, <1>1, ClientKeeps DEF Steps
<1>3. Wire'
    BY <1>0 DEF Wire, Connected
<1>4. NoAnswer.id = 0 /\ NoAnswer.code = "none" /\ NoAnswer.state = "none"
    BY DEF NoAnswer
<1>5. IdsInOrder'
    <2>1. created \in Nat
        BY IdTyped
    <2> QED
        BY <1>0, <1>1, <1>4, <2>1 DEF IdsInOrder, Started
<1>6. Current' = Current
    BY <1>0 DEF Current
<1>7. (OnlyCurrent /\ AtRest)'
    BY <1>0, <1>6 DEF OnlyCurrent, AtRest
<1>8. (AnswersAreTrue /\ TransferredStays /\ AbortHasReason)'
    BY <1>0 DEF AnswersAreTrue, TransferredStays, AbortHasReason
<1>9. told \in {"ok", "timed_out", "canceled", "failed"} =>
        id' = id /\ id # 0 /\ table[id] = "none"
    BY DEF Current, IdsInOrder, Started
<1>10. (ResultIsLast /\ OkIsEarned /\ EndedIsForgotten)'
    BY <1>0, <1>9 DEF ResultIsLast, OkIsEarned, EndedIsForgotten
<1>11. WholeWhenTransferred'
    BY <1>0 DEF WholeWhenTransferred
<1> QED
    BY <1>2, <1>3, <1>5, <1>7, <1>8, <1>10, <1>11

\* Once the connection is lost a call can only end, or be tried again.
LEMMA ThrowInductive ==
    ASSUME IInv, phase = "calling", UNCHANGED Environment, link' = link,
           NEW error \in {"error", "no_service"}, Throw(error),
           step # "done", ~Connected, answer = NoAnswer,
           UNCHANGED wireVars, reads' \in 0 .. PortReads
    PROVE  IInv'
<1> USE DEF IInv, Environment, agentVars, tableVars, flagVars, pluginVars, wireVars
<1>0. /\ \A i \in Ids : table[i] = "none"
      /\ tries \in 1 .. InitTries /\ InitTries \in Nat /\ timedOut \in BOOLEAN
      /\ id \in 0 .. MaxCreated
    BY SdkClientAssumption DEF LostWithTable, AptTypeOK, TypeOK
<1>1. request = "none" /\ UNCHANGED <<id, seen, timedOut>>
    BY DEF Wire, Throw
<1>2. ~Connected'
    BY DEF Connected
<1>3. CASE step = "make" /\ error = "no_service" /\ TryAgain
    <2>1. /\ tries' \in 1 .. InitTries /\ stage' = "call" /\ mayRetry' \in BOOLEAN
          /\ UNCHANGED <<step, result, steady>>
        BY <1>0, <1>3 DEF Throw, TryAgain
    <2> QED
        BY <1>1, <2>1, WithinCallInductive
<1>4. CASE ~(step = "make" /\ error = "no_service" /\ TryAgain)
    <2>1. End(error) /\ tries' = tries
        BY <1>4 DEF Throw
    <2>2. id' = Current
        <3>1. step = "make" => id = 0
            BY DEF IdsInOrder
        <3> QED
            BY <1>1, <3>1 DEF Current, NoAnswer
    <2> QED
        BY <1>0, <1>1, <2>1, <2>2, EndInductive DEF Results, Resting
<1> QED
    BY <1>3, <1>4

\* GetInstance connects for the first time.
LEMMA ConstructInductive ==
    ASSUME IInv, phase = "calling", Construct, UNCHANGED <<pluginVars, temp>>
    PROVE  IInv'
<1> USE DEF IInv, Environment, agentVars, tableVars, flagVars, pluginVars, wireVars
<1>1. /\ UNCHANGED Environment /\ UNCHANGED <<step, id, seen, timedOut, result, steady>>
      /\ UNCHANGED <<link, mayRetry, tries, wireVars>> /\ stage' = "find" /\ reads' = PortReads
      /\ link = 0 /\ stage = "call" /\ step # "done"
    BY DEF Construct, FindPort
<1>2. request = "none" /\ answer = NoAnswer /\ ~Connected
    BY <1>1 DEF Wire, Connected
<1>3. ~Connected' /\ PortReads \in 0 .. PortReads
    BY <1>1, <1>2, SdkClientAssumption DEF Connected
<1>4. mayRetry \in BOOLEAN /\ tries \in 1 .. InitTries
    BY DEF AptTypeOK, TypeOK
<1> QED
    BY <1>1, <1>2, <1>3, <1>4, WithinCallInductive

\* The newest port file is that of the agent when the agent is up.
LEMMA SteadyIsFound ==
    ASSUME IInv, steady
    PROVE  files # <<>> /\ DiscoverDOPort # 0 /\ agent # "down" /\ DiscoverDOPort = port
BY SdkClientAssumption DEF IInv, PortIsFound, AptTypeOK, TypeOK, DiscoverDOPort

\* It reads a port file again, connects, or gives up.
LEMMA InitializeCases ==
    ASSUME IInv, _InitializeDOConnection
    PROVE  /\ UNCHANGED <<agentVars, tableVars, wireVars, flagVars>>
           /\ \/ /\ reads > 1 /\ reads' = reads - 1
                 /\ UNCHANGED <<step, stage, link, mayRetry, tries, id, seen, timedOut, result,
                                steady>>
              \/ /\ agent # "down" /\ link' = nth /\ stage' = "call"
                 /\ UNCHANGED <<step, mayRetry, reads, tries, id, seen, timedOut, result, steady>>
              \/ Throw("no_service") /\ UNCHANGED <<reads, link>> /\ ~steady
<1>1. CASE (files = <<>> \/ DiscoverDOPort = 0) /\ reads > 1
    BY <1>1 DEF _InitializeDOConnection
<1>2. CASE (files = <<>> \/ DiscoverDOPort = 0) /\ reads = 1
    BY <1>2, SteadyIsFound DEF _InitializeDOConnection
<1>3. CASE ~((files = <<>> \/ DiscoverDOPort = 0) /\ (reads > 1 \/ reads = 1))
    BY <1>3, SteadyIsFound DEF _InitializeDOConnection
<1> QED
    BY <1>1, <1>2, <1>3

LEMMA InitializeInductive ==
    ASSUME IInv, phase = "calling", _InitializeDOConnection, UNCHANGED <<pluginVars, temp>>
    PROVE  IInv'
<1> USE DEF IInv, Environment, agentVars, tableVars, flagVars, pluginVars, wireVars
<1>1. stage = "find" /\ UNCHANGED Environment /\ UNCHANGED wireVars
    BY InitializeCases DEF _InitializeDOConnection
<1>2. /\ ~Connected /\ request = "none" /\ answer = NoAnswer /\ step # "done"
      /\ mayRetry \in BOOLEAN /\ tries \in 1 .. InitTries /\ reads \in 0 .. PortReads
      /\ PortReads \in Nat
    BY <1>1, SdkClientAssumption DEF Wire, AptTypeOK, TypeOK
<1>3. CASE /\ reads > 1 /\ reads' = reads - 1
           /\ UNCHANGED <<step, stage, link, mayRetry, tries, id, seen, timedOut, result, steady>>
    <2>1. reads' \in 0 .. PortReads /\ ~Connected'
        BY <1>1, <1>2, <1>3 DEF Connected
    <2> QED
        BY <1>1, <1>2, <1>3, <2>1, WithinCallInductive
<1>4. CASE /\ agent # "down" /\ link' = nth /\ stage' = "call"
           /\ UNCHANGED <<step, mayRetry, reads, tries, id, seen, timedOut, result, steady>>
    <2>1. Connected'
        BY <1>1, <1>4 DEF Connected
    <2> QED
        BY <1>1, <1>2, <1>4, <2>1, WithinCallInductive
<1>5. CASE Throw("no_service") /\ UNCHANGED <<reads, link>>
    BY <1>1, <1>2, <1>5, ThrowInductive
<1> QED
    BY <1>3, <1>4, <1>5, InitializeCases

\* A request is sent.
LEMMA SendInductive ==
    ASSUME IInv, phase = "calling", Send, UNCHANGED <<pluginVars, temp>>
    PROVE  IInv'
<1> USE DEF IInv, Environment, agentVars, tableVars, flagVars, pluginVars, wireVars
<1>1. /\ UNCHANGED Environment /\ UNCHANGED <<step, id, seen, timedOut, result, steady>>
      /\ UNCHANGED <<link, mayRetry, reads, tries>> /\ stage' = "wait" /\ stage = "call"
      /\ request' = step /\ answer' = NoAnswer /\ Connected /\ step # "done"
    BY DEF Send
<1>2. answer = NoAnswer /\ Connected'
    BY <1>1 DEF Wire, Connected
<1>3. mayRetry \in BOOLEAN /\ tries \in 1 .. InitTries /\ reads \in 0 .. PortReads
    BY DEF AptTypeOK, TypeOK
<1> QED
    BY <1>1, <1>2, <1>3, WithinCallInductive

\* A connection is lost: CHttpClient connects anew, and once only.
LEMMA LoseConnectionInductive ==
    ASSUME IInv, phase = "calling", LoseConnection, UNCHANGED <<pluginVars, temp>>
    PROVE  IInv'
<1> USE DEF IInv, Environment, agentVars, tableVars, flagVars, pluginVars, wireVars
<1>1. /\ UNCHANGED Environment /\ UNCHANGED <<wireVars, link>>
      /\ ~Connected /\ step # "done" /\ stage \in {"call", "wait"}
      /\ stage = "wait" => answer = NoAnswer
    BY DEF LoseConnection, ConnectionIsLost
<1>2. /\ answer = NoAnswer /\ request = "none" /\ ~Connected'
      /\ tries \in 1 .. InitTries /\ PortReads \in 0 .. PortReads /\ reads \in 0 .. PortReads
    BY <1>1, SdkClientAssumption DEF Wire, Connected, AptTypeOK, TypeOK
<1>3. CASE mayRetry
    <2>1. /\ mayRetry' \in BOOLEAN /\ stage' = "find" /\ reads' = PortReads
          /\ UNCHANGED <<step, tries, id, seen, timedOut, result, steady>>
        BY <1>3 DEF LoseConnection, FindPort
    <2> QED
        BY <1>1, <1>2, <2>1, WithinCallInductive
<1>4. CASE ~mayRetry
    <2>1. Throw("error") /\ reads' = reads
        BY <1>4 DEF LoseConnection
    <2> QED
        BY <1>1, <1>2, <2>1, ThrowInductive
<1> QED
    BY <1>3, <1>4

\* The program goes on to its next call.
LEMMA NextCallInductive ==
    ASSUME IInv, phase = "calling", UNCHANGED Environment, link' = link, step # "done",
           NEW next \in Started, Proceed(next), answer' = NoAnswer, request' = "none",
           id' = Current, id' # 0, id' \notin earlier,
           result' = result, seen' \in {seen, answer.state}, timedOut' \in BOOLEAN,
           reads' \in 0 .. PortReads, tries' \in 1 .. InitTries,
           next = "start" => table[id'] \in Resting,
           next = "finalize" \/ (next = "poll" /\ seen' = "Transferred") =>
               table[id'] \in {"none", "Transferred"},
           next = "abort" => cancelled \/ timedOut' \/ seen' \in {"Failed", "Paused"}
    PROVE  IInv'
<1> USE DEF IInv, Environment, agentVars, tableVars, flagVars, pluginVars
<1>0. /\ step' = next /\ stage' = "call" /\ mayRetry' \in BOOLEAN /\ result = "none"
      /\ steady' \in BOOLEAN /\ (steady' => agent = "up")
    BY Proceeds DEF ResultIsLast
<1>1. Current \in 0 .. MaxCreated /\ Current <= created
    <2>1. id \in 0 .. MaxCreated /\ answer.id \in Ids \cup {0} /\ MaxCreated \in Nat
        BY SdkClientAssumption DEF AptTypeOK, TypeOK, Answers
    <2>2. id <= created /\ answer.id <= created
        BY DEF IdsInOrder
    <2> QED
        BY <2>1, <2>2 DEF Current, Ids
<1>2. (AptTypeOK /\ LostWithTable /\ PortIsFound /\ PluginIsPlain /\ BetweenCalls)'
    BY <1>0, <1>1, ClientKeeps DEF Steps, Started
<1>3. Wire'
    BY <1>0 DEF Wire, Connected, Started
<1>4. NoAnswer.id = 0 /\ NoAnswer.code = "none" /\ NoAnswer.state = "none"
    BY DEF NoAnswer
<1>5. IdsInOrder'
    <2>1. created \in Nat
        BY IdTyped
    <2> QED
        BY <1>0, <1>1, <1>4, <2>1 DEF IdsInOrder, Started
<1>6. Current' = Current
    BY <1>0 DEF Current, Started
<1>7. OnlyCurrent'
    BY <1>0, <1>6 DEF OnlyCurrent
<1>8. (AtRest /\ AnswersAreTrue /\ TransferredStays)'
    BY <1>0, <1>4 DEF AtRest, AnswersAreTrue, TransferredStays, Started
<1>9. (AbortHasReason /\ ResultIsLast)'
    BY <1>0 DEF AbortHasReason, ResultIsLast
<1>10. (OkIsEarned /\ EndedIsForgotten)'
    BY <1>0 DEF OkIsEarned, EndedIsForgotten
<1>11. WholeWhenTransferred'
    BY <1>0, <1>4 DEF WholeWhenTransferred
<1> QED
    BY <1>2, <1>3, <1>5, <1>7, <1>8, <1>9, <1>10, <1>11

\* An answer arrives.
LEMMA ReceiveInductive ==
    ASSUME IInv, phase = "calling", Receive, UNCHANGED <<pluginVars, temp>>
    PROVE  IInv'
<1> USE DEF IInv, Environment, agentVars, tableVars, flagVars, pluginVars
<1> DEFINE code == answer.code
<1>0. /\ UNCHANGED Environment /\ UNCHANGED <<link, reads, tries>> /\ answer' = NoAnswer
      /\ answer # NoAnswer /\ request' = request
      /\ seen' = IF step \in {"first", "poll"} THEN answer.state ELSE seen
      /\ id' = IF step = "make" THEN answer.id ELSE id
    BY DEF Receive
<1>1. /\ request' = "none" /\ step # "done" /\ code \in {"ok", "error"}
      /\ step \in Steps /\ tries' \in 1 .. InitTries /\ reads' \in 0 .. PortReads
      /\ answer.state \in States \cup {"none"} /\ timedOut \in BOOLEAN
    <2>1. answer \in Answers /\ step \in Steps /\ tries \in 1 .. InitTries
          /\ reads \in 0 .. PortReads /\ timedOut \in BOOLEAN
        BY DEF AptTypeOK, TypeOK
    <2>2. request = "none" /\ step # "done" /\ code # "none"
        BY <1>0 DEF Wire, Receive
    <2> QED
        BY <1>0, <2>1, <2>2 DEF Answers
<1>2. /\ timedOut' \in BOOLEAN
      /\ timedOut \/ (step = "poll" /\ code = "ok" /\ late) => timedOut'
    BY DEF Receive
<1>3. id' = Current /\ seen' \in {seen, answer.state}
    BY <1>0 DEF Current
<1>4. \A i \in Ids : table[i] \in Resting \/ i = Current
    BY DEF OnlyCurrent, Resting
<1>5. \A i \in Ids : step # "make" => Current = id
    BY DEF Current
<1>6. CASE code = "error" /\ step \notin {"finalize", "abort"}
    <2>1. End("error")
        BY <1>6 DEF Receive
    <2>2. \A i \in Ids : table[i] \in Resting
        <3>1. CASE step = "make"
            BY <3>1 DEF AtRest
        <3>2. CASE step = "start"
            BY <1>4, <1>6, <3>2 DEF AtRest, Current
        <3>3. CASE step \in {"first", "poll"}
            BY <1>4, <1>6, <3>3 DEF AnswersAreTrue, Current, Resting
        <3> QED
            BY <1>1, <1>6, <3>1, <3>2, <3>3 DEF Steps
    <2> QED
        BY <1>0, <1>1, <1>2, <1>3, <2>1, <2>2, EndInductive DEF Results
<1>7. CASE step \in {"finalize", "abort"}
    <2> DEFINE told == IF code = "error" THEN "error"
                       ELSE IF step = "finalize" THEN "ok" ELSE Verdict
    <2>1. End(told) /\ told \in Results
        BY <1>1, <1>7 DEF Receive, EndWith, Verdict, Results
    <2>2. \A i \in Ids : table[i] \in Resting
        BY <1>1, <1>4, <1>7 DEF AnswersAreTrue, Current, Resting
    <2>3. table[id] = "none" /\ seen' = seen
        BY <1>0, <1>1, <1>7 DEF AnswersAreTrue
    <2>4. told = "ok" => (id \in finalized \/ seen = "Paused")
        <3>1. CASE step = "finalize"
            BY <1>1, <3>1 DEF AnswersAreTrue
        <3>2. CASE step = "abort"
            BY <3>2 DEF AbortHasReason, Verdict
        <3> QED
            BY <1>7, <3>1, <3>2
    <2>5. told = "ok" /\ caller = "apt" => temp # "partial"
        <3>1. CASE step = "finalize"
            BY <1>1, <3>1 DEF WholeWhenTransferred
        <3>2. CASE step = "abort"
            BY <3>2 DEF AbortHasReason, Verdict, PluginIsPlain
        <3> QED
            BY <1>7, <3>1, <3>2
    <2> HIDE DEF told
    <2> QED
        BY <1>0, <1>1, <1>2, <1>3, <1>7, <2>1, <2>2, <2>3, <2>4, <2>5, EndInductive
<1>8. CASE code = "ok" /\ step = "make"
    <2>1. Proceed("start") /\ result' = result
        BY <1>8 DEF Receive
    <2>2. id' # 0 /\ id' \notin earlier /\ id' \in Ids
        BY <1>0, <1>8, IdTyped DEF IdsInOrder
    <2>3. table[id'] \in Resting
        BY <1>8, <2>2 DEF AtRest
    <2> QED
        BY <1>0, <1>1, <1>2, <1>3, <2>1, <2>2, <2>3, NextCallInductive DEF Started
<1>9. ASSUME code = "ok", step \in {"start", "first", "poll"}
      PROVE  id' = id /\ id' # 0 /\ id' \notin earlier
    BY <1>0, <1>9 DEF IdsInOrder, Started
<1>10. CASE code = "ok" /\ step = "start"
    <2>1. Proceed("first") /\ result' = result
        BY <1>10 DEF Receive
    <2> QED
        BY <1>0, <1>1, <1>2, <1>3, <1>9, <1>10, <2>1, NextCallInductive DEF Started
<1>11. CASE code = "ok" /\ step = "first"
    <2>1. Proceed("poll") /\ result' = result
        BY <1>11 DEF Receive
    <2>2. seen' = "Transferred" => table[id'] \in {"none", "Transferred"}
        BY <1>0, <1>9, <1>11 DEF TransferredStays
    <2> QED
        BY <1>0, <1>1, <1>2, <1>3, <1>9, <1>11, <2>1, <2>2, NextCallInductive DEF Started
<1>12. CASE code = "ok" /\ step = "poll"
    <2>1. LeaveLoop(answer.state)
        BY <1>12 DEF Receive
    <2>2. seen' = answer.state /\ answer.state \in States
        BY <1>0, <1>1, <1>12 DEF AnswersAreTrue
    <2>3. answer.state = "Transferred" => table[id'] \in {"none", "Transferred"}
        BY <1>0, <1>9, <1>12 DEF TransferredStays
    <2>4. CASE Unfinished(answer.state) /\ ~late
        <3>1. Proceed("poll") /\ result' = result
            BY <2>1, <2>4 DEF LeaveLoop
        <3> QED
            BY <1>0, <1>1, <1>2, <1>3, <1>9, <1>12, <2>2, <2>3, <3>1, NextCallInductive
                DEF Started
    <2>5. CASE ~(Unfinished(answer.state) /\ ~late) /\ answer.state = "Transferred"
        <3>1. Proceed("finalize") /\ result' = result
            BY <2>1, <2>5 DEF LeaveLoop
        <3> QED
            BY <1>0, <1>1, <1>2, <1>3, <1>9, <1>12, <2>3, <2>5, <3>1, NextCallInductive
                DEF Started
    <2>6. CASE ~(Unfinished(answer.state) /\ ~late) /\ answer.state # "Transferred"
        <3>1. Proceed("abort") /\ result' = result
            BY <2>1, <2>6 DEF LeaveLoop
        <3>2. timedOut' \/ seen' \in {"Failed", "Paused"}
            BY <1>2, <1>12, <2>2, <2>6 DEF Unfinished, States
        <3> QED
            BY <1>0, <1>1, <1>2, <1>3, <1>9, <1>12, <3>1, <3>2, NextCallInductive
                DEF Started
    <2> QED
        BY <2>4, <2>5, <2>6
<1> QED
    BY <1>1, <1>6, <1>7, <1>8, <1>10, <1>11, <1>12 DEF Steps

\* A caller that cancels leaves the loop.
LEMMA BreakLoopInductive ==
    ASSUME IInv, phase = "calling", BreakLoop, UNCHANGED <<pluginVars, temp>>
    PROVE  IInv'
<1> USE DEF IInv, Environment, agentVars, tableVars, flagVars, pluginVars, wireVars
<1> DEFINE next == IF seen = "Transferred" THEN "finalize" ELSE "abort"
<1>1. /\ UNCHANGED Environment
      /\ UNCHANGED <<wireVars, link, reads, tries, id, seen, timedOut, result>>
      /\ step = "poll" /\ stage = "call" /\ cancelled /\ Proceed(next)
    BY DEF BreakLoop
<1>2. /\ answer = NoAnswer /\ request = "none"
      /\ tries \in 1 .. InitTries /\ reads \in 0 .. PortReads /\ timedOut \in BOOLEAN
    BY <1>1 DEF Wire, AptTypeOK, TypeOK
<1>3. id = Current /\ id # 0 /\ id \notin earlier
    BY <1>1 DEF Current, IdsInOrder, Started
<1>4. next = "finalize" => table[id] \in {"none", "Transferred"}
    BY <1>1 DEF TransferredStays
<1>5. next \in {"finalize", "abort"}
    OBVIOUS
<1> HIDE DEF next
<1> QED
    BY <1>1, <1>2, <1>3, <1>4, <1>5, NextCallInductive DEF Started

\* The client's program
LEMMA ClientInductive ==
    ASSUME IInv, phase = "calling", Client, UNCHANGED <<pluginVars, temp>>
    PROVE  IInv'
BY ConstructInductive, InitializeInductive, SendInductive, LoseConnectionInductive,
    ReceiveInductive, BreakLoopInductive DEF Client

-----------------------------------------------------------------------------
(* The plugin, time and the whole *)

\* Nothing has been asked for, and nothing is there but a port file of an earlier agent.
LEMMA InitInductive ==
    ASSUME AptInit
    PROVE  IInv
<1> USE DEF AptInit, Init
<1>1. files \in Seq(Ports \cup OldPorts \cup {0})
    <2>1. CASE files = <<>>
        BY <2>1
    <2>2. CASE files # <<>>
        <3>1. PICK p \in OldPorts : files = <<p>>
            BY <2>2
        <3> QED
            BY <3>1
    <2> QED
        BY <2>1, <2>2
<1>2. table \in [Ids -> States \cup {"none"}] /\ \A i \in Ids : table[i] = "none"
    OBVIOUS
<1>3. answer \in Answers /\ answer = NoAnswer /\ answer.id = 0 /\ answer.code = "none"
      /\ answer.state = "none"
    BY DEF NoAnswer, Answers
<1>4. reads \in 0 .. PortReads /\ tries \in 1 .. InitTries /\ nth \in 0 .. MaxStarts
      /\ id \in 0 .. MaxCreated /\ created \in 0 .. MaxCreated
      /\ link \in 0 .. MaxStarts
    BY SdkClientAssumption
<1>5. TypeOK
    BY <1>1, <1>2, <1>3, <1>4 DEF TypeOK, Steps
<1>6. AptTypeOK
    <2>1. received \in 0 .. MaxCommands /\ acquires \in 0 .. received /\ replies = <<>>
        BY AptPluginAssumption
    <2>2. phase \in {"reading", "calling"}
        OBVIOUS
    <2> QED
        BY <1>5, <2>1, <2>2 DEF AptTypeOK, Contents
<1>7. (Wire /\ LostWithTable /\ PortIsFound)
    BY <1>2, <1>3 DEF Wire, LostWithTable, PortIsFound
<1>8. (IdsInOrder /\ OnlyCurrent /\ AtRest)
    BY <1>2, <1>3 DEF IdsInOrder, OnlyCurrent, AtRest, Started, Resting
<1>9. (AnswersAreTrue /\ TransferredStays /\ AbortHasReason /\ ResultIsLast)
    BY <1>3 DEF AnswersAreTrue, TransferredStays, AbortHasReason, ResultIsLast
<1>10. (PluginIsPlain /\ WholeWhenTransferred)
    BY <1>2, <1>3 DEF PluginIsPlain, WholeWhenTransferred
<1>11. BetweenCalls
    BY DEF BetweenCalls
<1>12. (OkIsEarned /\ EndedIsForgotten)
    BY DEF OkIsEarned, EndedIsForgotten
<1> QED
    BY <1>6, <1>7, <1>8, <1>9, <1>10, <1>11, <1>12 DEF IInv

\* The flags of the caller only rise.
LEMMA FlagsInductive ==
    ASSUME IInv, phase = "calling" \/ caller = "application",
           UNCHANGED <<agentVars, tableVars, wireVars, clientVars, steady, pluginVars, temp>>,
           late' \in BOOLEAN, cancelled' \in BOOLEAN, cancelled => cancelled',
           caller = "apt" => cancelled' = cancelled
    PROVE  IInv'
<1> USE DEF IInv, agentVars, tableVars, wireVars, clientVars, pluginVars
<1>1. AptTypeOK'
    BY DEF AptTypeOK, TypeOK
<1>2. (Wire /\ LostWithTable /\ IdsInOrder /\ OnlyCurrent /\ AtRest)'
    BY DEF Wire, LostWithTable, IdsInOrder, OnlyCurrent, AtRest, Connected, Current
<1>3. (AnswersAreTrue /\ TransferredStays /\ AbortHasReason /\ ResultIsLast)'
    BY DEF AnswersAreTrue, TransferredStays, AbortHasReason, ResultIsLast
<1>4. (PortIsFound /\ PluginIsPlain /\ WholeWhenTransferred /\ BetweenCalls)'
    BY DEF PortIsFound, PluginIsPlain, WholeWhenTransferred, BetweenCalls
<1>5. (OkIsEarned /\ EndedIsForgotten)'
    BY DEF OkIsEarned, EndedIsForgotten
<1> QED
    BY <1>1, <1>2, <1>3, <1>4, <1>5

\* The plugin works on its file while the client and its agent stay as they are.
LEMMA OwnStepInductive ==
    ASSUME IInv, caller = "apt", UNCHANGED <<vars, caller, earlier>>,
           phase' \in {"reading", "hashing", "ended"}, step \in {"make", "done"}, stage = "call",
           received' \in 0 .. MaxCommands, acquires' \in 0 .. received',
           replies' \in Seq({"Done", "Failure"}),
           temp' = "none", dest' \in {"none", "whole"},
           phase' = "hashing" => dest' = "whole",
           acquires' = Len(replies') + (IF phase' = "hashing" THEN 1 ELSE 0)
    PROVE  IInv'
<1> USE DEF IInv
<1>0. /\ UNCHANGED <<agentVars, tableVars, wireVars, clientVars, flagVars, steady>>
      /\ phase' # "calling"
    BY DEF vars
<1> USE DEF agentVars, tableVars, wireVars, clientVars, flagVars
<1>1. AptTypeOK'
    <2>1. TypeOK'
        BY <1>0 DEF AptTypeOK, TypeOK
    <2> QED
        BY <2>1 DEF AptTypeOK, Contents
<1>2. (Wire /\ LostWithTable /\ IdsInOrder /\ OnlyCurrent /\ AtRest)'
    BY <1>0 DEF Wire, LostWithTable, IdsInOrder, OnlyCurrent, AtRest, Connected, Current
<1>3. (AnswersAreTrue /\ TransferredStays /\ AbortHasReason /\ ResultIsLast)'
    BY <1>0 DEF AnswersAreTrue, TransferredStays, AbortHasReason, ResultIsLast
<1>4. (PortIsFound /\ PluginIsPlain /\ WholeWhenTransferred)'
    BY <1>0 DEF PortIsFound, PluginIsPlain, WholeWhenTransferred
<1>5. BetweenCalls'
    BY <1>0 DEF BetweenCalls
<1>6. (OkIsEarned /\ EndedIsForgotten)'
    BY <1>0 DEF OkIsEarned, EndedIsForgotten
<1> QED
    BY <1>1, <1>2, <1>3, <1>4, <1>5, <1>6

\* A new call: what earlier commands left in the agent is at rest.
LEMMA BeginCallInductive ==
    ASSUME IInv, caller = "apt", phase = "reading", BeginCall, UNCHANGED <<caller, replies>>,
           received' = received + 1, acquires' = acquires + 1, received < MaxCommands
    PROVE  IInv'
<1> USE DEF IInv
<1>0. /\ step' = "make" /\ stage' = "call" /\ mayRetry' \in BOOLEAN
      /\ steady' \in BOOLEAN /\ (steady' => agent = "up")
    BY Proceeds DEF BeginCall
<1>1. /\ UNCHANGED <<agentVars, tableVars, wireVars, link, reads, cancelled, caller, replies>>
      /\ phase' = "calling" /\ tries' = InitTries /\ id' = 0 /\ seen' = "none" /\ ~timedOut'
      /\ timedOut' \in BOOLEAN
      /\ result' = "none" /\ late' \in BOOLEAN /\ temp' = "none" /\ dest' = "none"
      /\ earlier' = {i \in Ids : table[i] # "none"}
    BY DEF BeginCall
<1> USE DEF agentVars, tableVars, wireVars
<1>2. answer = NoAnswer /\ request = "none" /\ step \in {"make", "done"} /\ stage = "call"
    BY DEF Wire, BetweenCalls
<1>3. AptTypeOK'
    <2>1. tries' \in 1 .. InitTries /\ id' \in 0 .. MaxCreated
        BY <1>1, SdkClientAssumption
    <2>2. TypeOK'
        BY <1>0, <1>1, <2>1 DEF AptTypeOK, TypeOK, Steps
    <2>3. received' \in 0 .. MaxCommands /\ acquires' \in 0 .. received'
        BY AptPluginAssumption DEF AptTypeOK
    <2> QED
        BY <1>1, <2>2, <2>3 DEF AptTypeOK, Contents
<1>4. (Wire /\ LostWithTable /\ PortIsFound)'
    BY <1>0, <1>1, <1>2 DEF Wire, LostWithTable, PortIsFound, Connected
<1>5. NoAnswer.id = 0 /\ NoAnswer.code = "none" /\ NoAnswer.state = "none"
    BY DEF NoAnswer
<1>6. \A i \in Ids : table[i] \in Resting
    BY <1>2 DEF AtRest
<1>7. created \in Nat
    BY IdTyped
<1>8. (IdsInOrder /\ OnlyCurrent /\ AtRest)'
    BY <1>0, <1>1, <1>2, <1>5, <1>6, <1>7 DEF IdsInOrder, OnlyCurrent, AtRest, Started
<1>9. (AnswersAreTrue /\ TransferredStays /\ AbortHasReason /\ ResultIsLast)'
    BY <1>0, <1>1 DEF AnswersAreTrue, TransferredStays, AbortHasReason, ResultIsLast
<1>10. (PluginIsPlain /\ WholeWhenTransferred)'
    BY <1>0, <1>1 DEF PluginIsPlain, WholeWhenTransferred
<1>11. BetweenCalls'
    <2>1. acquires = Len(replies) /\ acquires \in Nat
        BY DEF BetweenCalls, AptTypeOK
    <2> QED
        BY <1>0, <1>1, <2>1 DEF BetweenCalls
<1>12. (OkIsEarned /\ EndedIsForgotten)'
    BY <1>1 DEF OkIsEarned, EndedIsForgotten
<1> QED
    BY <1>3, <1>4, <1>8, <1>9, <1>10, <1>11, <1>12

\* Answers go behind the ones given before.
LEMMA Answered ==
    ASSUME AptTypeOK, NEW kind \in {"Done", "Failure"}, Answer(kind)
    PROVE  /\ replies' \in Seq({"Done", "Failure"}) /\ Len(replies') = Len(replies) + 1
           /\ phase' = "reading" /\ Len(replies) \in Nat
BY DEF AptTypeOK, Answer

\* apt sends a message.
LEMMA MessageInductive ==
    ASSUME IInv, NEW message \in Messages, ReceiveAPTMessage(message)
    PROVE  IInv'
<1>1. /\ caller = "apt" /\ phase = "reading" /\ received < MaxCommands
      /\ received' = received + 1 /\ caller' = caller
    BY DEF ReceiveAPTMessage
<1>2. /\ received' \in 0 .. MaxCommands /\ acquires \in 0 .. received /\ received \in Nat
      /\ replies \in Seq({"Done", "Failure"})
    BY <1>1, AptPluginAssumption DEF IInv, AptTypeOK
<1>3. /\ step \in {"make", "done"} /\ stage = "call" /\ temp = "none"
      /\ dest \in {"none", "whole"} /\ acquires = Len(replies)
    BY <1>1 DEF IInv, BetweenCalls
<1>4. CASE message = "acquire"
    <2>1. BeginCall /\ replies' = replies /\ acquires' = acquires + 1
        BY <1>4 DEF ReceiveAPTMessage
    <2> QED
        BY <1>1, <2>1, BeginCallInductive
<1>5. CASE message = "acquire other scheme"
    <2>1. Answer("Failure") /\ NoCall /\ acquires' = acquires + 1
        BY <1>5 DEF ReceiveAPTMessage
    <2>2. /\ replies' \in Seq({"Done", "Failure"}) /\ Len(replies') = Len(replies) + 1
          /\ phase' = "reading" /\ Len(replies) \in Nat
        BY <2>1, Answered DEF IInv
    <2>3. acquires' \in 0 .. received'
        BY <1>1, <1>2, <2>1
    <2> QED
        BY <1>1, <1>2, <1>3, <2>1, <2>2, <2>3, OwnStepInductive DEF NoCall
<1>6. CASE message \in {"configuration", "other", "eof"}
    <2>1. NoCall /\ replies' = replies /\ acquires' = acquires + 0
          /\ phase' \in {"reading", "ended"}
        BY <1>1, <1>6 DEF ReceiveAPTMessage
    <2>2. acquires' \in 0 .. received' /\ acquires' = acquires
        BY <1>1, <1>2, <2>1
    <2> QED
        BY <1>1, <1>2, <1>3, <2>1, <2>2, OwnStepInductive DEF NoCall
<1> QED
    BY <1>4, <1>5, <1>6 DEF Messages

\* The call is over: the file is renamed and hashed, or deleted.
LEMMA PluginInductive ==
    ASSUME IInv, PluginStep
    PROVE  IInv'
<1>1. /\ received \in 0 .. MaxCommands /\ acquires \in 0 .. received
      /\ replies \in Seq({"Done", "Failure"}) /\ temp \in Contents /\ acquires \in Nat
    BY DEF IInv, AptTypeOK
<1>2. CASE DownloadFailed
    <2>1. /\ caller = "apt" /\ phase = "calling" /\ step = "done" /\ temp' = "none"
          /\ Answer("Failure")
          /\ UNCHANGED <<vars, caller, received, acquires, dest, earlier>>
        BY <1>2 DEF DownloadFailed
    <2>2. /\ replies' \in Seq({"Done", "Failure"}) /\ Len(replies') = Len(replies) + 1
          /\ phase' = "reading" /\ Len(replies) \in Nat
        BY <2>1, Answered DEF IInv
    <2>3. dest \in {"none", "whole"} /\ acquires = Len(replies) + 1 /\ stage = "call"
        BY <2>1 DEF IInv, BetweenCalls, Wire
    <2> QED
        BY <1>1, <2>1, <2>2, <2>3, OwnStepInductive
<1>3. CASE Rename
    <2>1. /\ caller = "apt" /\ phase = "calling" /\ step = "done" /\ result = "ok"
          /\ temp # "none" /\ dest' = temp /\ temp' = "none" /\ phase' = "hashing"
          /\ UNCHANGED <<vars, caller, received, acquires, replies, earlier>>
        BY <1>3 DEF Rename
    <2>2. temp = "whole"
        BY <1>1, <2>1 DEF IInv, WholeWhenTransferred, Contents
    <2>3. acquires = Len(replies) + 1 /\ stage = "call"
        BY <2>1 DEF IInv, BetweenCalls, Wire
    <2> QED
        BY <1>1, <2>1, <2>2, <2>3, OwnStepInductive
<1>4. CASE Hash
    <2>1. PICK kind \in {"Done", "Failure"} : Answer(kind)
        BY <1>4 DEF Hash
    <2>2. /\ phase = "hashing" /\ UNCHANGED <<vars, caller, received, acquires, temp, dest, earlier>>
        BY <1>4 DEF Hash
    <2>3. /\ replies' \in Seq({"Done", "Failure"}) /\ Len(replies') = Len(replies) + 1
          /\ phase' = "reading" /\ Len(replies) \in Nat
        BY <2>1, Answered DEF IInv
    <2>4. /\ caller = "apt" /\ step \in {"make", "done"} /\ stage = "call" /\ temp = "none"
          /\ dest = "whole" /\ acquires = Len(replies) + 1
        BY <2>2 DEF IInv, BetweenCalls
    <2> QED
        BY <1>1, <2>2, <2>3, <2>4, OwnStepInductive
<1> QED
    BY <1>2, <1>3, <1>4 DEF PluginStep

\* Every step keeps the invariant.
LEMMA StepInductive ==
    ASSUME IInv, [AptNext]_avars
    PROVE  IInv'
<1>1. CASE AgentStep
    BY <1>1, BootInductive, DieInductive, ProgressInductive, ServeInductive DEF AgentStep
<1>2. CASE ClientStep
    BY <1>2, ClientInductive DEF ClientStep
<1>3. CASE TimeStep
    <2>1. late' \in BOOLEAN /\ cancelled' = cancelled /\ cancelled \in BOOLEAN
        BY <1>3 DEF TimeStep, TimePasses, IInv, AptTypeOK, TypeOK
    <2> QED
        BY <1>3, <2>1, FlagsInductive DEF TimeStep, TimePasses
<1>4. CASE CancelStep
    <2>1. late' \in BOOLEAN /\ cancelled' \in BOOLEAN /\ cancelled'
        BY <1>4 DEF CancelStep, Cancel, IInv, AptTypeOK, TypeOK
    <2>2. caller = "application" /\ caller # "apt"
        BY <1>4 DEF CancelStep
    <2> QED
        BY <1>4, <2>1, <2>2, FlagsInductive DEF CancelStep, Cancel
<1>5. CASE PluginStep
    BY <1>5, PluginInductive
<1>6. CASE \E message \in Messages : ReceiveAPTMessage(message)
    BY <1>6, MessageInductive
<1>7. CASE UNCHANGED avars
    <2> USE <1>7 DEF IInv, avars, vars, agentVars, tableVars, wireVars, clientVars, flagVars,
            pluginVars
    <2>1. AptTypeOK'
        BY DEF AptTypeOK, TypeOK
    <2>2. (Wire /\ LostWithTable /\ IdsInOrder /\ OnlyCurrent /\ AtRest)'
        BY DEF Wire, LostWithTable, IdsInOrder, OnlyCurrent, AtRest, Connected, Current
    <2>3. (AnswersAreTrue /\ TransferredStays /\ AbortHasReason /\ ResultIsLast)'
        BY DEF AnswersAreTrue, TransferredStays, AbortHasReason, ResultIsLast
    <2>4. (PortIsFound /\ PluginIsPlain /\ WholeWhenTransferred /\ BetweenCalls)'
        BY DEF PortIsFound, PluginIsPlain, WholeWhenTransferred, BetweenCalls
    <2>5. (OkIsEarned /\ EndedIsForgotten)'
        BY DEF OkIsEarned, EndedIsForgotten
    <2> QED
        BY <2>1, <2>2, <2>3, <2>4, <2>5
<1> QED
    BY <1>1, <1>2, <1>3, <1>4, <1>5, <1>6, <1>7 DEF AptNext

LEMMA Invariant == AptSpec => []IInv
BY InitInductive, StepInductive, PTL DEF AptSpec

-----------------------------------------------------------------------------
(***************************************************************************)
(* Theorems.                                                               *)
(***************************************************************************)

\* The variables of client, agent and plugin stay within their types: ids within the
\* table, port files sequences of ports.
THEOREM TypeCorrect == AptSpec => []AptTypeOK
<1>1. IInv => AptTypeOK
    BY DEF IInv
<1> QED
    BY <1>1, Invariant, PTL

\* Whoever is told ok has had this very download finalized (or it was paused by a call
\* and aborted): no restart, repeated request or reused connection makes a success up
\* (start_and_wait_until_completion, SendRequest).
THEOREM OkIsEarnedHolds == AptSpec => []OkIsEarned
<1>1. IInv => OkIsEarned
    BY DEF IInv
<1> QED
    BY <1>1, Invariant, PTL

\* A caller that knows how its download ended leaves none behind that still writes the
\* file (FinalizeDownload and AbortDownload erase it before the answer).
THEOREM EndedIsForgottenHolds == AptSpec => []EndedIsForgotten
<1>1. IInv => EndedIsForgotten
    BY DEF IInv
<1> QED
    BY <1>1, Invariant, PTL

\* Repeating a create whose answer was lost makes no second download, for any number of
\* starts of the agent (CHttpClient::SendRequest).
THEOREM NoSecondDownloadHolds == AptSpec => []NoSecondDownload
<1>1. IInv => NoSecondDownload
    BY DEF IInv, OnlyCurrent, NoSecondDownload
<1> QED
    BY <1>1, Invariant, PTL

\* apt has one answer to each acquire, the file it renamed is whole, and its cache keeps
\* no file of a call that is over (WorkUriAcquire).
THEOREM AcquireIsAnsweredHolds == AptSpec => []AcquireIsAnswered
<1>1. IInv => AcquireIsAnswered
    <2>1. IInv => replies \in Seq({"Done", "Failure"})
        BY DEF IInv, AptTypeOK
    <2> QED
        BY <2>1 DEF IInv, BetweenCalls, AcquireIsAnswered
<1> QED
    BY <1>1, Invariant, PTL

\* A call is told no_service only when the agent was not up all the time, whatever port
\* files lie about (CPortFinder::GetDOPort, g_DiscoverDOPort).
THEOREM NoServiceOnlyIfDownHolds == AptSpec => NoServiceOnlyIfDown
<1>1. ASSUME IInv, [AptNext]_avars
      PROVE  [result' = "no_service" /\ result # "no_service" => ~steady]_vars
    <2> SUFFICES ASSUME result' = "no_service", result # "no_service"
                 PROVE  ~steady
        OBVIOUS
    <2>1. ~(UNCHANGED vars)
        BY DEF vars, clientVars
    <2>2. result' # result
        OBVIOUS
    <2>3. ~AgentStep
        BY <2>2 DEF AgentStep, Boot, StartListening, DeleteOlderPortFiles, OpenPortFile,
            WritePort, Die, Progress, Serve, OtherThreadPauses, clientVars
    <2>4. ~TimeStep /\ ~CancelStep
        BY <2>2 DEF TimeStep, TimePasses, CancelStep, Cancel, clientVars
    <2>5. ~PluginStep
        BY <2>1 DEF PluginStep, DownloadFailed, Rename, Hash
    <2>6. ~\E message \in Messages : ReceiveAPTMessage(message)
        BY <2>1 DEF Messages, ReceiveAPTMessage, BeginCall, NoCall
    <2>7. ClientStep
        BY <1>1, <2>1, <2>3, <2>4, <2>5, <2>6 DEF AptNext, avars
    <2>8. ~Construct /\ ~Send /\ ~BreakLoop
        BY <2>2 DEF Construct, Send, BreakLoop
    <2>9. ~Receive
        <3> SUFFICES ASSUME Receive PROVE FALSE
            OBVIOUS
        <3>1. \/ result' = result
              \/ result' \in {"error", "ok", "canceled", "timed_out", "failed"}
            <4>1. step \in Steps
                BY <1>1 DEF IInv, AptTypeOK, TypeOK
            <4>2. step # "done"
                BY <1>1 DEF Receive, IInv, Wire
            <4> QED
                BY <4>1, <4>2 DEF Receive, End, EndWith, Verdict, LeaveLoop, Steps
        <3> QED
            BY <2>2, <3>1
    <2>10. ~LoseConnection
        BY <2>2 DEF LoseConnection, Throw, End
    <2>11. _InitializeDOConnection
        BY <2>7, <2>8, <2>9, <2>10 DEF ClientStep, Client
    <2> QED
        BY <1>1, <2>2, <2>11, InitializeCases
<1> QED
    BY <1>1, Invariant, PTL DEF AptSpec, NoServiceOnlyIfDown
=============================================================================
