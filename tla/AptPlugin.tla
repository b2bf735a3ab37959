----------------------------- MODULE AptPlugin -----------------------------
(***************************************************************************)
(* Who calls download_url_to_path (SdkClient), and what becomes of the     *)
(* file:                                                                   *)
(*   - the apt plugin (plugins/linux-apt/main.cpp), which serves one       *)
(*     command of apt after the other: it has the file written to a new    *)
(*     path in its cache, renames it to the one apt has named, and answers *)
(*     with its hashes (do_hash.cpp);                                      *)
(*   - or any application, which makes one call, may cancel it, and may    *)
(*     pause the download from another thread.                             *)
(* A plugin reads a command only when it has answered the one before, so   *)
(* what apt writes ahead is decided when it is read.  The agent writes the *)
(* file, as far as its table of downloads says.                            *)
(***************************************************************************)
EXTENDS SdkClient

CONSTANTS MaxCommands       \* bound of the commands of apt

ASSUME AptPluginAssumption == MaxCommands \in Nat

\* Messages of apt: an acquire with a URL that is served or not, a configuration,
\* anything else, and the end of the input
Messages == {"acquire", "acquire other scheme", "configuration", "other", "eof"}

VARIABLES
    caller,     \* who calls
    phase,      \* where it is: reading, in the call, having the hashes, ended
    received,   \* commands so far
    acquires,   \* how many of them were acquires
    replies,    \* what apt was answered, in this order
    temp,       \* the file at the path that the agent was given
    dest,       \* the file at the path that apt has named last
    earlier     \* history: downloads made for earlier commands

pluginVars == <<caller, phase, received, acquires, replies, dest, earlier>>
avars == <<vars, pluginVars, temp>>

Contents == {"none", "partial", "whole"}

AptTypeOK ==
    /\ TypeOK
    /\ caller \in {"apt", "application"}
    /\ phase \in {"reading", "calling", "hashing", "ended"}
    /\ received \in 0 .. MaxCommands
    /\ acquires \in 0 .. received
    /\ replies \in Seq({"Done", "Failure"})
    /\ {temp, dest} \subseteq Contents
    /\ earlier \subseteq Ids

AptInit ==
    /\ Init
    /\ caller \in {"apt", "application"}
    /\ phase = IF caller = "apt" THEN "reading" ELSE "calling"
    /\ received = 0 /\ acquires = 0
    /\ replies = <<>>
    /\ temp = "none" /\ dest = "none"
    /\ earlier = {}

-----------------------------------------------------------------------------
(***************************************************************************)
(* The file.  Start creates it, also when it then fails to make its        *)
(* request; Abort deletes it; the death of the agent leaves it as it is.   *)
(***************************************************************************)
Becomes(from, to) ==
    \E i \in Ids : table[i] \in from /\ table'[i] = to /\ i \notin finalized'

StartFails == request = "start" /\ table[id] = "Created" /\ request' = "none"

FileFollows ==
    temp' \in
        IF Becomes({"Created"}, "Transferring") THEN {"partial"}
        ELSE IF Becomes({"Transferring"}, "Transferred")
             THEN {IF temp = "partial" THEN "whole" ELSE temp}
        ELSE IF agent' = "down" THEN {temp}
        ELSE IF Becomes(States \ {"Created"}, "none") THEN {"none"}
        ELSE IF StartFails THEN {temp, "partial"}
        ELSE {temp}

\* The agent goes on whatever the caller does
AgentStep ==
    /\ Boot \/ Die \/ Progress \/ Serve \/ (caller = "application" /\ OtherThreadPauses)
    /\ FileFollows
    /\ UNCHANGED pluginVars

ClientStep ==
    /\ phase = "calling"
    /\ Client
    /\ UNCHANGED <<pluginVars, temp>>

TimeStep == phase = "calling" /\ TimePasses /\ UNCHANGED <<pluginVars, temp>>

\* Only an application has a flag to cancel with
CancelStep == caller = "application" /\ Cancel /\ UNCHANGED <<pluginVars, temp>>

-----------------------------------------------------------------------------
(***************************************************************************)
(* The plugin.                                                             *)
(***************************************************************************)
Answer(kind) ==
    /\ replies' = Append(replies, kind)
    /\ phase' = "reading"

\* A call with a path that no one has used (GenerateUniqueCachePath).  The client of
\* the SDK, with its connection, stays.
BeginCall ==
    /\ phase' = "calling"
    /\ Proceed("make")
    /\ tries' = InitTries
    /\ id' = 0 /\ seen' = "none" /\ timedOut' = FALSE /\ result' = "none" /\ late' = FALSE
    /\ temp' = "none" /\ dest' = "none"
    /\ earlier' = {i \in Ids : table[i] # "none"}
    /\ UNCHANGED <<agentVars, tableVars, wireVars, link, reads, cancelled>>

NoCall == UNCHANGED <<vars, temp, dest, earlier>>

\* One round of WorkLoop as far as WorkUriAcquire's call
ReceiveAPTMessage(message) ==
    /\ caller = "apt" /\ phase = "reading"
    /\ received < MaxCommands
    /\ received' = received + 1
    /\ acquires' = acquires
                   + (IF message \in {"acquire", "acquire other scheme"} THEN 1 ELSE 0)
    /\ CASE message = "acquire" -> BeginCall /\ UNCHANGED replies
         [] message = "acquire other scheme" -> Answer("Failure") /\ NoCall
         [] message \in {"configuration", "other"} -> NoCall /\ UNCHANGED <<phase, replies>>
         [] message = "eof" -> phase' = "ended" /\ NoCall /\ UNCHANGED replies
    /\ UNCHANGED caller

\* Variant: the file is only deleted when it could not be renamed
FailedLeavingFile ==
    /\ caller = "apt" /\ phase = "calling" /\ step = "done"
    /\ temp' = IF result = "ok" THEN "none" ELSE temp
    /\ Answer("Failure")
    /\ UNCHANGED <<vars, caller, received, acquires, dest, earlier>>

\* SimpleDownload throws: the call failed, or rename did, with a file there or without
DownloadFailed ==
    /\ caller = "apt" /\ phase = "calling" /\ step = "done"
    /\ temp' = "none"
    /\ Answer("Failure")
    /\ UNCHANGED <<vars, caller, received, acquires, dest, earlier>>

\* ... or goes on to the hashes of the renamed file
Rename ==
    /\ caller = "apt" /\ phase = "calling" /\ step = "done"
    /\ result = "ok" /\ temp # "none"
    /\ dest' = temp
    /\ temp' = "none"
    /\ phase' = "hashing"
    /\ UNCHANGED <<vars, caller, received, acquires, replies, earlier>>

\* FileHashes; the file stays when it cannot be read
Hash ==
    /\ phase = "hashing"
    /\ \E kind \in {"Done", "Failure"} : Answer(kind)
    /\ UNCHANGED <<vars, caller, received, acquires, temp, dest, earlier>>

PluginStep == DownloadFailed \/ Rename \/ Hash

AptNext ==
    \/ AgentStep \/ ClientStep \/ TimeStep \/ CancelStep
    \/ PluginStep
    \/ \E message \in Messages : ReceiveAPTMessage(message)

\* As in SdkClient; the plugin runs, apt need not send anything
AptFairness ==
    /\ WF_avars(ClientStep) /\ WF_avars(TimeStep) /\ WF_avars(PluginStep)
    /\ WF_avars(Serve /\ AgentStep)

AptSpec == AptInit /\ [][AptNext]_avars /\ AptFairness

-----------------------------------------------------------------------------
(***************************************************************************)
(* Properties.                                                             *)
(***************************************************************************)

\* A create that is repeated never leaves a second download behind: the connection is
\* only lost with the agent, and its table with it (CHttpClient::SendRequest).
NoSecondDownload ==
    \A i, j \in Ids \ earlier : table[i] # "none" /\ table[j] # "none" => i = j

\* Each acquire is answered once before the next command is read.  Done means that
\* the whole file is where apt wants it, whatever died in the meantime; and no file
\* is left in the cache, whatever the agent was still doing (WorkUriAcquire).
AcquireIsAnswered ==
    caller = "apt" /\ phase \in {"reading", "ended"} =>
        /\ Len(replies) = acquires
        /\ temp = "none"
        /\ phase = "reading" /\ dest # "none" => dest = "whole"

\* download_url_to_path returns, even if the agent dies or the download is stuck.
Returns == (phase = "calling") ~> (phase # "calling" \/ step = "done")
=============================================================================
