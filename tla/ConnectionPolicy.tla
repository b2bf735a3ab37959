-------------------------- MODULE ConnectionPolicy --------------------------
(***************************************************************************)
(* How a Download chooses between the local cache (MCC) and the original   *)
(* host (CDN), and how it classifies a failed request: the members         *)
(* _UpdateConnectionTypeAndGetUrl, _ShouldPauseMccUsage,                   *)
(* _ShouldFailFastPerConnectionType and _IsFatalError of download.cpp, the *)
(* results of util/http_agent.cpp, and ReportHostError of                  *)
(* config/mcc_manager.cpp.  Times are abstracted to whether they have      *)
(* passed, addresses to the two kinds of host.                             *)
(***************************************************************************)
EXTENDS Naturals

ConnectionTypes == {"None", "MCC", "CDN"}

\* The configured fallback delay (_mccFallbackDue): not set, so the custom logic
\* applies; a finite delay; or -1, "fallback to CDN not allowed".
FallbackModes == {"custom", "delay", "never"}

\* How a request ends: the class of the status as far as it came (2xx; 4xx; 3xx that
\* is not followed, 5xx and the rest), libcurl's result (unreachable: a time-out, or a
\* host not resolved or connected to; unusable: a range or a URL it cannot work with),
\* and whether a callback failed, which stops libcurl when there is a body.
Endings ==
    [status : {"none", "success", "client", "other"},
     curl : {"ok", "unreachable", "unusable", "other"},
     callback : {"ok", "failed"}]

\* The result of the request alone decides, even if OnHeadersAvailable failed for a response
\* without a body, where nothing tells libcurl to stop (_CompleteCallback)
Succeeds(e) == e.status = "success" /\ e.curl = "ok"

\* What OnComplete makes of it: the first error is kept, a failed status is one.  An
\* error here (a failed write, no memory) is "local"
FailureOf(e) ==
    CASE e.callback = "failed" -> "local"
      [] e.callback = "ok" /\ e.status = "client" -> "client"
      [] e.callback = "ok" /\ e.status \in {"none", "success"} /\ e.curl = "unreachable" ->
            "unreachable"
      [] e.callback = "ok" /\ e.status \in {"none", "success"} /\ e.curl = "unusable" ->
            "local"
      [] OTHER -> "server"

FailureKinds == {FailureOf(e) : e \in {x \in Endings : ~Succeeds(x)}}

\* The attempts counter is only ever compared with 2
MaxAttempts == 2

\* Connection state of a Download: the current type and the consecutive attempts
\* with it, whether the original host was tried, whether MCC may still be used,
\* and the bytes there were when the current request began.
Connections ==
    [type : ConnectionTypes, attempts : 0 .. MaxAttempts,
     originalTried : BOOLEAN, allowMcc : BOOLEAN, begunAt : Nat]

NoConnection ==
    [type |-> "None", attempts |-> 0, originalTried |-> FALSE,
     allowMcc |-> TRUE, begunAt |-> 0]

\* No progress with the current type in two attempts
IsStuck(c, transferred) == c.begunAt = transferred /\ c.attempts >= MaxAttempts

\* The type a retry asks for; a start or a resume always asks for MCC
RetryType(c, transferred, fallback, due) ==
    CASE fallback # "custom" -> IF due THEN "CDN" ELSE c.type
      [] fallback = "custom" /\ c.type = "MCC" ->
            IF c.originalTried /\ ~IsStuck(c, transferred) THEN "MCC" ELSE "CDN"
      [] OTHER -> IF IsStuck(c, transferred) THEN "MCC" ELSE "CDN"

\* _UpdateConnectionTypeAndGetUrl: mccUsable is "a host is configured, not banned"
ChooseConnection(c, retry, transferred, fallback, due, mccUsable) ==
    LET givesUp  == retry /\ fallback # "custom" /\ due
        allowMcc == c.allowMcc /\ ~givesUp
        wanted   == IF retry THEN RetryType(c, transferred, fallback, due) ELSE "MCC"
        type     == IF wanted = "MCC" /\ allowMcc /\ mccUsable THEN "MCC" ELSE "CDN"
    IN  [c EXCEPT
            !.type = type,
            !.allowMcc = allowMcc,
            !.attempts = IF type # c.type THEN 1
                         ELSE IF @ < MaxAttempts THEN @ + 1 ELSE @]

\* _SendHttpRequest, once the request is made: what the next choice looks back at
MarkRequest(c, transferred) ==
    [c EXCEPT !.begunAt = transferred, !.originalTried = @ \/ c.type = "CDN"]

\* _IsFatalError: a 4xx of the cache is not fatal while falling back is allowed
IsFatalError(c, kind, fallback) ==
    \/ kind = "local"
    \/ kind = "client" /\ (c.type = "MCC" => fallback = "never")

\* _ShouldPauseMccUsage: the retry is not delayed
ShouldPauseMccUsage(c, kind, fallback, due) ==
    /\ c.type = "MCC"
    /\ kind = "client" \/ (IF fallback = "custom" THEN ~c.originalTried ELSE due)

\* ReportHostError: these failures ban the cache, for this original host or for all
IsBannable(kind) == kind \in {"client", "unreachable"}

\* Variant: the default time-out of libcurl is not overridden for the original host
ConnectTimeoutOfCurl(type) == IF type = "MCC" THEN 3 ELSE 300

\* _SendHttpRequest's choice of connect time-out, in seconds
ConnectTimeout(type) == IF type = "MCC" THEN 3 ELSE 15
=============================================================================
