------------------------------ MODULE RestApi ------------------------------
(***************************************************************************)
(* The REST interface from the SDK's call to the table of downloads and    *)
(* back: the target of the request line (sdk-cpp/src/internal/rest), its   *)
(* parsing and dispatch (client-lite/src/ipc), the table                   *)
(* (download/download_manager.cpp), and the reply.                         *)
(*                                                                         *)
(* One request is under way at a time, since one io thread serves them and *)
(* waits for each.  RestConnection has the bytes of a request, Download    *)
(* what becomes of one download.  Texts are those of Uri.                  *)
(***************************************************************************)
EXTENDS Uri

CONSTANTS
    Ids,            \* identifiers, each a word
    Creations,      \* the URLs and paths a first, a second... download is created with
    RawRequests,    \* requests of other local clients, with a place for an id
    Timeouts,       \* the words that name a time-out of at least 10 s
    CacheHost       \* the cache host, a text

None == [by |-> "none"]

VARIABLES
    table,      \* DownloadManager::_downloads
    asked,      \* history: what the SDK was called with for each id
    request,    \* the request on the wire, or None
    packet,     \* what the agent read of it, or None
    reply       \* the answer to it, or None

vars == <<table, asked, request, packet, reply>>

States == {"Created", "Transferring", "Transferred", "Paused"}
Downloads == DOMAIN table

Init ==
    /\ table = <<>>
    /\ asked = <<>>
    /\ request = None
    /\ packet = None
    /\ reply = None

-----------------------------------------------------------------------------
(***************************************************************************)
(* The SDK's side.                                                         *)
(***************************************************************************)
Builder(api) == AppendPath(ParseUri(<<"download">>), <<api>>)

\* uri_builder::to_string
Target(uri) == Join(uri)

CreateTarget(url, path) ==
    LET withUrl == AppendQuery(Builder("create"), "Uri", url)
    IN  Target(IF path = <<>> THEN withUrl ELSE AppendQuery(withUrl, "DownloadFilePath", path))

CallTarget(api, id) == Target(AppendQuery(Builder(api), "Id", <<id>>))

Send(by, verb, target, call) ==
    /\ request = None /\ packet = None /\ reply = None
    /\ request' = [by |-> by, verb |-> verb, target |-> target, call |-> call]
    /\ UNCHANGED <<table, asked, packet, reply>>

\* CDownloadImpl::Init
SdkCreate ==
    /\ Cardinality(DOMAIN asked) < Len(Creations)
    /\ \E call \in Creations[Cardinality(DOMAIN asked) + 1] :
        Send("sdk", "POST", CreateTarget(call.url, call.path), call)

\* CDownloadImpl::_DownloadOperationCall, also for a download that has ended
SdkCall ==
    \E api \in {"start", "pause", "finalize", "abort"}, id \in DOMAIN asked :
        Send("sdk", "POST", CallTarget(api, id), None)

\* CDownloadImpl::GetStatus
SdkGetStatus ==
    \E id \in DOMAIN asked : Send("sdk", "GET", CallTarget("getstatus", id), None)

OtherCall ==
    \E raw \in RawRequests, id \in DOMAIN asked :
        Send("other", raw.verb, raw.before \o <<id>> \o raw.after, None)

\* SendRequest of the SDK's HTTP client returns
Receive ==
    /\ reply # None
    /\ reply' = None
    /\ UNCHANGED <<table, asked, request, packet>>

-----------------------------------------------------------------------------
(***************************************************************************)
(* The agent's parser.                                                     *)
(***************************************************************************)

\* rxRequestLine has no room for these
IsRequestTarget(text) == ToSet(text) \cap {";", "#", "[", "]", " ", "u-umlaut"} = {}

\* RestApiParser::Method, with the verb of each api
VerbOf ==
    [api \in {"create", "start", "pause", "finalize", "abort", "setproperty"} |-> "POST"]
    @@ [api \in {"enumerate", "getstatus", "getproperty"} |-> "GET"]

Method(path, verb) ==
    LET words == SplitPath(TextToLower(Decode(path)))
    IN  IF /\ Len(words) = 2 /\ words[1] = <<"download">> /\ Len(words[2]) = 1
           /\ words[2][1] \in DOMAIN VerbOf /\ VerbOf[words[2][1]] = verb
        THEN words[2][1] ELSE "unsupported"

\* RestApiParam::_knownParams, in that order
KnownParams == <<"id", "uri", "downloadfilepath", "noprogresstimeoutseconds", "propertykey">>
Lookup(key) == IF Len(key) = 1 THEN ToLower(key[1]) ELSE "unknown"

\* _ParseQueryString, once the names and values have been found to be in order.  No
\* request names a parameter twice in letters of different case.
DecodeParams(fields) ==
    [p \in {Lookup(k) : k \in DOMAIN fields} |->
        Decode(fields[CHOOSE k \in DOMAIN fields : Lookup(k) = p])]

Rejected(error) == [api |-> "none", params |-> <<>>, error |-> error]

\* The api and the parameters of a request, or what stops it before it is processed
Parsed(verb, target) ==
    LET url    == ParseUri(target)
        fields == SplitQuery(url.query)
        api    == Method(url.path, verb)
    IN  IF ~IsRequestTarget(target) \/ ~url.valid THEN Rejected("closed")
        ELSE IF ~IsDecodable(url.path) THEN Rejected("unhandled")
        ELSE IF api = "unsupported" THEN Rejected("E_UNSUPPORTED")
        ELSE IF \E k \in DOMAIN fields : Lookup(k) \notin ToSet(KnownParams)
        THEN Rejected("E_INVALIDARG")
        ELSE IF \E k \in DOMAIN fields : ~IsDecodable(fields[k]) THEN Rejected("unhandled")
        ELSE [api |-> api, params |-> DecodeParams(fields), error |-> "none"]

\* The request has been read, and the constructor of RestApiRequestBase looks at it
Parse ==
    /\ request # None
    /\ packet' = Parsed(request.verb, request.target)
                 @@ [by |-> request.by, call |-> request.call]
    /\ request' = None
    /\ UNCHANGED <<table, asked, reply>>

QueryParams == packet.params
StringParam(param) == IF param \in DOMAIN QueryParams THEN QueryParams[param] ELSE <<>>
TheId == StringParam("id")

\* The id names a download
IsKnownId == Len(TheId) = 1 /\ TheId[1] \in Downloads

\* _HttpStatusFromHRESULT
StatusOf(hr) ==
    CASE hr = "S_OK" -> 200
      [] hr = "E_NOT_SET" -> 404
      [] hr = "unhandled" -> 500
      [] hr = "closed" -> 0
      [] OTHER -> 400

-----------------------------------------------------------------------------
(***************************************************************************)
(* The agent's handlers.                                                   *)
(***************************************************************************)
Answer(hr) ==
    /\ reply' = [by |-> packet.by, call |-> packet.call, status |-> StatusOf(hr), hr |-> hr]
    /\ packet' = None
    /\ UNCHANGED request

Fail(hr) == Answer(hr) /\ UNCHANGED <<table, asked>>

Serves(apis) == packet # None /\ packet.api \in apis

\* Everything that throws before a handler runs
Refuse ==
    /\ packet # None
    /\ packet.error # "none"
    /\ Fail(packet.error)

\* HttpAgent::ValidateUrl
IsValidUrl(text) ==
    LET uri == ParseUri(text)
    IN  uri.valid /\ uri.scheme \in {<<"http">>, <<"https">>} /\ uri.host # <<>>

\* RestApiCreateRequest, CreateDownload and the constructor of Download
ServeCreate ==
    LET url == StringParam("uri")
    IN  /\ Serves({"create"})
        /\ IF url # <<>> /\ ~IsValidUrl(url) THEN Fail("INET_E_INVALID_URL")
           ELSE \E id \in Ids \ DOMAIN asked :
                /\ LET download == [url |-> url, path |-> StringParam("downloadfilepath"),
                                    state |-> "Created"]
                   IN  table' = [known \in Downloads \cup {id} |->
                                    IF known = id THEN download ELSE table[known]]
                /\ asked' = asked @@ (id :> packet.call)
                /\ Answer("S_OK")

ServeEnumerate == Serves({"enumerate"}) /\ Fail("E_NOTIMPL")

\* _GetDownload
ServeUnknownId ==
    /\ Serves({"start", "pause", "finalize", "abort", "getstatus", "setproperty"})
       \/ (Serves({"getproperty"}) /\ Lookup(StringParam("propertykey"))
                \in ToSet(KnownParams) \ {"propertykey"})
    /\ packet.api = "setproperty" =>
           DOMAIN QueryParams # {} /\ "propertykey" \notin DOMAIN QueryParams
    /\ ~IsKnownId
    /\ Fail("E_NOT_SET")

Enter(state) ==
    /\ table' = [table EXCEPT ![TheId[1]].state = state]
    /\ Answer("S_OK")
    /\ UNCHANGED asked

\* StartDownload.  _Start and _Resume may fail, and then leave the state alone.
ServeStart ==
    /\ Serves({"start"}) /\ IsKnownId
    /\ LET d == table[TheId[1]]
       IN  \/ d.state \in {"Transferring", "Transferred"} /\ Enter(d.state)
           \/ d.state = "Created" /\ d.url = <<>> /\ Fail("DO_E_DOWNLOAD_NO_URI")
           \/ /\ d.state = "Created" /\ d.url # <<>> /\ d.path = <<>>
              /\ Fail("DO_E_FILE_DOWNLOADSINK_UNSPECIFIED")
           \/ /\ d.state = "Paused" \/ (d.state = "Created" /\ <<>> \notin {d.url, d.path})
              /\ Enter("Transferring") \/ Fail("start failed")

\* PauseDownload
ServePause ==
    /\ Serves({"pause"}) /\ IsKnownId
    /\ LET state == table[TheId[1]].state
       IN  Enter(IF state = "Transferring" THEN "Paused" ELSE state)

Erase ==
    /\ table' = Restrict(table, Downloads \ {TheId[1]})
    /\ Answer("S_OK")
    /\ UNCHANGED asked

\* FinalizeDownload: the entry goes only if the download could be finalized
ServeFinalize ==
    /\ Serves({"finalize"}) /\ IsKnownId
    /\ IF table[TheId[1]].state = "Transferred" THEN Erase ELSE Fail("DO_E_INVALID_STATE")

\* AbortDownload
ServeAbort == Serves({"abort"}) /\ IsKnownId /\ Erase

\* RestApiGetStatusRequest
ServeGetStatus == Serves({"getstatus"}) /\ IsKnownId /\ Enter(table[TheId[1]].state)

\* RestApiGetPropertyRequest
ServeGetProperty ==
    LET key == StringParam("propertykey")
    IN  /\ Serves({"getproperty"})
        /\ \/ key = <<>> /\ Fail("E_INVALIDARG")
           \/ /\ key # <<>>
              /\ Lookup(key) \notin ToSet(KnownParams) \ {"propertykey"}
              /\ Fail("DO_E_UNKNOWN_PROPERTY_ID")
           \/ /\ Lookup(key) \in ToSet(KnownParams) \ {"propertykey"}
              /\ IsKnownId
              /\ Enter(table[TheId[1]].state)

\* Download::SetProperty: what it throws for one property, in the order it looks
PropertyError(d, param, value) ==
    IF param = "id" THEN "DO_E_READ_ONLY_PROPERTY"
    ELSE IF param = "noprogresstimeoutseconds"
    THEN IF Len(value) = 1 /\ value[1] \in Timeouts THEN "S_OK" ELSE "E_INVALIDARG"
    ELSE IF value = <<>> THEN "E_INVALIDARG"
    ELSE IF param = "uri" /\ ~IsValidUrl(value) THEN "INET_E_INVALID_URL"
    ELSE IF \/ param = "uri" /\ d.state \notin {"Created", "Paused"}
            \/ param = "downloadfilepath" /\ d.state # "Created"
    THEN "DO_E_INVALID_STATE"
    ELSE "S_OK"

SetProperty(d, param, value) ==
    IF param = "uri" THEN [d EXCEPT !.url = value]
    ELSE IF param = "downloadfilepath" THEN [d EXCEPT !.path = value] ELSE d

\* SetDownloadProperty of a parameter, if there is one, and if none before it has failed
SetNext(sofar, param) ==
    LET hr == PropertyError(sofar.download, param, QueryParams[param])
    IN  IF sofar.hr # "S_OK" \/ param \notin DOMAIN QueryParams THEN sofar
        ELSE IF hr # "S_OK" THEN [sofar EXCEPT !.hr = hr]
        ELSE [sofar EXCEPT !.download = SetProperty(@, param, QueryParams[param])]

\* One property after the other, up to the first that fails
SetInOrder(download, params) ==
    LET after[n \in 0 .. Len(params)] ==
            IF n = 0 THEN [hr |-> "S_OK", download |-> download]
            ELSE SetNext(after[n - 1], params[n])
    IN  after[Len(params)]

\* Variant: the id is not taken for a property
SetAllButId(download) == SetInOrder(download, Tail(KnownParams))

\* RestApiSetPropertyRequest: every parameter is a property to set, the id as well.  Without
\* any parameter nothing is set, and no download is looked for.
SetProperties(download) == SetInOrder(download, KnownParams)

ServeSetProperty ==
    /\ Serves({"setproperty"})
    /\ \/ "propertykey" \in DOMAIN QueryParams /\ Fail("DO_E_UNKNOWN_PROPERTY_ID")
       \/ /\ DOMAIN QueryParams = {}
          /\ Answer("S_OK")
          /\ UNCHANGED <<table, asked>>
       \/ /\ "propertykey" \notin DOMAIN QueryParams
          /\ IsKnownId
          /\ LET set == SetProperties(table[TheId[1]])
             IN  /\ table' = [table EXCEPT ![TheId[1]] = set.download]
                 /\ Answer(set.hr)
                 /\ UNCHANGED asked

Serve ==
    \/ Refuse \/ ServeCreate \/ ServeEnumerate \/ ServeUnknownId \/ ServeStart \/ ServePause
    \/ ServeFinalize \/ ServeAbort \/ ServeGetStatus \/ ServeGetProperty \/ ServeSetProperty

\* A download goes on by itself: it is complete, or it is given up
Progress ==
    /\ \E id \in Downloads, state \in {"Transferred", "Paused"} :
        /\ table[id].state = "Transferring"
        /\ table' = [table EXCEPT ![id].state = state]
    /\ UNCHANGED <<asked, request, packet, reply>>

Next ==
    SdkCreate \/ SdkCall \/ SdkGetStatus \/ OtherCall \/ Parse \/ Receive \/ Serve \/ Progress

Spec == Init /\ [][Next]_vars

-----------------------------------------------------------------------------
(***************************************************************************)
(* What a URL in the table is used for.                                    *)
(***************************************************************************)

\* SwapUrlHostNameForMCC: the request goes to the cache, which is told the host
SwapUrlHostName(url) ==
    LET swapped == [ParseUri(url) EXCEPT !.host = CacheHost]
    IN  Join(AppendQuery(swapped, "cacheHostOrigin", ParseUri(url).host))

-----------------------------------------------------------------------------
(***************************************************************************)
(* Properties.                                                             *)
(***************************************************************************)

\* The request to the cache is a valid one to that host for the same resource, with the
\* query of the original URL and after it the host the cache is to ask.
CacheIsToldTheOrigin ==
    \A id \in Downloads : table[id].url # <<>> =>
        LET original == ParseUri(table[id].url)
            swapped  == ParseUri(SwapUrlHostName(table[id].url))
            fields   == SplitQuery(swapped.query)
        IN  /\ swapped.valid
            /\ [swapped EXCEPT !.host = original.host, !.query = original.query] = original
            /\ swapped.host = CacheHost
            /\ IsPrefix(original.query, swapped.query)
            /\ <<"cacheHostOrigin">> \in DOMAIN fields
            /\ Decode(fields[<<"cacheHostOrigin">>]) = original.host

\* A URL and a path reach the agent as the caller of the SDK wrote them, whatever
\* delimiters of the enclosing request they hold ("it can contain embedded URI with
\* query string", rest_api_parser.cpp:91), and the agent refuses nothing of what the
\* SDK builds except for what the caller got wrong.  What arrived is what the cache is
\* asked for.
ArgumentsArrive ==
    /\ CacheIsToldTheOrigin
    /\ \A id \in Downloads :
        table[id].url = asked[id].url /\ table[id].path = asked[id].path
    /\ reply # None /\ reply.by = "sdk" =>
        /\ reply.hr \notin {"closed", "unhandled", "E_UNSUPPORTED", "E_INVALIDARG", "E_NOTIMPL"}
        /\ reply.hr = "INET_E_INVALID_URL" => ~IsValidUrl(reply.call.url)

\* A request that is answered with an error has changed nothing, also one that sets
\* several properties, and one that ends a download which cannot end.
FailedCallChangesNothing ==
    [][reply = None /\ reply' # None /\ reply'.status # 200 => table' = table]_vars
=============================================================================
