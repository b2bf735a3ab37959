----------------------------- MODULE MCRestApi -----------------------------
(* RestApi with URLs and paths that hold the delimiters of a request. *)
EXTENDS RestApi

MCNumbers == {"8080", "0", "5", "30"}

MCLowerCase ==
    ("HTTP" :> "http") @@ ("Host" :> "host") @@ ("Download" :> "download") @@
    ("PAUSE" :> "pause") @@ ("Id" :> "id") @@ ("Uri" :> "uri") @@
    ("DownloadFilePath" :> "downloadfilepath") @@ ("PropertyKey" :> "propertykey")

Http(host, rest) == <<"http", ":", "/", "/">> \o host \o rest
Plain == Http(<<"host">>, <<"/", "f">>)

\* Query, fragment, port, user, an address of IPv6, an encoded delimiter, no path
Urls ==
    {Plain,
     Http(<<"host", ":", "8080">>, <<"/", "f", "?", "a", "=", "5", "&", "b", ";", "c", "&">>),
     Http(<<"u", ":", "p", "@", "host">>, <<"?", "Uri", "=", "x", "+", "y">>),
     Http(<<"[", ":", ":", "5", "]">>, <<"/", "f", "%", "26", "g", "#", "h">>),
     <<"HTTP", ":", "/", "/", "Host">>,
     Http(<<"host">>, <<"/", "a", " ", "b">>),
     <<"f", ":", "/", "/", "host">>,
     <<>>}

MCCacheHost == <<"cache">>

File(name) == <<"/", "tmp", "/">> \o name
FilePaths ==
    {<<>>, File(<<"a">>)} \cup
    {File(<<"a", c, "26", "=", "b">>) : c \in {"&", ";", "%", "#", "+", " ", "?", "u-umlaut"}}

MCCreations ==
    <<{[url |-> u, path |-> File(<<"a">>)] : u \in Urls}
        \cup {[url |-> Plain, path |-> p] : p \in FilePaths},
      {[url |-> Plain, path |-> File(<<"b">>)]}>>

Raw(verb, before, after) == [verb |-> verb, before |-> before, after |-> after]
Query(api) == <<"/", "Download", "/", api, "?">>

\* The id is the value of a parameter named Id or id, or of none
MCRawRequests ==
    {Raw("GET",  Query("start") \o <<"Id", "=">>, <<>>),
     Raw("POST", <<"download", "%", "2F", "PAUSE", "?", "id", "=">>, <<>>),
     Raw("POST", <<"download", "%", "?", "Id", "=">>, <<>>),
     Raw("POST", Query("abort") \o <<"Id", "=">>, <<"%">>),
     Raw("POST", Query("abort") \o <<"Name", "=">>, <<>>),
     Raw("POST", Query("abort"), <<>>),
     Raw("POST", Query("abort") \o <<"Id", "=">>, <<";">>),
     Raw("GET",  Query("enumerate") \o <<"Uri", "=">>, <<>>),
     Raw("GET",  Query("getproperty") \o <<"PropertyKey", "=", "Uri", "&", "Id", "=">>, <<>>),
     Raw("GET",  Query("getproperty") \o <<"PropertyKey", "=", "Name", "&", "Id", "=">>, <<>>),
     Raw("GET",  Query("getproperty") \o <<"Id", "=">>, <<>>),
     Raw("POST", Query("setproperty"), <<>>),
     Raw("POST", Query("setproperty") \o <<"PropertyKey", "=", "Uri", "&", "Id", "=">>, <<>>),
     Raw("POST", Query("setproperty") \o <<"Id", "=">>,
         <<"&", "Uri", "=">> \o EncodeQuery(Http(<<"Host">>, <<"/", "g">>))
         \o <<"&", "DownloadFilePath", "=", "g">>)}
=============================================================================
