--------------------------- MODULE RestConnection ---------------------------
(***************************************************************************)
(* The REST interface between a client and the agent, over one connection  *)
(* at a time:                                                              *)
(*   - client: CHttpClientImpl::GetResponse and do_http_message.cpp of the *)
(*     SDK, which writes a request and reads until the response is whole;  *)
(*   - agent: HttpListenerConnection (ipc/rest_http_listener_conn.cpp),    *)
(*     which reads, posts the callback of a whole request to the io        *)
(*     service, and reads on before the callback has run; and              *)
(*     RestHttpController::_HttpListenerCallback, which replies.           *)
(*                                                                         *)
(* TCP hands the bytes over in pieces of any size.  The requests are those *)
(* of CONSTANT Requests, well formed or not; Answers are the status codes  *)
(* a processed request may have.                                           *)
(***************************************************************************)
EXTENDS HttpParser

CONSTANTS
    Requests,       \* requests, as records [line, fields, body, end]
    MaxRequests

Answers == {"200", "400"}

CRLF == <<"CR", "LF">>

\* What a message consists of: the texts of its lines, what ends them, and its body
Texts == Symbols \ {"CR", "LF"}
Messages ==
    [line : Texts, fields : Seq(Texts), body : Seq(Symbols), end : {<<"CR", s>> : s \in Symbols}]

\* The bytes of a message.  HttpRequest::Serialize ends each line with CRLF; a client
\* that is not the SDK may end it otherwise.
Serialize(message) ==
    LET texts == <<message.line>> \o message.fields
        Line(i) == texts[(i + 2) \div 3]
    IN  [i \in 1 .. 3 * Len(texts) |->
            CASE i % 3 = 1 -> Line(i) [] i % 3 = 2 -> message.end[1] [] OTHER -> message.end[2]]
        \o CRLF \o message.body

\* HttpListenerConnection::Reply: the controller always has a body, a refusal by the
\* connection itself has none
ReplyMessage(hasBody) ==
    [line |-> "status", fields |-> IF hasBody THEN <<"length2", "field">> ELSE <<"field">>,
     body |-> IF hasBody THEN <<"text", "text">> ELSE <<>>, end |-> CRLF]

Response(hasBody) == Serialize(ReplyMessage(hasBody))

\* A body is announced, and each length that is given is that of the body
AnnouncesBody(message) ==
    LET lengths == {message.fields[i] : i \in DOMAIN message.fields} \cap DOMAIN Lengths
    IN  /\ \A s \in lengths : Lengths[s] = Len(message.body)
        /\ lengths = {} => message.body = <<>>

\* The responses fit into the buffer.  A request announces its body, if it is one at all.
ASSUME RestConnectionAssumption ==
    /\ MaxRequests \in Nat
    /\ Capacity \in Nat /\ Len(Response(TRUE)) <= Capacity
    /\ Requests \subseteq Messages
    /\ \A r \in Requests : r.line \in FirstLines /\ r.end = CRLF => AnnouncesBody(r)

VARIABLES
    toAgent,        \* symbols on their way to the agent
    agent,          \* its parser
    reading,        \* async_read_some is pending
    open,           \* the agent's end of the connection
    posted,         \* packets whose callback is posted to the io service
    toClient,       \* symbols on their way to the client
    codes,          \* status codes of the responses on their way
    client,         \* its parser
    exchange,       \* the client: idle, waiting, or how its last request ended
    asked,          \* history: the request of the exchange
    sent            \* number of requests so far

agentVars  == <<agent, reading, open, posted>>
clientVars == <<client, exchange, asked, sent>>
vars == <<toAgent, agentVars, toClient, codes, clientVars>>

TypeOK ==
    /\ toAgent \in Seq(Symbols)
    /\ agent \in Parsers
    /\ reading \in BOOLEAN
    /\ open \in BOOLEAN
    /\ posted \in Seq(Packets)
    /\ toClient \in Seq(Symbols)
    /\ codes \in Seq(Answers)
    /\ client \in Parsers
    /\ exchange \in {"idle", "waiting", "broken"} \cup Answers
    /\ asked \in Requests
    /\ sent \in 0 .. MaxRequests
    /\ \A p \in {agent, client} : Len(p.buf) <= Capacity /\ p.from <= Len(p.buf) + 1

Init ==
    /\ toAgent = <<>> /\ toClient = <<>> /\ codes = <<>>
    /\ agent = NewParser /\ client = NewParser
    /\ reading = TRUE
    /\ open = TRUE
    /\ posted = <<>>
    /\ exchange = "idle"
    /\ asked \in Requests
    /\ sent = 0

-----------------------------------------------------------------------------
(***************************************************************************)
(* The client.                                                             *)
(***************************************************************************)

\* HttpRequest::Serialize and a fresh HttpResponse.  A connection the agent has left
\* is made anew (CHttpClient::_InitializeDOConnection).
Send(r) ==
    /\ exchange # "waiting"
    /\ sent < MaxRequests
    /\ IF open
       THEN toAgent' = toAgent \o Serialize(r) /\ UNCHANGED <<agentVars, toClient, codes>>
       ELSE /\ toAgent' = Serialize(r)
            /\ toClient' = <<>>
            /\ codes' = <<>>
            /\ agent' = NewParser
            /\ reading' = TRUE
            /\ open' = TRUE
            /\ posted' = <<>>
    /\ client' = NewParser
    /\ exchange' = "waiting"
    /\ asked' = r
    /\ sent' = sent + 1

\* One round of the loop of HttpResponse::Deserialize
ClientReads(n) ==
    /\ exchange = "waiting"
    /\ n \in 1 .. Len(toClient)
    /\ client' = OnData(client, SubSeq(toClient, 1, n))
    /\ toClient' = SubSeq(toClient, n + 1, Len(toClient))
    /\ CASE client'.state = "Complete" ->
                exchange' = Head(codes) /\ codes' = Tail(codes)
         [] client'.state = "Failed" -> exchange' = "broken" /\ UNCHANGED codes
         [] OTHER -> UNCHANGED <<exchange, codes>>
    /\ UNCHANGED <<toAgent, agentVars, asked, sent>>

\* read_some fails: the agent has closed the connection without an answer
ClientLosesConnection ==
    /\ exchange = "waiting"
    /\ ~open
    /\ toClient = <<>>
    /\ exchange' = "broken"
    /\ UNCHANGED <<toAgent, agentVars, toClient, codes, client, asked, sent>>

-----------------------------------------------------------------------------
(***************************************************************************)
(* The agent.                                                              *)
(***************************************************************************)
Reply(code, hasBody) ==
    /\ codes' = Append(codes, code)
    /\ toClient' = toClient \o Response(hasBody)

\* Variant: the parser is not made ready for the next message
OnReadWithoutReset(n) ==
    /\ reading
    /\ n \in 1 .. Len(toAgent)
    /\ toAgent' = SubSeq(toAgent, n + 1, Len(toAgent))
    /\ agent' = OnData(agent, SubSeq(toAgent, 1, n))
    /\ reading' = (agent'.state # "Failed")
    /\ IF agent'.state = "Failed" THEN Reply("400", FALSE) ELSE UNCHANGED <<toClient, codes>>
    /\ posted' = IF agent'.state = "Complete" THEN Append(posted, agent'.packet) ELSE posted
    /\ UNCHANGED <<open, clientVars>>

\* _OnData: parse, post the callback of a whole message and read on; reply to what
\* cannot be parsed and read no more
OnRead(n) ==
    /\ reading
    /\ n \in 1 .. Len(toAgent)
    /\ toAgent' = SubSeq(toAgent, n + 1, Len(toAgent))
    /\ LET fed == OnData(agent, SubSeq(toAgent, 1, n)) IN
        /\ agent' = IF fed.state = "Complete" THEN NewParser ELSE fed
        /\ reading' = (fed.state # "Failed")
        /\ posted' = IF fed.state = "Complete" THEN Append(posted, fed.packet) ELSE posted
        /\ IF fed.state = "Failed" THEN Reply("400", FALSE) ELSE UNCHANGED <<toClient, codes>>
    /\ UNCHANGED <<open, clientVars>>

\* _HttpListenerCallback
RunCallback(code) ==
    /\ posted # <<>>
    /\ posted' = Tail(posted)
    /\ Reply(code, TRUE)
    /\ UNCHANGED <<toAgent, agent, reading, open, clientVars>>

\* ~HttpListenerConnection: nothing is pending that holds on to the object
Release ==
    /\ open
    /\ ~reading
    /\ posted = <<>>
    /\ open' = FALSE
    /\ UNCHANGED <<toAgent, agent, reading, posted, toClient, codes, clientVars>>

Next ==
    \/ \E r \in Requests : Send(r)
    \/ \E n \in 1 .. Len(toAgent) : OnRead(n)
    \/ \E n \in 1 .. Len(toClient) : ClientReads(n)
    \/ \E code \in Answers : RunCallback(code)
    \/ ClientLosesConnection
    \/ Release

\* The io service and the client's thread run; bytes arrive.
Fairness ==
    /\ WF_vars(\E n \in 1 .. Len(toAgent) : OnRead(n))
    /\ WF_vars(\E n \in 1 .. Len(toClient) : ClientReads(n))
    /\ WF_vars(\E code \in Answers : RunCallback(code))
    /\ WF_vars(ClientLosesConnection)
    /\ WF_vars(Release)

Spec == Init /\ [][Next]_vars /\ Fairness

-----------------------------------------------------------------------------
(***************************************************************************)
(* Properties.                                                             *)
(***************************************************************************)

\* Where the reads happen to end makes no difference: what the parser knows is what it
\* would know had all of its buffer come at once (_itParseFrom, _FindCRLF), and the buffer,
\* which must not move under that iterator, never outgrows what was reserved for it,
\* whatever is left in it and whatever comes next (HttpParser::OnData).
SplitsDoNotMatter ==
    \A p \in {agent, client} :
        /\ Len(p.buf) <= Capacity
        /\ p.state # "Failed" => p = OnData(NewParser, p.buf)

\* The controller is handed the request that was sent, whole and once.
RequestIsHandedOver ==
    posted # <<>> =>
        /\ Len(posted) = 1
        /\ exchange = "waiting"
        /\ posted[1].line = asked.line
        /\ posted[1].body = asked.body

\* Every exchange ends, a refused one with a status or a broken connection: neither
\* side waits for bytes the other will not send.
ExchangeEnds == (exchange = "waiting") ~> (exchange # "waiting")
=============================================================================
