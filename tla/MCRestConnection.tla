-------------------------- MODULE MCRestConnection --------------------------
(* RestConnection with the requests of the SDK and some of other clients. *)
EXTENDS RestConnection

\* What the SDK sends; a request with a body; a bare line feed where there should be
\* two characters; a length that is no number; no request line; a long header
SmallRequests == {
    [line |-> "request", fields |-> <<"field">>, body |-> <<>>, end |-> CRLF],
    [line |-> "request", fields |-> <<"length2">>, body |-> <<"text", "text">>, end |-> CRLF],
    [line |-> "request", fields |-> <<"field">>, body |-> <<>>, end |-> <<"CR", "text">>],
    [line |-> "request", fields |-> <<"badLength">>, body |-> <<>>, end |-> CRLF],
    [line |-> "text", fields |-> <<"field">>, body |-> <<>>, end |-> CRLF],
    [line |-> "request", fields |-> <<"field", "field", "field", "field">>, body |-> <<>>,
     end |-> CRLF]}
=============================================================================
