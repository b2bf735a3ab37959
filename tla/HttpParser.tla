----------------------------- MODULE HttpParser -----------------------------
(***************************************************************************)
(* class HttpParser (common/lib-dohttp/do_http_parser.cpp), with which the *)
(* agent reads requests and the SDK reads responses.  It is fed whatever   *)
(* piece of the stream a read returned, keeps all of it in a buffer of     *)
(* fixed capacity, and takes up at an iterator where it stopped.           *)
(*                                                                         *)
(* The stream is a sequence of symbols: CR, LF, and one symbol for each    *)
(* text between them that the parser tells apart.  A read may end between  *)
(* any two of them, so also between CR and LF.  An exception of OnData is  *)
(* the state "Failed".                                                     *)
(***************************************************************************)
EXTENDS Naturals, Sequences

CONSTANT Capacity   \* of _incomingDataBuf, 2048 bytes in the code

\* First lines: a request, a status, or anything else.  Fields: a Content-Length
\* of so many symbols, one without a number, or one that is not interesting.
FirstLines == {"request", "status"}
Lengths == [length0 |-> 0, length1 |-> 1, length2 |-> 2]
Symbols == FirstLines \cup DOMAIN Lengths \cup {"CR", "LF", "badLength", "field", "text"}

Packets == [line : FirstLines \cup {"none"}, length : Nat, body : Seq(Symbols)]

ParserStates == {"FirstLine", "Fields", "Body", "Complete", "Failed"}

Parsers ==
    [state : ParserStates, buf : Seq(Symbols), from : Nat \ {0}, packet : Packets]

\* Reset
NewParser ==
    [state |-> "FirstLine", buf |-> <<>>, from |-> 1,
     packet |-> [line |-> "none", length |-> 0, body |-> <<>>]]

Failed(p) == [p EXCEPT !.state = "Failed"]

\* _FindCRLF: the place of the first CR, if the symbol after it is there too
CRs(p, start) == {i \in start .. Len(p.buf) - 1 : p.buf[i] = "CR"}
FoundCRLF(p, start) == CRs(p, start) # {}
FindCRLF(p, start) == CHOOSE i \in CRs(p, start) : \A j \in CRs(p, start) : i <= j
IsMalformed(p, start) == p.buf[FindCRLF(p, start) + 1] # "LF"

ParseFirstLine(p) ==
    LET end == FindCRLF(p, 1)
    IN  IF ~FoundCRLF(p, 1) THEN p
        ELSE IF IsMalformed(p, 1) \/ end # 2 \/ p.buf[1] \notin FirstLines THEN Failed(p)
        ELSE [p EXCEPT !.state = "Fields", !.from = end + 2, !.packet.line = p.buf[1]]

\* _ParseNextField; nothing changes once it has returned FALSE
ParseNextField[p \in Parsers] ==
    LET end   == FindCRLF(p, p.from)
        field == {p.buf[i] : i \in p.from .. end - 1}
        next  == [p EXCEPT !.from = end + 2]
    IN  IF p.state # "Fields" \/ ~FoundCRLF(p, p.from) THEN p
        ELSE IF IsMalformed(p, p.from) \/ "badLength" \in field THEN Failed(p)
        ELSE IF end = p.from THEN [next EXCEPT !.state = "Body"]
        ELSE IF field \cap DOMAIN Lengths = {} THEN next
        ELSE [next EXCEPT !.packet.length =
                            Lengths[CHOOSE s \in field : s \in DOMAIN Lengths]]

\* As often as it returns TRUE: there are not more fields than symbols
ParseFields(p) ==
    LET after[n \in 0 .. Len(p.buf)] ==
            IF n = 0 THEN p ELSE ParseNextField[after[n - 1]]
    IN  after[Len(p.buf)]

\* The body is taken when exactly all of it is there
ParseBody(p) ==
    IF p.packet.length = 0 THEN [p EXCEPT !.state = "Complete"]
    ELSE IF Len(p.buf) - p.from + 1 = p.packet.length
    THEN [p EXCEPT !.state = "Complete", !.from = Len(p.buf) + 1,
                   !.packet.body = SubSeq(p.buf, p.from, Len(p.buf))]
    ELSE p

\* _ParseBuf
ParseBuf(p) ==
    CASE p.state = "FirstLine" -> ParseFirstLine(p)
      [] p.state = "Fields"    -> ParseFields(p)
      [] p.state = "Body"      -> ParseBody(p)
      [] OTHER                 -> p

\* Variant: one state per call, although the data of several may be there
ParseOnce(p) == ParseBuf(p)

\* The loop of OnData, as long as the state changes: three times at most
ParseAll(p) ==
    LET once  == ParseBuf(p)
        twice == ParseBuf(once)
    IN  ParseBuf(twice)

\* Variant: the buffer grows, which would also invalidate the iterator
OnDataUnlimited(p, chunk) == ParseAll([p EXCEPT !.buf = @ \o chunk])

\* Variant: the iterator is not kept from one read to the next
OnDataFromStart(p, chunk) ==
    IF Len(p.buf) + Len(chunk) > Capacity THEN Failed(p)
    ELSE ParseAll([p EXCEPT !.buf = @ \o chunk, !.from = 1])

OnData(p, chunk) ==
    IF Len(p.buf) + Len(chunk) > Capacity THEN Failed(p)
    ELSE ParseAll([p EXCEPT !.buf = @ \o chunk])
=============================================================================
