----------------------------- MODULE RestProofs -----------------------------
(***************************************************************************)
(* The REST interface, of bytes and of calls.  RestConnection keeps its    *)
(* safety properties for every set of requests, whatever the pieces in     *)
(* which the bytes arrive: the parser knows after each piece what it would *)
(* know had all come at once, and is done with a message exactly at its    *)
(* end.  At the end of the module, RestApi: a call that fails changes      *)
(* nothing.                                                                *)
(***************************************************************************)
EXTENDS RestConnection, WellFoundedInduction, TLAPS

-----------------------------------------------------------------------------
(***************************************************************************)
(* Where a parser is in a message.                                         *)
(***************************************************************************)

\* The place of the empty line
LastLine(r) == 3 * Len(r.fields) + 4

\* What the fields before the k-th say of the length of the body
AnnouncedBefore(r, k) ==
    IF \E j \in 1 .. k - 1 : r.fields[j] \in DOMAIN Lengths THEN Len(r.body) ELSE 0

IsPartOf(buf, r) ==
    /\ Len(buf) <= Len(Serialize(r))
    /\ \A i \in 1 .. Len(buf) : buf[i] = Serialize(r)[i]

AtField(p, r, k) ==
    /\ p.from = 3 * k + 1
    /\ p.from <= Len(p.buf) + 1
    /\ p.packet.length = AnnouncedBefore(r, k)

\* What may be on the wire, and what no parser refuses
IsSent(r) == r \in Messages /\ (r.line \in FirstLines /\ r.end = CRLF => AnnouncesBody(r))

IsProper(r) ==
    /\ r.line \in FirstLines
    /\ r.end = CRLF
    /\ \A k \in DOMAIN r.fields : r.fields[k] # "badLength"
    /\ Len(Serialize(r)) <= Capacity

OnTrack(p, r) ==
    /\ IsPartOf(p.buf, r)
    /\ p.state = "FirstLine" => p.from = 1 /\ p.packet = NewParser.packet
    /\ p.state \in {"Fields", "Body", "Complete"} =>
        r.line \in FirstLines /\ r.end = CRLF /\ p.packet.line = r.line
    /\ p.state \in {"Fields", "Body"} => p.packet.body = <<>>
    /\ p.state = "Fields" => \E k \in 1 .. Len(r.fields) + 1 : AtField(p, r, k)
    /\ p.state = "Body" =>
        /\ p.from = LastLine(r) + 2
        /\ p.from <= Len(p.buf) + 1
        /\ p.packet.length = AnnouncedBefore(r, Len(r.fields) + 1)
    /\ p.state = "Complete" => Len(p.buf) = Len(Serialize(r)) /\ p.packet.body = r.body
    /\ p.state = "Failed" => ~IsProper(r)

-----------------------------------------------------------------------------
(***************************************************************************)
(* The inductive invariant.                                                *)
(***************************************************************************)

\* Between two messages
AgentIsIdle == reading => agent = NewParser /\ toAgent = <<>>

\* The agent reads what was asked,
Asked ==
    /\ posted = <<>> /\ codes = <<>> /\ toClient = <<>>
    /\ client = NewParser
    /\ reading => agent.buf \o toAgent = Serialize(asked) /\ OnTrack(agent, asked)

\* has handed it to the controller,
Taken ==
    /\ Len(posted) = 1 /\ codes = <<>> /\ toClient = <<>>
    /\ client = NewParser
    /\ posted[1].line = asked.line /\ posted[1].body = asked.body
    /\ reading /\ AgentIsIdle

\* or has replied.
Answered ==
    /\ posted = <<>> /\ Len(codes) = 1 /\ toClient # <<>>
    /\ \E hasBody \in BOOLEAN :
        client.buf \o toClient = Response(hasBody) /\ OnTrack(client, ReplyMessage(hasBody))
    /\ AgentIsIdle

Protocol ==
    \/ exchange # "waiting" /\ posted = <<>> /\ codes = <<>> /\ toClient = <<>> /\ AgentIsIdle
    \/ exchange = "waiting" /\ Asked
    \/ exchange = "waiting" /\ Taken
    \/ exchange = "waiting" /\ Answered

\* The part of SplitsDoNotMatter that is not in TypeOK
SplitsAreForgotten ==
    \A p \in {agent, client} : p.state # "Failed" => p = OnData(NewParser, p.buf)

IInv ==
    /\ TypeOK
    /\ SplitsAreForgotten
    /\ reading => open /\ agent.state \notin {"Complete", "Failed"}
    /\ ~reading => agent.state = "Failed"
    /\ exchange = "waiting" => client.state \notin {"Complete", "Failed"}
    /\ Protocol

-----------------------------------------------------------------------------
(***************************************************************************)
(* The parser: what it finds, and the types of what it makes of it.        *)
(***************************************************************************)

\* The library has induction as the fact that < is well-founded on Nat.
Below == {p \in Nat \X Nat : p[1] < p[2]}

LEMMA LeastElement ==
    ASSUME NEW T, T \subseteq Nat, T # {}
    PROVE  \E least \in T : \A n \in T : ~(n < least)
<1>1. OpToRel(<, Nat) = Below
    BY Zenon DEF OpToRel, Below
<1>2. IsWellFoundedOn(Below, Nat)
    BY <1>1, NatLessThanWellFounded, Zenon
<1>3. PICK least \in T : \A n \in T : ~(<<n, least>> \in Below)
    BY <1>2, WFMin
<1> QED
    BY <1>3 DEF Below

\* _FindCRLF finds the first CR, and nothing before it
LEMMA Found ==
    ASSUME NEW p \in Parsers, NEW start \in Nat \ {0}, FoundCRLF(p, start)
    PROVE  /\ FindCRLF(p, start) \in start .. Len(p.buf) - 1
           /\ p.buf[FindCRLF(p, start)] = "CR"
           /\ \A j \in start .. FindCRLF(p, start) - 1 : p.buf[j] # "CR"
<1>1. CRs(p, start) # {} /\ CRs(p, start) \subseteq Nat
    BY DEF FoundCRLF, CRs
<1>2. PICK least \in CRs(p, start) : \A n \in CRs(p, start) : ~(n < least)
    BY <1>1, LeastElement
<1>3. \A n \in CRs(p, start) : least <= n
    BY <1>1, <1>2
<1>4. /\ FindCRLF(p, start) \in CRs(p, start)
      /\ \A n \in CRs(p, start) : FindCRLF(p, start) <= n
    BY <1>3 DEF FindCRLF
<1>5. Len(p.buf) \in Nat
    BY DEF Parsers
<1>6. /\ FindCRLF(p, start) \in start .. Len(p.buf) - 1
      /\ p.buf[FindCRLF(p, start)] = "CR"
    BY <1>4 DEF CRs
<1>7. ASSUME NEW j \in start .. FindCRLF(p, start) - 1, p.buf[j] = "CR"
      PROVE  FALSE
    <2>1. j \in CRs(p, start)
        BY <1>5, <1>6, <1>7 DEF CRs
    <2> QED
        BY <1>4, <1>6, <2>1
<1> QED
    BY <1>6, <1>7

LEMMA FoundAt ==
    ASSUME NEW p \in Parsers, NEW start \in Nat \ {0}, NEW i \in start .. Len(p.buf) - 1,
           p.buf[i] = "CR", \A j \in start .. i - 1 : p.buf[j] # "CR"
    PROVE  FoundCRLF(p, start) /\ FindCRLF(p, start) = i
<1>1. i \in CRs(p, start)
    BY DEF CRs
<1>2. FoundCRLF(p, start)
    BY <1>1 DEF FoundCRLF
<1>3. /\ FindCRLF(p, start) \in start .. Len(p.buf) - 1
      /\ p.buf[FindCRLF(p, start)] = "CR"
      /\ \A j \in start .. FindCRLF(p, start) - 1 : p.buf[j] # "CR"
    BY <1>2, Found
<1>4. Len(p.buf) \in Nat
    BY DEF Parsers
<1> QED
    BY <1>2, <1>3, <1>4

LEMMA LengthsAreNumbers ==
    /\ DOMAIN Lengths = {"length0", "length1", "length2"}
    /\ \A s \in DOMAIN Lengths : Lengths[s] \in Nat
BY DEF Lengths

\* The next piece of the stream is in the buffer.
Grown(p, chunk) == [p EXCEPT !.buf = @ \o chunk]

LEMMA GrownIsParser ==
    ASSUME NEW p \in Parsers, NEW chunk \in Seq(Symbols)
    PROVE  /\ Grown(p, chunk) \in Parsers
           /\ Grown(p, chunk).state = p.state
           /\ Grown(p, chunk).from = p.from
           /\ Grown(p, chunk).packet = p.packet
           /\ Grown(p, chunk).buf = p.buf \o chunk
           /\ Len(Grown(p, chunk).buf) = Len(p.buf) + Len(chunk)
           /\ \A i \in 1 .. Len(p.buf) : Grown(p, chunk).buf[i] = p.buf[i]
<1>1. p.buf \in Seq(Symbols)
    BY DEF Parsers
<1>2. /\ p.buf \o chunk \in Seq(Symbols)
      /\ Len(p.buf \o chunk) = Len(p.buf) + Len(chunk)
      /\ \A i \in 1 .. Len(p.buf) : (p.buf \o chunk)[i] = p.buf[i]
    BY <1>1
<1>3. Grown(p, chunk) = [p EXCEPT !.buf = p.buf \o chunk]
    BY DEF Grown
<1> QED
    BY <1>2, <1>3 DEF Parsers

\* Where a line end was found it is found again.
LEMMA FoundAgain ==
    ASSUME NEW p \in Parsers, NEW chunk \in Seq(Symbols), NEW start \in Nat \ {0},
           FoundCRLF(p, start)
    PROVE  /\ FoundCRLF(Grown(p, chunk), start)
           /\ FindCRLF(Grown(p, chunk), start) = FindCRLF(p, start)
           /\ IsMalformed(Grown(p, chunk), start) <=> IsMalformed(p, start)
<1> DEFINE end == FindCRLF(p, start)
           q == Grown(p, chunk)
<1>1. /\ end \in start .. Len(p.buf) - 1 /\ p.buf[end] = "CR"
      /\ \A j \in start .. end - 1 : p.buf[j] # "CR"
    BY Found
<1>2. /\ q \in Parsers /\ Len(q.buf) = Len(p.buf) + Len(chunk)
      /\ \A i \in 1 .. Len(p.buf) : q.buf[i] = p.buf[i]
      /\ Len(p.buf) \in Nat /\ Len(chunk) \in Nat
    BY GrownIsParser DEF Parsers
<1> HIDE DEF q, end
<1>3. FoundCRLF(q, start) /\ FindCRLF(q, start) = end
    <2>1. end \in start .. Len(q.buf) - 1 /\ end \in 1 .. Len(p.buf)
        BY <1>1, <1>2
    <2>2. \A j \in start .. end - 1 : j \in 1 .. Len(p.buf)
        BY <2>1
    <2>3. q.buf[end] = "CR" /\ \A j \in start .. end - 1 : q.buf[j] # "CR"
        BY <1>1, <1>2, <2>1, <2>2
    <2> QED
        BY <1>2, <2>1, <2>3, FoundAt
<1>4. end + 1 \in 1 .. Len(p.buf)
    BY <1>1, <1>2
<1>5. IsMalformed(q, start) <=> IsMalformed(p, start)
    BY <1>2, <1>3, <1>4 DEF IsMalformed, end
<1> QED
    BY <1>3, <1>5 DEF q, end

LEMMA FirstLineTyped ==
    ASSUME NEW p \in Parsers, p.from <= Len(p.buf) + 1
    PROVE  LET q == ParseFirstLine(p)
           IN  /\ q \in Parsers /\ q.buf = p.buf /\ q.from <= Len(q.buf) + 1
               /\ q = p \/ q.state \in {"Fields", "Failed"}
<1> DEFINE end == FindCRLF(p, 1)
<1>1. CASE ~FoundCRLF(p, 1)
    BY <1>1 DEF ParseFirstLine
<1>2. CASE FoundCRLF(p, 1) /\ (IsMalformed(p, 1) \/ end # 2 \/ p.buf[1] \notin FirstLines)
    <2>1. ParseFirstLine(p) = Failed(p)
        BY <1>2 DEF ParseFirstLine
    <2> QED
        BY <2>1 DEF Failed, Parsers, ParserStates
<1>3. CASE FoundCRLF(p, 1) /\ ~(IsMalformed(p, 1) \/ end # 2 \/ p.buf[1] \notin FirstLines)
    <2>1. end \in 1 .. Len(p.buf) - 1 /\ end = 2 /\ p.buf[1] \in FirstLines /\ Len(p.buf) \in Nat
        BY <1>3, Found DEF Parsers
    <2>2. ParseFirstLine(p)
            = [p EXCEPT !.state = "Fields", !.from = end + 2, !.packet.line = p.buf[1]]
        BY <1>3 DEF ParseFirstLine
    <2> HIDE DEF end
    <2>3. [p.packet EXCEPT !.line = p.buf[1]] \in Packets
        BY <2>1 DEF Parsers, Packets
    <2>4. /\ ParseFirstLine(p).buf = p.buf /\ ParseFirstLine(p).from = 4
          /\ ParseFirstLine(p).state = "Fields"
        BY <2>1, <2>2 DEF Parsers
    <2>5. ParseFirstLine(p) \in Parsers
        <3>1. ParseFirstLine(p) = [p EXCEPT !.state = "Fields", !.from = end + 2,
                                            !.packet = [p.packet EXCEPT !.line = p.buf[1]]]
            BY <2>2 DEF Parsers
        <3>2. end + 2 \in Nat \ {0} /\ "Fields" \in ParserStates
            BY <2>1 DEF ParserStates
        <3> DEFINE packet == [p.packet EXCEPT !.line = p.buf[1]]
        <3> HIDE DEF packet
        <3> QED
            BY <2>3, <3>1, <3>2 DEF Parsers, packet
    <2> QED
        BY <2>1, <2>4, <2>5
<1> QED
    BY <1>1, <1>2, <1>3

\* _ParseNextField, case by case
LEMMA NextFieldCases ==
    ASSUME NEW p \in Parsers
    PROVE  LET end   == FindCRLF(p, p.from)
               field == {p.buf[i] : i \in p.from .. end - 1}
               next  == [p EXCEPT !.from = end + 2]
               s     == CHOOSE s \in field : s \in DOMAIN Lengths
           IN  \/ /\ p.state # "Fields" \/ ~FoundCRLF(p, p.from)
                  /\ ParseNextField[p] = p
               \/ /\ p.state = "Fields" /\ FoundCRLF(p, p.from)
                  /\ IsMalformed(p, p.from) \/ "badLength" \in field
                  /\ ParseNextField[p] = Failed(p)
               \/ /\ p.state = "Fields" /\ FoundCRLF(p, p.from)
                  /\ ~IsMalformed(p, p.from) /\ "badLength" \notin field /\ end = p.from
                  /\ ParseNextField[p] = [next EXCEPT !.state = "Body"]
               \/ /\ p.state = "Fields" /\ FoundCRLF(p, p.from)
                  /\ ~IsMalformed(p, p.from) /\ "badLength" \notin field /\ end # p.from
                  /\ field \cap DOMAIN Lengths = {}
                  /\ ParseNextField[p] = next
               \/ /\ p.state = "Fields" /\ FoundCRLF(p, p.from)
                  /\ ~IsMalformed(p, p.from) /\ "badLength" \notin field /\ end # p.from
                  /\ s \in field /\ s \in DOMAIN Lengths
                  /\ ParseNextField[p] = [next EXCEPT !.packet.length = Lengths[s]]
BY DEF ParseNextField

LEMMA NextFieldTyped ==
    ASSUME NEW p \in Parsers, p.from <= Len(p.buf) + 1
    PROVE  LET q == ParseNextField[p]
           IN  /\ q \in Parsers /\ q.buf = p.buf /\ q.from <= Len(q.buf) + 1
               /\ q.state \in {"Fields", "Body", "Failed"} \/ q = p
               /\ q = p \/ q.state # "Fields" \/ q.from > p.from
<1> DEFINE end   == FindCRLF(p, p.from)
           field == {p.buf[i] : i \in p.from .. end - 1}
           next  == [p EXCEPT !.from = end + 2]
           s     == CHOOSE s \in field : s \in DOMAIN Lengths
<1>0. p.from \in Nat \ {0} /\ Len(p.buf) \in Nat
    BY DEF Parsers
<1>1. ASSUME FoundCRLF(p, p.from)
      PROVE  /\ next \in Parsers /\ next.buf = p.buf /\ next.from <= Len(next.buf) + 1
             /\ next.from > p.from /\ next.state = p.state
    <2>1. end \in p.from .. Len(p.buf) - 1
        BY <1>0, <1>1, Found
    <2> HIDE DEF end
    <2> QED
        BY <1>0, <2>1 DEF Parsers
<1>2. Failed(p) \in Parsers /\ Failed(p).buf = p.buf /\ Failed(p).from = p.from
      /\ Failed(p).state = "Failed"
    BY DEF Failed, Parsers, ParserStates
<1>3. ASSUME FoundCRLF(p, p.from), s \in DOMAIN Lengths
      PROVE  LET q == [next EXCEPT !.packet.length = Lengths[s]]
             IN  /\ q \in Parsers /\ q.buf = p.buf /\ q.from = next.from /\ q.state = next.state
    <2>1. Lengths[s] \in Nat
        BY <1>3, LengthsAreNumbers
    <2> HIDE DEF next, s
    <2> QED
        BY <1>1, <1>3, <2>1 DEF Parsers, Packets
<1>4. ASSUME FoundCRLF(p, p.from)
      PROVE  LET q == [next EXCEPT !.state = "Body"]
             IN  /\ q \in Parsers /\ q.buf = p.buf /\ q.from = next.from /\ q.state = "Body"
    <2> HIDE DEF next
    <2> QED
        BY <1>1, <1>4 DEF Parsers, ParserStates
<1>5. CASE ParseNextField[p] = p
    BY <1>5
<1>6. CASE ParseNextField[p] = Failed(p)
    BY <1>2, <1>6
<1>7. CASE FoundCRLF(p, p.from) /\ ParseNextField[p] = [next EXCEPT !.state = "Body"]
    <2> HIDE DEF next
    <2> QED
        BY <1>1, <1>4, <1>7
<1>8. CASE FoundCRLF(p, p.from) /\ ParseNextField[p] = next /\ p.state = "Fields"
    <2> HIDE DEF next
    <2> QED
        BY <1>1, <1>8
<1>9. CASE /\ FoundCRLF(p, p.from) /\ p.state = "Fields" /\ s \in DOMAIN Lengths
           /\ ParseNextField[p] = [next EXCEPT !.packet.length = Lengths[s]]
    <2> HIDE DEF next, s
    <2> QED
        BY <1>1, <1>3, <1>9
<1> QED
    BY <1>5, <1>6, <1>7, <1>8, <1>9, NextFieldCases

-----------------------------------------------------------------------------
(***************************************************************************)
(* The loop over the fields.                                               *)
(***************************************************************************)

\* Induction as far as N, on the numbers in a set
LEMMA Induction ==
    ASSUME NEW N \in Nat, NEW S, 0 \in S,
           \A n \in 1 .. N : n - 1 \in S => n \in S
    PROVE  \A n \in 0 .. N : n \in S
<1> DEFINE Missing == {n \in 0 .. N : n \notin S}
<1> SUFFICES ASSUME Missing # {} PROVE FALSE
    OBVIOUS
<1>1. PICK least \in Missing : \A n \in Missing : ~(n < least)
    <2>1. Missing \subseteq Nat
        OBVIOUS
    <2> HIDE DEF Missing
    <2> QED
        BY <2>1, LeastElement
<1>2. least \in 1 .. N
    BY <1>1
<1>3. least - 1 \in 0 .. N /\ least - 1 < least
    BY <1>2
<1>4. least - 1 \in S
    BY <1>1, <1>3
<1> QED
    BY <1>1, <1>2, <1>4

\* The passes of the loop
After(p) ==
    CHOOSE after : after = [n \in 0 .. Len(p.buf) |->
                              IF n = 0 THEN p ELSE ParseNextField[after[n - 1]]]

LEMMA Passes ==
    ASSUME NEW p \in Parsers
    PROVE  /\ After(p)[0] = p
           /\ \A n \in 1 .. Len(p.buf) : After(p)[n] = ParseNextField[After(p)[n - 1]]
           /\ ParseFields(p) = After(p)[Len(p.buf)]
<1> DEFINE N == Len(p.buf)
           IsUpTo(f, m) == f = [n \in 0 .. m |-> IF n = 0 THEN p ELSE ParseNextField[f[n - 1]]]
           S == {m \in 0 .. N : \E f : IsUpTo(f, m)}
<1>1. N \in Nat
    BY DEF Parsers
<1> HIDE DEF N
<1>2. 0 \in S
    <2>1. IsUpTo([n \in 0 .. 0 |-> p], 0)
        OBVIOUS
    <2> HIDE DEF IsUpTo
    <2> QED
        BY <1>1, <2>1
<1>3. ASSUME NEW m \in 1 .. N, m - 1 \in S PROVE m \in S
    <2>1. PICK f : IsUpTo(f, m - 1)
        BY <1>3
    <2> DEFINE g == [n \in 0 .. m |-> IF n = m THEN ParseNextField[f[m - 1]] ELSE f[n]]
    <2>2. m \in Nat /\ m - 1 \in Nat
        BY <1>1
    <2>3. \A n \in 0 .. m : g[n] = IF n = 0 THEN p ELSE ParseNextField[g[n - 1]]
        <3> SUFFICES ASSUME NEW n \in 0 .. m
                     PROVE  g[n] = IF n = 0 THEN p ELSE ParseNextField[g[n - 1]]
            OBVIOUS
        <3>1. CASE n = m
            <4>1. n # 0 /\ m - 1 \in 0 .. m /\ m - 1 # m
                BY <2>2, <3>1
            <4> QED
                BY <3>1, <4>1
        <3>2. CASE n # m
            <4>1. n \in 0 .. m - 1 /\ g[n] = f[n]
                BY <2>2, <3>2
            <4>2. f[n] = IF n = 0 THEN p ELSE ParseNextField[f[n - 1]]
                BY <2>1, <4>1
            <4>3. n # 0 => n - 1 \in 0 .. m /\ n - 1 # m
                BY <2>2, <4>1
            <4> QED
                BY <4>1, <4>2, <4>3
        <3> QED
            BY <3>1, <3>2
    <2>4. IsUpTo(g, m)
        BY <2>3
    <2>5. m \in 0 .. N
        BY <1>1
    <2> HIDE DEF IsUpTo, g
    <2> QED
        BY <2>4, <2>5
<1>4. N \in S
    <2> HIDE DEF S
    <2> QED
        BY <1>1, <1>2, <1>3, Induction
<1>5. IsUpTo(After(p), N)
    BY <1>4 DEF After, N
<1>6. After(p)[0] = p /\ \A n \in 1 .. N : After(p)[n] = ParseNextField[After(p)[n - 1]]
    BY <1>1, <1>5
<1>7. ParseFields(p) = After(p)[Len(p.buf)]
    BY DEF ParseFields, After
<1> QED
    BY <1>6, <1>7 DEF N

LEMMA PassesTyped ==
    ASSUME NEW p \in Parsers, p.from <= Len(p.buf) + 1
    PROVE  \A n \in 0 .. Len(p.buf) :
            LET q == After(p)[n]
            IN  /\ q \in Parsers /\ q.buf = p.buf /\ q.from <= Len(q.buf) + 1
                /\ q = p \/ q.state \in {"Fields", "Body", "Failed"}
                /\ ParseNextField[q] = q \/ q.from >= n + 1
<1> DEFINE N == Len(p.buf)
           Good(q, n) == /\ q \in Parsers /\ q.buf = p.buf /\ q.from <= Len(q.buf) + 1
                         /\ q = p \/ q.state \in {"Fields", "Body", "Failed"}
                         /\ ParseNextField[q] = q \/ q.from >= n + 1
           S == {n \in 0 .. N : Good(After(p)[n], n)}
<1>1. N \in Nat /\ p.from \in Nat \ {0}
    BY DEF Parsers
<1>2. 0 \in S
    BY <1>1, Passes
<1>3. ASSUME NEW n \in 1 .. N, n - 1 \in S PROVE n \in S
    <2> DEFINE before == After(p)[n - 1]
               q == After(p)[n]
    <2>1. q = ParseNextField[before]
        BY <1>3, Passes
    <2>2. Good(before, n - 1)
        BY <1>3
    <2>3. /\ q \in Parsers /\ q.buf = before.buf /\ q.from <= Len(q.buf) + 1
          /\ q.state \in {"Fields", "Body", "Failed"} \/ q = before
          /\ q = before \/ q.state # "Fields" \/ q.from > before.from
        BY <2>1, <2>2, NextFieldTyped
    <2>4. q.state # "Fields" => ParseNextField[q] = q
        BY <2>3, NextFieldCases
    <2>5. ParseNextField[q] = q \/ q.from >= n + 1
        <3>1. CASE q = before \/ q.state # "Fields"
            <4>1. CASE q = before /\ ParseNextField[before] # before
                BY <2>1, <4>1
            <4> QED
                BY <2>4, <3>1, <4>1
        <3>2. CASE q # before /\ q.state = "Fields"
            <4>1. ParseNextField[before] # before /\ q.from > before.from
                BY <2>1, <2>3, <3>2
            <4>2. before.from >= n
                BY <1>1, <2>2, <4>1
            <4>3. before.from \in Nat /\ q.from \in Nat /\ n \in Nat
                BY <2>2, <2>3 DEF Parsers
            <4> QED
                BY <4>1, <4>2, <4>3
        <3> QED
            BY <3>1, <3>2
    <2> HIDE DEF q, before
    <2>6. Good(q, n)
        BY <2>2, <2>3, <2>5
    <2> QED
        BY <2>6 DEF q
<1> HIDE DEF S
<1>4. \A n \in 0 .. N : n \in S
    BY <1>1, <1>2, <1>3, Induction
<1> QED
    BY <1>4 DEF S

\* The loop ends where it can go no further.
LEMMA FieldsSettle ==
    ASSUME NEW p \in Parsers, p.from <= Len(p.buf) + 1
    PROVE  LET q == ParseFields(p)
           IN  /\ q \in Parsers /\ q.buf = p.buf /\ q.from <= Len(q.buf) + 1
               /\ q = p \/ q.state \in {"Fields", "Body", "Failed"}
               /\ ParseNextField[q] = q
<1> DEFINE N == Len(p.buf)
           q == ParseFields(p)
<1>1. N \in Nat /\ N \in 0 .. N
    BY DEF Parsers
<1>2. q = After(p)[N]
    BY Passes
<1>3. /\ q \in Parsers /\ q.buf = p.buf /\ q.from <= Len(q.buf) + 1
      /\ q = p \/ q.state \in {"Fields", "Body", "Failed"}
      /\ ParseNextField[q] = q \/ q.from >= N + 1
    BY <1>1, <1>2, PassesTyped
<1> HIDE DEF q
<1>4. ASSUME q.from >= N + 1 PROVE ParseNextField[q] = q
    <2>1. q.from \in Nat /\ Len(q.buf) = N
        BY <1>3 DEF Parsers
    <2>2. CRs(q, q.from) = {}
        BY <1>1, <1>4, <2>1 DEF CRs
    <2> QED
        BY <1>3, <2>2, NextFieldCases DEF FoundCRLF
<1> QED
    BY <1>3, <1>4 DEF q

\* It may as well begin one field later.
LEMMA FieldsUnfold ==
    ASSUME NEW p \in Parsers, p.from <= Len(p.buf) + 1
    PROVE  ParseFields(ParseNextField[p]) = ParseFields(p)
<1> DEFINE N == Len(p.buf)
           q == ParseNextField[p]
           S == {n \in 0 .. N : After(q)[n] = ParseNextField[After(p)[n]]}
<1>1. q \in Parsers /\ q.buf = p.buf /\ N \in Nat /\ N \in 0 .. N
    BY NextFieldTyped DEF Parsers
<1>2. 0 \in S
    BY <1>1, Passes
<1>3. ASSUME NEW n \in 1 .. N, n - 1 \in S PROVE n \in S
    <2>1. After(p)[n] = ParseNextField[After(p)[n - 1]]
        BY <1>3, Passes
    <2>2. After(q)[n] = ParseNextField[After(q)[n - 1]]
        <3> HIDE DEF q
        <3> QED
            BY <1>1, <1>3, Passes
    <2> QED
        BY <1>3, <2>1, <2>2
<1>4. N \in S
    <2> HIDE DEF S
    <2> QED
        BY <1>1, <1>2, <1>3, Induction
<1>5. ParseFields(q) = After(q)[N] /\ ParseFields(p) = After(p)[N]
    <2> HIDE DEF q
    <2> QED
        BY <1>1, Passes
<1>6. ParseNextField[ParseFields(p)] = ParseFields(p)
    BY FieldsSettle
<1> QED
    BY <1>4, <1>5, <1>6

\* Nothing is left to the loop once the state is another.
LEMMA FieldsOnly ==
    ASSUME NEW p \in Parsers, p.from <= Len(p.buf) + 1, ParseNextField[p] = p
    PROVE  ParseFields(p) = p
<1> DEFINE N == Len(p.buf)
           S == {n \in 0 .. N : After(p)[n] = p}
<1>1. N \in Nat /\ N \in 0 .. N
    BY DEF Parsers
<1>2. 0 \in S
    BY <1>1, Passes
<1>3. ASSUME NEW n \in 1 .. N, n - 1 \in S PROVE n \in S
    BY <1>3, Passes
<1>4. N \in S
    <2> HIDE DEF S
    <2> QED
        BY <1>1, <1>2, <1>3, Induction
<1> QED
    BY <1>4, Passes

LEMMA BodyTyped ==
    ASSUME NEW p \in Parsers, p.state = "Body", p.from <= Len(p.buf) + 1
    PROVE  LET q == ParseBody(p)
           IN  /\ q \in Parsers /\ q.buf = p.buf /\ q.from <= Len(q.buf) + 1
               /\ q = p \/ q.state = "Complete"
<1>1. Len(p.buf) \in Nat /\ p.from \in Nat \ {0} /\ p.buf \in Seq(Symbols)
    BY DEF Parsers
<1>2. CASE p.packet.length = 0
    BY <1>2 DEF ParseBody, Parsers, ParserStates
<1>3. CASE p.packet.length # 0 /\ Len(p.buf) - p.from + 1 = p.packet.length
    <2> DEFINE body == SubSeq(p.buf, p.from, Len(p.buf))
    <2>1. body \in Seq(Symbols)
        BY <1>1
    <2>2. [p.packet EXCEPT !.body = body] \in Packets
        <3> HIDE DEF body
        <3> QED
            BY <2>1 DEF Parsers, Packets
    <2>3. ParseBody(p) = [p EXCEPT !.state = "Complete", !.from = Len(p.buf) + 1,
                                   !.packet = [p.packet EXCEPT !.body = body]]
        BY <1>3 DEF ParseBody, Parsers
    <2> DEFINE packet == [p.packet EXCEPT !.body = body]
    <2>4. /\ ParseBody(p).state = "Complete" /\ ParseBody(p).buf = p.buf
          /\ ParseBody(p).from = Len(p.buf) + 1
        <3> HIDE DEF packet, body
        <3> QED
            BY <2>3 DEF Parsers
    <2>5. ParseBody(p) \in Parsers
        <3>1. Len(p.buf) + 1 \in Nat \ {0} /\ "Complete" \in ParserStates
            BY <1>1 DEF ParserStates
        <3>2. packet \in Packets
            BY <2>2
        <3>3. ParseBody(p) = [p EXCEPT !.state = "Complete", !.from = Len(p.buf) + 1,
                                       !.packet = packet]
            BY <2>3
        <3> HIDE DEF packet
        <3> QED
            BY <3>1, <3>2, <3>3 DEF Parsers
    <2> QED
        BY <1>1, <2>4, <2>5
<1>4. CASE p.packet.length # 0 /\ Len(p.buf) - p.from + 1 # p.packet.length
    BY <1>4 DEF ParseBody
<1> QED
    BY <1>2, <1>3, <1>4

-----------------------------------------------------------------------------
(***************************************************************************)
(* Reading in pieces.                                                      *)
(***************************************************************************)
LEMMA NextFieldGrown ==
    ASSUME NEW p \in Parsers, p.from <= Len(p.buf) + 1, NEW chunk \in Seq(Symbols),
           FoundCRLF(p, p.from)
    PROVE  ParseNextField[Grown(p, chunk)] = Grown(ParseNextField[p], chunk)
<1> DEFINE q == Grown(p, chunk)
           end == FindCRLF(p, p.from)
           field == {p.buf[i] : i \in p.from .. end - 1}
           fieldOfQ == {q.buf[i] : i \in q.from .. end - 1}
           next == [p EXCEPT !.from = end + 2]
           s == CHOOSE s \in field : s \in DOMAIN Lengths
<1>1. /\ q \in Parsers /\ q.state = p.state /\ q.from = p.from /\ q.packet = p.packet
      /\ \A i \in 1 .. Len(p.buf) : q.buf[i] = p.buf[i]
      /\ p.from \in Nat \ {0} /\ Len(p.buf) \in Nat
    BY GrownIsParser DEF Parsers
<1>2. /\ FoundCRLF(q, q.from) /\ FindCRLF(q, q.from) = end
      /\ IsMalformed(q, q.from) <=> IsMalformed(p, p.from)
      /\ end \in p.from .. Len(p.buf) - 1
    BY <1>1, FoundAgain, Found
<1>3. fieldOfQ = field
    <2>1. \A i \in p.from .. end - 1 : i \in 1 .. Len(p.buf)
        BY <1>1, <1>2
    <2> HIDE DEF q, end
    <2> QED
        BY <1>1, <2>1
<1>4. ParseNextField[q] =
        IF q.state # "Fields" THEN q
        ELSE IF IsMalformed(p, p.from) \/ "badLength" \in field THEN Failed(q)
        ELSE IF end = p.from THEN [q EXCEPT !.from = end + 2, !.state = "Body"]
        ELSE IF field \cap DOMAIN Lengths = {} THEN [q EXCEPT !.from = end + 2]
        ELSE [q EXCEPT !.from = end + 2, !.packet.length = Lengths[s]]
    <2>1. ParseNextField[q] =
            LET next2 == [q EXCEPT !.from = FindCRLF(q, q.from) + 2]
            IN  IF q.state # "Fields" \/ ~FoundCRLF(q, q.from) THEN q
                ELSE IF IsMalformed(q, q.from) \/ "badLength" \in fieldOfQ THEN Failed(q)
                ELSE IF FindCRLF(q, q.from) = q.from THEN [next2 EXCEPT !.state = "Body"]
                ELSE IF fieldOfQ \cap DOMAIN Lengths = {} THEN next2
                ELSE [next2 EXCEPT !.packet.length =
                        Lengths[CHOOSE x \in fieldOfQ : x \in DOMAIN Lengths]]
        <3> HIDE DEF q
        <3> QED
            BY <1>1, <1>2 DEF ParseNextField
    <2> HIDE DEF q, end, field, fieldOfQ
    <2> QED
        BY <1>1, <1>2, <1>3, <2>1 DEF Parsers, s
<1>5. ParseNextField[p] =
        IF p.state # "Fields" THEN p
        ELSE IF IsMalformed(p, p.from) \/ "badLength" \in field THEN Failed(p)
        ELSE IF end = p.from THEN [p EXCEPT !.from = end + 2, !.state = "Body"]
        ELSE IF field \cap DOMAIN Lengths = {} THEN [p EXCEPT !.from = end + 2]
        ELSE [p EXCEPT !.from = end + 2, !.packet.length = Lengths[s]]
    BY DEF ParseNextField, Parsers
<1> HIDE DEF end, field, s
<1> QED
    BY <1>4, <1>5, ZenonT(30) DEF Grown, Failed, Parsers

LEMMA FieldsGrown ==
    ASSUME NEW p \in Parsers, p.from <= Len(p.buf) + 1, NEW chunk \in Seq(Symbols)
    PROVE  ParseFields(Grown(ParseFields(p), chunk)) = ParseFields(Grown(p, chunk))
<1> DEFINE N == Len(p.buf)
           S == {n \in 0 .. N : ParseFields(Grown(After(p)[n], chunk))
                                  = ParseFields(Grown(p, chunk))}
<1>1. N \in Nat /\ N \in 0 .. N
    BY DEF Parsers
<1>2. 0 \in S
    BY <1>1, Passes
<1>3. ASSUME NEW n \in 1 .. N, n - 1 \in S PROVE n \in S
    <2> DEFINE q == After(p)[n - 1]
    <2>1. n - 1 \in 0 .. N
        BY <1>1, <1>3
    <2>2. q \in Parsers /\ q.from <= Len(q.buf) + 1
        BY <2>1, PassesTyped
    <2>3. After(p)[n] = ParseNextField[q]
        BY <1>3, Passes
    <2>4. ParseFields(Grown(q, chunk)) = ParseFields(Grown(p, chunk))
        BY <1>3
    <2> HIDE DEF q
    <2>5. ParseFields(Grown(ParseNextField[q], chunk)) = ParseFields(Grown(q, chunk))
        <3>1. CASE FoundCRLF(q, q.from)
            <4>1. ParseNextField[Grown(q, chunk)] = Grown(ParseNextField[q], chunk)
                BY <2>2, <3>1, NextFieldGrown
            <4>2. /\ Grown(q, chunk) \in Parsers
                  /\ Grown(q, chunk).from <= Len(Grown(q, chunk).buf) + 1
                <5>1. /\ Grown(q, chunk) \in Parsers /\ Grown(q, chunk).from = q.from
                      /\ Len(Grown(q, chunk).buf) = Len(q.buf) + Len(chunk)
                      /\ Len(q.buf) \in Nat /\ Len(chunk) \in Nat /\ q.from \in Nat
                    BY <2>2, GrownIsParser DEF Parsers
                <5> QED
                    BY <2>2, <5>1
            <4> QED
                BY <4>1, <4>2, FieldsUnfold
        <3>2. CASE ~FoundCRLF(q, q.from)
            BY <2>2, <3>2, NextFieldCases
        <3> QED
            BY <3>1, <3>2
    <2>6. ParseFields(Grown(After(p)[n], chunk)) = ParseFields(Grown(p, chunk))
        BY <2>3, <2>4, <2>5
    <2>7. n \in 0 .. N
        BY <1>1, <1>3
    <2> QED
        BY <2>6, <2>7
<1>4. N \in S
    <2> HIDE DEF S
    <2> QED
        BY <1>1, <1>2, <1>3, Induction
<1> QED
    BY <1>4, Passes

\* ParseAll as it comes out, from where a state begins
LEMMA FromBody ==
    ASSUME NEW p \in Parsers, p.from <= Len(p.buf) + 1, p.state = "Body"
    PROVE  ParseAll(p) = ParseBody(p)
<1> DEFINE q == ParseBody(p)
<1>1. ParseBuf(p) = q
    BY DEF ParseBuf
<1>2. q = p \/ q.state = "Complete"
    BY BodyTyped
<1> HIDE DEF q
<1>3. ParseBuf(q) = q
    BY <1>1, <1>2 DEF ParseBuf
<1> QED
    BY <1>1, <1>3 DEF ParseAll, q

LEMMA BufAfterFields ==
    ASSUME NEW p \in Parsers, p.from <= Len(p.buf) + 1, p.state = "Fields"
    PROVE  LET q == ParseBuf(ParseFields(p))
           IN  /\ q \in Parsers /\ q.buf = p.buf /\ q.from <= Len(q.buf) + 1
               /\ q.state # "FirstLine"
               /\ ParseBuf(q) = q
               /\ q = ParseFields(p) \/ (ParseFields(p).state = "Body" /\ q.state = "Complete")
<1> DEFINE g == ParseFields(p)
           q == ParseBuf(g)
<1>1. /\ g \in Parsers /\ g.buf = p.buf /\ g.from <= Len(g.buf) + 1
      /\ g.state \in {"Fields", "Body", "Failed"}
      /\ ParseNextField[g] = g
    BY FieldsSettle
<1> HIDE DEF g
<1>2. CASE g.state = "Fields"
    <2>1. q = g
        BY <1>1, <1>2, FieldsOnly DEF ParseBuf
    <2> QED
        BY <1>1, <1>2, <2>1 DEF g
<1>3. CASE g.state = "Body"
    <2>1. q = ParseBody(g)
        BY <1>3 DEF ParseBuf
    <2>2. /\ q \in Parsers /\ q.buf = g.buf /\ q.from <= Len(q.buf) + 1
          /\ q = g \/ q.state = "Complete"
        BY <1>1, <1>3, <2>1, BodyTyped
    <2>3. ParseBuf(q) = q
        <3>1. CASE q = g
            BY <3>1
        <3>2. CASE q.state = "Complete"
            <4> HIDE DEF q
            <4> QED
                BY <3>2 DEF ParseBuf
        <3> QED
            BY <2>2, <3>1, <3>2
    <2> HIDE DEF q
    <2>4. q.state # "FirstLine"
        BY <1>3, <2>2
    <2> QED
        BY <1>1, <1>3, <2>2, <2>3, <2>4 DEF g, q
<1>4. CASE g.state = "Failed"
    <2>1. q = g
        BY <1>4 DEF ParseBuf
    <2> QED
        BY <1>1, <1>4, <2>1 DEF g
<1> QED
    BY <1>1, <1>2, <1>3, <1>4

LEMMA FromFields ==
    ASSUME NEW p \in Parsers, p.from <= Len(p.buf) + 1, p.state = "Fields"
    PROVE  ParseAll(p) = ParseBuf(ParseFields(p))
<1>1. ParseBuf(p) = ParseFields(p)
    BY DEF ParseBuf
<1>2. ParseBuf(ParseBuf(ParseFields(p))) = ParseBuf(ParseFields(p))
    BY BufAfterFields
<1> QED
    BY <1>1, <1>2 DEF ParseAll

LEMMA FromFirstLine ==
    ASSUME NEW p \in Parsers, p.from <= Len(p.buf) + 1, p.state = "FirstLine"
    PROVE  LET f == ParseFirstLine(p)
           IN  /\ f = p => ParseAll(p) = p
               /\ f.state = "Failed" => ParseAll(p) = f
               /\ f.state = "Fields" => ParseAll(p) = ParseBuf(ParseFields(f))
<1> DEFINE f == ParseFirstLine(p)
<1>1. ParseBuf(p) = f
    BY DEF ParseBuf
<1> HIDE DEF f
<1>2. f = p => ParseAll(p) = p
    BY <1>1 DEF ParseAll
<1>3. f.state = "Failed" => ParseBuf(f) = f
    BY DEF ParseBuf
<1>4. f.state = "Failed" => ParseAll(p) = f
    BY <1>1, <1>3 DEF ParseAll
<1>5. f.state = "Fields" => ParseBuf(f) = ParseFields(f)
    BY DEF ParseBuf
<1>6. f.state = "Fields" => ParseAll(p) = ParseBuf(ParseFields(f))
    BY <1>1, <1>5 DEF ParseAll
<1> QED
    BY <1>2, <1>4, <1>6 DEF f

LEMMA FirstLineGrown ==
    ASSUME NEW p \in Parsers, NEW chunk \in Seq(Symbols), FoundCRLF(p, 1)
    PROVE  ParseFirstLine(Grown(p, chunk)) = Grown(ParseFirstLine(p), chunk)
<1> DEFINE q == Grown(p, chunk)
           end == FindCRLF(p, 1)
<1>1. /\ q \in Parsers /\ q.packet = p.packet
      /\ \A i \in 1 .. Len(p.buf) : q.buf[i] = p.buf[i]
      /\ Len(p.buf) \in Nat
    BY GrownIsParser DEF Parsers
<1>2. /\ FoundCRLF(q, 1) /\ FindCRLF(q, 1) = end
      /\ IsMalformed(q, 1) <=> IsMalformed(p, 1)
      /\ end \in 1 .. Len(p.buf) - 1
    BY FoundAgain, Found
<1>3. q.buf[1] = p.buf[1]
    BY <1>1, <1>2
<1>4. ParseFirstLine(q) =
        IF IsMalformed(p, 1) \/ end # 2 \/ p.buf[1] \notin FirstLines THEN Failed(q)
        ELSE [q EXCEPT !.state = "Fields", !.from = end + 2, !.packet.line = p.buf[1]]
    <2> HIDE DEF q, end
    <2> QED
        BY <1>2, <1>3 DEF ParseFirstLine
<1>5. ParseFirstLine(p) =
        IF IsMalformed(p, 1) \/ end # 2 \/ p.buf[1] \notin FirstLines THEN Failed(p)
        ELSE [p EXCEPT !.state = "Fields", !.from = end + 2, !.packet.line = p.buf[1]]
    BY DEF ParseFirstLine
<1> HIDE DEF end
<1> QED
    BY <1>4, <1>5 DEF Grown, Failed, Parsers

\* What ParseAll returns, in any case
LEMMA AllTyped ==
    ASSUME NEW p \in Parsers, p.from <= Len(p.buf) + 1
    PROVE  LET q == ParseAll(p)
           IN  /\ q \in Parsers /\ q.buf = p.buf /\ q.from <= Len(q.buf) + 1
               /\ ParseBuf(q) = q
<1>1. CASE p.state = "FirstLine"
    <2> DEFINE f == ParseFirstLine(p)
    <2>1. /\ f \in Parsers /\ f.buf = p.buf /\ f.from <= Len(f.buf) + 1
          /\ f = p \/ f.state \in {"Fields", "Failed"}
        BY FirstLineTyped
    <2>2. /\ f = p => ParseAll(p) = p
          /\ f.state = "Failed" => ParseAll(p) = f
          /\ f.state = "Fields" => ParseAll(p) = ParseBuf(ParseFields(f))
        BY <1>1, FromFirstLine
    <2>3. ParseBuf(p) = f
        BY <1>1 DEF ParseBuf
    <2> HIDE DEF f
    <2>4. CASE f.state = "Fields"
        BY <2>1, <2>2, <2>4, BufAfterFields
    <2>5. CASE f.state = "Failed"
        <3>1. ParseBuf(f) = f
            BY <2>5 DEF ParseBuf
        <3> QED
            BY <2>1, <2>2, <2>5, <3>1
    <2> QED
        BY <2>1, <2>2, <2>3, <2>4, <2>5
<1>2. CASE p.state = "Fields"
    BY <1>2, FromFields, BufAfterFields
<1>3. CASE p.state = "Body"
    <2> DEFINE q == ParseBody(p)
    <2>1. /\ q \in Parsers /\ q.buf = p.buf /\ q.from <= Len(q.buf) + 1
          /\ q = p \/ q.state = "Complete"
        BY <1>3, BodyTyped
    <2>2. ParseAll(p) = q /\ ParseBuf(p) = q
        BY <1>3, FromBody DEF ParseBuf
    <2> HIDE DEF q
    <2>3. q.state = "Complete" => ParseBuf(q) = q
        BY DEF ParseBuf
    <2> QED
        BY <2>1, <2>2, <2>3
<1>4. CASE p.state \in {"Complete", "Failed"}
    <2>1. ParseBuf(p) = p
        BY <1>4 DEF ParseBuf
    <2> QED
        BY <2>1 DEF ParseAll
<1> QED
    BY <1>1, <1>2, <1>3, <1>4 DEF Parsers, ParserStates

\* The first piece, and then the second: what one piece comes to
LEMMA InPieces ==
    ASSUME NEW p \in Parsers, p.from <= Len(p.buf) + 1, p.state = "FirstLine",
           NEW chunk \in Seq(Symbols), ParseAll(p).state \notin {"Complete", "Failed"}
    PROVE  ParseAll(Grown(ParseAll(p), chunk)) = ParseAll(Grown(p, chunk))
<1> DEFINE f == ParseFirstLine(p)
           g == ParseFields(f)
           q == ParseAll(p)
           whole == Grown(p, chunk)
<1>0. ASSUME NEW r \in Parsers, r.from <= Len(r.buf) + 1
      PROVE  /\ Grown(r, chunk) \in Parsers
             /\ Grown(r, chunk).state = r.state
             /\ Grown(r, chunk).from <= Len(Grown(r, chunk).buf) + 1
    <2>1. /\ Grown(r, chunk) \in Parsers
          /\ Grown(r, chunk).state = r.state /\ Grown(r, chunk).from = r.from
          /\ Len(Grown(r, chunk).buf) = Len(r.buf) + Len(chunk)
        BY GrownIsParser
    <2>2. Len(r.buf) \in Nat /\ Len(chunk) \in Nat /\ r.from \in Nat
        BY DEF Parsers
    <2> QED
        BY <1>0, <2>1, <2>2
<1>1. /\ f \in Parsers /\ f.from <= Len(f.buf) + 1
      /\ f = p \/ f.state \in {"Fields", "Failed"}
    BY FirstLineTyped
<1>2. /\ f = p => q = p
      /\ f.state = "Failed" => q = f
      /\ f.state = "Fields" => q = ParseBuf(g)
    BY FromFirstLine
<1>3. CASE f = p
    BY <1>2, <1>3
<1>4. CASE f # p /\ f.state = "Failed"
    BY <1>2, <1>4
<1>5. CASE f # p /\ f.state = "Fields"
    <2>1. FoundCRLF(p, 1)
        BY <1>5 DEF ParseFirstLine
    <2>2. ParseFirstLine(whole) = Grown(f, chunk)
        BY <2>1, FirstLineGrown
    <2>3. /\ Grown(f, chunk) \in Parsers /\ Grown(f, chunk).state = "Fields"
          /\ Grown(f, chunk).from <= Len(Grown(f, chunk).buf) + 1
        BY <1>0, <1>1, <1>5
    <2>4. ParseAll(whole) = ParseBuf(ParseFields(Grown(f, chunk)))
        <3>1. /\ whole \in Parsers /\ whole.state = "FirstLine"
              /\ whole.from <= Len(whole.buf) + 1
            BY <1>0
        <3> HIDE DEF whole, f
        <3> QED
            BY <2>2, <2>3, <3>1, FromFirstLine
    <2>5. ParseFields(Grown(g, chunk)) = ParseFields(Grown(f, chunk))
        BY <1>1, FieldsGrown
    <2>6. q = ParseBuf(g)
        BY <1>2, <1>5
    <2>7. /\ g \in Parsers /\ g.from <= Len(g.buf) + 1
          /\ g.state \in {"Fields", "Body", "Failed"}
        <3> HIDE DEF f
        <3> QED
            BY <1>1, <1>5, FieldsSettle
    <2>8. q = g \/ q.state = "Complete"
        <3> HIDE DEF f
        <3> QED
            BY <1>1, <1>5, <2>6, BufAfterFields
    <2>9. q = g
        BY <2>8
    <2>10. /\ Grown(g, chunk) \in Parsers /\ Grown(g, chunk).state = g.state
           /\ Grown(g, chunk).from <= Len(Grown(g, chunk).buf) + 1
        BY <1>0, <2>7
    <2> HIDE DEF g, q, whole, f
    <2>11. CASE g.state = "Fields"
        <3>1. ParseAll(Grown(g, chunk)) = ParseBuf(ParseFields(Grown(g, chunk)))
            BY <2>10, <2>11, FromFields
        <3> QED
            BY <2>4, <2>5, <2>9, <3>1 DEF q, whole
    <2>12. CASE g.state = "Body"
        <3>1. ParseFields(Grown(g, chunk)) = Grown(g, chunk)
            BY <2>10, <2>12, NextFieldCases, FieldsOnly
        <3>2. ParseAll(Grown(g, chunk)) = ParseBody(Grown(g, chunk))
            BY <2>10, <2>12, FromBody
        <3>3. ParseBuf(Grown(g, chunk)) = ParseBody(Grown(g, chunk))
            BY <2>10, <2>12 DEF ParseBuf
        <3> QED
            BY <2>4, <2>5, <2>9, <3>1, <3>2, <3>3 DEF q, whole
    <2>13. g.state # "Failed"
        BY <2>9 DEF q
    <2> QED
        BY <2>7, <2>11, <2>12, <2>13
<1> QED
    BY <1>1, <1>3, <1>4, <1>5

LEMMA NewParserIsOne ==
    /\ NewParser \in Parsers
    /\ NewParser.buf = <<>> /\ NewParser.state = "FirstLine" /\ NewParser.from = 1
BY DEF NewParser, Parsers, ParserStates, Packets, Symbols

\* OnData, without the limit of the buffer
LEMMA OnDataCases ==
    ASSUME NEW p \in Parsers, p.from <= Len(p.buf) + 1, NEW chunk \in Seq(Symbols)
    PROVE  /\ Len(p.buf) + Len(chunk) > Capacity => OnData(p, chunk) = Failed(p)
           /\ Len(p.buf) + Len(chunk) <= Capacity =>
                /\ OnData(p, chunk) = ParseAll(Grown(p, chunk))
                /\ OnData(p, chunk).buf = p.buf \o chunk
           /\ OnData(p, chunk) \in Parsers
           /\ OnData(p, chunk).from <= Len(OnData(p, chunk).buf) + 1
           /\ Len(p.buf) <= Capacity => Len(OnData(p, chunk).buf) <= Capacity
<1>1. Len(p.buf) \in Nat /\ Len(chunk) \in Nat /\ Capacity \in Nat
    BY RestConnectionAssumption DEF Parsers
<1>2. CASE Len(p.buf) + Len(chunk) > Capacity
    <2>1. OnData(p, chunk) = Failed(p)
        BY <1>2 DEF OnData
    <2>2. Failed(p) \in Parsers /\ Failed(p).buf = p.buf /\ Failed(p).from = p.from
        BY DEF Failed, Parsers, ParserStates
    <2> QED
        BY <1>1, <1>2, <2>1, <2>2
<1>3. CASE Len(p.buf) + Len(chunk) <= Capacity
    <2>1. OnData(p, chunk) = ParseAll(Grown(p, chunk))
        BY <1>1, <1>3 DEF OnData, Grown
    <2>2. /\ Grown(p, chunk) \in Parsers /\ Grown(p, chunk).buf = p.buf \o chunk
          /\ Len(Grown(p, chunk).buf) = Len(p.buf) + Len(chunk)
          /\ Grown(p, chunk).from = p.from
        BY GrownIsParser
    <2>3. p.from \in Nat
        BY DEF Parsers
    <2>4. LET q == ParseAll(Grown(p, chunk))
          IN  q \in Parsers /\ q.buf = Grown(p, chunk).buf /\ q.from <= Len(q.buf) + 1
        <3> DEFINE q == Grown(p, chunk)
        <3>1. q \in Parsers /\ q.from <= Len(q.buf) + 1
            BY <1>1, <2>2, <2>3
        <3> HIDE DEF q
        <3>2. LET r == ParseAll(q) IN r \in Parsers /\ r.buf = q.buf /\ r.from <= Len(r.buf) + 1
            BY <3>1, AllTyped
        <3> QED
            BY <3>2 DEF q
    <2> QED
        BY <1>1, <1>3, <2>1, <2>2, <2>4
<1> QED
    BY <1>1, <1>2, <1>3

\* What a parser knows that has been fed in pieces is what it would know had all come
\* at once; it still does after one more piece.
LEMMA OneMorePiece ==
    ASSUME NEW p \in Parsers, p.from <= Len(p.buf) + 1, NEW chunk \in Seq(Symbols),
           p = OnData(NewParser, p.buf), p.state \notin {"Complete", "Failed"},
           Len(p.buf) <= Capacity, OnData(p, chunk).state # "Failed"
    PROVE  OnData(p, chunk) = OnData(NewParser, OnData(p, chunk).buf)
<1> DEFINE whole == p.buf \o chunk
           old == Grown(NewParser, p.buf)
<1>1. /\ p.buf \in Seq(Symbols) /\ Len(p.buf) \in Nat /\ Len(chunk) \in Nat
      /\ whole \in Seq(Symbols) /\ Len(whole) = Len(p.buf) + Len(chunk)
      /\ Capacity \in Nat
    BY RestConnectionAssumption DEF Parsers
<1>2. Len(p.buf) + Len(chunk) <= Capacity
    <2>1. Failed(p).state = "Failed"
        BY DEF Failed, Parsers
    <2>2. Len(p.buf) + Len(chunk) > Capacity => OnData(p, chunk) = Failed(p)
        BY OnDataCases
    <2> QED
        BY <1>1, <2>1, <2>2
<1>3. OnData(p, chunk) = ParseAll(Grown(p, chunk)) /\ OnData(p, chunk).buf = whole
    BY <1>2, OnDataCases
<1>4. /\ old \in Parsers /\ old.state = "FirstLine" /\ old.from <= Len(old.buf) + 1
      /\ p = ParseAll(old)
    <2>1. old \in Parsers /\ old.state = "FirstLine" /\ old.from = 1 /\ Len(old.buf) \in Nat
        <3>1. old \in Parsers /\ old.state = "FirstLine" /\ old.from = 1
            BY <1>1, NewParserIsOne, GrownIsParser
        <3> HIDE DEF old
        <3> QED
            BY <3>1 DEF Parsers
    <2>2. Len(NewParser.buf) = 0 /\ NewParser.from <= Len(NewParser.buf) + 1
        BY NewParserIsOne
    <2>3. OnData(NewParser, p.buf) = ParseAll(old)
        BY <1>1, <2>2, NewParserIsOne, OnDataCases
    <2> QED
        BY <2>1, <2>3
<1>5. OnData(NewParser, whole) = ParseAll(Grown(NewParser, whole))
    <2>1. Len(NewParser.buf) = 0 /\ NewParser.from <= Len(NewParser.buf) + 1
        BY NewParserIsOne
    <2> HIDE DEF whole
    <2> QED
        BY <1>1, <1>2, <2>1, NewParserIsOne, OnDataCases
<1>6. Grown(NewParser, whole) = Grown(old, chunk)
    <2>1. <<>> \o whole = (<<>> \o p.buf) \o chunk
        BY <1>1
    <2> QED
        BY <2>1 DEF Grown, NewParser
<1>7. ParseAll(Grown(p, chunk)) = ParseAll(Grown(old, chunk))
    <2> HIDE DEF old
    <2> QED
        BY <1>4, InPieces
<1> QED
    BY <1>3, <1>5, <1>6, <1>7

-----------------------------------------------------------------------------
(***************************************************************************)
(* Following a message.                                                    *)
(***************************************************************************)
LEMMA Associative ==
    ASSUME NEW S, NEW a \in Seq(S), NEW b \in Seq(S), NEW c \in Seq(S)
    PROVE  (a \o b) \o c = a \o (b \o c)
OBVIOUS

LEMMA Concatenated ==
    ASSUME NEW S, NEW a \in Seq(S), NEW b \in Seq(S)
    PROVE  /\ a \o b \in Seq(S) /\ Len(a \o b) = Len(a) + Len(b)
           /\ \A i \in 1 .. Len(a) : (a \o b)[i] = a[i]
           /\ \A i \in 1 .. Len(b) : (a \o b)[Len(a) + i] = b[i]
OBVIOUS

LEMMA MessageIs ==
    ASSUME NEW r \in Messages
    PROVE  LET s == Serialize(r)
               n == Len(r.fields)
           IN  /\ s \in Seq(Symbols) /\ n \in Nat /\ Len(r.body) \in Nat
               /\ Len(s) = LastLine(r) + 1 + Len(r.body)
               /\ LastLine(r) = 3 * n + 4
               /\ s[1] = r.line /\ s[2] = "CR" /\ s[3] = r.end[2]
               /\ r.line # "CR"
               /\ r.end[2] = "LF" <=> r.end = CRLF
               /\ \A k \in 1 .. n : /\ s[3 * k + 1] = r.fields[k]
                                    /\ r.fields[k] \in Texts /\ r.fields[k] # "CR"
                                    /\ s[3 * k + 2] = "CR" /\ s[3 * k + 3] = r.end[2]
               /\ s[LastLine(r)] = "CR" /\ s[LastLine(r) + 1] = "LF"
               /\ \A i \in 1 .. Len(r.body) : s[LastLine(r) + 1 + i] = r.body[i]
<1> DEFINE n == Len(r.fields)
           texts == <<r.line>> \o r.fields
           e(i) == CASE i % 3 = 1 -> texts[(i + 2) \div 3]
                     [] i % 3 = 2 -> r.end[1]
                     [] OTHER -> r.end[2]
           lines == [i \in 1 .. 3 * Len(texts) |-> e(i)]
           rest == CRLF \o r.body
<1>1. /\ r.line \in Texts /\ r.fields \in Seq(Texts) /\ r.body \in Seq(Symbols)
      /\ \E x \in Symbols : r.end = <<"CR", x>>
    BY DEF Messages
<1>2. /\ Texts \subseteq Symbols /\ "CR" \notin Texts /\ "CR" \in Symbols /\ "LF" \in Symbols
    BY DEF Texts, Symbols
<1>3. r.end[1] = "CR" /\ r.end[2] \in Symbols /\ (r.end[2] = "LF" <=> r.end = CRLF)
    BY <1>1 DEF CRLF
<1>4. /\ n \in Nat /\ Len(texts) = n + 1 /\ texts \in Seq(Texts) /\ texts[1] = r.line
      /\ \A k \in 1 .. n : texts[k + 1] = r.fields[k] /\ r.fields[k] \in Texts
    BY <1>1
<1>5. \A i \in 1 .. n + 1 : texts[i] \in Symbols
    BY <1>2, <1>4
<1> HIDE DEF n, texts
<1>6. \A i \in 1 .. 3 * (n + 1) : i % 3 = 1 => (i + 2) \div 3 \in 1 .. n + 1
    BY <1>4
<1>7. \A i \in 1 .. 3 * (n + 1) : e(i) \in Symbols
    BY <1>2, <1>3, <1>5, <1>6
<1>8. \A k \in 0 .. n : /\ e(3 * k + 1) = texts[k + 1]
                        /\ e(3 * k + 2) = "CR" /\ e(3 * k + 3) = r.end[2]
    <2> SUFFICES ASSUME NEW k \in 0 .. n
                 PROVE  /\ e(3 * k + 1) = texts[k + 1]
                        /\ e(3 * k + 2) = "CR" /\ e(3 * k + 3) = r.end[2]
        OBVIOUS
    <2>1. /\ (3 * k + 1) % 3 = 1 /\ (3 * k + 2) % 3 = 2 /\ (3 * k + 3) % 3 = 0
          /\ (3 * k + 1 + 2) \div 3 = k + 1
        BY <1>4
    <2> QED
        BY <1>3, <2>1
<1> HIDE DEF e
<1>9. /\ lines \in Seq(Symbols) /\ Len(lines) = 3 * (n + 1)
      /\ \A i \in 1 .. 3 * (n + 1) : lines[i] = e(i)
    <2>1. 3 * (n + 1) \in Nat
        BY <1>4
    <2> QED
        BY <1>4, <1>7, <2>1
<1>10. /\ rest \in Seq(Symbols) /\ Len(rest) = 2 + Len(r.body) /\ Len(r.body) \in Nat
       /\ rest[1] = "CR" /\ rest[2] = "LF"
       /\ \A i \in 1 .. Len(r.body) : rest[2 + i] = r.body[i]
    BY <1>1, <1>2 DEF CRLF
<1>11. Serialize(r) = lines \o rest
    <2>1. Serialize(r) = lines \o CRLF \o r.body
        BY Zenon DEF Serialize, lines, e, texts
    <2>2. CRLF \in Seq(Symbols)
        BY <1>2 DEF CRLF
    <2> HIDE DEF lines
    <2>3. (lines \o CRLF) \o r.body = lines \o (CRLF \o r.body)
        <3> DEFINE body == r.body
        <3>1. lines \in Seq(Symbols) /\ body \in Seq(Symbols)
            BY <1>1, <1>9
        <3> HIDE DEF body
        <3>2. (lines \o CRLF) \o body = lines \o (CRLF \o body)
            BY <2>2, <3>1, Associative
        <3> QED
            BY <3>2 DEF body
    <2> QED
        BY <2>1, <2>3 DEF rest
<1> HIDE DEF lines, rest
<1> DEFINE s == lines \o rest
<1>12. /\ s \in Seq(Symbols) /\ Len(s) = 3 * (n + 1) + (2 + Len(r.body))
       /\ \A i \in 1 .. 3 * (n + 1) : s[i] = e(i)
       /\ \A i \in 1 .. 2 + Len(r.body) : s[3 * (n + 1) + i] = rest[i]
    <2>1. /\ s \in Seq(Symbols) /\ Len(s) = Len(lines) + Len(rest)
          /\ \A i \in 1 .. Len(lines) : s[i] = lines[i]
          /\ \A i \in 1 .. Len(rest) : s[Len(lines) + i] = rest[i]
        <3>1. lines \in Seq(Symbols) /\ rest \in Seq(Symbols)
            BY <1>9, <1>10
        <3> QED
            BY <3>1, Concatenated
    <2> HIDE DEF s
    <2> QED
        BY <1>9, <1>10, <2>1
<1> HIDE DEF s
<1>13. LastLine(r) = 3 * n + 4
    BY DEF LastLine, n
<1>14. \A k \in 0 .. n : /\ s[3 * k + 1] = texts[k + 1]
                         /\ s[3 * k + 2] = "CR" /\ s[3 * k + 3] = r.end[2]
    <2> SUFFICES ASSUME NEW k \in 0 .. n
                 PROVE  /\ s[3 * k + 1] = texts[k + 1]
                        /\ s[3 * k + 2] = "CR" /\ s[3 * k + 3] = r.end[2]
        OBVIOUS
    <2>1. {3 * k + 1, 3 * k + 2, 3 * k + 3} \subseteq 1 .. 3 * (n + 1)
        BY <1>4
    <2> QED
        <3>1. e(3 * k + 1) = s[3 * k + 1] /\ e(3 * k + 2) = s[3 * k + 2] /\ e(3 * k + 3) = s[3 * k + 3]
            BY <1>12, <2>1
        <3> QED
            BY <1>8, <3>1
<1>15. s[1] = r.line /\ s[2] = "CR" /\ s[3] = r.end[2]
    <2>1. 0 \in 0 .. n /\ 3 * 0 + 1 = 1 /\ 3 * 0 + 2 = 2 /\ 3 * 0 + 3 = 3 /\ 0 + 1 = 1
        BY <1>4
    <2> QED
        BY <1>4, <1>14, <2>1
<1>16. s[3 * n + 4] = "CR" /\ s[3 * n + 5] = "LF"
    <2>1. 3 * n + 4 = 3 * (n + 1) + 1 /\ 3 * n + 5 = 3 * (n + 1) + 2
        BY <1>4
    <2>2. 1 \in 1 .. 2 + Len(r.body) /\ 2 \in 1 .. 2 + Len(r.body)
        BY <1>10
    <2> QED
        BY <1>10, <1>12, <2>1, <2>2
<1>17. \A i \in 1 .. Len(r.body) : s[3 * n + 5 + i] = r.body[i]
    <2> SUFFICES ASSUME NEW i \in 1 .. Len(r.body) PROVE s[3 * n + 5 + i] = r.body[i]
        OBVIOUS
    <2>1. 3 * n + 5 + i = 3 * (n + 1) + (2 + i) /\ 2 + i \in 1 .. 2 + Len(r.body)
        BY <1>4, <1>10
    <2> QED
        BY <1>10, <1>12, <2>1
<1>18. 3 * n + 4 + 1 = 3 * n + 5 /\ 3 * (n + 1) + (2 + Len(r.body)) = 3 * n + 5 + Len(r.body)
    <2> DEFINE m == Len(r.body)
    <2>1. n \in Nat /\ m \in Nat
        BY <1>4, <1>10
    <2> HIDE DEF m
    <2>2. 3 * n + 4 + 1 = 3 * n + 5 /\ 3 * (n + 1) + (2 + m) = 3 * n + 5 + m
        BY <2>1
    <2> QED
        BY <2>2 DEF m
<1>19. \A k \in 1 .. n : /\ s[3 * k + 1] = r.fields[k]
                         /\ r.fields[k] \in Texts /\ r.fields[k] # "CR"
                         /\ s[3 * k + 2] = "CR" /\ s[3 * k + 3] = r.end[2]
    BY <1>2, <1>4, <1>14
<1>20. Serialize(r) = s
    BY <1>11 DEF s
<1> HIDE DEF n
<1>21. /\ s \in Seq(Symbols) /\ n \in Nat /\ Len(r.body) \in Nat
       /\ Len(s) = LastLine(r) + 1 + Len(r.body)
       /\ s[LastLine(r)] = "CR" /\ s[LastLine(r) + 1] = "LF"
       /\ \A i \in 1 .. Len(r.body) : s[LastLine(r) + 1 + i] = r.body[i]
    <2>1. /\ LastLine(r) + 1 = 3 * n + 5
          /\ LastLine(r) + 1 + Len(r.body) = 3 * (n + 1) + (2 + Len(r.body))
        BY <1>13, <1>18
    <2> QED
        BY <1>4, <1>10, <1>12, <1>13, <1>16, <1>17, <2>1
<1>22. r.line # "CR"
    BY <1>1, <1>2
<1> QED
    BY <1>3, <1>13, <1>15, <1>19, <1>20, <1>21, <1>22 DEF n

LEMMA InFields ==
    ASSUME NEW q, NEW r, IsPartOf(q.buf, r), q.state = "Fields",
           r.line \in FirstLines, r.end = CRLF,
           q.packet.line = r.line, q.packet.body = <<>>,
           NEW k \in 1 .. Len(r.fields) + 1, AtField(q, r, k)
    PROVE  OnTrack(q, r)
BY DEF OnTrack

\* With the first line the parser stays where the message says.
LEMMA TrackFirstLine ==
    ASSUME NEW r \in Messages, NEW p \in Parsers, p.from <= Len(p.buf) + 1,
           p.state = "FirstLine", OnTrack(p, r)
    PROVE  OnTrack(ParseFirstLine(p), r)
<1> DEFINE s == Serialize(r)
           q == ParseFirstLine(p)
<1>1. /\ p.from = 1 /\ p.packet = NewParser.packet /\ IsPartOf(p.buf, r)
      /\ Len(p.buf) \in Nat /\ p.buf \in Seq(Symbols)
    BY DEF OnTrack, Parsers
<1>2. CASE ~FoundCRLF(p, 1)
    BY <1>2 DEF ParseFirstLine
<1>3. CASE FoundCRLF(p, 1)
    <2>1. /\ FindCRLF(p, 1) \in 1 .. Len(p.buf) - 1
          /\ p.buf[FindCRLF(p, 1)] = "CR"
        BY <1>3, Found
    <2>2. /\ s[1] = r.line /\ s[2] = "CR" /\ s[3] = r.end[2] /\ r.line # "CR"
          /\ (r.end[2] = "LF" <=> r.end = CRLF)
        BY MessageIs
    <2>3. \A i \in 1 .. Len(p.buf) : p.buf[i] = s[i]
        BY <1>1 DEF IsPartOf
    <2>4. 3 <= Len(p.buf)
        <3>1. FindCRLF(p, 1) # 1
            BY <1>1, <2>1, <2>2, <2>3
        <3> QED
            BY <1>1, <2>1, <3>1
    <2>5. p.buf[1] = r.line /\ p.buf[2] = "CR" /\ p.buf[3] = r.end[2]
        <3>1. 1 \in 1 .. Len(p.buf) /\ 2 \in 1 .. Len(p.buf) /\ 3 \in 1 .. Len(p.buf)
            BY <1>1, <2>4
        <3> QED
            BY <2>2, <2>3, <3>1
    <2>6. FindCRLF(p, 1) = 2
        <3>1. 2 \in 1 .. Len(p.buf) - 1 /\ \A j \in 1 .. 2 - 1 : j = 1
            BY <1>1, <2>4
        <3> QED
            BY <2>2, <2>5, <3>1, FoundAt
    <2>7. IsMalformed(p, 1) <=> r.end # CRLF
        BY <2>2, <2>5, <2>6 DEF IsMalformed
    <2>8. CASE r.end # CRLF \/ r.line \notin FirstLines
        <3>1. q = Failed(p)
            BY <1>3, <2>5, <2>7, <2>8 DEF ParseFirstLine
        <3>2. q.buf = p.buf /\ q.state = "Failed"
            BY <3>1 DEF Failed, Parsers
        <3> QED
            BY <1>1, <2>8, <3>2 DEF OnTrack, IsProper
    <2>9. CASE r.end = CRLF /\ r.line \in FirstLines
        <3>1. q = [p EXCEPT !.state = "Fields", !.from = 4, !.packet.line = r.line]
            <4>1. q = [p EXCEPT !.state = "Fields", !.from = FindCRLF(p, 1) + 2,
                                !.packet.line = p.buf[1]]
                BY <1>3, <2>5, <2>6, <2>7, <2>9 DEF ParseFirstLine
            <4>2. FindCRLF(p, 1) + 2 = 4
                BY <2>6
            <4> HIDE DEF q
            <4> QED
                BY <2>5, <4>1, <4>2
        <3>2. /\ q.buf = p.buf /\ q.state = "Fields" /\ q.from = 4
              /\ q.packet.line = r.line /\ q.packet.length = 0 /\ q.packet.body = <<>>
            BY <1>1, <3>1 DEF Parsers, NewParser
        <3>3. AnnouncedBefore(r, 1) = 0
            BY DEF AnnouncedBefore
        <3>4. 1 \in 1 .. Len(r.fields) + 1
            BY DEF Messages
        <3>5. AtField(q, r, 1)
            BY <1>1, <2>4, <3>2, <3>3 DEF AtField
        <3>6. IsPartOf(q.buf, r)
            BY <1>1, <3>2
        <3> HIDE DEF q
        <3> QED
            BY <2>9, <3>2, <3>4, <3>5, <3>6, InFields DEF q
    <2> QED
        BY <2>8, <2>9
<1> QED
    BY <1>2, <1>3

\* What the fields say of the body, as one field more is read
LEMMA AnnouncedNext ==
    ASSUME NEW r \in Messages, NEW k \in 1 .. Len(r.fields)
    PROVE  AnnouncedBefore(r, k + 1) = IF r.fields[k] \in DOMAIN Lengths THEN Len(r.body)
                                       ELSE AnnouncedBefore(r, k)
<1>1. Len(r.fields) \in Nat
    BY DEF Messages
<1>2. \A j : j \in 1 .. (k + 1) - 1 <=> j \in 1 .. k - 1 \/ j = k
    BY <1>1
<1> QED
    BY <1>2, Zenon DEF AnnouncedBefore

LEMMA AnnouncedAll ==
    ASSUME NEW r \in Messages, AnnouncesBody(r)
    PROVE  AnnouncedBefore(r, Len(r.fields) + 1) = Len(r.body)
<1>1. Len(r.fields) \in Nat /\ DOMAIN r.fields = 1 .. Len(r.fields) /\ r.body \in Seq(Symbols)
    BY DEF Messages
<1>2. (Len(r.fields) + 1) - 1 = Len(r.fields)
    BY <1>1
<1>3. CASE \E j \in 1 .. Len(r.fields) : r.fields[j] \in DOMAIN Lengths
    BY <1>2, <1>3 DEF AnnouncedBefore
<1>4. CASE ~ \E j \in 1 .. Len(r.fields) : r.fields[j] \in DOMAIN Lengths
    <2>1. r.body = <<>>
        BY <1>1, <1>4, Zenon DEF AnnouncesBody
    <2>2. Len(r.body) = 0
        BY <2>1
    <2> QED
        BY <1>2, <1>4, <2>2 DEF AnnouncedBefore
<1> QED
    BY <1>3, <1>4

\* With a field, or the empty line, too
LEMMA TrackNextField ==
    ASSUME NEW r, IsSent(r), NEW p \in Parsers, p.from <= Len(p.buf) + 1, OnTrack(p, r)
    PROVE  OnTrack(ParseNextField[p], r)
<1> DEFINE s == Serialize(r)
           n == Len(r.fields)
           end == FindCRLF(p, p.from)
           field == {p.buf[i] : i \in p.from .. end - 1}
           next == [p EXCEPT !.from = end + 2]
           q == ParseNextField[p]
<1>1. CASE p.state # "Fields" \/ ~FoundCRLF(p, p.from)
    <2>1. q = p
        BY <1>1, NextFieldCases
    <2> QED
        BY <2>1
<1>2. CASE p.state = "Fields" /\ FoundCRLF(p, p.from)
    <2>1. /\ r \in Messages /\ r.line \in FirstLines /\ r.end = CRLF
          /\ AnnouncesBody(r)
          /\ p.packet.line = r.line /\ p.packet.body = <<>> /\ IsPartOf(p.buf, r)
        BY <1>2 DEF IsSent, OnTrack
    <2>2. PICK k \in 1 .. n + 1 : AtField(p, r, k)
        BY <1>2 DEF OnTrack
    <2>3. /\ p.from = 3 * k + 1 /\ p.packet.length = AnnouncedBefore(r, k)
          /\ p.from \in Nat \ {0} /\ Len(p.buf) \in Nat /\ n \in Nat
          /\ DOMAIN r.fields = 1 .. n
        BY <2>1, <2>2 DEF AtField, Parsers, Messages
    <2>4. \A i \in 1 .. Len(p.buf) : p.buf[i] = s[i]
        BY <2>1 DEF IsPartOf
    <2>5. end \in p.from .. Len(p.buf) - 1 /\ p.buf[end] = "CR"
        BY <1>2, <2>3, Found
    <2>6. r.end[2] = "LF"
        BY <2>1, MessageIs
    <2> HIDE DEF s
    <2>7. CASE k <= n
        <3>1. /\ s[3 * k + 1] = r.fields[k] /\ r.fields[k] # "CR"
              /\ s[3 * k + 2] = "CR" /\ s[3 * k + 3] = "LF"
            BY <2>1, <2>2, <2>3, <2>6, <2>7, MessageIs DEF s
        <3>2. 3 * k + 3 <= Len(p.buf)
            <4>1. 3 * k + 1 \in 1 .. Len(p.buf)
                BY <2>2, <2>3, <2>5
            <4>2. p.buf[3 * k + 1] # "CR"
                BY <2>4, <3>1, <4>1
            <4>3. end # 3 * k + 1
                BY <2>5, <4>2
            <4> HIDE DEF end
            <4> QED
                BY <2>2, <2>3, <2>5, <4>3
        <3>3. /\ p.buf[3 * k + 1] = r.fields[k] /\ p.buf[3 * k + 2] = "CR"
              /\ p.buf[3 * k + 3] = "LF"
            <4>1. {3 * k + 1, 3 * k + 2, 3 * k + 3} \subseteq 1 .. Len(p.buf)
                BY <2>2, <2>3, <3>2
            <4> QED
                BY <2>4, <3>1, <4>1
        <3>4. end = 3 * k + 2
            <4>1. 3 * k + 2 \in p.from .. Len(p.buf) - 1
                BY <2>2, <2>3, <3>2
            <4>2. \A j \in p.from .. (3 * k + 2) - 1 : j = 3 * k + 1
                BY <2>2, <2>3
            <4> QED
                BY <2>3, <3>1, <3>3, <4>1, <4>2, FoundAt
        <3>5. ~IsMalformed(p, p.from)
            <4>1. end + 1 = 3 * k + 3
                BY <2>2, <3>4
            <4> QED
                BY <3>3, <4>1 DEF IsMalformed
        <3>6. field = {r.fields[k]}
            <4>1. \A i : i \in p.from .. end - 1 <=> i = 3 * k + 1
                BY <2>2, <2>3, <3>4
            <4> HIDE DEF end
            <4> QED
                BY <3>3, <4>1
        <3>7. end # p.from /\ end + 2 = 3 * (k + 1) + 1 /\ k + 1 \in 1 .. n + 1
              /\ end + 2 <= Len(p.buf) + 1
            BY <2>2, <2>3, <2>7, <3>2, <3>4
        <3>8. CASE r.fields[k] = "badLength"
            <4>1. "badLength" \in field
                BY <3>6, <3>8
            <4>2. q = Failed(p)
                BY <1>2, <4>1, NextFieldCases
            <4>3. q.buf = p.buf /\ q.state = "Failed"
                BY <4>2 DEF Failed, Parsers
            <4>4. ~IsProper(r)
                BY <2>2, <2>3, <2>7, <3>8 DEF IsProper
            <4> QED
                BY <2>1, <4>3, <4>4 DEF OnTrack
        <3>9. CASE r.fields[k] # "badLength" /\ r.fields[k] \notin DOMAIN Lengths
            <4>1. "badLength" \notin field /\ field \cap DOMAIN Lengths = {}
                BY <3>6, <3>9
            <4>2. q = next
                BY <1>2, <3>5, <3>7, <4>1, NextFieldCases
            <4>3. /\ q.buf = p.buf /\ q.state = "Fields" /\ q.from = end + 2 /\ q.packet = p.packet
                BY <1>2, <4>2 DEF Parsers
            <4>4. AnnouncedBefore(r, k + 1) = AnnouncedBefore(r, k)
                BY <2>1, <2>2, <2>3, <2>7, <3>9, AnnouncedNext
            <4> HIDE DEF q, end
            <4>5. AtField(q, r, k + 1)
                BY <2>3, <3>7, <4>3, <4>4 DEF AtField
            <4> QED
                BY <2>1, <3>7, <4>3, <4>5, InFields DEF q
        <3>10. CASE r.fields[k] # "badLength" /\ r.fields[k] \in DOMAIN Lengths
            <4>1. "badLength" \notin field /\ field \cap DOMAIN Lengths # {}
                BY <3>6, <3>10
            <4>2. q = [next EXCEPT !.packet.length = Lengths[r.fields[k]]]
                <5>1. (CHOOSE x \in field : x \in DOMAIN Lengths) = r.fields[k]
                    BY <3>6, <3>10
                <5> QED
                    BY <1>2, <3>5, <3>7, <4>1, <5>1, NextFieldCases
            <4>3. /\ q.buf = p.buf /\ q.state = "Fields" /\ q.from = end + 2
                  /\ q.packet.line = p.packet.line /\ q.packet.body = p.packet.body
                  /\ q.packet.length = Lengths[r.fields[k]]
                BY <1>2, <4>2 DEF Parsers, Packets
            <4>4. AnnouncedBefore(r, k + 1) = Len(r.body)
                BY <2>1, <2>2, <2>3, <2>7, <3>10, AnnouncedNext
            <4>5. Lengths[r.fields[k]] = Len(r.body)
                <5>1. r.fields[k] \in {r.fields[i] : i \in DOMAIN r.fields} \cap DOMAIN Lengths
                    BY <2>2, <2>3, <2>7, <3>10
                <5> QED
                    BY <2>1, <5>1, Zenon DEF AnnouncesBody
            <4> HIDE DEF q, end
            <4>6. AtField(q, r, k + 1)
                BY <2>3, <3>7, <4>3, <4>4, <4>5 DEF AtField
            <4> QED
                BY <2>1, <3>7, <4>3, <4>6, InFields DEF q
        <3> QED
            BY <3>8, <3>9, <3>10
    <2>8. CASE k = n + 1
        <3>1. p.from = LastLine(r) /\ LastLine(r) \in Nat
            BY <2>3, <2>8 DEF LastLine
        <3>2. s[LastLine(r)] = "CR" /\ s[LastLine(r) + 1] = "LF"
            BY <2>1, MessageIs DEF s
        <3>3. LastLine(r) + 1 <= Len(p.buf)
            BY <2>3, <2>5, <3>1
        <3>4. p.buf[LastLine(r)] = "CR" /\ p.buf[LastLine(r) + 1] = "LF"
            <4>1. LastLine(r) \in 1 .. Len(p.buf) /\ LastLine(r) + 1 \in 1 .. Len(p.buf)
                BY <2>3, <3>1, <3>3
            <4> QED
                BY <2>4, <3>2, <4>1
        <3>5. end = p.from
            <4>1. p.from \in p.from .. Len(p.buf) - 1 /\ p.from .. p.from - 1 = {}
                BY <2>3, <3>1, <3>3
            <4> QED
                BY <2>3, <3>1, <3>4, <4>1, FoundAt
        <3>6. ~IsMalformed(p, p.from)
            BY <3>1, <3>4, <3>5 DEF IsMalformed
        <3>7. "badLength" \notin field
            <4>1. p.from .. end - 1 = {}
                BY <2>3, <3>5
            <4> QED
                BY <4>1
        <3>8. q = [next EXCEPT !.state = "Body"]
            BY <1>2, <3>5, <3>6, <3>7, NextFieldCases
        <3>9. /\ q.buf = p.buf /\ q.state = "Body" /\ q.from = LastLine(r) + 2
              /\ q.packet = p.packet
            BY <1>2, <3>1, <3>5, <3>8 DEF Parsers
        <3>10. q.from <= Len(q.buf) + 1
            BY <2>3, <3>1, <3>3, <3>9
        <3>11. q.packet.length = AnnouncedBefore(r, Len(r.fields) + 1)
            BY <2>3, <2>8, <3>9
        <3> HIDE DEF q
        <3> QED
            BY <2>1, <3>9, <3>10, <3>11 DEF OnTrack, q
    <2> QED
        BY <2>2, <2>3, <2>7, <2>8
<1> QED
    BY <1>1, <1>2

\* With all of them
LEMMA TrackFields ==
    ASSUME NEW r, IsSent(r), NEW p \in Parsers, p.from <= Len(p.buf) + 1, OnTrack(p, r)
    PROVE  OnTrack(ParseFields(p), r)
<1> DEFINE N == Len(p.buf)
           S == {n \in 0 .. N : OnTrack(After(p)[n], r)}
<1>1. N \in Nat /\ N \in 0 .. N
    BY DEF Parsers
<1>2. 0 \in S
    BY <1>1, Passes
<1>3. ASSUME NEW n \in 1 .. N, n - 1 \in S PROVE n \in S
    <2> DEFINE before == After(p)[n - 1]
    <2>1. n - 1 \in 0 .. N /\ n \in 0 .. N
        BY <1>1
    <2>2. before \in Parsers /\ before.from <= Len(before.buf) + 1 /\ OnTrack(before, r)
        BY <1>3, <2>1, PassesTyped
    <2>3. After(p)[n] = ParseNextField[before]
        BY Passes
    <2>4. OnTrack(ParseNextField[before], r)
        BY <2>2, TrackNextField
    <2> QED
        BY <2>1, <2>3, <2>4
<1>4. \A n \in 0 .. N : n \in S
    <2> HIDE DEF S, N
    <2> QED
        BY <1>1, <1>2, <1>3, Induction
<1>5. OnTrack(After(p)[N], r)
    BY <1>1, <1>4
<1> QED
    BY <1>5, Passes

LEMMA NoBody ==
    ASSUME NEW b \in Seq(Symbols), Len(b) = 0
    PROVE  b = <<>>
OBVIOUS

LEMMA SameSequence ==
    ASSUME NEW a \in Seq(Symbols), NEW b \in Seq(Symbols), Len(a) = Len(b),
           \A i \in 1 .. Len(a) : a[i] = b[i]
    PROVE  a = b
OBVIOUS

\* The body is taken when all of the message is there, and not before.
LEMMA TrackBody ==
    ASSUME NEW r, IsSent(r), NEW p \in Parsers, p.from <= Len(p.buf) + 1, OnTrack(p, r),
           p.state = "Body"
    PROVE  /\ OnTrack(ParseBody(p), r)
           /\ Len(p.buf) = Len(Serialize(r)) => ParseBody(p).state = "Complete"
<1> DEFINE s == Serialize(r)
           q == ParseBody(p)
           L == LastLine(r)
           m == Len(r.body)
<1>1. /\ r \in Messages /\ r.line \in FirstLines /\ r.end = CRLF
      /\ p.packet.line = r.line /\ p.packet.body = <<>> /\ IsPartOf(p.buf, r)
      /\ p.from = LastLine(r) + 2 /\ AnnouncesBody(r)
      /\ p.packet.length = AnnouncedBefore(r, Len(r.fields) + 1)
    BY DEF IsSent, OnTrack
<1>2. p.packet.length = Len(r.body)
    BY <1>1, AnnouncedAll
<1>3. /\ s \in Seq(Symbols) /\ L \in Nat /\ m \in Nat /\ Len(s) = L + 1 + m
      /\ \A i \in 1 .. m : s[L + 1 + i] = r.body[i]
    <2>1. /\ s \in Seq(Symbols) /\ Len(r.fields) \in Nat /\ m \in Nat /\ Len(s) = L + 1 + m
          /\ LastLine(r) = 3 * Len(r.fields) + 4
          /\ \A i \in 1 .. m : s[L + 1 + i] = r.body[i]
        BY <1>1, MessageIs
    <2>2. L \in Nat
        <3> DEFINE n == Len(r.fields)
        <3> HIDE DEF n
        <3>1. n \in Nat /\ L = 3 * n + 4
            BY <2>1 DEF n
        <3> QED
            BY <3>1
    <2> QED
        BY <2>1, <2>2
<1>4. /\ Len(p.buf) <= Len(s) /\ \A i \in 1 .. Len(p.buf) : p.buf[i] = s[i]
    BY <1>1 DEF IsPartOf
<1>5. /\ p.buf \in Seq(Symbols) /\ Len(p.buf) \in Nat /\ p.from = L + 2
      /\ p.from <= Len(p.buf) + 1 /\ r.body \in Seq(Symbols)
    BY <1>1 DEF Parsers, Messages
<1> HIDE DEF s, L
<1>6. CASE m = 0
    <2>1. q = [p EXCEPT !.state = "Complete"]
        BY <1>2, <1>6 DEF ParseBody
    <2>2. q.buf = p.buf /\ q.state = "Complete" /\ q.packet = p.packet
        BY <2>1 DEF Parsers
    <2>3. Len(p.buf) = Len(s)
        BY <1>3, <1>4, <1>5, <1>6
    <2>4. r.body = <<>>
        BY <1>5, <1>6, NoBody
    <2> HIDE DEF q
    <2>5. OnTrack(q, r)
        BY <1>1, <2>2, <2>3, <2>4 DEF OnTrack, s
    <2> QED
        BY <2>2, <2>5 DEF q
<1>7. CASE m # 0 /\ Len(p.buf) - p.from + 1 = m
    <2> DEFINE b == SubSeq(p.buf, p.from, Len(p.buf))
    <2>1. q = [p EXCEPT !.state = "Complete", !.from = Len(p.buf) + 1, !.packet.body = b]
        BY <1>2, <1>7 DEF ParseBody
    <2>2. /\ q.buf = p.buf /\ q.state = "Complete" /\ q.packet.line = p.packet.line
          /\ q.packet.body = b
        BY <2>1 DEF Parsers, Packets
    <2>3. Len(p.buf) = Len(s)
        <3>1. /\ L \in Nat /\ m \in Nat /\ Len(s) = L + 1 + m /\ Len(p.buf) \in Nat
              /\ p.from = L + 2
            BY <1>3, <1>5
        <3> HIDE DEF m
        <3> QED
            BY <1>7, <3>1
    <2>4. /\ b \in Seq(Symbols) /\ Len(b) = m
          /\ \A i \in 1 .. m : b[i] = p.buf[p.from + i - 1]
        BY <1>3, <1>5, <1>7
    <2>5. \A i \in 1 .. m : b[i] = r.body[i]
        <3> HIDE DEF b
        <3> SUFFICES ASSUME NEW i \in 1 .. m PROVE b[i] = r.body[i]
            OBVIOUS
        <3>1. p.from + i - 1 = L + 1 + i /\ L + 1 + i \in 1 .. Len(p.buf)
            BY <1>3, <1>5, <2>3
        <3> QED
            BY <1>3, <1>4, <2>4, <3>1
    <2>6. b = r.body
        <3> HIDE DEF b
        <3> QED
            BY <1>5, <2>4, <2>5, SameSequence
    <2> HIDE DEF q, b
    <2>7. OnTrack(q, r)
        BY <1>1, <2>2, <2>3, <2>6 DEF OnTrack, s
    <2> QED
        BY <2>2, <2>7 DEF q
<1>8. CASE m # 0 /\ Len(p.buf) - p.from + 1 # m
    <2>1. q = p
        BY <1>2, <1>8 DEF ParseBody
    <2>2. Len(p.buf) # Len(s)
        <3>1. /\ L \in Nat /\ m \in Nat /\ Len(s) = L + 1 + m /\ Len(p.buf) \in Nat
              /\ p.from = L + 2
            BY <1>3, <1>5
        <3> HIDE DEF m
        <3> QED
            BY <1>8, <3>1
    <2> QED
        BY <2>1, <2>2 DEF s
<1> QED
    BY <1>6, <1>7, <1>8

LEMMA TrackBuf ==
    ASSUME NEW r, IsSent(r), NEW p \in Parsers, p.from <= Len(p.buf) + 1, OnTrack(p, r)
    PROVE  LET q == ParseBuf(p)
           IN  q \in Parsers /\ q.buf = p.buf /\ q.from <= Len(q.buf) + 1 /\ OnTrack(q, r)
<1>1. CASE p.state = "FirstLine"
    <2>1. ParseBuf(p) = ParseFirstLine(p)
        BY <1>1 DEF ParseBuf
    <2> QED
        BY <1>1, <2>1, FirstLineTyped, TrackFirstLine DEF IsSent
<1>2. CASE p.state = "Fields"
    <2>1. ParseBuf(p) = ParseFields(p)
        BY <1>2 DEF ParseBuf
    <2> QED
        BY <2>1, FieldsSettle, TrackFields
<1>3. CASE p.state = "Body"
    <2>1. ParseBuf(p) = ParseBody(p)
        BY <1>3 DEF ParseBuf
    <2> QED
        BY <1>3, <2>1, BodyTyped, TrackBody
<1>4. CASE p.state \in {"Complete", "Failed"}
    <2>1. ParseBuf(p) = p
        BY <1>4 DEF ParseBuf
    <2> QED
        BY <2>1
<1> QED
    BY <1>1, <1>2, <1>3, <1>4 DEF Parsers, ParserStates

LEMMA TrackAll ==
    ASSUME NEW r, IsSent(r), NEW p \in Parsers, p.from <= Len(p.buf) + 1, OnTrack(p, r)
    PROVE  OnTrack(ParseAll(p), r)
<1> DEFINE once == ParseBuf(p)
           twice == ParseBuf(once)
<1>1. /\ once \in Parsers /\ once.from <= Len(once.buf) + 1 /\ OnTrack(once, r)
    BY TrackBuf
<1> HIDE DEF once
<1>2. /\ twice \in Parsers /\ twice.from <= Len(twice.buf) + 1 /\ OnTrack(twice, r)
    BY <1>1, TrackBuf
<1> HIDE DEF twice
<1>3. OnTrack(ParseBuf(twice), r)
    BY <1>2, TrackBuf
<1> QED
    BY <1>3 DEF ParseAll, once, twice

\* A line that is there is read: the iterator moves, or the parser fails.
LEMMA StepsOn ==
    ASSUME NEW p \in Parsers, p.from <= Len(p.buf) + 1, p.state = "Fields",
           FoundCRLF(p, p.from)
    PROVE  ParseNextField[p] # p
<1> DEFINE end == FindCRLF(p, p.from)
           next == [p EXCEPT !.from = end + 2]
           s == CHOOSE s \in {p.buf[i] : i \in p.from .. end - 1} : s \in DOMAIN Lengths
<1>1. end \in p.from .. Len(p.buf) - 1 /\ p.from \in Nat /\ Len(p.buf) \in Nat
    BY Found DEF Parsers
<1> HIDE DEF end
<1>2. end + 2 # p.from
    BY <1>1
<1>3. /\ next.from # p.from /\ [next EXCEPT !.state = "Body"].from # p.from
      /\ [next EXCEPT !.packet.length = Lengths[s]].from # p.from
    <2> HIDE DEF s
    <2> QED
        BY <1>2 DEF Parsers
<1>4. Failed(p).state # p.state
    BY DEF Failed, Parsers
<1> HIDE DEF next, s
<1>5. ParseNextField[p] \in {Failed(p), [next EXCEPT !.state = "Body"], next,
                             [next EXCEPT !.packet.length = Lengths[s]]}
    BY NextFieldCases DEF next, s, end
<1> QED
    BY <1>3, <1>4, <1>5

\* When nothing is left to parse and all of a message is there, the message is
\* complete or refused.
LEMMA WholeIsComplete ==
    ASSUME NEW r, IsSent(r), NEW p \in Parsers, p.from <= Len(p.buf) + 1, OnTrack(p, r),
           ParseBuf(p) = p, Len(p.buf) = Len(Serialize(r))
    PROVE  p.state \in {"Complete", "Failed"}
<1> DEFINE s == Serialize(r)
           n == Len(r.fields)
<1>1. r \in Messages
    BY DEF IsSent
<1>2. IsPartOf(p.buf, r) /\ Len(p.buf) \in Nat
    BY DEF OnTrack, Parsers
<1>3. \A i \in 1 .. Len(p.buf) : p.buf[i] = s[i]
    BY <1>2 DEF IsPartOf
<1>4. /\ n \in Nat /\ LastLine(r) = 3 * n + 4 /\ LastLine(r) + 1 <= Len(p.buf)
      /\ s[2] = "CR" /\ s[LastLine(r)] = "CR"
    <2> DEFINE m == Len(r.body)
    <2>1. /\ n \in Nat /\ LastLine(r) = 3 * n + 4 /\ Len(s) = LastLine(r) + 1 + m
          /\ s[2] = "CR" /\ s[LastLine(r)] = "CR" /\ m \in Nat
        BY <1>1, MessageIs
    <2> HIDE DEF m, n, s
    <2>2. LastLine(r) + 1 <= LastLine(r) + 1 + m
        BY <2>1
    <2> QED
        BY <2>1, <2>2 DEF s
<1> HIDE DEF n, s
<1>5. p.state # "FirstLine"
    <2> SUFFICES ASSUME p.state = "FirstLine" PROVE FALSE
        OBVIOUS
    <2>1. p.from = 1
        BY DEF OnTrack
    <2>2. 2 \in 1 .. Len(p.buf) - 1 /\ 2 \in 1 .. Len(p.buf)
        BY <1>2, <1>4
    <2>3. 2 \in CRs(p, 1)
        BY <1>3, <1>4, <2>2 DEF CRs
    <2>4. FoundCRLF(p, 1)
        BY <2>3 DEF FoundCRLF
    <2>5. ParseFirstLine(p) = p
        BY DEF ParseBuf
    <2>6. ParseFirstLine(p).state \in {"Fields", "Failed"}
        BY <2>4 DEF ParseFirstLine, Failed, Parsers
    <2> QED
        BY <2>5, <2>6
<1>6. p.state # "Fields"
    <2> SUFFICES ASSUME p.state = "Fields" PROVE FALSE
        OBVIOUS
    <2>1. PICK k \in 1 .. n + 1 : AtField(p, r, k)
        BY DEF OnTrack, n
    <2>2. p.from = 3 * k + 1 /\ p.from \in Nat \ {0}
        BY <2>1 DEF AtField, Parsers
    <2>3. LastLine(r) \in p.from .. Len(p.buf) - 1 /\ LastLine(r) \in 1 .. Len(p.buf)
        BY <1>2, <1>4, <2>1, <2>2
    <2>4. LastLine(r) \in CRs(p, p.from)
        BY <1>3, <1>4, <2>3 DEF CRs
    <2>5. FoundCRLF(p, p.from)
        BY <2>4 DEF FoundCRLF
    <2>6. ParseFields(p) = p
        BY DEF ParseBuf
    <2>7. ParseNextField[p] = p
        BY <2>6, FieldsSettle
    <2> QED
        BY <2>5, <2>7, StepsOn
<1>7. p.state # "Body"
    <2> SUFFICES ASSUME p.state = "Body" PROVE FALSE
        OBVIOUS
    <2>1. ParseBody(p) = p
        BY DEF ParseBuf
    <2>2. ParseBody(p).state = "Complete"
        BY TrackBody
    <2> QED
        BY <2>1, <2>2
<1> QED
    BY <1>5, <1>6, <1>7 DEF Parsers, ParserStates

\* A parser without a message is at the start of every one.
LEMMA TrackNew ==
    ASSUME NEW r \in Messages
    PROVE  OnTrack(NewParser, r)
<1>1. Len(<<>>) = 0 /\ 1 .. 0 = {}
    OBVIOUS
<1>2. Serialize(r) \in Seq(Symbols)
    BY MessageIs
<1>3. IsPartOf(NewParser.buf, r)
    BY <1>1, <1>2, NewParserIsOne DEF IsPartOf
<1> QED
    BY <1>3, NewParserIsOne DEF OnTrack

\* With one piece more of the message
LEMMA TrackGrown ==
    ASSUME NEW r, IsSent(r), NEW p \in Parsers, p.from <= Len(p.buf) + 1, OnTrack(p, r),
           p.state \notin {"Complete", "Failed"},
           NEW chunk \in Seq(Symbols), IsPartOf(p.buf \o chunk, r)
    PROVE  /\ Grown(p, chunk) \in Parsers
           /\ Grown(p, chunk).from <= Len(Grown(p, chunk).buf) + 1
           /\ OnTrack(Grown(p, chunk), r)
<1> DEFINE q == Grown(p, chunk)
<1>1. /\ q \in Parsers /\ q.state = p.state /\ q.from = p.from /\ q.packet = p.packet
      /\ q.buf = p.buf \o chunk /\ Len(q.buf) = Len(p.buf) + Len(chunk)
      /\ Len(p.buf) \in Nat /\ Len(chunk) \in Nat /\ p.from \in Nat
    BY GrownIsParser DEF Parsers
<1> HIDE DEF q
<1>2. q.from <= Len(q.buf) + 1
    BY <1>1
<1>3. q.state = "Fields" => \E k \in 1 .. Len(r.fields) + 1 : AtField(q, r, k)
    <2> SUFFICES ASSUME q.state = "Fields"
                 PROVE  \E k \in 1 .. Len(r.fields) + 1 : AtField(q, r, k)
        OBVIOUS
    <2>1. PICK k \in 1 .. Len(r.fields) + 1 : AtField(p, r, k)
        BY <1>1 DEF OnTrack
    <2>2. AtField(q, r, k)
        BY <1>1, <1>2, <2>1 DEF AtField
    <2> QED
        BY <2>2
<1>4. IsPartOf(q.buf, r)
    BY <1>1
<1>5. OnTrack(q, r)
    BY <1>1, <1>2, <1>3, <1>4 DEF OnTrack
<1> QED
    BY <1>1, <1>2, <1>5 DEF q

\* A piece of a message fed to the parser: it is complete when the rest is nothing, and
\* fails only where no parser would do.
LEMMA TrackOnData ==
    ASSUME NEW r, IsSent(r), NEW p \in Parsers, p.from <= Len(p.buf) + 1, OnTrack(p, r),
           p.state \notin {"Complete", "Failed"}, Len(p.buf) <= Capacity,
           NEW chunk \in Seq(Symbols), NEW rest \in Seq(Symbols),
           p.buf \o (chunk \o rest) = Serialize(r)
    PROVE  LET q == OnData(p, chunk)
           IN  /\ OnTrack(q, r)
               /\ q.state # "Failed" => q.buf \o rest = Serialize(r)
               /\ q.state = "Complete" => rest = <<>>
               /\ rest = <<>> => q.state \in {"Complete", "Failed"}
<1> DEFINE s == Serialize(r)
           whole == p.buf \o chunk
           q == OnData(p, chunk)
<1>1. /\ p.buf \in Seq(Symbols) /\ Len(p.buf) \in Nat /\ Len(chunk) \in Nat
      /\ Len(rest) \in Nat /\ Capacity \in Nat
    BY RestConnectionAssumption DEF Parsers
<1>2. s = whole \o rest
    <2> DEFINE b == p.buf
    <2>1. b \in Seq(Symbols)
        BY <1>1
    <2>2. s = b \o (chunk \o rest) /\ whole = b \o chunk
        OBVIOUS
    <2> HIDE DEF b, whole, s
    <2>3. b \o (chunk \o rest) = (b \o chunk) \o rest
        BY <2>1, Associative, SMTT(30)
    <2> QED
        BY <2>2, <2>3
<1>3. whole \in Seq(Symbols) /\ Len(whole) = Len(p.buf) + Len(chunk)
    BY <1>1
<1> HIDE DEF whole, s
<1>4. /\ Len(s) = Len(p.buf) + Len(chunk) + Len(rest) /\ Len(whole) <= Len(s)
      /\ \A i \in 1 .. Len(whole) : whole[i] = s[i]
    <2>1. Len(s) = Len(whole) + Len(rest) /\ \A i \in 1 .. Len(whole) : whole[i] = s[i]
        <3>1. whole \in Seq(Symbols)
            BY <1>3
        <3>2. /\ Len(whole \o rest) = Len(whole) + Len(rest)
              /\ \A i \in 1 .. Len(whole) : (whole \o rest)[i] = whole[i]
            BY <3>1
        <3> QED
            BY <1>2, <3>2
    <2> QED
        BY <1>1, <1>3, <2>1
<1>5. IsPartOf(whole, r)
    BY <1>1, <1>3, <1>4 DEF IsPartOf, s
<1>6. CASE Len(p.buf) + Len(chunk) > Capacity
    <2>1. q = Failed(p)
        BY <1>6, OnDataCases
    <2>2. q.state = "Failed" /\ q.buf = p.buf
        BY <2>1 DEF Failed, Parsers
    <2>3. ~IsProper(r)
        <3>1. Len(s) > Capacity
            BY <1>1, <1>4, <1>6
        <3> QED
            BY <1>1, <1>4, <3>1 DEF IsProper, s
    <2>4. IsPartOf(p.buf, r)
        BY DEF OnTrack
    <2> HIDE DEF q
    <2>5. OnTrack(q, r)
        BY <2>2, <2>3, <2>4 DEF OnTrack
    <2> QED
        BY <2>2, <2>5 DEF q
<1>7. CASE Len(p.buf) + Len(chunk) <= Capacity
    <2> DEFINE g == Grown(p, chunk)
    <2>1. g \in Parsers /\ g.from <= Len(g.buf) + 1 /\ OnTrack(g, r)
        BY <1>5, TrackGrown DEF whole
    <2>2. q = ParseAll(g) /\ q.buf = whole
        BY <1>7, OnDataCases DEF whole
    <2> HIDE DEF q, g
    <2>3. q \in Parsers /\ q.from <= Len(q.buf) + 1 /\ ParseBuf(q) = q
        BY <2>1, <2>2, AllTyped
    <2>4. OnTrack(q, r)
        BY <2>1, <2>2, TrackAll
    <2>5. q.state = "Complete" => rest = <<>>
        <3>1. q.state = "Complete" => Len(q.buf) = Len(s)
            BY <2>4 DEF OnTrack, s
        <3>2. q.state = "Complete" => Len(rest) = 0
            BY <1>1, <1>3, <1>4, <2>2, <3>1
        <3> QED
            BY <3>2, NoBody
    <2>6. rest = <<>> => q.state \in {"Complete", "Failed"}
        <3>1. rest = <<>> => Len(q.buf) = Len(s)
            BY <1>1, <1>3, <1>4, <2>2
        <3> QED
            BY <2>3, <2>4, <3>1, WholeIsComplete DEF s
    <2> QED
        BY <1>2, <2>2, <2>4, <2>5, <2>6 DEF q, s
<1>8. Len(p.buf) + Len(chunk) > Capacity \/ Len(p.buf) + Len(chunk) <= Capacity
    BY <1>1
<1> QED
    BY <1>6, <1>7, <1>8, Zenon

\* The replies of the agent are messages that the client's parser accepts.
LEMMA Replies ==
    ASSUME NEW hasBody \in BOOLEAN
    PROVE  /\ ReplyMessage(hasBody) \in Messages
           /\ IsSent(ReplyMessage(hasBody))
           /\ IsProper(ReplyMessage(hasBody))
           /\ Response(hasBody) \in Seq(Symbols)
           /\ Response(hasBody) # <<>>
<1> DEFINE whole == ReplyMessage(TRUE)
           bare  == ReplyMessage(FALSE)
<1>1. /\ "status" \in Texts /\ "field" \in Texts /\ "length2" \in Texts
      /\ "text" \in Symbols /\ "CR" \in Symbols /\ "LF" \in Symbols
    BY DEF Texts, Symbols, FirstLines, Lengths
<1>2. /\ whole = [line |-> "status", fields |-> <<"length2", "field">>,
                  body |-> <<"text", "text">>, end |-> CRLF]
      /\ bare = [line |-> "status", fields |-> <<"field">>, body |-> <<>>, end |-> CRLF]
    BY DEF ReplyMessage
<1> HIDE DEF whole, bare
<1>3. whole \in Messages /\ bare \in Messages
    <2>1. /\ <<"length2", "field">> \in Seq(Texts) /\ <<"field">> \in Seq(Texts)
          /\ <<"text", "text">> \in Seq(Symbols) /\ <<>> \in Seq(Symbols)
          /\ CRLF \in {<<"CR", x>> : x \in Symbols}
        BY <1>1 DEF CRLF
    <2> QED
        BY <1>1, <1>2, <2>1 DEF Messages
<1>4. /\ Len(whole.fields) = 2 /\ Len(whole.body) = 2
      /\ Len(bare.fields) = 1 /\ Len(bare.body) = 0
    BY <1>2
<1>5. Capacity \in Nat /\ Len(Serialize(whole)) <= Capacity
    BY RestConnectionAssumption, Zenon DEF Response, whole
<1>6. /\ Serialize(whole) \in Seq(Symbols) /\ Len(Serialize(whole)) = 13
      /\ Serialize(bare) \in Seq(Symbols) /\ Len(Serialize(bare)) = 8
    <2>1. /\ Serialize(whole) \in Seq(Symbols)
          /\ Len(Serialize(whole)) = LastLine(whole) + 1 + Len(whole.body)
          /\ LastLine(whole) = 3 * Len(whole.fields) + 4
        BY <1>3, MessageIs
    <2>2. /\ Serialize(bare) \in Seq(Symbols)
          /\ Len(Serialize(bare)) = LastLine(bare) + 1 + Len(bare.body)
          /\ LastLine(bare) = 3 * Len(bare.fields) + 4
        BY <1>3, MessageIs
    <2>3. Len(Serialize(whole)) = (3 * 2 + 4) + 1 + 2 /\ Len(Serialize(bare)) = (3 * 1 + 4) + 1 + 0
        BY <1>4, <2>1, <2>2
    <2>4. (3 * 2 + 4) + 1 + 2 = 13 /\ (3 * 1 + 4) + 1 + 0 = 8
        OBVIOUS
    <2> QED
        BY <2>1, <2>2, <2>3, <2>4, Zenon
<1>7. AnnouncesBody(whole)
    <2>1. {whole.fields[i] : i \in DOMAIN whole.fields} = {"length2", "field"}
        <3>1. /\ DOMAIN whole.fields = {1, 2}
              /\ whole.fields[1] = "length2" /\ whole.fields[2] = "field"
            BY <1>2
        <3> QED
            BY <3>1
    <2>2. {"length2", "field"} \cap DOMAIN Lengths = {"length2"} /\ Lengths["length2"] = 2
        BY DEF Lengths
    <2> QED
        BY <1>4, <2>1, <2>2 DEF AnnouncesBody
<1>8. AnnouncesBody(bare)
    <2>1. {bare.fields[i] : i \in DOMAIN bare.fields} = {"field"}
        <3>1. DOMAIN bare.fields = {1} /\ bare.fields[1] = "field"
            BY <1>2
        <3> QED
            BY <3>1
    <2>2. {"field"} \cap DOMAIN Lengths = {}
        BY DEF Lengths
    <2>3. bare.body = <<>>
        BY <1>2
    <2> QED
        BY <2>1, <2>2, <2>3 DEF AnnouncesBody
<1>9. /\ \A k \in DOMAIN whole.fields : whole.fields[k] # "badLength"
      /\ \A k \in DOMAIN bare.fields : bare.fields[k] # "badLength"
    BY <1>2
<1>10. IsSent(whole) /\ IsSent(bare)
    BY <1>3, <1>7, <1>8 DEF IsSent
<1>11. IsProper(whole) /\ IsProper(bare)
    <2>1. /\ whole.line = "status" /\ whole.end = CRLF
          /\ bare.line = "status" /\ bare.end = CRLF
        BY <1>2
    <2>2. Len(Serialize(whole)) <= Capacity /\ Len(Serialize(bare)) <= Capacity
        BY <1>5, <1>6
    <2> QED
        BY <1>9, <2>1, <2>2 DEF IsProper, FirstLines
<1>12. Serialize(whole) # <<>> /\ Serialize(bare) # <<>>
    <2>1. Len(<<>>) = 0 /\ 13 # 0 /\ 8 # 0
        OBVIOUS
    <2> QED
        BY <1>6, <2>1, Zenon
<1>13. CASE hasBody = TRUE
    BY <1>3, <1>6, <1>10, <1>11, <1>12, <1>13, Zenon DEF whole, Response
<1>14. CASE hasBody = FALSE
    BY <1>3, <1>6, <1>10, <1>11, <1>12, <1>14, Zenon DEF bare, Response
<1> QED
    BY <1>13, <1>14

-----------------------------------------------------------------------------
(***************************************************************************)
(* The connection.                                                         *)
(***************************************************************************)

\* SplitsAreForgotten, of one parser
Knows(p) == p.state # "Failed" => p = OnData(NewParser, p.buf)

LEMMA BothKnow ==
    SplitsAreForgotten <=> Knows(agent) /\ Knows(client)
BY DEF SplitsAreForgotten, Knows

LEMMA NewParserKnows ==
    Knows(NewParser)
<1>1. NewParser \in Parsers /\ NewParser.buf = <<>> /\ NewParser.state = "FirstLine"
    BY NewParserIsOne
<1>2. ParseBuf(NewParser) = NewParser
    <2>1. CRs(NewParser, 1) = {}
        BY <1>1 DEF CRs
    <2>2. ~FoundCRLF(NewParser, 1)
        BY <2>1 DEF FoundCRLF
    <2> QED
        BY <1>1, <2>2 DEF ParseBuf, ParseFirstLine
<1>3. ParseAll(NewParser) = NewParser
    BY <1>2 DEF ParseAll
<1>4. OnData(NewParser, <<>>) = ParseAll(NewParser)
    <2>1. Len(NewParser.buf) + Len(<<>>) <= Capacity
        BY <1>1, RestConnectionAssumption
    <2>2. Capacity \in Nat /\ Len(NewParser.buf) + Len(<<>>) = 0
        BY <1>1, RestConnectionAssumption
    <2>3. [NewParser EXCEPT !.buf = @ \o <<>>] = NewParser
        <3>1. NewParser.buf \o <<>> = NewParser.buf
            BY <1>1
        <3>2. [NewParser EXCEPT !.buf = @ \o <<>>] = [NewParser EXCEPT !.buf = NewParser.buf]
            BY <3>1
        <3> QED
            BY <1>1, <3>2 DEF Parsers
    <2> QED
        BY <2>1, <2>2, <2>3 DEF OnData
<1> QED
    BY <1>1, <1>3, <1>4 DEF Knows

LEMMA RequestsAreSent ==
    ASSUME NEW r \in Requests
    PROVE  r \in Messages /\ IsSent(r) /\ Serialize(r) \in Seq(Symbols)
<1>1. r \in Messages /\ IsSent(r)
    BY RestConnectionAssumption DEF IsSent
<1> QED
    BY <1>1, MessageIs

\* A read takes a piece of the stream.
LEMMA Pieces ==
    ASSUME NEW stream \in Seq(Symbols), NEW n \in 1 .. Len(stream)
    PROVE  /\ SubSeq(stream, 1, n) \in Seq(Symbols)
           /\ SubSeq(stream, n + 1, Len(stream)) \in Seq(Symbols)
           /\ SubSeq(stream, 1, n) \o SubSeq(stream, n + 1, Len(stream)) = stream
<1> DEFINE a == SubSeq(stream, 1, n)
           b == SubSeq(stream, n + 1, Len(stream))
<1>1. /\ Len(stream) \in Nat /\ n \in Nat /\ 1 <= n /\ n <= Len(stream)
    OBVIOUS
<1>2. /\ a \in Seq(Symbols) /\ Len(a) = n /\ \A i \in 1 .. n : a[i] = stream[i]
    BY <1>1
<1>3. /\ b \in Seq(Symbols) /\ Len(b) = Len(stream) - n
      /\ \A i \in 1 .. Len(stream) - n : b[i] = stream[n + i]
    BY <1>1
<1> HIDE DEF a, b
<1>4. /\ a \o b \in Seq(Symbols) /\ Len(a \o b) = n + (Len(stream) - n)
      /\ \A i \in 1 .. n : (a \o b)[i] = a[i]
      /\ \A i \in 1 .. Len(stream) - n : (a \o b)[n + i] = b[i]
    <2>1. a \in Seq(Symbols) /\ b \in Seq(Symbols)
        BY <1>2, <1>3
    <2>2. /\ a \o b \in Seq(Symbols) /\ Len(a \o b) = Len(a) + Len(b)
          /\ \A i \in 1 .. Len(a) : (a \o b)[i] = a[i]
          /\ \A i \in 1 .. Len(b) : (a \o b)[Len(a) + i] = b[i]
        BY <2>1, Concatenated
    <2> QED
        BY <1>2, <1>3, <2>2
<1>5. n + (Len(stream) - n) = Len(stream)
    BY <1>1
<1>6. ASSUME NEW i \in 1 .. Len(stream) PROVE (a \o b)[i] = stream[i]
    <2>1. CASE i <= n
        <3>1. i \in 1 .. n
            BY <1>1, <2>1
        <3> QED
            BY <1>2, <1>4, <3>1
    <2>2. CASE i > n
        <3> DEFINE j == i - n
        <3>1. j \in 1 .. Len(stream) - n /\ n + j = i
            BY <1>1, <2>2
        <3> HIDE DEF j
        <3> QED
            BY <1>3, <1>4, <3>1
    <2>3. i <= n \/ i > n
        <3>1. i \in Nat /\ n \in Nat
            BY <1>1
        <3> QED
            BY <3>1
    <2> QED
        BY <2>1, <2>2, <2>3
<1>7. a \o b = stream
    BY <1>4, <1>5, <1>6, SameSequence
<1> QED
    BY <1>2, <1>3, <1>7 DEF a, b

\* One read, by either side
LEMMA Fed ==
    ASSUME NEW r, IsSent(r), NEW p \in Parsers, p.from <= Len(p.buf) + 1,
           Len(p.buf) <= Capacity, p.state \notin {"Complete", "Failed"},
           OnTrack(p, r), Knows(p), NEW stream \in Seq(Symbols), NEW n \in 1 .. Len(stream),
           p.buf \o stream = Serialize(r)
    PROVE  LET q    == OnData(p, SubSeq(stream, 1, n))
               rest == SubSeq(stream, n + 1, Len(stream))
           IN  /\ q \in Parsers /\ q.from <= Len(q.buf) + 1 /\ Len(q.buf) <= Capacity
               /\ rest \in Seq(Symbols)
               /\ Knows(q) /\ OnTrack(q, r)
               /\ q.state # "Failed" => q.buf \o rest = Serialize(r)
               /\ q.state = "Complete" => rest = <<>>
               /\ rest = <<>> => q.state \in {"Complete", "Failed"}
<1> DEFINE chunk == SubSeq(stream, 1, n)
           rest  == SubSeq(stream, n + 1, Len(stream))
           q     == OnData(p, chunk)
           s     == Serialize(r)
<1>1. chunk \in Seq(Symbols) /\ rest \in Seq(Symbols) /\ chunk \o rest = stream
    BY Pieces
<1>2. p.buf \o (chunk \o rest) = s
    BY <1>1
<1> HIDE DEF chunk, rest
<1>3. q \in Parsers /\ q.from <= Len(q.buf) + 1 /\ Len(q.buf) <= Capacity
    BY <1>1, OnDataCases
<1>4. /\ OnTrack(q, r)
      /\ q.state # "Failed" => q.buf \o rest = s
      /\ q.state = "Complete" => rest = <<>>
      /\ rest = <<>> => q.state \in {"Complete", "Failed"}
    BY <1>1, <1>2, TrackOnData
<1>5. Knows(q)
    <2>1. p = OnData(NewParser, p.buf)
        BY DEF Knows
    <2>2. q.state # "Failed" => q = OnData(NewParser, q.buf)
        BY <1>1, <2>1, OneMorePiece
    <2> QED
        BY <2>2 DEF Knows
<1> QED
    BY <1>1, <1>3, <1>4, <1>5 DEF chunk, rest

\* The controller's answer, or a refusal, is on its way.
LEMMA AnswerIsTracked ==
    ASSUME NEW hasBody \in BOOLEAN
    PROVE  /\ NewParser.buf \o Response(hasBody) = Response(hasBody)
           /\ OnTrack(NewParser, ReplyMessage(hasBody))
<1>1. Response(hasBody) \in Seq(Symbols) /\ ReplyMessage(hasBody) \in Messages
    BY Replies
<1>2. <<>> \o Response(hasBody) = Response(hasBody)
    BY <1>1
<1> QED
    BY <1>1, <1>2, NewParserIsOne, TrackNew

LEMMA NewParserFits ==
    Len(NewParser.buf) <= Capacity /\ NewParser.from <= Len(NewParser.buf) + 1
BY NewParserIsOne, RestConnectionAssumption

LEMMA InitInvariant ==
    Init => IInv
<1> SUFFICES ASSUME Init PROVE IInv
    OBVIOUS
<1>1. agent = NewParser /\ client = NewParser /\ NewParser \in Parsers
    BY NewParserIsOne DEF Init
<1>2. TypeOK
    <2>1. sent \in 0 .. MaxRequests
        BY RestConnectionAssumption DEF Init
    <2> QED
        BY <1>1, <2>1, NewParserFits DEF Init, TypeOK
<1>3. SplitsAreForgotten
    BY <1>1, NewParserKnows, BothKnow
<1>4. Protocol
    BY <1>1 DEF Init, Protocol, AgentIsIdle
<1> QED
    BY <1>1, <1>2, <1>3, <1>4, NewParserIsOne DEF IInv, Init

\* A request goes out only between two exchanges, when nothing is on its way.
LEMMA SendInvariant ==
    ASSUME IInv, NEW r \in Requests, Send(r)
    PROVE  IInv'
<1>1. /\ exchange # "waiting" /\ posted = <<>> /\ codes = <<>> /\ toClient = <<>>
      /\ AgentIsIdle
    BY DEF IInv, Protocol, Send
<1>2. /\ client' = NewParser /\ exchange' = "waiting" /\ asked' = r /\ sent' = sent + 1
      /\ sent' \in 0 .. MaxRequests
    BY RestConnectionAssumption DEF Send, IInv, TypeOK
<1>3. /\ r \in Messages /\ Serialize(r) \in Seq(Symbols) /\ OnTrack(NewParser, r)
    BY RequestsAreSent, TrackNew
<1>4. /\ <<>> \o Serialize(r) = Serialize(r) /\ NewParser.buf \o Serialize(r) = Serialize(r)
    BY <1>3, NewParserIsOne
<1>5. /\ posted' = <<>> /\ codes' = <<>> /\ toClient' = <<>>
      /\ toAgent' \in Seq(Symbols)
      /\ reading' => agent' = NewParser /\ toAgent' = Serialize(r)
    <2>1. CASE open
        <3>1. toAgent' = toAgent \o Serialize(r) /\ UNCHANGED <<agentVars, toClient, codes>>
            BY <2>1 DEF Send
        <3>2. toAgent' \in Seq(Symbols)
            BY <1>3, <3>1 DEF IInv, TypeOK
        <3>3. reading => agent = NewParser /\ toAgent = <<>>
            BY <1>1 DEF AgentIsIdle
        <3> QED
            BY <1>1, <1>4, <3>1, <3>2, <3>3 DEF agentVars
    <2>2. CASE ~open
        BY <1>1, <1>3, <2>2 DEF Send
    <2> QED
        BY <2>1, <2>2
<1>6. /\ agent' \in Parsers /\ reading' \in BOOLEAN /\ open' \in BOOLEAN
      /\ Len(agent'.buf) <= Capacity /\ agent'.from <= Len(agent'.buf) + 1
      /\ Knows(agent')
      /\ reading' => open' /\ agent'.state \notin {"Complete", "Failed"}
      /\ ~reading' => agent'.state = "Failed"
    <2>1. CASE open
        <3>1. UNCHANGED agentVars
            BY <2>1 DEF Send
        <3>2. Knows(agent)
            BY BothKnow DEF IInv
        <3> QED
            BY <3>1, <3>2 DEF IInv, TypeOK, agentVars
    <2>2. CASE ~open
        <3>1. agent' = NewParser /\ reading' = TRUE /\ open' = TRUE
            BY <2>2 DEF Send
        <3> QED
            BY <3>1, NewParserIsOne, NewParserFits, NewParserKnows
    <2> QED
        BY <2>1, <2>2
<1>7. TypeOK'
    <2>1. client' \in Parsers /\ Len(client'.buf) <= Capacity /\ client'.from <= Len(client'.buf) + 1
        BY <1>2, NewParserIsOne, NewParserFits
    <2> QED
        BY <1>2, <1>5, <1>6, <2>1 DEF TypeOK
<1>8. SplitsAreForgotten'
    <2>1. Knows(client')
        BY <1>2, NewParserKnows
    <2> QED
        BY <1>6, <2>1 DEF SplitsAreForgotten, Knows
<1>9. Asked'
    BY <1>2, <1>3, <1>4, <1>5 DEF Asked
<1>10. Protocol'
    BY <1>2, <1>9 DEF Protocol
<1>11. exchange' = "waiting" => client'.state \notin {"Complete", "Failed"}
    BY <1>2, NewParserIsOne
<1> QED
    BY <1>6, <1>7, <1>8, <1>10, <1>11 DEF IInv

LEMMA OnlyElement ==
    ASSUME NEW S, NEW q \in Seq(S), Len(q) = 1
    PROVE  Head(q) \in S /\ Tail(q) = <<>>
<1>1. q # <<>> /\ Head(q) \in S
    OBVIOUS
<1>2. Tail(q) \in Seq(S) /\ Len(Tail(q)) = Len(q) - 1
    BY <1>1
<1>3. Len(Tail(q)) = 0
    BY <1>2
<1>4. \A b \in Seq(S) : Len(b) = 0 => b = <<>>
    OBVIOUS
<1> QED
    BY <1>1, <1>2, <1>3, <1>4, Zenon

\* The client reads only an answer, and is done with it at its end.
LEMMA ClientReadsInvariant ==
    ASSUME IInv, NEW n \in 1 .. Len(toClient), ClientReads(n)
    PROVE  IInv'
<1> DEFINE fed  == OnData(client, SubSeq(toClient, 1, n))
           rest == SubSeq(toClient, n + 1, Len(toClient))
<1>1. /\ exchange = "waiting" /\ client' = fed /\ toClient' = rest
      /\ fed.state = "Complete" => exchange' = Head(codes) /\ codes' = Tail(codes)
      /\ fed.state = "Failed" => exchange' = "broken" /\ codes' = codes
      /\ fed.state \notin {"Complete", "Failed"} => exchange' = exchange /\ codes' = codes
      /\ UNCHANGED <<toAgent, agentVars, asked, sent>>
    BY DEF ClientReads
<1>2. toClient # <<>>
    <2>1. Len(<<>>) = 0 /\ 1 .. 0 = {}
        OBVIOUS
    <2> QED
        BY <2>1
<1>3. posted = <<>> /\ Len(codes) = 1 /\ AgentIsIdle
    BY <1>1, <1>2 DEF IInv, Protocol, Asked, Taken, Answered
<1>4. PICK hasBody \in BOOLEAN :
        client.buf \o toClient = Response(hasBody) /\ OnTrack(client, ReplyMessage(hasBody))
    BY <1>1, <1>2 DEF IInv, Protocol, Asked, Taken, Answered
<1> DEFINE r == ReplyMessage(hasBody)
<1>5. IsSent(r) /\ IsProper(r) /\ Serialize(r) = Response(hasBody)
    BY Replies DEF Response
<1>6. /\ fed \in Parsers /\ fed.from <= Len(fed.buf) + 1 /\ Len(fed.buf) <= Capacity
      /\ rest \in Seq(Symbols)
      /\ Knows(fed) /\ OnTrack(fed, r)
      /\ fed.state # "Failed" => fed.buf \o rest = Serialize(r)
      /\ fed.state = "Complete" => rest = <<>>
      /\ rest = <<>> => fed.state \in {"Complete", "Failed"}
    <2>1. /\ client \in Parsers /\ client.from <= Len(client.buf) + 1
          /\ Len(client.buf) <= Capacity /\ toClient \in Seq(Symbols)
          /\ client.state \notin {"Complete", "Failed"}
        BY <1>1 DEF IInv, TypeOK
    <2>2. Knows(client)
        BY BothKnow DEF IInv
    <2>3. client.buf \o toClient = Serialize(r) /\ OnTrack(client, r)
        BY <1>4, <1>5
    <2> HIDE DEF r
    <2> QED
        BY <1>5, <2>1, <2>2, <2>3, Fed
<1> HIDE DEF fed, rest, r
<1>7. fed.state # "Failed"
    BY <1>5, <1>6 DEF OnTrack
<1>8. codes \in Seq(Answers) /\ Head(codes) \in Answers /\ Tail(codes) = <<>>
    <2>1. codes \in Seq(Answers)
        BY DEF IInv, TypeOK
    <2> QED
        BY <1>3, <2>1, OnlyElement
<1>9. exchange' \in {"idle", "waiting", "broken"} \cup Answers /\ codes' \in Seq(Answers)
    <2>1. CASE fed.state = "Complete"
        <3>1. <<>> \in Seq(Answers)
            OBVIOUS
        <3> QED
            BY <1>1, <1>8, <2>1, <3>1
    <2>2. CASE fed.state # "Complete"
        BY <1>1, <1>7, <1>8, <2>2
    <2> QED
        BY <2>1, <2>2
<1>10. TypeOK'
    BY <1>1, <1>6, <1>9 DEF IInv, TypeOK, agentVars
<1>11. SplitsAreForgotten'
    <2>1. Knows(agent) /\ agent' = agent
        BY <1>1, BothKnow DEF IInv, agentVars
    <2> QED
        BY <1>1, <1>6, <2>1 DEF SplitsAreForgotten, Knows
<1>12. AgentIsIdle'
    BY <1>1, <1>3 DEF AgentIsIdle, agentVars
<1>13. Protocol'
    <2>1. CASE fed.state = "Complete"
        <3>1. exchange' # "waiting"
            BY <1>1, <1>8, <2>1 DEF Answers
        <3> QED
            BY <1>1, <1>3, <1>6, <1>8, <1>12, <2>1, <3>1 DEF Protocol, agentVars
    <2>2. CASE fed.state # "Complete"
        <3>1. exchange' = "waiting" /\ codes' = codes
            BY <1>1, <1>7, <2>2
        <3>2. rest # <<>>
            BY <1>6, <1>7, <2>2
        <3>3. client'.buf \o toClient' = Response(hasBody) /\ OnTrack(client', ReplyMessage(hasBody))
            BY <1>1, <1>5, <1>6, <1>7 DEF r
        <3>4. Answered'
            BY <1>1, <1>3, <1>12, <3>1, <3>2, <3>3 DEF Answered, agentVars
        <3> QED
            BY <3>1, <3>4 DEF Protocol
    <2> QED
        BY <2>1, <2>2
<1>14. exchange' = "waiting" => client'.state \notin {"Complete", "Failed"}
    <2>1. fed.state = "Complete" => exchange' # "waiting"
        BY <1>1, <1>8 DEF Answers
    <2> QED
        BY <1>1, <1>7, <2>1
<1>15. /\ reading' => open' /\ agent'.state \notin {"Complete", "Failed"}
       /\ ~reading' => agent'.state = "Failed"
    BY <1>1 DEF IInv, agentVars
<1> QED
    BY <1>10, <1>11, <1>13, <1>14, <1>15 DEF IInv

\* The connection is lost only before an answer.
LEMMA ClientLosesConnectionInvariant ==
    ASSUME IInv, ClientLosesConnection
    PROVE  IInv'
<1>1. /\ exchange = "waiting" /\ ~open /\ toClient = <<>> /\ exchange' = "broken"
      /\ UNCHANGED <<toAgent, agentVars, toClient, codes, client, asked, sent>>
    BY DEF ClientLosesConnection
<1>2. ~reading
    BY <1>1 DEF IInv
<1>3. posted = <<>> /\ codes = <<>>
    BY <1>1, <1>2 DEF IInv, Protocol, Asked, Taken, Answered
<1>4. TypeOK'
    BY <1>1 DEF IInv, TypeOK, agentVars
<1>5. SplitsAreForgotten'
    BY <1>1 DEF IInv, SplitsAreForgotten, agentVars
<1>6. Protocol'
    BY <1>1, <1>2, <1>3 DEF Protocol, AgentIsIdle, agentVars
<1> QED
    BY <1>1, <1>4, <1>5, <1>6 DEF IInv, agentVars

\* The agent reads only what is asked: it has it whole, refuses it, or reads on.
LEMMA OnReadInvariant ==
    ASSUME IInv, NEW n \in 1 .. Len(toAgent), OnRead(n)
    PROVE  IInv'
<1> DEFINE fed  == OnData(agent, SubSeq(toAgent, 1, n))
           rest == SubSeq(toAgent, n + 1, Len(toAgent))
<1>1. /\ reading /\ toAgent' = rest
      /\ agent' = IF fed.state = "Complete" THEN NewParser ELSE fed
      /\ reading' = (fed.state # "Failed")
      /\ posted' = IF fed.state = "Complete" THEN Append(posted, fed.packet) ELSE posted
      /\ IF fed.state = "Failed" THEN Reply("400", FALSE) ELSE UNCHANGED <<toClient, codes>>
      /\ UNCHANGED <<open, clientVars>>
    BY DEF OnRead
<1>2. toAgent # <<>>
    <2>1. Len(<<>>) = 0 /\ 1 .. 0 = {}
        OBVIOUS
    <2> QED
        BY <2>1
<1>3. exchange = "waiting" /\ Asked /\ open
    BY <1>1, <1>2 DEF IInv, Protocol, AgentIsIdle, Taken, Answered
<1>4. /\ posted = <<>> /\ codes = <<>> /\ toClient = <<>> /\ client = NewParser
      /\ agent.buf \o toAgent = Serialize(asked) /\ OnTrack(agent, asked)
    BY <1>1, <1>3 DEF Asked
<1>5. IsSent(asked)
    BY RequestsAreSent DEF IInv, TypeOK
<1>6. /\ fed \in Parsers /\ fed.from <= Len(fed.buf) + 1 /\ Len(fed.buf) <= Capacity
      /\ rest \in Seq(Symbols)
      /\ Knows(fed) /\ OnTrack(fed, asked)
      /\ fed.state # "Failed" => fed.buf \o rest = Serialize(asked)
      /\ fed.state = "Complete" => rest = <<>>
      /\ rest = <<>> => fed.state \in {"Complete", "Failed"}
    <2>1. /\ agent \in Parsers /\ agent.from <= Len(agent.buf) + 1
          /\ Len(agent.buf) <= Capacity /\ toAgent \in Seq(Symbols)
          /\ agent.state \notin {"Complete", "Failed"}
        BY <1>1 DEF IInv, TypeOK
    <2>2. Knows(agent)
        BY BothKnow DEF IInv
    <2> QED
        BY <1>4, <1>5, <2>1, <2>2, Fed
<1> HIDE DEF fed, rest
<1>7. /\ client' = client /\ exchange' = exchange /\ asked' = asked /\ sent' = sent
      /\ open' = open
    BY <1>1 DEF clientVars
<1>8. /\ agent' \in Parsers /\ agent'.from <= Len(agent'.buf) + 1
      /\ Len(agent'.buf) <= Capacity /\ Knows(agent')
      /\ reading' \in BOOLEAN
      /\ reading' => open' /\ agent'.state \notin {"Complete", "Failed"}
      /\ ~reading' => agent'.state = "Failed"
    <2>1. CASE fed.state = "Complete"
        <3>1. agent' = NewParser /\ reading'
            BY <1>1, <2>1
        <3> QED
            BY <1>3, <1>7, <3>1, NewParserIsOne, NewParserFits, NewParserKnows
    <2>2. CASE fed.state # "Complete"
        <3>1. agent' = fed
            BY <1>1, <2>2
        <3> QED
            <4>1. CASE fed.state = "Failed"
                <5>1. reading' = FALSE
                    BY <1>1, <4>1, Zenon
                <5> QED
                    BY <1>6, <3>1, <4>1, <5>1
            <4>2. CASE fed.state # "Failed"
                <5>1. reading' = TRUE
                    BY <1>1, <4>2, Zenon
                <5> QED
                    BY <1>3, <1>6, <1>7, <2>2, <3>1, <4>2, <5>1
            <4> QED
                BY <4>1, <4>2
    <2> QED
        BY <2>1, <2>2
<1>9. posted' \in Seq(Packets) /\ (fed.state # "Complete" => posted' = <<>>)
      /\ (fed.state = "Complete" => Len(posted') = 1 /\ posted'[1] = fed.packet)
    <2>1. fed.packet \in Packets
        BY <1>6 DEF Parsers
    <2>2. /\ Append(<<>>, fed.packet) \in Seq(Packets) /\ Len(Append(<<>>, fed.packet)) = 1
          /\ Append(<<>>, fed.packet)[1] = fed.packet /\ <<>> \in Seq(Packets)
        BY <2>1
    <2> QED
        BY <1>1, <1>4, <2>2
<1>10. /\ fed.state # "Failed" => codes' = <<>> /\ toClient' = <<>>
       /\ fed.state = "Failed" => codes' = <<"400">> /\ toClient' = Response(FALSE)
       /\ codes' \in Seq(Answers) /\ toClient' \in Seq(Symbols)
    <2>1. CASE fed.state # "Failed"
        <3>1. <<>> \in Seq(Answers) /\ <<>> \in Seq(Symbols)
            OBVIOUS
        <3> QED
            BY <1>1, <1>4, <2>1, <3>1
    <2>2. CASE fed.state = "Failed"
        <3>1. Response(FALSE) \in Seq(Symbols)
            BY Replies
        <3>2. <<>> \o Response(FALSE) = Response(FALSE)
            BY <3>1
        <3>3. Append(<<>>, "400") = <<"400">> /\ <<"400">> \in Seq(Answers)
            BY DEF Answers
        <3>4. codes' = Append(<<>>, "400") /\ toClient' = <<>> \o Response(FALSE)
            BY <1>1, <1>4, <2>2 DEF Reply
        <3> QED
            BY <2>2, <3>1, <3>2, <3>3, <3>4
    <2> QED
        BY <2>1, <2>2
<1>11. TypeOK'
    BY <1>1, <1>6, <1>7, <1>8, <1>9, <1>10 DEF IInv, TypeOK
<1>12. SplitsAreForgotten'
    <2>1. Knows(client)
        BY BothKnow DEF IInv
    <2> QED
        BY <1>7, <1>8, <2>1 DEF SplitsAreForgotten, Knows
<1>13. Protocol'
    <2>1. CASE fed.state = "Complete"
        <3>1. agent' = NewParser /\ reading' /\ toAgent' = <<>>
            BY <1>1, <1>6, <2>1
        <3>2. fed.packet.line = asked.line /\ fed.packet.body = asked.body
            BY <1>6, <2>1 DEF OnTrack
        <3>3. Taken'
            BY <1>4, <1>7, <1>9, <1>10, <2>1, <3>1, <3>2 DEF Taken, AgentIsIdle
        <3> QED
            BY <1>3, <1>7, <3>3 DEF Protocol
    <2>2. CASE fed.state = "Failed"
        <3>1. ~reading' /\ posted' = <<>>
            BY <1>1, <1>9, <2>2
        <3>2. Len(codes') = 1 /\ toClient' # <<>> /\ toClient' = Response(FALSE)
            BY <1>10, <2>2, Replies
        <3>3. /\ client'.buf \o toClient' = Response(FALSE)
              /\ OnTrack(client', ReplyMessage(FALSE))
            BY <1>4, <1>7, <3>2, AnswerIsTracked
        <3>4. Answered'
            BY <3>1, <3>2, <3>3 DEF Answered, AgentIsIdle
        <3> QED
            BY <1>3, <1>7, <3>4 DEF Protocol
    <2>3. CASE fed.state \notin {"Complete", "Failed"}
        <3>1. agent' = fed /\ posted' = <<>> /\ codes' = <<>> /\ toClient' = <<>>
            BY <1>1, <1>9, <1>10, <2>3
        <3>2. Asked'
            BY <1>1, <1>4, <1>6, <1>7, <2>3, <3>1 DEF Asked
        <3> QED
            BY <1>3, <1>7, <3>2 DEF Protocol
    <2> QED
        BY <2>1, <2>2, <2>3
<1> QED
    BY <1>7, <1>8, <1>11, <1>12, <1>13 DEF IInv

\* The controller answers what it was handed.
LEMMA RunCallbackInvariant ==
    ASSUME IInv, NEW code \in Answers, RunCallback(code)
    PROVE  IInv'
<1>1. /\ posted # <<>> /\ posted' = Tail(posted) /\ Reply(code, TRUE)
      /\ UNCHANGED <<toAgent, agent, reading, open, clientVars>>
    BY DEF RunCallback
<1>2. exchange = "waiting" /\ Taken
    BY <1>1 DEF IInv, Protocol, Asked, Answered
<1>3. posted' = <<>>
    <2>1. posted \in Seq(Packets) /\ Len(posted) = 1
        BY <1>2 DEF IInv, TypeOK, Taken
    <2> QED
        BY <1>1, <2>1, OnlyElement
<1>4. Response(TRUE) \in Seq(Symbols) /\ Response(TRUE) # <<>>
    BY Replies
<1>5. codes' = <<code>> /\ toClient' = Response(TRUE)
    <2>1. codes' = Append(<<>>, code) /\ toClient' = <<>> \o Response(TRUE)
        BY <1>1, <1>2 DEF Reply, Taken
    <2>2. <<>> \o Response(TRUE) = Response(TRUE) /\ Append(<<>>, code) = <<code>>
        BY <1>4
    <2> QED
        BY <2>1, <2>2
<1>6. Len(codes') = 1 /\ codes' \in Seq(Answers)
    BY <1>5
<1>7. TypeOK'
    <2>1. posted' \in Seq(Packets)
        BY <1>3
    <2> QED
        BY <1>1, <1>4, <1>5, <1>6, <2>1 DEF IInv, TypeOK, clientVars
<1>8. SplitsAreForgotten'
    BY <1>1 DEF IInv, SplitsAreForgotten, clientVars
<1>9. Answered'
    <2>1. /\ client'.buf \o toClient' = Response(TRUE)
          /\ OnTrack(client', ReplyMessage(TRUE))
        BY <1>1, <1>2, <1>5, AnswerIsTracked DEF Taken, clientVars
    <2>2. AgentIsIdle'
        BY <1>1, <1>2 DEF Taken, AgentIsIdle
    <2> QED
        BY <1>3, <1>4, <1>5, <1>6, <2>1, <2>2 DEF Answered
<1>10. Protocol'
    BY <1>1, <1>2, <1>9 DEF Protocol, clientVars
<1> QED
    BY <1>1, <1>7, <1>8, <1>10 DEF IInv, clientVars

LEMMA ReleaseInvariant ==
    ASSUME IInv, Release
    PROVE  IInv'
<1>1. /\ ~reading /\ open' = FALSE
      /\ UNCHANGED <<toAgent, agent, reading, posted, toClient, codes, clientVars>>
    BY DEF Release
<1>2. TypeOK'
    BY <1>1 DEF IInv, TypeOK, clientVars
<1>3. SplitsAreForgotten'
    BY <1>1 DEF IInv, SplitsAreForgotten, clientVars
<1>4. Protocol'
    BY <1>1 DEF IInv, Protocol, Asked, Taken, Answered, AgentIsIdle, clientVars
<1> QED
    BY <1>1, <1>2, <1>3, <1>4 DEF IInv, clientVars

LEMMA StutterInvariant ==
    ASSUME IInv, UNCHANGED vars
    PROVE  IInv'
<1>1. TypeOK'
    BY DEF IInv, TypeOK, vars, agentVars, clientVars
<1>2. SplitsAreForgotten'
    BY DEF IInv, SplitsAreForgotten, vars, agentVars, clientVars
<1>3. Protocol'
    BY DEF IInv, Protocol, Asked, Taken, Answered, AgentIsIdle, vars, agentVars, clientVars
<1> QED
    BY <1>1, <1>2, <1>3 DEF IInv, vars, agentVars, clientVars

LEMMA Invariant ==
    Spec => []IInv
<1>1. Init => IInv
    BY InitInvariant
<1>2. IInv /\ [Next]_vars => IInv'
    <2> SUFFICES ASSUME IInv, [Next]_vars PROVE IInv'
        OBVIOUS
    <2>1. CASE \E r \in Requests : Send(r)
        BY <2>1, SendInvariant
    <2>2. CASE \E n \in 1 .. Len(toAgent) : OnRead(n)
        BY <2>2, OnReadInvariant
    <2>3. CASE \E n \in 1 .. Len(toClient) : ClientReads(n)
        BY <2>3, ClientReadsInvariant
    <2>4. CASE \E code \in Answers : RunCallback(code)
        BY <2>4, RunCallbackInvariant
    <2>5. CASE ClientLosesConnection
        BY <2>5, ClientLosesConnectionInvariant
    <2>6. CASE Release
        BY <2>6, ReleaseInvariant
    <2>7. CASE UNCHANGED vars
        BY <2>7, StutterInvariant
    <2> QED
        BY <2>1, <2>2, <2>3, <2>4, <2>5, <2>6, <2>7 DEF Next
<1> QED
    BY <1>1, <1>2, PTL DEF Spec

\* Types, and the limits of the two buffers: whatever is sent, neither parser keeps more
\* than its buffer holds, nor has its iterator beyond the end (_incomingDataBuf, _itParseFrom).
THEOREM TypeCorrect ==
    Spec => []TypeOK
<1>1. IInv => TypeOK
    BY DEF IInv
<1> QED
    BY <1>1, Invariant, PTL

\* Where the reads end makes no difference to what a parser knows, and its buffer never
\* outgrows what was reserved (HttpParser::OnData).
THEOREM SplitsHarmless ==
    Spec => []SplitsDoNotMatter
<1>1. IInv => SplitsDoNotMatter
    BY DEF IInv, TypeOK, SplitsAreForgotten, SplitsDoNotMatter
<1> QED
    BY <1>1, Invariant, PTL

\* The controller is handed the request that was asked, whole and once, however it was
\* cut into pieces (HttpListenerConnection::_OnData).
THEOREM HandedOver ==
    Spec => []RequestIsHandedOver
<1>1. IInv => RequestIsHandedOver
    BY DEF IInv, Protocol, Asked, Taken, Answered, RequestIsHandedOver
<1> QED
    BY <1>1, Invariant, PTL
-----------------------------------------------------------------------------
(***************************************************************************)
(* The calls that the bytes stand for (RestApi): one that fails changes    *)
(* nothing.                                                                *)
(***************************************************************************)
CONSTANTS Ids, Creations, RawRequests, Timeouts, CacheHost, Numbers, LowerCase
VARIABLES table, called, request, read, reply

Api == INSTANCE RestApi WITH asked <- called, packet <- read

\* The table is a function, whatever its downloads are.
IsTable == table = [id \in DOMAIN table |-> table[id]]

\* All that the parameters of a known download come to: the first of them is the id,
\* which cannot be set, and after a property that could not be set none is.
LEMMA NothingIsSet ==
    ASSUME NEW d, "id" \in DOMAIN Api!QueryParams
    PROVE  Api!SetProperties(d) = [hr |-> "DO_E_READ_ONLY_PROPERTY", download |-> d]
<1> DEFINE start   == [hr |-> "S_OK", download |-> d]
           stopped == [hr |-> "DO_E_READ_ONLY_PROPERTY", download |-> d]
           K       == Api!KnownParams
           IsFold(f) == f = [n \in 0 .. Len(K) |->
                                IF n = 0 THEN start ELSE Api!SetNext(f[n - 1], K[n])]
           fold == CHOOSE f : IsFold(f)
<1>1. Len(K) = 5 /\ K[1] = "id"
    BY DEF Api!KnownParams
<1>2. Api!SetNext(start, "id") = stopped
    <2>1. Api!PropertyError(start.download, "id", Api!QueryParams["id"])
            = "DO_E_READ_ONLY_PROPERTY"
        BY DEF Api!PropertyError
    <2> QED
        BY <2>1 DEF Api!SetNext
<1>3. \A p : Api!SetNext(stopped, p) = stopped
    BY DEF Api!SetNext
<1>4. Api!SetProperties(d) = fold[Len(K)]
    BY DEF Api!SetProperties, Api!SetInOrder
<1> HIDE DEF K, start, stopped
<1>5. IsFold([n \in 0 .. 5 |-> IF n = 0 THEN start ELSE stopped])
    <2> DEFINE f == [n \in 0 .. 5 |-> IF n = 0 THEN start ELSE stopped]
    <2>1. ASSUME NEW n \in 0 .. 5
          PROVE  f[n] = IF n = 0 THEN start ELSE Api!SetNext(f[n - 1], K[n])
        <3>1. CASE n = 0
            BY <3>1
        <3>2. CASE n = 1
            <4>1. f[n] = stopped /\ f[n - 1] = start
                BY <3>2
            <4> QED
                BY <1>1, <1>2, <3>2, <4>1
        <3>3. CASE n \in 2 .. 5
            <4>1. f[n] = stopped /\ f[n - 1] = stopped
                BY <3>3
            <4> QED
                BY <1>3, <3>3, <4>1
        <3> QED
            BY <3>1, <3>2, <3>3
    <2> QED
        BY <1>1, <2>1
<1>6. IsFold(fold)
    BY <1>5
<1> HIDE DEF fold
<1>7. fold[0] = start /\ \A n \in 1 .. 5 : fold[n] = Api!SetNext(fold[n - 1], K[n])
    BY <1>1, <1>6
<1> HIDE DEF IsFold
<1>8. fold[1] = stopped
    <2>1. 1 \in 1 .. 5 /\ 1 - 1 = 0
        OBVIOUS
    <2> QED
        BY <1>1, <1>2, <1>7, <2>1
<1>9. \A n \in 2 .. 5 : fold[n - 1] = stopped => fold[n] = stopped
    BY <1>3, <1>7
<1>10. fold[2] = stopped /\ fold[3] = stopped /\ fold[4] = stopped /\ fold[5] = stopped
    <2>1. fold[2] = stopped
        BY <1>8, <1>9
    <2>2. fold[3] = stopped
        BY <1>9, <2>1
    <2>3. fold[4] = stopped
        BY <1>9, <2>2
    <2>4. fold[5] = stopped
        BY <1>9, <2>3
    <2> QED
        BY <2>1, <2>2, <2>3, <2>4
<1> QED
    BY <1>1, <1>4, <1>10 DEF stopped

\* A download is known by an id, so that there is one among the parameters.
LEMMA KnownById ==
    ASSUME Api!IsKnownId
    PROVE  "id" \in DOMAIN Api!QueryParams
<1>1. Len(<<>>) # 1
    OBVIOUS
<1> QED
    BY <1>1, Zenon DEF Api!IsKnownId, Api!TheId, Api!StringParam

\* An answer of success has the status 200.
LEMMA SuccessIs200 ==
    ASSUME Api!Answer("S_OK")
    PROVE  reply'.status = 200
BY DEF Api!Answer, Api!StatusOf

\* What each handler does: it succeeds, or it leaves the table alone.
LEMMA ServedOrUnchanged ==
    ASSUME IsTable, Api!Serve
    PROVE  reply'.status = 200 \/ table' = table
<1>1. ASSUME NEW hr, Api!Fail(hr) PROVE table' = table
    BY <1>1 DEF Api!Fail
<1>2. ASSUME NEW state, Api!Enter(state) PROVE reply'.status = 200
    BY <1>2, SuccessIs200 DEF Api!Enter
<1>3. ASSUME Api!Erase PROVE reply'.status = 200
    BY <1>3, SuccessIs200 DEF Api!Erase
<1>4. CASE Api!Refuse
    BY <1>1, <1>4 DEF Api!Refuse
<1>5. CASE Api!ServeCreate
    BY <1>1, <1>5, SuccessIs200 DEF Api!ServeCreate
<1>6. CASE Api!ServeEnumerate
    BY <1>1, <1>6 DEF Api!ServeEnumerate
<1>7. CASE Api!ServeUnknownId
    BY <1>1, <1>7 DEF Api!ServeUnknownId
<1>8. CASE Api!ServeStart
    BY <1>1, <1>2, <1>8 DEF Api!ServeStart
<1>9. CASE Api!ServePause
    BY <1>2, <1>9 DEF Api!ServePause
<1>10. CASE Api!ServeFinalize
    BY <1>1, <1>3, <1>10 DEF Api!ServeFinalize
<1>11. CASE Api!ServeAbort
    BY <1>3, <1>11 DEF Api!ServeAbort
<1>12. CASE Api!ServeGetStatus
    BY <1>2, <1>12 DEF Api!ServeGetStatus
<1>13. CASE Api!ServeGetProperty
    BY <1>1, <1>2, <1>13 DEF Api!ServeGetProperty
<1>14. CASE Api!ServeSetProperty
    <2>1. CASE Api!Fail("DO_E_UNKNOWN_PROPERTY_ID")
        BY <1>1, <2>1
    <2>2. CASE UNCHANGED <<table, called>>
        BY <2>2
    <2>3. CASE ~Api!Fail("DO_E_UNKNOWN_PROPERTY_ID") /\ ~UNCHANGED <<table, called>>
        <3> DEFINE id == Api!TheId[1]
        <3>1. /\ Api!IsKnownId
              /\ table' = [table EXCEPT ![id] = Api!SetProperties(table[id]).download]
            BY <1>14, <2>3 DEF Api!ServeSetProperty
        <3>2. Api!SetProperties(table[id]).download = table[id]
            BY <3>1, KnownById, NothingIsSet
        <3> HIDE DEF id
        <3> QED
            BY <3>1, <3>2 DEF IsTable
    <2> QED
        BY <2>1, <2>2, <2>3
<1> QED
    BY <1>4, <1>5, <1>6, <1>7, <1>8, <1>9, <1>10, <1>11, <1>12, <1>13, <1>14 DEF Api!Serve

\* The table stays a function.
LEMMA TableStays ==
    ASSUME IsTable, [Api!Next]_Api!vars
    PROVE  IsTable'
<1>1. CASE table' = table
    BY <1>1 DEF IsTable
<1>2. ASSUME NEW ids, NEW id, NEW d,
             table' = [known \in ids |-> IF known = id THEN d ELSE table[known]]
      PROVE  IsTable'
    BY <1>2 DEF IsTable
<1>3. ASSUME NEW id, NEW d, table' = [table EXCEPT ![id] = d] PROVE IsTable'
    BY <1>3 DEF IsTable
<1>4. ASSUME NEW ids, table' = Api!Restrict(table, ids) PROVE IsTable'
    BY <1>4 DEF IsTable, Api!Restrict
<1>5. ASSUME NEW hr, Api!Fail(hr) PROVE IsTable'
    BY <1>1, <1>5 DEF Api!Fail
<1>6. ASSUME NEW state, Api!Enter(state) PROVE IsTable'
    <2>1. table' = [table EXCEPT ![Api!TheId[1]].state = state]
        BY <1>6 DEF Api!Enter
    <2> QED
        BY <2>1 DEF IsTable
<1>7. ASSUME Api!Erase PROVE IsTable'
    BY <1>4, <1>7 DEF Api!Erase
<1>8. CASE Api!SdkCreate \/ Api!SdkCall \/ Api!SdkGetStatus \/ Api!OtherCall
    BY <1>1, <1>8 DEF Api!SdkCreate, Api!SdkCall, Api!SdkGetStatus, Api!OtherCall, Api!Send
<1>9. CASE Api!Parse \/ Api!Receive
    BY <1>1, <1>9 DEF Api!Parse, Api!Receive
<1>10. CASE Api!Refuse \/ Api!ServeEnumerate \/ Api!ServeUnknownId
    BY <1>5, <1>10 DEF Api!Refuse, Api!ServeEnumerate, Api!ServeUnknownId
<1>11. CASE Api!ServeCreate
    <2>1. CASE Api!Fail("INET_E_INVALID_URL")
        BY <1>5, <2>1
    <2>2. CASE ~Api!Fail("INET_E_INVALID_URL")
        <3>1. PICK id \in Ids \ DOMAIN called :
                \E d : table' = [known \in Api!Downloads \cup {id} |->
                                    IF known = id THEN d ELSE table[known]]
            BY <1>11, <2>2 DEF Api!ServeCreate
        <3> QED
            BY <1>2, <3>1
    <2> QED
        BY <2>1, <2>2
<1>12. CASE Api!ServeStart
    BY <1>5, <1>6, <1>12 DEF Api!ServeStart
<1>13. CASE Api!ServePause \/ Api!ServeGetStatus
    BY <1>6, <1>13 DEF Api!ServePause, Api!ServeGetStatus
<1>14. CASE Api!ServeFinalize \/ Api!ServeAbort
    BY <1>5, <1>7, <1>14 DEF Api!ServeFinalize, Api!ServeAbort
<1>15. CASE Api!ServeGetProperty
    BY <1>5, <1>6, <1>15 DEF Api!ServeGetProperty
<1>16. CASE Api!ServeSetProperty
    BY <1>1, <1>3, <1>5, <1>16 DEF Api!ServeSetProperty
<1>17. CASE Api!Progress
    <2>1. PICK id \in Api!Downloads, state \in {"Transferred", "Paused"} :
            table' = [table EXCEPT ![id].state = state]
        BY <1>17 DEF Api!Progress
    <2> QED
        BY <2>1 DEF IsTable
<1>18. CASE UNCHANGED Api!vars
    BY <1>1, <1>18 DEF Api!vars
<1> QED
    BY <1>8, <1>9, <1>10, <1>11, <1>12, <1>13, <1>14, <1>15, <1>16, <1>17, <1>18
       DEF Api!Next, Api!Serve

\* A call that is answered with an error has changed nothing, also one that names several
\* properties to set: none of them is, since the id is among them
\* (RestApiSetPropertyRequest::ParseAndProcess), and one that ends what cannot end.
THEOREM FailuresAreHarmless ==
    Api!Spec => Api!FailedCallChangesNothing
<1>1. Api!Init => IsTable
    BY DEF Api!Init, IsTable
<1>2. IsTable /\ [Api!Next]_Api!vars => IsTable'
    BY TableStays
<1>3. IsTable /\ [Api!Next]_Api!vars
        => [reply = Api!None /\ reply' # Api!None /\ reply'.status # 200 => table' = table]_Api!vars
    <2> SUFFICES ASSUME IsTable, Api!Next, reply = Api!None, reply' # Api!None,
                        reply'.status # 200
                 PROVE  table' = table
        OBVIOUS
    <2>1. CASE Api!Serve
        BY <2>1, ServedOrUnchanged
    <2>2. CASE ~Api!Serve
        BY <2>2 DEF Api!Next, Api!SdkCreate, Api!SdkCall, Api!SdkGetStatus, Api!OtherCall,
                    Api!Send, Api!Parse, Api!Receive, Api!Progress
    <2> QED
        BY <2>1, <2>2
<1> QED
    BY <1>1, <1>2, <1>3, PTL DEF Api!Spec, Api!FailedCallChangesNothing
=============================================================================
