-------------------------------- MODULE Uri --------------------------------
(***************************************************************************)
(* What the agent and the SDK use of the URI library they share            *)
(* (common/lib-dohttp/do_cpprest_uri.cpp, do_cpprest_uri_builder.cpp).     *)
(*                                                                         *)
(* A text is a sequence of symbols: a delimiter, another character that    *)
(* has to be encoded, or a word of unreserved characters.  An encoded      *)
(* character is "%" and the word of its two digits, which may stand in a   *)
(* text as well.                                                           *)
(***************************************************************************)
EXTENDS Integers, SequencesExt

CONSTANTS
    Numbers,        \* the words that consist of digits
    LowerCase       \* the words with capitals, and what they are in lower case

\* The characters that are not unreserved, with the digits that encode them
HexOf ==
    (":" :> "3A") @@ ("/" :> "2F") @@ ("?" :> "3F") @@ ("#" :> "23") @@
    ("[" :> "5B") @@ ("]" :> "5D") @@ ("@" :> "40") @@
    ("!" :> "21") @@ ("&" :> "26") @@ (";" :> "3B") @@ ("=" :> "3D") @@ ("+" :> "2B") @@
    ("%" :> "25") @@ (" " :> "20") @@ ("u-umlaut" :> "FC")

GenDelims == {":", "/", "?", "#", "[", "]", "@"}
SubDelims == {"!", "&", ";", "=", "+"}
IsUnreserved(c) == c \notin DOMAIN HexOf
IsUserInfoCharacter(c) == IsUnreserved(c) \/ c \in SubDelims \cup {"%", ":"}
IsAuthorityCharacter(c) == IsUserInfoCharacter(c) \/ c \in {"@", "[", "]"}
IsPathCharacter(c) == IsUserInfoCharacter(c) \/ c \in {"/", "@"}
IsQueryCharacter(c) == IsPathCharacter(c) \/ c = "?"
IsSchemeCharacter(c) == IsUnreserved(c) \/ c = "+"

\* inplace_tolower, and case-insensitive comparison
ToLower(w) == IF w \in DOMAIN LowerCase THEN LowerCase[w] ELSE w
TextToLower(text) == [i \in DOMAIN text |-> ToLower(text[i])]

-----------------------------------------------------------------------------
\* Variant: what delimits the query of the enclosing request is left alone
EncodeForUrl(raw) ==
    FlattenSeq([i \in DOMAIN raw |->
        IF ~IsQueryCharacter(raw[i]) \/ raw[i] \in {"%", "+"}
        THEN <<"%", HexOf[raw[i]]>> ELSE <<raw[i]>>])

\* encode_query_impl
EncodeQuery(raw) ==
    FlattenSeq([i \in DOMAIN raw |->
        IF ~IsQueryCharacter(raw[i]) \/ raw[i] \in {"&", ";", "=", "%", "+"}
        THEN <<"%", HexOf[raw[i]]>> ELSE <<raw[i]>>])

\* decode, which throws unless each "%" is followed by two digits and the rest is ASCII
IsDecodable(encoded) ==
    /\ \A i \in DOMAIN encoded : encoded[i] # "u-umlaut"
    /\ \A i \in DOMAIN encoded : encoded[i] = "%" =>
        /\ i < Len(encoded)
        /\ \E c \in DOMAIN HexOf : HexOf[c] = encoded[i + 1]

Decode(encoded) ==
    FlattenSeq([i \in DOMAIN encoded |->
        IF encoded[i] = "%" THEN <<>>
        ELSE IF i > 1 /\ encoded[i - 1] = "%"
        THEN <<CHOOSE c \in DOMAIN HexOf : HexOf[c] = encoded[i]>>
        ELSE <<encoded[i]>>])

-----------------------------------------------------------------------------
\* A text before the first of some delimiters, and the rest, which begins with it
Cut(text, stops) ==
    LET size == Min({i \in DOMAIN text : text[i] \in stops} \cup {Len(text) + 1}) - 1
    IN  <<SubSeq(text, 1, size), SubSeq(text, size + 1, Len(text))>>

Begins(text, delimiter) == text # <<>> /\ text[1] = delimiter

\* The parts of a text between occurrences of a separator
Parts(text, separator) ==
    LET cuts == SetToSortSeq({0, Len(text) + 1} \cup
                             {i \in DOMAIN text : text[i] = separator}, <)
    IN  [i \in 1 .. Len(cuts) - 1 |-> SubSeq(text, cuts[i] + 1, cuts[i + 1] - 1)]

\* split_path
SplitPath(path) == SelectSeq(Parts(path, "/"), LAMBDA p : p # <<>>)

\* split_query: ";" separates what is behind the last "&"; what has no "=" is left out;
\* of two fields with one name the last one counts
SplitQuery(query) ==
    LET parts  == Parts(query, "&")
        fields == Front(parts) \o Parts(Last(parts), ";")
        pairs  == [i \in DOMAIN fields |-> Cut(fields[i], {"="})]
        proper == SelectSeq(pairs, LAMBDA p : p[2] # <<>>)
    IN  [name \in {proper[i][1] : i \in DOMAIN proper} |->
            Tail(Last(SelectSeq(proper, LAMBDA p : p[1] = name))[2])]

-----------------------------------------------------------------------------
(***************************************************************************)
(* inner_parse_out::parse_from and write_to, from the scheme to the        *)
(* fragment: each takes its part of the text and hands on the rest.        *)
(***************************************************************************)
Consists(text, IsCharacter(_)) == \A i \in DOMAIN text : IsCharacter(text[i])

ParseFragment(uri, rest) ==
    IF ~Begins(rest, "#") THEN uri
    ELSE [uri EXCEPT !.fragment = Tail(rest),
                     !.valid = @ /\ Consists(Tail(rest), IsQueryCharacter)]

ParseQuery(uri, rest) ==
    LET cut == Cut(Tail(rest), {"#"})
    IN  IF ~Begins(rest, "?") THEN ParseFragment(uri, rest)
        ELSE ParseFragment([uri EXCEPT !.query = cut[1],
                                       !.valid = @ /\ Consists(cut[1], IsQueryCharacter)],
                           cut[2])

\* What begins with none of the characters a path may have is no path
ParsePath(uri, rest) ==
    LET cut == Cut(rest, {"?", "#"})
    IN  IF rest = <<>> \/ ~IsPathCharacter(rest[1]) THEN ParseQuery(uri, rest)
        ELSE ParseQuery([uri EXCEPT !.path = cut[1],
                                    !.valid = @ /\ Consists(cut[1], IsPathCharacter)],
                        cut[2])

ParseUser(uri, host) ==
    LET cut == Cut(host, {"@", "[", "]"})
    IN  IF Begins(cut[2], "@")
        THEN [uri EXCEPT !.user = cut[1], !.host = TextToLower(Tail(cut[2]))]
        ELSE [uri EXCEPT !.host = TextToLower(host)]

\* A colon with nothing but digits behind it begins a port
ParseAuthority(uri, text) ==
    LET colon == Max({0} \cup {i \in DOMAIN text :
                    text[i] = ":" /\ \A j \in i + 1 .. Len(text) : text[j] \in Numbers})
        valid == Consists(text, IsAuthorityCharacter)
    IN  IF colon = 0 THEN ParseUser([uri EXCEPT !.valid = @ /\ valid], text)
        ELSE ParseUser([uri EXCEPT !.port = SubSeq(text, colon + 1, Len(text)),
                                   !.valid = @ /\ valid],
                       SubSeq(text, 1, colon - 1))

ParseHost(uri, rest) ==
    LET cut == Cut(SubSeq(rest, 3, Len(rest)), {"/", "?", "#"})
    IN  IF Begins(rest, "/") /\ Begins(Tail(rest), "/")
        THEN ParsePath(ParseAuthority(uri, cut[1]), cut[2])
        ELSE ParsePath(uri, rest)

NoUri == [valid |-> TRUE, scheme |-> <<>>, user |-> <<>>, host |-> <<>>, port |-> <<>>,
          path |-> <<"/">>, query |-> <<>>, fragment |-> <<>>]

\* A colon before the first slash ends a scheme
ParseUri(text) ==
    LET cut == Cut(text, {":", "/"})
        scheme == cut[1]
    IN  IF ~Begins(cut[2], ":") THEN ParseHost(NoUri, text)
        ELSE ParseHost([NoUri EXCEPT !.scheme = TextToLower(scheme),
                            !.valid = /\ scheme # <<>> /\ scheme[1] \notin Numbers
                                      /\ IsUnreserved(scheme[1])
                                      /\ Consists(scheme, IsSchemeCharacter)],
                       Tail(cut[2]))

\* uri_components::join
Join(uri) ==
    LET hasHost == uri.host # <<>>
        path    == IF hasHost /\ (uri.path = <<>> \/ uri.path[1] # "/")
                   THEN <<"/">> \o uri.path ELSE uri.path
        If(condition, text) == IF condition THEN text ELSE <<>>
    IN  If(uri.scheme # <<>>, uri.scheme \o <<":">>)
        \o If(hasHost, <<"/", "/">> \o If(uri.user # <<>>, uri.user \o <<"@">>) \o uri.host
                       \o If(uri.port \notin {<<>>, <<"0">>}, <<":">> \o uri.port))
        \o path
        \o If(uri.query # <<>>, <<"?">> \o uri.query)
        \o If(uri.fragment # <<>>, <<"#">> \o uri.fragment)

-----------------------------------------------------------------------------
\* One separator between two texts, however many of it there are at the seam
JoinWith(text, separator, more) ==
    IF Last(text) = separator /\ more[1] = separator THEN Front(text) \o more
    ELSE IF Last(text) # separator /\ more[1] # separator
    THEN text \o <<separator>> \o more
    ELSE text \o more

\* uri_builder::append_path
AppendPath(uri, more) ==
    IF more \in {<<>>, <<"/">>} THEN uri
    ELSE [uri EXCEPT !.path =
            IF @ \notin {<<>>, <<"/">>} THEN JoinWith(@, "/", more)
            ELSE IF more[1] = "/" THEN more ELSE <<"/">> \o more]

\* uri_builder::append_query of a name and a value
AppendQuery(uri, name, value) ==
    LET field == EncodeQuery(<<name>>) \o <<"=">> \o EncodeQuery(value)
    IN  [uri EXCEPT !.query = IF @ = <<>> THEN field ELSE JoinWith(@, "&", field)]
=============================================================================
