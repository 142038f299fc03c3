------------------------- MODULE MCRequestFraming -------------------------
(* RequestFraming on small requests; each cfg chooses a set of them. *)
EXTENDS RequestFraming

MCPort == <<"8080">>

Opening(method, steps, query, version, fields) ==
    [method |-> method, steps |-> steps, query |-> query, version |-> version, fields |-> fields]
Usual == Opening("POST", <<"a">>, <<>>, "HTTP/1.1", <<>>)
Message(head, framing, chunks) == head @@ [framing |-> framing, chunks |-> chunks]
WithBody(framing, data) == {Message(Usual, framing, <<d>>) : d \in data}
Data(bytes, length) == UNION {[1..n -> bytes] : n \in 1..length}

NoBody == {Message(Usual, "none", <<>>)}
Lengths == WithBody("length", Data({"x", "CR", "LF"}, 3) \cup Data({"x", "0", ":"}, 2))
Forms == WithBody("form", Data({"x", "CR", "LF"}, 2))
Chunks ==
    LET data == Data({"x", "LF"}, 2)
    IN  {Message(Usual, "chunked", chunks) : chunks \in UNION {[1..n -> data] : n \in 1..2}}

\* Names as those of the code's own entries; empty values; a colon in a value.
FieldSets ==
    LET host == Plain("host", <<"localhost", ":", "8080">>)
        port == [name |-> "port", before |-> <<" ", " ">>, value |-> <<"x">>, after |-> <<>>]
        body == [name |-> "body", before |-> <<>>, value |-> <<>>, after |-> <<>>]
    IN  {<<host>>, <<host, port>>, <<body, host>>, <<port, body>>}
Fielded ==
    {Message(Opening("GET", <<"a", "b">>, query, "HTTP/1.1", fields), "none", <<>>) :
        query \in {<<>>, <<"x", "?", "x">>}, fields \in FieldSets}
    \cup {Message(Opening("POST", <<"a">>, <<>>, "HTTP/1.1", fields), framing, <<<<"x", ":">>>>) :
        framing \in {"length", "form", "chunked"}, fields \in FieldSets}

\* Paths of directories, with a name at their end.
Paths == {Append(up, "a") : up \in UNION {[1..n -> {"a", ".."}] : n \in 0..4}}
Lines ==
    {Message(Opening("GET", path, <<>>, "HTTP/1.1", <<>>), "none", <<>>) : path \in Paths}
    \cup {Message(Opening("GET", <<"a">>, <<>>, "HTTP/1.0", <<>>), "none", <<>>)}

\* All that is delivered whole and answered.
WellFramed == NoBody \cup Lengths \cup Forms \cup Chunks \cup Fielded \cup Lines

ASSUME ReadableAssumption == \A m \in WellFramed : Readable(m)

\* As curl -F sends a file: the Content-Type is the last header.
Upload == WithBody("form, type last", {<<"x">>})

-----------------------------------------------------------------------------
(* What is not: each of these refutes a property (see the README). *)

EmptyLength == {Message(Usual, "length", <<>>)}
EmptyChunked == {Message(Usual, "chunked", <<>>)}
ChunkEnd == WithBody("chunked", {<<"x", "CR">>})
ChunkZero == WithBody("chunked", {<<"0">>})
ChunkLast == WithBody("chunked", {<<"x">> \o LastChunk \o <<"x">>})
Mention == WithBody("length", {<<"Transfer-Encoding", "chunked">>})
Spaced(field) == {Message(Opening("GET", <<"a">>, <<>>, "HTTP/1.1", <<field>>), "none", <<>>)}
SpaceAfter == Spaced([Plain("host", <<"x">>) EXCEPT !.after = <<" ">>])
SpacesBefore == Spaced([Plain("Content-Length", <<"3">>) EXCEPT !.before = <<" ", " ">>])
EmptyPart == WithBody("form", {<<>>})
Asked(path) == {Message(Opening("GET", path, <<>>, "HTTP/1.1", <<>>), "none", <<>>)}
LastUp == Asked(<<"..">>)
Dots == Asked(<<".", ".", "..", "..", "a">>)
EmptyStep == Asked(<<"", "..", "a">>)
=============================================================================
