----------------------------- MODULE RequestText -----------------------------
(***************************************************************************)
(* Request::parseText: the request line, the path, the fields, the lines   *)
(* around the part of a form and the body, taken from all that is in       *)
(* g_request.                                                              *)
(***************************************************************************)
EXTENDS Texts, Integers, FiniteSets

CONSTANT MaxNumber \* bound: largest Content-Length or size of a chunk

\* Numbers, in either base: only the sizes of bodies are meant to be read.
Numerals == {ToString(n) : n \in 0..MaxNumber}
ValueOf(numeral) == CHOOSE n \in 0..MaxNumber : ToString(n) = numeral

-----------------------------------------------------------------------------
(* Names and spaces *)

\* toupper, of the names that come in more than one form.
Upper(x) ==
    CASE x = "host" -> "HOST" [] x = "port" -> "PORT" [] x = "body" -> "BODY"
      [] x = "method" -> "METHOD" [] x = "url" -> "URL" [] x = "args" -> "ARGS"
      [] x = "http" -> "HTTP"
      [] x \in {"content-length", "Content-Length"} -> "CONTENT-LENGTH"
      [] x = "Content-Type" -> "CONTENT-TYPE"
      [] x = "Transfer-Encoding" -> "TRANSFER-ENCODING"
      [] OTHER -> x

\* The words of the code and of HTTP that are symbols here.
Words ==
    {"CR", "LF", " ", ":", "-", "/", "?", "0", "boundary", "boundary=", "chunked", "multipart",
     "form-data", "disposition", "method", "url", "args", "http", "port", "body", "HTTP/1.1",
     "Content-Length", "Content-Type", "Transfer-Encoding",
     "HOST", "PORT", "BODY", "METHOD", "URL", "ARGS", "HTTP",
     "CONTENT-LENGTH", "CONTENT-TYPE", "TRANSFER-ENCODING"}

\* A number is a word of its own and says which one it is.
ASSUME TextAssumption ==
    /\ Words \subseteq STRING
    /\ MaxNumber \in Nat /\ ToString(0) = "0"
    /\ \A n \in 0..MaxNumber : ToString(n) \in STRING /\ ValueOf(ToString(n)) = n
    /\ \A x \in {"CR", "LF", " ", ":", "-", "boundary"} : x \notin Numerals
    /\ \A x \in Numerals : Upper(x) = x
    /\ {"CONTENT-LENGTH", "TRANSFER-ENCODING"} \cap Numerals = {}

\* ft_skip_space, forward; and back, to how many symbols are kept.
SkipSpaces(s, i) ==
    CHOOSE k \in i..(Len(s) + 1) :
        /\ k <= Len(s) => s[k] # " "
        /\ \A j \in i..(k - 1) : s[j] = " "
SkipBack(s, i) ==
    CHOOSE k \in 0..i :
        /\ k > 0 => s[k + 1] # " "
        /\ \A j \in (k + 1)..i : s[j + 1] = " "

\* What parseText leaves: header, and the code of an error or 0.  Throws
\* stands for the exception of an at() past the end that no catch surrounds.
Outcome(map, error) == [header |-> map, code |-> error]
Throws == 1

-----------------------------------------------------------------------------
(* Bodies *)

\* One turn of the decoder of chunks, which goes on to the end of what was
\* received: what is left of it, the data and the error so far.  A chunk that is
\* cut off ends it without one, and all of that chunk is left unread.
Dechunk(at) ==
    LET s == at.rest
        cr == Find(s, "CR")
        chunk == From(s, cr + 2)
        size == ValueOf(s[1])
        Failed(error) == [at EXCEPT !.rest = <<>>, !.code = error]
        Ends(k, x) == k > Len(chunk) \/ chunk[k] = x
        more == at.data \o SubSeq(chunk, 1, IF size > Len(chunk) THEN Len(chunk) ELSE size)
    IN  IF s = <<>> THEN at
        ELSE IF cr = 1 THEN [at EXCEPT !.rest = From(s, 3)]
        ELSE IF s[1] \notin Numerals \/ cr # (IF Len(s) = 1 THEN 0 ELSE 2) THEN Failed(400)
        ELSE IF cr = Len(s) THEN Failed(Throws)
        ELSE IF cr = 0 \/ s[3] # "LF" THEN Failed(401)
        ELSE IF ~(Ends(size + 1, "CR") /\ Ends(size + 2, "LF"))
        THEN [rest |-> <<>>, data |-> more, code |-> 402, left |-> <<>>]
        ELSE IF size + 2 > Len(chunk)
        THEN [rest |-> <<>>, data |-> more, code |-> 0, left |-> chunk]
        ELSE [rest |-> From(chunk, size + 3), data |-> more, code |-> 0, left |-> <<>>]
Decoded(s) == Loop(Dechunk, [rest |-> s, data |-> <<>>, code |-> 0, left |-> <<>>], Len(s))

\* The part of a form: what stands before the next boundary, without the
\* CRLF and the dashes before that.  (The first variant has a fault: the CRLF
\* is left in.)
PartEndsAtDashes(s, bound) == Position(s, bound) - 3
PartEndsAt(s, bound) ==
    LET begin == Position(s, bound) - 1
    IN  IF begin >= 5 THEN begin - 4 ELSE IF begin >= 2 THEN begin - 2 ELSE 0

TakenBody(map, body, error, left) ==
    [header |-> Put(map, <<"body">>, body), code |-> error, left |-> left]

\* The rest of the text is the body; only a chunk that is cut off is left.
TakeBody(s, map, bound) ==
    IF Value(map, <<"TRANSFER-ENCODING">>) = <<"chunked">>
    THEN LET chunks == Decoded(s) IN TakenBody(map, chunks.data, chunks.code, chunks.left)
    ELSE IF bound # <<>> /\ Position(s, bound) # 0
    THEN TakenBody(map, SubSeq(s, 1, PartEndsAt(s, bound)), 0, <<>>)
    ELSE TakenBody(map, s, 0, <<>>)

-----------------------------------------------------------------------------
(* Fields *)

\* The boundary, which is looked for once the line of the Content-Type is
\* behind: at the next field, not at the blank line.
BoundIn(map, bound) ==
    LET type == Value(map, <<"CONTENT-TYPE">>)
    IN  IF bound = <<>> THEN After(type, "boundary=") ELSE bound

\* A blank line, with something after it.
AtBlank(s) == Len(s) > 2 /\ IsPrefix(CRLF, s)

\* Variant with a fault: the name is not turned into capitals.
KeyAsSent(name) == name

Key(name) == [i \in DOMAIN name |-> Upper(name[i])]

\* A field, if there is one: otherwise the loop is left with the rest unread.
ReadField(at) ==
    LET colon == Find(at.rest, ":")
        rest == From(at.rest, SkipSpaces(at.rest, colon + 1))
        end == Find(rest, "LF")
        value == SubSeq(rest, 1, SkipBack(rest, end - 2))
    IN  IF colon = 0 \/ end = 0 THEN [at EXCEPT !.rest = <<>>]
        ELSE [at EXCEPT !.rest = From(rest, end + 1),
                        !.map = Put(@, Key(SubSeq(at.rest, 1, colon - 1)), value),
                        !.bound = BoundIn(at.map, @)]

\* One turn of the loop of parseText: a blank line with a boundary behind it is
\* followed by the fields of a part, any other one by the body and, if something
\* is left of that, by what passes for a field.
Fields(at) ==
    LET rest == From(at.rest, 3)
        body == TakeBody(rest, at.map, at.bound)
    IN  IF ~AtBlank(at.rest) THEN ReadField(at)
        ELSE IF ~at.inside /\ at.bound # <<>> /\ IsPrefix(at.bound, From(rest, 3))
        THEN ReadField([at EXCEPT !.rest = After(rest, "LF"), !.inside = TRUE])
        ELSE ReadField([at EXCEPT !.rest = body.left, !.map = body.header, !.code = body.code])

ParseFields(s, map) ==
    LET start == [rest |-> s, map |-> map, bound |-> <<>>, inside |-> FALSE, code |-> 0]
        end == Loop(Fields, start, Len(s))
    IN  Outcome(end.map, end.code)

-----------------------------------------------------------------------------
(* The request line *)

\* The path check: each step that ends in a "/" goes down, or up if it is
\* "..", and must not go beyond the first directory.
Slashes(url) == {i \in DOMAIN url : i > 1 /\ url[i] = "/"}
GoesUp(url, i) == url[i - 1] = ".." /\ url[i - 2] = "/"

\* Variant with a fault: where the path ends counts, not how it gets there.
TooHighAtEnd(url) ==
    2 * Cardinality({j \in Slashes(url) : GoesUp(url, j)}) > Cardinality(Slashes(url))

TooHigh(url) ==
    \E i \in Slashes(url) :
        LET steps == {j \in Slashes(url) : j <= i}
        IN  2 * Cardinality({j \in steps : GoesUp(url, j)}) > Cardinality(steps)

RequestLine(s) ==
    LET target == Until(After(s, " "), " ")
        version == Until(After(After(s, " "), " "), "CR")
    IN  [key \in {<<"method">>, <<"url">>, <<"args">>, <<"http">>} |->
            CASE key = <<"method">> -> Until(s, " ")
              [] key = <<"url">> -> Until(target, "?")
              [] key = <<"args">> -> After(target, "?")
              [] key = <<"http">> -> version]

Malformed(line) ==
    \/ \E key \in {<<"method">>, <<"url">>, <<"http">>} : line[key] = <<>>
    \/ line[<<"url">>][1] # "/"
    \/ Find(line[<<"http">>], "LF") # 0 \/ Find(line[<<"http">>], " ") # 0

\* The errors come before header["port"]: http_code then finds no server.
ParseText(s, port) ==
    LET line == RequestLine(s)
    IN  IF Malformed(line) THEN Outcome(line, 400)
        ELSE IF line[<<"http">>] # <<"HTTP/1.1">> THEN Outcome(line, 505)
        ELSE IF TooHigh(line[<<"url">>]) THEN Outcome(line, 400)
        ELSE ParseFields(After(s, "LF"), Put(line, <<"port">>, port))
=============================================================================
