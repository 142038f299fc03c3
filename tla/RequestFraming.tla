--------------------------- MODULE RequestFraming ---------------------------
(***************************************************************************)
(* Where a request ends and what is made of it: Request::store,            *)
(* isFullyReceived, which scans all that has been received after every     *)
(* recv(), and parseText (RequestText).  One connection of a client that   *)
(* waits for each answer; TCP cuts the text of a request anywhere.         *)
(***************************************************************************)
EXTENDS RequestText

CONSTANTS
    Messages, \* requests a client may send
    Port,     \* of the server, as the text parseText makes of it
    MaxSent   \* bound: requests on one connection

\* No body; a Content-Length; chunks; a form with a Content-Length and one
\* part, its Content-Type before the Content-Length or after it.
Framings == {"none", "length", "chunked", "form", "form, type last"}

\* A field: its name, the spaces before and after its value, the value.
\* steps is the path, version the last word of the line.
ASSUME FramingAssumption ==
    /\ MaxSent \in Nat \ {0}
    /\ Port \in Seq(STRING)
    /\ \A m \in Messages :
           /\ DOMAIN m = {"framing", "chunks", "method", "steps", "query", "version", "fields"}
           /\ m.framing \in Framings /\ m.chunks \in Seq(Seq(STRING))
           /\ m.method \in STRING /\ m.steps \in Seq(STRING)
           /\ m.query \in Seq(STRING) /\ m.version \in STRING
           /\ m.fields \in Seq([name : STRING, before : Seq(STRING),
                               value : Seq(STRING), after : Seq(STRING)])

VARIABLES
    message, \* the request the client is sending
    wire,    \* its bytes that have not been received yet
    buffer,  \* g_request
    pc,      \* what happens next: a recv(), parseText, the client's next request
    header,  \* what parseText made of the last request
    code,    \* the code of the error parseText found, or 0
    sent     \* requests sent so far

vars == <<message, wire, buffer, pc, header, code, sent>>

-----------------------------------------------------------------------------
(* What clients send. *)

LastChunk == CRLF \o <<"0">> \o BlankLine

Payload(m) == FlattenSeq(m.chunks)

Part(m) ==
    <<"-", "-", "boundary">> \o CRLF \o <<"disposition", ":", " ", "form-data">> \o BlankLine
        \o Payload(m) \o CRLF \o <<"-", "-", "boundary", "-", "-">> \o CRLF

Chunk(data) == <<ToString(Len(data))>> \o CRLF \o data \o CRLF
Chunked(m) == FlattenSeq([k \in DOMAIN m.chunks |-> Chunk(m.chunks[k])])
                  \o <<"0">> \o BlankLine

Path(m) == FlattenSeq([k \in DOMAIN m.steps |-> <<"/", m.steps[k]>>])
Target(m) == Path(m) \o (IF m.query = <<>> THEN <<>> ELSE <<"?">> \o m.query)
Line(m) == <<m.method, " ">> \o Target(m) \o <<" ", m.version>>

Plain(name, value) == [name |-> name, before |-> <<" ">>, value |-> value, after |-> <<>>]
Sized(content) == Plain("Content-Length", <<ToString(Len(content))>>)
Multipart == Plain("Content-Type", <<"multipart", "boundary=", "boundary">>)

\* All the fields of a request: its own, and those that say how it is framed.
FieldsOf(m) ==
    m.fields \o
    CASE m.framing = "none" -> <<>>
      [] m.framing = "length" -> <<Sized(Payload(m))>>
      [] m.framing = "form" -> <<Multipart, Sized(Part(m))>>
      [] m.framing = "form, type last" -> <<Sized(Part(m)), Multipart>>
      [] m.framing = "chunked" -> <<Plain("Transfer-Encoding", <<"chunked">>)>>

Content(m) ==
    CASE m.framing = "none" -> <<>>
      [] m.framing = "length" -> Payload(m)
      [] m.framing \in {"form", "form, type last"} -> Part(m)
      [] m.framing = "chunked" -> Chunked(m)

Said(f) == CRLF \o <<f.name, ":">> \o f.before \o f.value \o f.after
SaidAll(fields) == FlattenSeq([k \in DOMAIN fields |-> Said(fields[k])])
Heading(m) == Line(m) \o SaidAll(FieldsOf(m))
Bytes == [m \in Messages |-> Heading(m) \o BlankLine \o Content(m)]

ASSUME SizesAssumption ==
    \A m \in Messages :
        /\ Len(Content(m)) <= MaxNumber
        /\ \A k \in DOMAIN m.chunks : Len(m.chunks[k]) <= MaxNumber

\* What is proved of every request is proved of these.  Its own words hold no
\* end of a line and neither of the headers that say how it is framed, nor does
\* a body that comes without chunks say Transfer-Encoding; and the end of a
\* body in chunks is found at its end only.
Quiet(x) == x \notin {"CR", "LF"} /\ Upper(x) \notin {"CONTENT-LENGTH", "TRANSFER-ENCODING"}
Mute(s) == \A i \in DOMAIN s : Quiet(s[i])
Framed(m) ==
    /\ Mute(Line(m))
    /\ \A k \in DOMAIN m.fields :
           LET f == m.fields[k]
           IN  Mute(<<f.name>>) /\ Mute(f.before) /\ Mute(f.value) /\ Mute(f.after)
    /\ IF m.framing = "chunked"
       THEN LET s == CRLF \o Content(m)
            IN  \A i \in DOMAIN s : IsPrefix(LastChunk, From(s, i)) => i + 6 = Len(s)
       ELSE \A i \in DOMAIN Content(m) : Upper(Content(m)[i]) # "TRANSFER-ENCODING"

\* And what is read of every request, of these: its words hold nothing that ends
\* them, its path ends in a name and has no step that stays where it is, no two
\* fields have one name, and none ends in spaces.  A form has a part, and that
\* does not hold the boundary.
Still == {".", ""}
Opens(m) ==
    /\ m.steps # <<>> /\ m.steps[Len(m.steps)] # ".."
    /\ \A k \in DOMAIN m.steps : m.steps[k] \notin {" ", "?", "/"} \cup Still
    /\ \A k \in DOMAIN m.query : m.query[k] # " "
    /\ m.method # " " /\ m.version # " "
Lists(m) ==
    /\ \A k \in DOMAIN m.fields :
           LET f == m.fields[k]
           IN  /\ f.name # ":" /\ Upper(f.name) # "disposition"
               /\ \A i \in DOMAIN f.before : f.before[i] = " "
               /\ f.value # <<>> => f.value[1] # " "
               /\ f.after = <<>>
               /\ Upper(f.name) = "CONTENT-TYPE" =>
                      \A i \in DOMAIN f.value : f.value[i] # "boundary="
    /\ \A j, k \in DOMAIN FieldsOf(m) :
           j # k => Upper(FieldsOf(m)[j].name) # Upper(FieldsOf(m)[k].name)
Carries(m) ==
    /\ m.framing = "none" => Payload(m) = <<>>
    /\ m.framing = "form" =>
           Payload(m) # <<>> /\ \A i \in DOMAIN Payload(m) : Payload(m)[i] # "boundary"
Readable(m) == Framed(m) /\ Opens(m) /\ Lists(m) /\ Carries(m)

-----------------------------------------------------------------------------
(* isFullyReceived *)

\* How many symbols of the pattern are found from position i on.
Matched(s, i, pattern) ==
    CHOOSE k \in 0..Len(pattern) :
        /\ \A j \in 1..k : i + j - 1 <= Len(s) /\ s[i + j - 1] = pattern[j]
        /\ k < Len(pattern) => i + k > Len(s) \/ s[i + k] # pattern[k + 1]

\* The scans: the position of the pattern, or 0.  "++i" inside the condition
\* goes past the symbol that did not match, even if a match begins there.
Scan(s, pattern) ==
    LET Found(i) == i <= Len(s) /\ Matched(s, i, pattern) = Len(pattern)
        Turn(i) == IF i > Len(s) \/ Found(i) THEN i ELSE i + Matched(s, i, pattern) + 1
        end == Loop(Turn, 1, Len(s))
    IN  IF Found(end) THEN end ELSE 0

\* Where a header is mentioned, in letters of either case, or 0.
Mentioned(s, name) == SelectInSeq(s, LAMBDA x : Upper(x) = name)

\* The length: a number after at most one space.  content_length is not
\* initialized and stays so if there is none.
LengthsSaid(s) ==
    LET i == Mentioned(s, "CONTENT-LENGTH") + 2
        number == IF i <= Len(s) /\ s[i] \in {" ", "CR"} THEN i + 1 ELSE i
    IN  IF number <= Len(s) /\ s[number] \in Numerals
        THEN {ValueOf(s[number])} ELSE 0..MaxNumber

\* Variant with a fault: the length is compared with ">".
EnoughMore(s, first, length) == first <= Len(s) /\ Len(s) - first + 1 > length

\* Variant with a fault: the blank line is counted.
EnoughBlank(s, first, length) == first <= Len(s) /\ Len(s) - first + 5 >= length

\* At least one byte follows the blank line, and Content-Length bytes do.
Enough(s, first, length) == first <= Len(s) /\ Len(s) - first + 1 >= length

\* The headers are looked for in all that was received, the body included.
\* What isFullyReceived may return.
FullyReceived(s) ==
    LET blank == Scan(s, BlankLine)
    IN  IF Mentioned(s, "TRANSFER-ENCODING") # 0 /\ Find(s, "chunked") # 0
        THEN {Scan(s, LastChunk) # 0}
        ELSE IF Mentioned(s, "CONTENT-LENGTH") = 0 \/ blank = 0 THEN {blank # 0}
        ELSE {Enough(s, blank + 4, length) : length \in LengthsSaid(s)}

-----------------------------------------------------------------------------
TypeOK ==
    /\ message \in Messages
    /\ pc \in {"recv", "answered", "thrown"}
    /\ wire \in Seq(STRING) /\ buffer \in Seq(STRING)
    /\ \A key \in DOMAIN header : key \in Seq(STRING) /\ header[key] \in Seq(STRING)
    /\ code \in {0, 400, 401, 402, 505}
    /\ sent \in 0..MaxSent

Init ==
    /\ message \in Messages
    /\ wire = Bytes[message]
    /\ buffer = <<>>
    /\ pc = "recv"
    /\ header = <<>>
    /\ code = 0
    /\ sent = 1

\* recv() and store(): g_request is now text, some of what was sent.
Stored == {buffer \o SubSeq(wire, 1, n) : n \in DOMAIN wire}
Taken(text) ==
    /\ pc = "recv"
    /\ wire' = From(wire, Len(text) - Len(buffer) + 1)
    /\ UNCHANGED <<message, sent>>

Store(text) ==
    /\ Taken(text)
    /\ FALSE \in FullyReceived(text)
    /\ buffer' = text
    /\ UNCHANGED <<pc, header, code>>

\* Variant with a fault: g_request keeps what was parsed.
EmptiedNot == buffer

\* What parseText leaves in g_request.
Emptied == <<>>

\* parseText, and then the answer.
Respond(text) ==
    /\ Taken(text)
    /\ TRUE \in FullyReceived(text)
    /\ LET parsed == ParseText(text, Port)
       IN  IF parsed.code = Throws
           THEN pc' = "thrown" /\ UNCHANGED <<header, code>>
           ELSE pc' = "answered" /\ header' = parsed.header /\ code' = parsed.code
    /\ buffer' = Emptied

\* The client has its answer and sends another request.
Ask(m) ==
    /\ pc = "answered"
    /\ sent < MaxSent
    /\ message' = m
    /\ wire' = wire \o Bytes[m]
    /\ sent' = sent + 1
    /\ pc' = "recv"
    /\ header' = <<>> /\ code' = 0
    /\ UNCHANGED buffer

Receive == \E text \in Stored : Store(text) \/ Respond(text)
Next == Receive \/ \E m \in Messages : Ask(m)

Spec == Init /\ [][Next]_vars

\* TCP delivers what was sent, in whatever pieces; each is a step of Receive.
Deliver == pc = "recv" /\ \E n \in DOMAIN wire : wire' = From(wire, n + 1)
FairSpec == Spec /\ WF_wire(Deliver)

-----------------------------------------------------------------------------
(* Properties. *)

\* What g_request holds and what is still under way make up the one request
\* that is being sent: nothing is lost, and nothing of an earlier one is left.
NothingLost == TypeOK /\ (pc = "recv" => buffer \o wire = Bytes[message])

\* isFullyReceived is true of a whole request only, however TCP cuts it: what
\* is still under way would be taken for the beginning of the next one.
WholeOnly == pc = "answered" => wire = <<>>

\* The body that processRequest sees is the one the client sent: without the
\* sizes of its chunks or the lines around the part of a form, whole, and with
\* nothing of the request before.
BodyDelivered ==
    pc = "answered" /\ code = 0 => Value(header, <<"body">>) = Payload(message)

\* The map header, which keeps the words of the request line and the fields
\* under names that only their letters tell apart, says what the client said
\* and nothing else: method, url and query, and each field without the spaces
\* before its value, whatever its name and the fields and body around it.
HeadersRead ==
    pc = "answered" /\ code = 0 =>
        /\ header[<<"method">>] = <<message.method>>
        /\ header[<<"url">>] = Path(message) /\ header[<<"args">>] = message.query
        /\ header[<<"port">>] = Port
        /\ \A k \in DOMAIN message.fields :
               LET f == message.fields[k]
               IN  Value(header, <<Upper(f.name)>>) = f.value
        /\ Cardinality(DOMAIN header \ {<<"body">>, <<"disposition">>})
               = 5 + Len(FieldsOf(message))

\* The directories from the root, which is the first, to the one a path leads
\* to, step by step; none once it has left the root.
Walk(steps) ==
    LET to[k \in 0..Len(steps)] ==
            IF k = 0 THEN <<"/">>
            ELSE IF to[k - 1] = <<>> \/ steps[k] = ".." THEN Front(to[k - 1])
            ELSE IF steps[k] \in Still THEN to[k - 1]
            ELSE Append(to[k - 1], steps[k])
    IN  to[Len(steps)]

\* "check that path is valid (does not go beyond root)": a request is refused
\* for its path if that leaves the root anywhere on its way, with another
\* version than HTTP/1.1 with 505, and not otherwise.
LineJudged ==
    pc = "answered" =>
        code = IF message.version # "HTTP/1.1" THEN 505
               ELSE IF Walk(message.steps) = <<>> THEN 400 ELSE 0

\* http_code looks up the error page of a server by header["port"]: a request
\* that is refused is refused by the server it came to.
RefusedByServer == pc = "answered" /\ code # 0 => Value(header, <<"port">>) = Port

\* "A request to your server should never hang forever.": isFullyReceived
\* notices the end of every request.
RequestsComplete == pc = "recv" ~> pc = "answered"
=============================================================================
