----------------------------- MODULE CgiHeaders -----------------------------
(***************************************************************************)
(* Cgi::remove_headers: what exec_Cgi has read is split into the headers   *)
(* the script wrote, which go to cgi_head, and the body of the response.   *)
(* The pieces of Cgi are the symbols of what a script writes.              *)
(***************************************************************************)
EXTENDS Cgi, Texts

CONSTANT Answers \* what scripts write: fields, of a name, a space or none and a value, and content

ASSUME AnswersAssumption ==
    /\ Answers \subseteq
           [fields : Seq([name : STRING, space : Seq(STRING), value : Seq(STRING)]),
            content : Seq(STRING)]
    /\ \A a \in Answers : a.fields # <<>>

\* The text a script writes, as CGI 1.1 lays it out.
FieldLine(f) == <<f.name, ":">> \o f.space \o f.value \o CRLF
Written(a) ==
    FlattenSeq([k \in DOMAIN a.fields |-> FieldLine(a.fields[k])]) \o CRLF \o a.content

Lengths == {Len(Written(a)) : a \in Answers}

-----------------------------------------------------------------------------
\* Variant with a fault: the last blank line ends the headers.
HeaderEndLast(text) ==
    LET places == {i \in DOMAIN text : IsPrefix(BlankLine, From(text, i))}
    IN  IF places = {} THEN 0 ELSE CHOOSE i \in places : \A j \in places : j <= i

HeaderEnd(text) == Position(text, BlankLine)

\* substr(pos2 + 2, pos - pos2 - 2), with the end of the line right after the
\* colon: the length wraps around, and all that follows is taken.
ValueIn(header, colon, end) ==
    IF end = colon + 1 THEN From(header, colon + 2)
    ELSE SubSeq(header, colon + 2, end - 1)

\* A turn of the loop: a line without a colon ends it.
NextHeader(at) ==
    LET end == Position(at.rest, CRLF)
        colon == Find(at.rest, ":")
        key == SubSeq(at.rest, 1, colon - 1)
    IN  IF end = 0 \/ colon = 0 \/ colon > end THEN at
        ELSE [rest |-> From(at.rest, end + 2),
              head |-> Put(at.head, key, ValueIn(at.rest, colon, end))]
HeadersIn(header) == Loop(NextHeader, [rest |-> header, head |-> <<>>], Len(header)).head

\* Without a blank line there are no headers, and all is the body.
RemoveHeaders(text) ==
    LET end == HeaderEnd(text)
    IN  IF end = 0 THEN [head |-> <<>>, data |-> text]
        ELSE [head |-> HeadersIn(SubSeq(text, 1, end + 1)), data |-> From(text, end + 4)]

-----------------------------------------------------------------------------
(* Properties. *)

\* What a script that ends well wrote, read from the pipe piece by piece,
\* comes apart into what it meant: each header under its name with its value,
\* whatever stands in the values and however the content looks, and the
\* content whole.
HeadersRemoved ==
    parent = "returned" /\ status = 0 =>
        \A a \in Answers :
            LET text == Written(a)
                taken == RemoveHeaders([k \in DOMAIN data |-> text[data[k]]])
            IN  Len(text) = call.output =>
                    /\ taken.data = a.content
                    /\ DOMAIN taken.head = {<<a.fields[k].name>> : k \in DOMAIN a.fields}
                    /\ \A k \in DOMAIN a.fields :
                           taken.head[<<a.fields[k].name>>] = a.fields[k].value

-----------------------------------------------------------------------------
\* What the code can take apart: one space before each value, as it skips one
\* symbol whatever it is, no end of a line within one, and a name for each field.
Separable(a) ==
    /\ \A k \in DOMAIN a.fields :
           LET f == a.fields[k]
           IN  /\ f.name \notin {":", "CR"} /\ f.space = <<" ">>
               /\ \A i \in DOMAIN f.value : f.value[i] # "CR"
    /\ \A j, k \in DOMAIN a.fields : a.fields[j].name = a.fields[k].name => j = k
=============================================================================
