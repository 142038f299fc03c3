------------------------------ MODULE MCCgi ------------------------------
(* CgiHeaders with small pipes; each cfg chooses what scripts write. *)
EXTENDS CgiHeaders

Field(name, space, value) == [name |-> name, space |-> space, value |-> value]
Fields(values) ==
    LET type == {Field("Content-type", <<" ">>, v) : v \in values}
        code == {Field("Status", <<" ">>, v) : v \in values}
    IN  {<<f>> : f \in type} \cup {<<f, g>> : f \in code, g \in type}
AnswersOf(values, contents) == [fields : Fields(values), content : contents]

MCAnswers == AnswersOf({<<>>, <<"x">>, <<"x", ":", "x">>},
                       {<<>>, <<"x">>, <<":">> \o BlankLine, <<"x", ":">> \o CRLF \o <<"x">>})
OneAnswer == AnswersOf({<<"x">>}, {<<>>})

\* What HeadersTaken supposes.
ASSUME SeparableAssumption == \A a \in MCAnswers : Separable(a)

\* A header with nothing after the colon.
EmptyValue ==
    [fields : {<<Field("Status", <<>>, <<>>), Field("Content-type", <<" ">>, <<"x">>)>>},
     content : {<<"x">>}]

MCOutputs == {0, 1} \cup Lengths
MCBodies == {0, 1, Capacity}
=============================================================================
