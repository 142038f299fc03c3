------------------------------ MODULE CgiCall ------------------------------
(***************************************************************************)
(* What a request for a CGI script is promised, with no process and no     *)
(* pipe: the script writes its output and ends, and the answer is all it   *)
(* wrote, given once it has ended.                                         *)
(***************************************************************************)
EXTENDS Naturals, Sequences

CONSTANT NoAnswer

VARIABLES
    made,    \* pieces of output the script has written
    ended,   \* the script has ended, or could not be started
    answer   \* what exec_Cgi has read when it returns

callVars == <<made, ended, answer>>

\* The first n pieces of output.
Output(n) == [k \in 1..n |-> k]

Init ==
    /\ made = 0
    /\ ended = FALSE
    /\ answer = NoAnswer

Produce ==
    /\ ~ended
    /\ made' = made + 1
    /\ UNCHANGED <<ended, answer>>

End ==
    /\ ~ended
    /\ ended' = TRUE
    /\ UNCHANGED <<made, answer>>

Answer ==
    /\ ended
    /\ answer = NoAnswer
    /\ answer' = Output(made)
    /\ UNCHANGED <<made, ended>>

Next == Produce \/ End \/ Answer

SafeSpec == Init /\ [][Next]_callVars
=============================================================================
