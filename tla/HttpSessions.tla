---------------------------- MODULE HttpSessions ----------------------------
(***************************************************************************)
(* What the server promises to its clients, with no poll table, no         *)
(* descriptor and no buffer: on each connection every request gets one     *)
(* response, whole and before the next request, and the server ends a      *)
(* connection after its client has left, and only then.                    *)
(***************************************************************************)
CONSTANTS Conns, Leavers

VARIABLES
    session,  \* how far the request of a connection has come
    left,     \* connections whose client has gone away
    ended     \* connections the server has closed

sessionVars == <<session, left, ended>>

SessionsTypeOK ==
    /\ session \in [Conns -> {"quiet", "asked", "answering"}]
    /\ ended \subseteq left /\ left \subseteq Leavers

Init ==
    /\ session = [c \in Conns |-> "quiet"]
    /\ left = {}
    /\ ended = {}

Move(c, from, to) ==
    /\ session[c] = from
    /\ session' = [session EXCEPT ![c] = to]
    /\ UNCHANGED <<left, ended>>

Ask(c) == c \notin left /\ Move(c, "quiet", "asked")
Compose(c) == Move(c, "asked", "answering")
Finish(c) == Move(c, "answering", "quiet")

Leave(c) ==
    /\ c \in Leavers \ left
    /\ session[c] = "quiet"
    /\ left' = left \cup {c}
    /\ UNCHANGED <<session, ended>>

End(c) ==
    /\ c \in left \ ended
    /\ ended' = ended \cup {c}
    /\ UNCHANGED <<session, left>>

Next == \E c \in Conns : Ask(c) \/ Compose(c) \/ Finish(c) \/ Leave(c) \/ End(c)

Fairness ==
    \A c \in Conns : /\ WF_sessionVars(Compose(c))
                     /\ WF_sessionVars(Finish(c))
                     /\ WF_sessionVars(End(c))

SafeSpec == Init /\ [][Next]_sessionVars
Spec == SafeSpec /\ Fairness
=============================================================================
