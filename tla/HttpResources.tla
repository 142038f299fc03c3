--------------------------- MODULE HttpResources ---------------------------
(***************************************************************************)
(* What a request does to the files and which code it is answered with, as *)
(* if each were served in one step: no directive, no error page and no     *)
(* recursion.  The code is chosen once, an upload adds one file, a removal *)
(* takes one, and nothing else touches the files.                          *)
(***************************************************************************)
EXTENDS Naturals

CONSTANTS
    Requests,  \* records with a field method
    Nobody,    \* no request is served
    Dead,      \* the program has ended
    FirstFiles

VARIABLES
    store,  \* the files
    asked,  \* the request that is served
    code    \* the code it is answered with, 0 before there is one

resourceVars == <<store, asked, code>>

Init ==
    /\ store = FirstFiles
    /\ asked = Nobody
    /\ code = 0

Ask(r) ==
    /\ asked = Nobody
    /\ asked' = r
    /\ code' = 0
    /\ UNCHANGED store

Pending == asked \notin {Nobody, Dead} /\ code = 0

Choose(c) ==
    /\ Pending
    /\ code' = c
    /\ UNCHANGED <<store, asked>>

Upload ==
    /\ Pending /\ asked.method = "POST"
    /\ code' = 200
    /\ \E file \in store' : store' = store \cup {file}
    /\ UNCHANGED asked

Remove ==
    /\ Pending /\ asked.method = "DELETE"
    /\ code' = 200
    /\ \E file \in store : store' = store \ {file}
    /\ UNCHANGED asked

Finish ==
    /\ asked \notin {Nobody, Dead} /\ code # 0
    /\ asked' = Nobody
    /\ UNCHANGED <<store, code>>

Die ==
    /\ asked' = Dead
    /\ code' \in Nat
    /\ UNCHANGED store

Next ==
    \/ \E r \in Requests : Ask(r)
    \/ Pending /\ code' \in Nat \ {0} /\ Choose(code')
    \/ Upload \/ Remove \/ Finish \/ Die

SafeSpec == Init /\ [][Next]_resourceVars
=============================================================================
