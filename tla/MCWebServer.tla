----------------------------- MODULE MCWebServer -----------------------------
(* WebServer on small instances; each cfg chooses the clients. *)
EXTENDS WebServer, TLC

\* Connections that may do the same things are interchangeable (used by the
\* runs that check no liveness).
ConnsSymmetry ==
    {p \in Permutations(Conns) :
        \A S \in {Leavers, Rude, Pipeliners, Cgis} : {p[c] : c \in S} = S}
=============================================================================
