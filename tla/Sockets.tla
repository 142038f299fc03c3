------------------------------ MODULE Sockets ------------------------------
(***************************************************************************)
(* The part of the world the event loop of WebServer.cpp talks to: the     *)
(* clients and the kernel's sockets.  Nothing here is code of the          *)
(* repository; it is modelled from the calls the code makes (accept, recv, *)
(* send, close, poll, pipe) and from what Linux answers to them.           *)
(*                                                                         *)
(* A member of Conns is one connection of one client, from its connect()   *)
(* to its end; it is never reused, while its descriptor is.                *)
(***************************************************************************)
EXTENDS Naturals, Sequences, FiniteSets

CONSTANTS
    Conns,       \* connections that clients may open
    NoConn,      \* "no connection"
    NumServers,  \* listening sockets; the descriptor of the s-th one is s
    MaxFd,       \* largest descriptor: the process's RLIMIT_NOFILE
    Leavers,     \* connections whose client may go away
    Rude,        \* ... and may do so with a request or an answer under way
    Pipeliners,  \* clients that send a request before the last answer came
    Together,    \* most clients that are connected at the same time
    MaxParts     \* bound: pieces of requests a client sends

ASSUME SocketsAssumption ==
    /\ NumServers \in Nat \ {0}
    /\ MaxFd \in Nat
    /\ NumServers < MaxFd
    /\ NoConn \notin Conns
    /\ Rude \subseteq Leavers /\ Leavers \subseteq Conns
    /\ Pipeliners \subseteq Conns
    /\ Together \in Nat /\ MaxParts \in Nat

Servers == 1..NumServers
ClientFds == (NumServers + 1)..MaxFd
Stages == {"new", "queued", "open", "gone"}
Peers == {"alive", "fin", "rst", "broken"}

VARIABLES
    stage,  \* where the connection is: not yet made, in a backlog, accepted, closed
    at,     \* the listening socket it connected to
    peer,   \* the other end: there, closed, reset, or reset and reported already
    rx,     \* pieces of requests not yet read; TRUE is the last piece of one
    full,   \* the send buffer has no room: the client has not read for a while
    owed,   \* requests sent in full and not answered in full
    mid,    \* the client has sent a part of a request only
    sent,   \* pieces sent, bounded by MaxParts
    sock    \* the connection a descriptor stands for

socketVars == <<stage, at, peer, rx, full, owed, mid, sent, sock>>

SocketsTypeOK ==
    /\ stage \in [Conns -> Stages]
    /\ at \in [Conns -> Servers]
    /\ peer \in [Conns -> Peers]
    /\ rx \in [Conns -> Seq(BOOLEAN)]
    /\ full \in [Conns -> BOOLEAN]
    /\ owed \in [Conns -> Nat]
    /\ mid \in [Conns -> BOOLEAN]
    /\ sent \in [Conns -> 0..MaxParts]
    /\ sock \in [ClientFds -> Conns \cup {NoConn}]

SocketsInit ==
    /\ stage = [c \in Conns |-> "new"]
    /\ at = [c \in Conns |-> 1]
    /\ peer = [c \in Conns |-> "alive"]
    /\ rx = [c \in Conns |-> <<>>]
    /\ full = [c \in Conns |-> FALSE]
    /\ owed = [c \in Conns |-> 0]
    /\ mid = [c \in Conns |-> FALSE]
    /\ sent = [c \in Conns |-> 0]
    /\ sock = [fd \in ClientFds |-> NoConn]

-----------------------------------------------------------------------------
(* What the kernel answers. *)

Backlog(s) == {c \in Conns : stage[c] = "queued" /\ at[c] = s}

\* POLLIN, POLLERR or POLLHUP: recv() will not block.
Readable(c) == rx[c] # <<>> \/ peer[c] # "alive"

\* POLLOUT: there is room, or an error to report.
Writable(c) == ~full[c] \/ peer[c] # "alive"

Here(c) == stage[c] \in {"queued", "open"} /\ peer[c] = "alive"

-----------------------------------------------------------------------------
(* What the clients do. *)

Connect(c) ==
    /\ stage[c] = "new"
    /\ Cardinality({d \in Conns : Here(d)}) < Together
    /\ stage' = [stage EXCEPT ![c] = "queued"]
    /\ \E s \in Servers : at' = [at EXCEPT ![c] = s]
    /\ UNCHANGED <<peer, rx, full, owed, mid, sent, sock>>

\* One write of a client; a request may take several of them.
SendPart(c, last) ==
    /\ Here(c)
    /\ sent[c] < MaxParts
    /\ owed[c] = 0 \/ c \in Pipeliners
    /\ rx' = [rx EXCEPT ![c] = Append(@, last)]
    /\ sent' = [sent EXCEPT ![c] = @ + 1]
    /\ mid' = [mid EXCEPT ![c] = ~last]
    /\ owed' = [owed EXCEPT ![c] = IF last THEN @ + 1 ELSE @]
    /\ UNCHANGED <<stage, at, peer, full, sock>>

\* The client closes its socket; an orderly one (not in Rude) has asked
\* something and has had every answer.  One that has unread data, or is
\* killed, resets the connection instead of ending it.
Leave(c) ==
    /\ c \in Leavers
    /\ Here(c)
    /\ c \in Rude \/ (sent[c] > 0 /\ owed[c] = 0 /\ ~mid[c])
    /\ \E end \in (IF c \in Rude THEN {"fin", "rst"} ELSE {"fin"}) :
           peer' = [peer EXCEPT ![c] = end]
    /\ UNCHANGED <<stage, at, rx, full, owed, mid, sent, sock>>

\* The client reads, so that the send buffer has room again.
Drain(c) ==
    /\ full[c]
    /\ Here(c)
    /\ full' = [full EXCEPT ![c] = FALSE]
    /\ UNCHANGED <<stage, at, peer, rx, owed, mid, sent, sock>>

ClientStep ==
    \E c \in Conns :
        \/ Connect(c)
        \/ \E last \in BOOLEAN : SendPart(c, last)
        \/ Leave(c)
        \/ Drain(c)
=============================================================================
