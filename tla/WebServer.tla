----------------------------- MODULE WebServer -----------------------------
(***************************************************************************)
(* The event loop of the server: WebServer::launchServers and what it      *)
(* calls in WebServer.cpp, Server.cpp and the buffers of Request.cpp.      *)
(*                                                                         *)
(* One round is poll(), then one pass over _pollFds that accepts, reads or *)
(* sends on each descriptor that has an event, then clearPoll() when a     *)
(* connection was closed.  Clients act between any two steps.  A step is   *)
(* one system call with the code that follows it up to the next one.       *)
(***************************************************************************)
EXTENDS Sockets

CONSTANTS
    MaxChunks,  \* bound: pieces of REQ_BUF_SIZE bytes in one response
    Cgis,       \* connections whose requests are answered by a CGI script
    PollFdSize, \* POLLFD_SIZE, the length of the array _pollFds
    CtrlC       \* whether the operator may send SIGINT

ASSUME WebServerAssumption ==
    /\ MaxChunks \in Nat \ {0}
    /\ Cgis \subseteq Conns
    /\ PollFdSize \in Nat /\ NumServers <= PollFdSize
    /\ CtrlC \in BOOLEAN

Closed == 0     \* the -1 that marks a slot whose connection was closed
Events == {"none", "in", "out"}
Slot == [fd : {Closed} \cup Servers \cup ClientFds,
         events : {"in", "out"}, revents : Events]

VARIABLES
    slots,      \* _pollFds[0 .. _nfds - 1]
    connected,  \* _socketsConnected of each Server
    phase,      \* the statement of launchServers that runs, or how it ended
    index,      \* the loop variable of launchServers
    previous,   \* previousClientsNum of serveConnectionAt
    compress,   \* _compressPollFds
    gRequest,   \* g_request: whose bytes are buffered for a descriptor
    gResponse,  \* g_reponse: whose request is answered, and the pieces left
    pipes       \* descriptors of pipes that exec_Cgi never closes

serverVars ==
    <<slots, connected, phase, index, previous, compress, gRequest, gResponse, pipes>>
vars == <<socketVars, serverVars>>

\* "stopped": launchServers returned; "thrown": an exception nobody catches;
\* "killed": SIGPIPE; "undefined": a write past the end of _pollFds, or
\* pipe() failed and its result is used all the same.
Running == phase \in {"poll", "serve", "accept", "clear"}
Phases == {"poll", "serve", "accept", "clear", "stopped", "thrown", "killed", "undefined"}

Response == [for : SUBSET Conns, left : 0..MaxChunks]

TypeOK ==
    /\ SocketsTypeOK
    /\ slots \in Seq(Slot)
    /\ connected \in [Servers -> Seq(ClientFds)]
    /\ phase \in Phases
    /\ index \in Nat
    /\ previous \in Nat
    /\ compress \in BOOLEAN
    /\ gRequest \in [ClientFds -> SUBSET Conns]
    /\ gResponse \in [ClientFds -> Response]
    /\ pipes \subseteq ClientFds

Init ==
    /\ SocketsInit
    /\ slots = [s \in Servers |-> [fd |-> s, events |-> "in", revents |-> "none"]]
    /\ connected = [s \in Servers |-> <<>>]
    /\ phase = "poll"
    /\ index = 1
    /\ previous = 0
    /\ compress = FALSE
    /\ gRequest = [fd \in ClientFds |-> {}]
    /\ gResponse = [fd \in ClientFds |-> [for |-> {}, left |-> 0]]
    /\ pipes = {}

-----------------------------------------------------------------------------
(* poll() *)

Free == {fd \in ClientFds : sock[fd] = NoConn /\ fd \notin pipes}
Lowest == {fd \in Free : \A other \in Free : fd <= other}

Ready(slot) ==
    \/ slot.fd \in Servers /\ slot.events = "in" /\ Backlog(slot.fd) # {}
    \/ slot.fd \in ClientFds /\ slot.events = "in" /\ Readable(sock[slot.fd])
    \/ slot.fd \in ClientFds /\ slot.events = "out" /\ Writable(sock[slot.fd])

Poll ==
    /\ phase = "poll"
    /\ \E i \in DOMAIN slots : Ready(slots[i])
    /\ slots' = [i \in DOMAIN slots |->
                    [slots[i] EXCEPT !.revents = IF Ready(slots[i])
                                                 THEN slots[i].events ELSE "none"]]
    /\ phase' = "serve"
    /\ index' = 1
    /\ UNCHANGED <<socketVars, connected, previous, compress, gRequest, gResponse, pipes>>

\* SIGINT while poll() waits; anywhere else the handler prints and returns.
Interrupt ==
    /\ CtrlC
    /\ phase = "poll"
    /\ phase' = "stopped"
    /\ UNCHANGED <<socketVars, slots, connected, index, previous, compress,
                   gRequest, gResponse, pipes>>

\* The loop over _pollFds has come to slot i: those before it have no event.
AtSlot(i) ==
    /\ phase = "serve"
    /\ i \in index..Len(slots)
    /\ slots[i].revents # "none"
    /\ \A j \in index..(i - 1) : slots[j].revents = "none"

-----------------------------------------------------------------------------
(* serveConnectionAt, first branch: a listening socket has connections. *)

StartAccept(i) ==
    /\ AtSlot(i)
    /\ slots[i].fd \in Servers
    /\ phase' = "accept"
    /\ index' = i
    /\ previous' = Len(connected[slots[i].fd])
    /\ UNCHANGED <<socketVars, slots, connected, compress, gRequest, gResponse, pipes>>

\* acceptNewConnections, one turn of its loop: the kernel gives the lowest
\* free descriptor.
AcceptOne(s, c, fd) ==
    /\ phase = "accept"
    /\ s = slots[index].fd
    /\ c \in Backlog(s)
    /\ fd \in Lowest
    /\ stage' = [stage EXCEPT ![c] = "open"]
    /\ sock' = [sock EXCEPT ![fd] = c]
    /\ connected' = [connected EXCEPT ![s] = Append(@, fd)]
    /\ UNCHANGED <<at, peer, rx, full, owed, mid, sent, slots, phase, index, previous,
                   compress, gRequest, gResponse, pipes>>

\* accept() fails with EMFILE, whether or not a connection waits (Linux
\* reserves the descriptor first; where the queue is looked at first, a turn
\* without a connection is AcceptDone): testError throws a
\* std::runtime_error and launchServers catches const char* only.
AcceptFails ==
    /\ phase = "accept"
    /\ Free = {}
    /\ phase' = "thrown"
    /\ UNCHANGED <<socketVars, slots, connected, index, previous, compress,
                   gRequest, gResponse, pipes>>

\* Variants of NewSlots with a fault: revents not set, the first
\* descriptor skipped, all of the vector added.
NewSlotsOldEvent(s) ==
    [k \in 1..(Len(connected[s]) - previous) |->
        [fd |-> connected[s][previous + k], events |-> "in", revents |-> "in"]]
NewSlotsSkipFirst(s) ==
    [k \in 1..(Len(connected[s]) - previous - 1) |->
        [fd |-> connected[s][previous + 1 + k], events |-> "in", revents |-> "none"]]
NewSlotsAll(s) ==
    [k \in DOMAIN connected[s] |->
        [fd |-> connected[s][k], events |-> "in", revents |-> "none"]]

\* addFdsToPollFds: one slot for every descriptor accepted just now.
NewSlots(s) ==
    [k \in 1..(Len(connected[s]) - previous) |->
        [fd |-> connected[s][previous + k], events |-> "in", revents |-> "none"]]

\* accept() fails with EWOULDBLOCK: the loop ends and the slots are added,
\* without a look at the length of the array.
AcceptDone(s) ==
    /\ phase = "accept"
    /\ s = slots[index].fd
    /\ Backlog(s) = {}
    /\ slots' = slots \o NewSlots(s)
    /\ phase' = IF Len(slots') <= PollFdSize THEN "serve" ELSE "undefined"
    /\ index' = index + 1
    /\ UNCHANGED <<socketVars, connected, previous, compress, gRequest, gResponse, pipes>>

-----------------------------------------------------------------------------
(* serveEstablishedConnectionFor, with revents & POLLOUT not set. *)

Vector(s) == {connected[s][k] : k \in DOMAIN connected[s]}

\* The slot whose turn it is, with an event of this kind, and its connection:
\* serveConnectionAt finds the descriptor in the vector of some server.
Serving(i, c, event) ==
    /\ AtSlot(i)
    /\ \E s \in Servers : slots[i].fd \in Vector(s)
    /\ slots[i].revents = event
    /\ c = sock[slots[i].fd]

\* Variant with a fault: the vector keeps the descriptor.
EraseNot(s, fd) == connected[s]

\* eraseClientSocketFD
Erase(s, fd) ==
    LET n == Len(connected[s])
        p == CHOOSE k \in 1..n : connected[s][k] = fd
    IN  IF \E k \in 1..n : connected[s][k] = fd
        THEN [k \in 1..(n - 1) |-> connected[s][IF k < p THEN k ELSE k + 1]]
        ELSE connected[s]

\* Variant with a fault: the descriptor is not closed.
CloseLeaks(i, c, events) ==
    LET fd == slots[i].fd
    IN  /\ slots' = [slots EXCEPT ![i] = [@ EXCEPT !.fd = Closed, !.events = events]]
        /\ connected' = [s \in Servers |-> Erase(s, fd)]
        /\ sock' = sock
        /\ stage' = [stage EXCEPT ![c] = "gone"]
        /\ compress' = TRUE

\* The connection is closed and its slot marked; events is what the handler
\* left there.  g_request and g_reponse keep what they hold.
Close(i, c, events) ==
    LET fd == slots[i].fd
    IN  /\ slots' = [slots EXCEPT ![i] = [@ EXCEPT !.fd = Closed, !.events = events]]
        /\ connected' = [s \in Servers |-> Erase(s, fd)]
        /\ sock' = [sock EXCEPT ![fd] = NoConn]
        /\ stage' = [stage EXCEPT ![c] = "gone"]
        /\ compress' = TRUE

\* recv() returns 0 or an error.
ReceiveNothing(i, c) ==
    /\ Serving(i, c, "in")
    /\ rx[c] = <<>>
    /\ peer[c] # "alive"
    /\ Close(i, c, slots[i].events)
    /\ index' = i + 1
    /\ UNCHANGED <<at, peer, rx, full, owed, mid, sent, phase, previous,
                   gRequest, gResponse, pipes>>

\* recv() returns the first n pieces, which store() appends to g_request.
Received(i, c, n) ==
    /\ Serving(i, c, "in")
    /\ n \in 1..Len(rx[c])
    /\ rx' = [rx EXCEPT ![c] = SubSeq(@, n + 1, Len(@))]
    /\ index' = i + 1
    /\ UNCHANGED <<stage, at, peer, full, owed, mid, sent, sock, connected, previous, compress>>

\* Variant with a fault: only the first piece is looked at.
CompleteFirst(i, c, n) == rx[c][1]

\* isFullyReceived on what g_request holds then.  Bytes that another
\* connection left there can complete a request or ask for more.
Complete(i, c, n) == \E k \in 1..n : rx[c][k]
Foreign(i, c) == gRequest[slots[i].fd] \ {c} # {}

Store(i, c, n) ==
    /\ Received(i, c, n)
    /\ ~Complete(i, c, n) \/ Foreign(i, c)
    /\ gRequest' = [gRequest EXCEPT ![slots[i].fd] = @ \cup {c}]
    /\ UNCHANGED <<slots, phase, gResponse, pipes>>

\* Variant with a fault: g_request keeps what was parsed.
RemainingAll(fd) == gRequest[fd]

\* What parseText leaves in g_request.
Remaining(fd) == {}

\* A script costs a descriptor for good: exec_Cgi needs two and closes one.  GET
\* has opened the file of the script by then, and holds the lowest one until it
\* returns; it answers 404, without a script, if there was none for the file.
RunsScript ==
    \/ \E held \in {{}, Lowest} :
           /\ Cardinality(Free \ held) >= 2
           /\ \E fd \in Free \ held :
                  /\ \A other \in Free \ held : fd <= other
                  /\ pipes' = pipes \cup {fd}
    \/ Free = {} /\ UNCHANGED pipes

\* parseText takes the whole buffer and clears it, processRequest answers,
\* composeReponse replaces g_reponse and asks for POLLOUT.
Respond(i, c, n, chunks) ==
    LET fd == slots[i].fd
    IN  /\ Received(i, c, n)
        /\ Complete(i, c, n) \/ Foreign(i, c)
        /\ IF c \in Cgis THEN RunsScript ELSE UNCHANGED pipes
        /\ gRequest' = [gRequest EXCEPT ![fd] = Remaining(fd)]
        /\ gResponse' = [gResponse EXCEPT ![fd] =
                            [for |-> gRequest[fd] \cup {c}, left |-> chunks]]
        /\ slots' = [slots EXCEPT ![i].events = "out"]
        /\ UNCHANGED phase

\* exec_Cgi without two free descriptors, besides the one that GET holds: it goes
\* on with the two integers pipe() did not set.
PipeFails(i, c, n) ==
    /\ Received(i, c, n)
    /\ Complete(i, c, n) \/ Foreign(i, c)
    /\ c \in Cgis
    /\ Cardinality(Free) < 3
    /\ phase' = "undefined"
    /\ UNCHANGED <<slots, gRequest, gResponse, pipes>>

-----------------------------------------------------------------------------
(* serveEstablishedConnectionFor, with revents & POLLOUT set. *)

\* Variant with a fault: POLLOUT stays when nothing is left.
InterestKept(left, events) == events

\* What sendResponse leaves in events.
Interest(left, events) == IF left = 0 THEN "in" ELSE events

\* send() takes a piece of the response, and maybe the last room there is.
\* A peer that has gone may answer it with a reset.
SendChunk(i, c) ==
    LET fd == slots[i].fd
        left == gResponse[fd].left - 1
    IN  /\ Serving(i, c, "out")
        /\ peer[c] \in {"alive", "fin"}
        /\ gResponse[fd].left > 0
        /\ gResponse' = [gResponse EXCEPT ![fd].left = left]
        /\ slots' = [slots EXCEPT ![i].events = Interest(left, @)]
        /\ owed' = [owed EXCEPT ![c] = IF left = 0 /\ gResponse[fd].for = {c} /\ @ > 0
                                       THEN @ - 1 ELSE @]
        /\ \E noRoom \in BOOLEAN : full' = [full EXCEPT ![c] = noRoom]
        /\ \E end \in (IF peer[c] = "fin" THEN {"fin", "broken"} ELSE {peer[c]}) :
               peer' = [peer EXCEPT ![c] = end]
        /\ index' = i + 1
        /\ UNCHANGED <<stage, at, rx, mid, sent, sock, connected, phase, previous,
                       compress, gRequest, pipes>>

\* Nothing is buffered: send() of no bytes returns 0, which closes.
SendNothing(i, c) ==
    /\ Serving(i, c, "out")
    /\ peer[c] \in {"alive", "fin"}
    /\ gResponse[slots[i].fd].left = 0
    /\ Close(i, c, Interest(0, "out"))
    /\ index' = i + 1
    /\ UNCHANGED <<at, peer, rx, full, owed, mid, sent, phase, previous,
                   gRequest, gResponse, pipes>>

\* ECONNRESET, once: send() returns -1, which is printed.
SendFails(i, c) ==
    /\ Serving(i, c, "out")
    /\ peer[c] = "rst"
    /\ peer' = [peer EXCEPT ![c] = "broken"]
    /\ index' = i + 1
    /\ UNCHANGED <<stage, at, rx, full, owed, mid, sent, sock, slots, connected, phase,
                   previous, compress, gRequest, gResponse, pipes>>

\* EPIPE: send() has no MSG_NOSIGNAL and SIGPIPE its default action.
SendKills(i, c) ==
    /\ Serving(i, c, "out")
    /\ peer[c] = "broken"
    /\ phase' = "killed"
    /\ UNCHANGED <<socketVars, slots, connected, index, previous, compress,
                   gRequest, gResponse, pipes>>

-----------------------------------------------------------------------------
(* The end of a round: clearPoll. *)

EndRound ==
    /\ phase = "serve"
    /\ \A j \in index..Len(slots) : slots[j].revents = "none"
    /\ phase' = IF compress THEN "clear" ELSE "poll"
    /\ compress' = FALSE
    /\ UNCHANGED <<socketVars, slots, connected, index, previous, gRequest, gResponse, pipes>>

\* Variants with a fault: the last slot goes instead; _nfds is not decremented.
CompactLast(i) == [j \in 1..(Len(slots) - 1) |-> slots[j]]
CompactKeepsLength(i) ==
    [j \in DOMAIN slots |->
        IF j < i \/ j = Len(slots) THEN slots[j]
        ELSE [slots[j] EXCEPT !.fd = slots[j + 1].fd]]

\* The descriptors after slot i move down by one; events and revents stay.
Compact(i) ==
    [j \in 1..(Len(slots) - 1) |->
        IF j < i THEN slots[j] ELSE [slots[j] EXCEPT !.fd = slots[j + 1].fd]]

ClearSlot(i) ==
    /\ phase = "clear"
    /\ i \in DOMAIN slots
    /\ slots[i].fd = Closed
    /\ \A j \in 1..(i - 1) : slots[j].fd # Closed
    /\ slots' = Compact(i)
    /\ UNCHANGED <<socketVars, connected, phase, index, previous, compress,
                   gRequest, gResponse, pipes>>

ClearDone ==
    /\ phase = "clear"
    /\ \A i \in DOMAIN slots : slots[i].fd # Closed
    /\ phase' = "poll"
    /\ UNCHANGED <<socketVars, slots, connected, index, previous, compress,
                   gRequest, gResponse, pipes>>

-----------------------------------------------------------------------------
ServerStep ==
    \/ Poll
    \/ \E i \in DOMAIN slots : StartAccept(i) \/ ClearSlot(i)
    \/ \E s \in Servers : AcceptDone(s) \/ \E c \in Conns, fd \in Lowest : AcceptOne(s, c, fd)
    \/ AcceptFails
    \/ \E i \in DOMAIN slots, c \in Conns :
           \/ ReceiveNothing(i, c)
           \/ \E n \in 1..Len(rx[c]) :
                  \/ Store(i, c, n)
                  \/ \E chunks \in 1..MaxChunks : Respond(i, c, n, chunks)
                  \/ PipeFails(i, c, n)
           \/ SendChunk(i, c)
           \/ SendNothing(i, c)
           \/ SendFails(i, c)
           \/ SendKills(i, c)
    \/ EndRound
    \/ ClearDone

Clients == Running /\ ClientStep /\ UNCHANGED serverVars

Next == Clients \/ ServerStep \/ Interrupt

\* The process runs whenever it is not in poll() with nothing to do, and a
\* client that waits for an answer reads what is sent to it.
Fairness ==
    /\ WF_vars(ServerStep)
    /\ \A c \in Conns \ Rude : WF_vars(Running /\ Drain(c) /\ UNCHANGED serverVars)

Spec == Init /\ [][Next]_vars
FairSpec == Spec /\ Fairness

-----------------------------------------------------------------------------
(* Properties that hold whatever the clients do. *)

Open == {fd \in ClientFds : sock[fd] # NoConn}
SlotFds == {slots[i].fd : i \in DOMAIN slots}

\* Each open descriptor is in the vector of the server its client connected
\* to, once, and in no other: the "find" of serveConnectionAt serves every
\* connection exactly once in a round, with that server's port.
VectorsPartition ==
    /\ \A fd \in ClientFds, s \in Servers :
           fd \in Vector(s) <=> (sock[fd] # NoConn /\ at[sock[fd]] = s)
    /\ \A s \in Servers : \A j, k \in DOMAIN connected[s] :
           connected[s][j] = connected[s][k] => j = k

\* When poll() is called its table holds the listening sockets and the open
\* connections, each once, and no slot of a closed one: what clearPoll and
\* addFdsToPollFds must restore in every round.
PollTableExact ==
    phase = "poll" =>
        /\ SlotFds = Servers \cup Open
        /\ \A i, j \in DOMAIN slots : slots[i].fd = slots[j].fd => i = j

\* An event poll() reported is still there when its turn comes, whatever was
\* accepted, closed or sent before it in the round: recv() and send() on
\* these blocking sockets do not block (the listening one is non-blocking).
NeverBlocks ==
    phase \in {"serve", "accept"} =>
        \A i \in index..Len(slots) :
            slots[i].fd \in ClientFds /\ slots[i].revents # "none" =>
                /\ slots[i].fd \in Open
                /\ slots[i].revents = "in" => Readable(sock[slots[i].fd])
                /\ slots[i].revents = "out" => Writable(sock[slots[i].fd])

\* The table never has more slots than the process may have descriptors,
\* slots of connections closed in this round included: a descriptor limit of
\* at most POLLFD_SIZE keeps addFdsToPollFds, which does not look at the
\* length of the array, inside it.
PollTableBounded == Len(slots) <= MaxFd

\* With such a limit, and no CGI script to run out of pipes, the program's
\* behaviour is always defined.
WritesInsideArray == MaxFd <= PollFdSize /\ Cgis = {} => phase # "undefined"

\* Every connection in a backlog is accepted, unless the process ends.
BacklogsServed ==
    \A c \in Conns : stage[c] = "queued" ~> (stage[c] # "queued" \/ ~Running)

\* The descriptor of a client that left is given back, unless the process
\* ends: whichever of the two requests for events its slot had inherited.
LeaversReclaimed ==
    \A c \in Conns :
        (stage[c] = "open" /\ peer[c] # "alive") ~> (stage[c] = "gone" \/ ~Running)

-----------------------------------------------------------------------------
(* The inductive invariant behind the safety properties above. *)

\* A connection that has a descriptor is open, and has one only.
SocksOpen ==
    /\ \A fd \in Open : stage[sock[fd]] = "open"
    /\ \A fd, other \in Open : sock[fd] = sock[other] => fd = other

\* The listening sockets keep the first slots and no other.
ListenersFirst ==
    /\ NumServers <= Len(slots)
    /\ \A i \in DOMAIN slots :
           /\ i <= NumServers => slots[i].fd = i
           /\ i > NumServers => slots[i].fd \notin Servers

\* acceptNewConnections runs for a slot that holds a listening socket; what
\* it accepted is at the end of that server's vector and in no slot yet.
Accepting ==
    phase = "accept" => index \in Servers /\ previous <= Len(connected[index])
Fresh(fd) ==
    /\ phase = "accept"
    /\ \E k \in (previous + 1)..Len(connected[index]) : connected[index][k] = fd

\* A slot for every open descriptor that is not fresh, and one only.
SlotsUnique ==
    \A i, j \in DOMAIN slots :
        slots[i].fd = slots[j].fd /\ slots[i].fd # Closed => i = j
SlotsCover ==
    Running => \A fd \in ClientFds : fd \in SlotFds <=> (fd \in Open /\ ~Fresh(fd))

\* Slots are marked behind the loop of launchServers, and clearPoll is told.
HolesBehind ==
    Running =>
        \A i \in DOMAIN slots : slots[i].fd = Closed =>
            \/ phase = "clear"
            \/ phase \in {"serve", "accept"} /\ i < index /\ compress

IInv ==
    /\ TypeOK
    /\ index >= 1
    /\ SocksOpen
    /\ VectorsPartition
    /\ ListenersFirst
    /\ Accepting
    /\ SlotsUnique
    /\ SlotsCover
    /\ HolesBehind
    /\ NeverBlocks
    /\ PollTableBounded

-----------------------------------------------------------------------------
(* Properties that depend on what the clients do; the README says when. *)

\* A slot asks for POLLOUT exactly while a response for its own descriptor is
\* buffered: clearPoll moves fd without events.
InterestMatches ==
    \A i \in DOMAIN slots :
        slots[i].fd \in ClientFds =>
            (slots[i].events = "out" <=> gResponse[slots[i].fd].left > 0)

\* What is buffered for a descriptor came from, or answers, the connection
\* it stands for now and no earlier one.
OwnBytes ==
    \A fd \in Open :
        /\ gRequest[fd] \subseteq {sock[fd]}
        /\ gResponse[fd].left > 0 => gResponse[fd].for = {sock[fd]}

\* The server closes a connection only after its client left.
NeverHangsUp ==
    [][\A c \in Conns : stage[c] = "open" /\ stage'[c] = "gone" => peer[c] # "alive"]_vars

\* "A request to your server should never hang forever."
RequestsAnswered == \A c \in Conns : owed[c] > 0 ~> owed[c] = 0

\* "Your server should never die."
NeverDies == Running

\* What the clients see is an HttpSessions.
Answering(c) == \E fd \in Open : sock[fd] = c /\ gResponse[fd].left > 0
Sessions ==
    INSTANCE HttpSessions WITH
        session <- [c \in Conns |-> IF owed[c] = 0 THEN "quiet"
                                    ELSE IF Answering(c) THEN "answering" ELSE "asked"],
        left <- {c \in Conns : peer[c] # "alive"},
        ended <- {c \in Conns : stage[c] = "gone"}
ImplementsSessions == Sessions!Spec
=============================================================================
