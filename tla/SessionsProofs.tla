--------------------------- MODULE SessionsProofs ---------------------------
(***************************************************************************)
(* Proofs of the properties of WebServer that depend on what the clients   *)
(* do, for any number of orderly clients: those that end a connection only *)
(* when every request on it was answered, and ask one thing at a time.     *)
(***************************************************************************)
EXTENDS WebServerProofs

USE SocketsAssumption, WebServerAssumption

\* Either nobody leaves, as browsers that keep their connections, or clients
\* come one after another, as the calls of curl in curl_tst.sh.
OrderlyClients == Rude = {} /\ Pipeliners = {} /\ (Leavers = {} \/ Together <= 1)

-----------------------------------------------------------------------------
(* The inductive invariant. *)

LeftFds == {fd \in Open : peer[sock[fd]] # "alive"}
AliveFds == Open \ LeftFds
Hole == \E i \in DOMAIN slots : slots[i].fd = Closed

\* Where the one request of a connection is: with the client (part says that
\* it sent a piece of it), in the socket, in g_request (kept) or, as the pieces
\* of its response, in g_reponse.
Account(owes, part, queue, kept, left) ==
    /\ owes \in {0, 1}
    /\ \A k \in DOMAIN queue : queue[k] => k = Len(queue) /\ owes = 1
    /\ owes = 0 => left = 0
    /\ owes = 1 /\ left = 0 => queue # <<>> /\ queue[Len(queue)]
    /\ left > 0 => queue = <<>> /\ kept = {}
    /\ part <=> owes = 0 /\ (queue # <<>> \/ kept # {})
Talks(c, kept, left) == Account(owed[c], mid[c], rx[c], kept, left)

\* Nothing that the client has sent was read.
Unread(c) == sent[c] = Len(rx[c])

\* Every request is in one place, and what is closed has left nothing behind.
Accounts ==
    /\ \A c \in Conns : stage[c] \in {"new", "queued"} =>
           Talks(c, {}, 0) /\ Unread(c) /\ peer[c] = "alive"
    /\ \A fd \in Open :
           LET c == sock[fd]
           IN  /\ Talks(c, gRequest[fd], gResponse[fd].left)
               /\ peer[c] # "alive" =>
                      peer[c] = "fin" /\ owed[c] = 0 /\ ~mid[c] /\ c \in Leavers
    /\ \A fd \in ClientFds \ Open : gRequest[fd] = {} /\ gResponse[fd].left = 0

\* Slots that poll() has reported and the loop has not come to.
Ahead == IF phase \in {"serve", "accept"}
         THEN {i \in index..Len(slots) : slots[i].revents # "none"} ELSE {}

\* What was reported is what the slot asks for; what is answered has a slot;
\* while a slot is marked every other one waits for a request, so that it does
\* not matter which events go with which descriptor.
Interests ==
    /\ \A i \in Ahead : slots[i].fd \in ClientFds => slots[i].revents = slots[i].events
    /\ \A fd \in ClientFds : gResponse[fd].left > 0 => fd \in SlotFds
    /\ Hole => \A i \in DOMAIN slots : slots[i].fd \notin Servers => slots[i].events = "in"

\* A listening socket that was reported still has a connection.
Called == {i \in Ahead : slots[i].fd \in Servers /\ ~(phase = "accept" /\ i = index)}
Listening == \A i \in Called : Backlog(slots[i].fd) # {}

\* A connection that was accepted in this round and not served.
Recent(fd) ==
    /\ Unread(sock[fd]) /\ gRequest[fd] = {} /\ gResponse[fd].left = 0
    /\ \A i \in DOMAIN slots : slots[i].fd = fd => slots[i].revents = "none"

\* When clients leave they take turns: the connection of the one that left is
\* closed in the round in which the next one is accepted, which is served in
\* a later round.
Turns ==
    /\ \A fd, other \in LeftFds : fd = other
    /\ phase \in {"poll", "clear"} /\ LeftFds # {} => AliveFds = {}
    /\ \/ phase = "accept"
       \/ phase = "serve" /\ (Hole \/ LeftFds # {})
       => \A fd \in AliveFds : Recent(fd)
    /\ \/ phase = "accept"
       \/ phase = "serve" /\ (AliveFds # {} \/ Called # {})
       => \A fd \in LeftFds : \E i \in Ahead : slots[i].fd = fd

Crowd ==
    LET here == {c \in Conns : Here(c)}
    IN  IsFiniteSet(here) /\ Cardinality(here) <= Together

SInv ==
    /\ OwnBytes /\ InterestMatches
    /\ Running =>
           /\ Accounts /\ Interests /\ Listening /\ Crowd
           /\ IF Leavers = {} THEN ~Hole ELSE Turns

-----------------------------------------------------------------------------
(* Facts about the states. *)

LEMMA OpenConns ==
    ASSUME IInv
    PROVE  /\ Open \subseteq ClientFds
           /\ \A fd \in Open : sock[fd] \in Conns /\ stage[sock[fd]] = "open"
           /\ \A fd, other \in Open : sock[fd] = sock[other] => fd = other
           /\ \A fd \in ClientFds : fd \notin Servers /\ fd # Closed
           /\ \A fd \in ClientFds \ Open : sock[fd] = NoConn
BY DEF IInv, SocksOpen, Open, TypeOK, SocketsTypeOK, ClientFds, Servers, Closed

LEMMA Buffers ==
    ASSUME IInv
    PROVE  \A fd \in ClientFds : /\ gRequest[fd] \subseteq Conns
                                 /\ gResponse[fd].left \in Nat
                                 /\ gResponse[fd] \in Response
BY DEF IInv, TypeOK, Response

(* No more than one client is there when they take turns. *)
LEMMA Alone ==
    ASSUME Crowd, Together <= 1, NEW c \in Conns, NEW d \in Conns, Here(c), Here(d)
    PROVE  c = d
<1> DEFINE here == {e \in Conns : Here(e)}
<1>1. IsFiniteSet(here) /\ Cardinality(here) <= 1 /\ Cardinality(here) \in Nat
  BY FS_CardinalityType DEF Crowd
<1>2. {c, d} \subseteq here
  OBVIOUS
<1> HIDE DEF here
<1>3. Cardinality({c, d}) <= Cardinality(here) /\ IsFiniteSet({c, d})
  BY <1>1, <1>2, FS_Subset
<1>4. ASSUME c # d PROVE FALSE
  <2>1. IsFiniteSet({c}) /\ Cardinality({c}) = 1
    BY FS_Singleton
  <2>2. Cardinality({c} \cup {d}) = Cardinality({c}) + 1
    <3> DEFINE one == {c}
    <3>1. IsFiniteSet(one) /\ d \notin one
      BY <1>4, <2>1
    <3> HIDE DEF one
    <3>2. Cardinality(one \cup {d}) = Cardinality(one) + 1
      BY <3>1, FS_AddElement
    <3> QED
      BY <3>2 DEF one
  <2>3. {c} \cup {d} = {c, d}
    OBVIOUS
  <2>4. Cardinality({c, d}) = Cardinality({c}) + 1
    BY <2>2, <2>3, Zenon
  <2> QED
    BY <1>1, <1>3, <2>1, <2>4
<1> QED
  BY <1>4

(* A client all of whose requests wait in the socket cannot have been answered. *)
LEMMA UnreadAsks ==
    ASSUME TypeOK, NEW c \in Conns, Talks(c, {}, 0), Unread(c), owed[c] = 0, ~mid[c]
    PROVE  sent[c] = 0
<1>1. rx[c] = <<>>
  BY DEF Talks, Account
<1> QED
  BY <1>1 DEF Unread

(* Whoever is in a backlog is there. *)
LEMMA CalledHere ==
    ASSUME Accounts, Listening, NEW i \in Called
    PROVE  \E c \in Conns : stage[c] = "queued" /\ Here(c)
BY DEF Accounts, Listening, Backlog, Here

LEMMA CalledAlone ==
    ASSUME IInv, Accounts, Listening, Crowd, Together <= 1, Called # {}
    PROVE  AliveFds = {}
<1> SUFFICES ASSUME NEW fd \in AliveFds PROVE FALSE
  OBVIOUS
<1>1. PICK c \in Conns : stage[c] = "queued" /\ Here(c)
  BY CalledHere
<1>2. Here(sock[fd]) /\ sock[fd] \in Conns /\ stage[sock[fd]] = "open"
  BY OpenConns DEF AliveFds, LeftFds, Here
<1> QED
  BY <1>1, <1>2, Alone

-----------------------------------------------------------------------------
(* What the clients do. *)

(* The server's part of the invariant does not depend on the clients. *)
LEMMA ClientsKeep ==
    ASSUME IInv, SInv, Running, UNCHANGED <<sock, serverVars>>,
           Accounts', Listening', Crowd', Leavers # {} => Turns'
    PROVE  SInv'
<1>1. OwnBytes' /\ InterestMatches' /\ Running'
  BY DEF SInv, serverVars, OwnBytes, InterestMatches, Open, Running
<1>2. Interests' /\ Hole' = Hole
  BY DEF SInv, serverVars, Interests, Ahead, SlotFds, Hole
<1> QED
  BY <1>1, <1>2 DEF SInv

LEMMA ConnectSInv ==
    ASSUME IInv, SInv, Running, NEW c \in Conns, Connect(c), UNCHANGED serverVars
    PROVE  SInv'
<1>1. /\ TypeOK /\ Accounts /\ Listening /\ Crowd
      /\ stage[c] = "new" /\ ~Here(c) /\ Here(c)' /\ peer[c] = "alive"
  BY DEF IInv, SInv, Connect, Here, Accounts, TypeOK, SocketsTypeOK
<1>2. /\ stage'[c] = "queued"
      /\ \A d \in Conns \ {c} : stage'[d] = stage[d] /\ at'[d] = at[d]
      /\ UNCHANGED <<peer, rx, full, owed, mid, sent, sock>>
      /\ Cardinality({d \in Conns : Here(d)}) < Together
  BY <1>1 DEF Connect, TypeOK, SocketsTypeOK
<1>3. /\ UNCHANGED <<slots, phase, index, previous, gRequest, gResponse>>
      /\ \A fd \in Open : sock[fd] # c
      /\ Open' = Open
  BY <1>1, <1>2, OpenConns DEF serverVars, Open
<1>4. Accounts'
  <2>1. ASSUME NEW d \in Conns, stage'[d] \in {"new", "queued"}
        PROVE  (Talks(d, {}, 0) /\ Unread(d) /\ peer[d] = "alive")'
    <3>1. stage[d] \in {"new", "queued"}
      BY <1>1, <1>2, <2>1
    <3> QED
      BY <1>1, <1>2, <3>1 DEF Accounts, Talks, Unread
  <2> QED
    BY <1>1, <1>2, <1>3, <2>1 DEF Accounts, Talks
<1>5. Listening'
  BY <1>1, <1>2, <1>3 DEF Listening, Called, Ahead, Backlog
<1>6. Crowd'
  <2> DEFINE here == {d \in Conns : Here(d)}
  <2>1. here' = here \cup {c}
    BY <1>1, <1>2 DEF Here
  <2>2. IsFiniteSet(here) /\ c \notin here /\ Cardinality(here) < Together
    BY <1>1, <1>2 DEF Crowd
  <2> HIDE DEF here
  <2>3. /\ IsFiniteSet(here') /\ Cardinality(here') = Cardinality(here) + 1
        /\ Cardinality(here) \in Nat
    BY <2>1, <2>2, FS_AddElement, FS_CardinalityType
  <2>4. IsFiniteSet(here') /\ Cardinality(here') <= Together
    BY <2>2, <2>3
  <2> QED
    BY <2>4 DEF Crowd, here
<1>7. Leavers # {} => Turns'
  <2>1. LeftFds' = LeftFds /\ AliveFds' = AliveFds
    BY <1>2, <1>3 DEF LeftFds, AliveFds
  <2>2. \A fd \in AliveFds : Recent(fd) => Recent(fd)'
    BY <1>2, <1>3 DEF Recent, Unread
  <2> QED
    BY <1>3, <2>1, <2>2 DEF SInv, Turns, Hole, Ahead, Called
<1> QED
  BY <1>2, <1>4, <1>5, <1>6, <1>7, ClientsKeep

(* A piece that is sent takes its place in the account of the connection. *)
LEMMA SendAccount ==
    ASSUME NEW queue \in Seq(BOOLEAN), NEW last \in BOOLEAN, NEW part,
           NEW kept, NEW left \in Nat, Account(0, part, queue, kept, left)
    PROVE  Account(IF last THEN 1 ELSE 0, ~last, Append(queue, last), kept, left)
<1> DEFINE longer == Append(queue, last)
<1>1. /\ Len(longer) = Len(queue) + 1 /\ DOMAIN longer = 1..(Len(queue) + 1)
      /\ Len(queue) \in Nat /\ DOMAIN queue = 1..Len(queue)
      /\ \A k \in 1..Len(queue) : longer[k] = queue[k]
      /\ longer[Len(queue) + 1] = last
      /\ longer # <<>>
  <2>1. longer \in Seq(BOOLEAN)
    BY AppendProperties
  <2> QED
    BY <2>1, AppendProperties, LenProperties
<1> HIDE DEF longer
<1>2. left = 0 /\ \A k \in 1..Len(queue) : ~queue[k]
  BY <1>1 DEF Account
<1>3. \A k \in DOMAIN longer : longer[k] => k = Len(longer) /\ last
  BY <1>1, <1>2
<1>4. Account(IF last THEN 1 ELSE 0, ~last, longer, kept, left)
  BY <1>1, <1>2, <1>3 DEF Account
<1> QED
  BY <1>4 DEF longer

LEMMA SendTalks ==
    ASSUME TypeOK, NEW c \in Conns, NEW last \in BOOLEAN, SendPart(c, last), owed[c] = 0
    PROVE  \A kept, left : left \in Nat /\ Account(owed[c], mid[c], rx[c], kept, left)
               => Account(owed'[c], mid'[c], rx'[c], kept, left)
<1> SUFFICES ASSUME NEW kept, NEW left \in Nat, Account(owed[c], mid[c], rx[c], kept, left)
             PROVE  Account(owed'[c], mid'[c], rx'[c], kept, left)
  OBVIOUS
<1>1. /\ rx[c] \in Seq(BOOLEAN) /\ rx'[c] = Append(rx[c], last)
      /\ mid'[c] = ~last /\ owed'[c] = IF last THEN 1 ELSE 0
  BY DEF SendPart, TypeOK, SocketsTypeOK
<1>2. Account(IF last THEN 1 ELSE 0, ~last, Append(rx[c], last), kept, left)
  BY <1>1, SendAccount
<1> QED
  BY <1>1, <1>2, Zenon

LEMMA SendPartSInv ==
    ASSUME OrderlyClients, IInv, SInv, Running, NEW c \in Conns, NEW last \in BOOLEAN,
           SendPart(c, last), UNCHANGED serverVars
    PROVE  SInv'
<1>1. /\ TypeOK /\ Accounts /\ Listening /\ Crowd /\ owed[c] = 0 /\ Here(c)
  BY DEF OrderlyClients, IInv, SInv, SendPart
<1>2. /\ UNCHANGED <<stage, at, peer, full, sock>>
      /\ UNCHANGED <<slots, phase, index, previous, gRequest, gResponse>>
      /\ sent'[c] = sent[c] + 1
      /\ \A d \in Conns \ {c} : /\ rx'[d] = rx[d] /\ sent'[d] = sent[d]
                                /\ mid'[d] = mid[d] /\ owed'[d] = owed[d]
      /\ Open' = Open
  BY <1>1 DEF SendPart, serverVars, TypeOK, SocketsTypeOK, Open
<1>3. Unread(c) => Unread(c)'
  <2>1. rx[c] \in Seq(BOOLEAN) /\ rx'[c] = Append(rx[c], last)
    BY <1>1 DEF SendPart, TypeOK, SocketsTypeOK
  <2>2. Len(rx'[c]) = Len(rx[c]) + 1
    BY <2>1, AppendProperties
  <2> QED
    BY <1>2, <2>2 DEF Unread
<1>4. Accounts'
  <2>1. ASSUME NEW d \in Conns, stage[d] \in {"new", "queued"}
        PROVE  (Talks(d, {}, 0) /\ Unread(d) /\ peer[d] = "alive")'
    <3>1. Talks(d, {}, 0) /\ Unread(d) /\ peer[d] = "alive"
      BY <1>1, <2>1 DEF Accounts
    <3>2. CASE d = c
      <4>1. Talks(c, {}, 0)'
        BY <1>1, <3>1, <3>2, SendTalks DEF Talks
      <4> QED
        BY <1>2, <1>3, <3>1, <3>2, <4>1
    <3>3. CASE d # c
      BY <1>2, <3>1, <3>3 DEF Talks, Unread
    <3> QED
      BY <3>2, <3>3
  <2>2. ASSUME NEW fd \in Open
        PROVE  /\ Talks(sock[fd], gRequest[fd], gResponse[fd].left)'
               /\ peer[sock[fd]]' # "alive" =>
                      /\ peer[sock[fd]]' = "fin"
                      /\ owed[sock[fd]]' = 0 /\ ~mid[sock[fd]]' /\ sock[fd] \in Leavers
    <3>1. /\ Talks(sock[fd], gRequest[fd], gResponse[fd].left)
          /\ peer[sock[fd]] # "alive" =>
                 /\ peer[sock[fd]] = "fin"
                 /\ owed[sock[fd]] = 0 /\ ~mid[sock[fd]] /\ sock[fd] \in Leavers
          /\ sock[fd] \in Conns /\ gResponse[fd].left \in Nat
      BY <1>1, OpenConns, Buffers DEF Accounts
    <3>2. CASE sock[fd] = c
      <4>1. Account(owed'[c], mid'[c], rx'[c], gRequest[fd], gResponse[fd].left)
        BY <1>1, <3>1, <3>2, SendTalks DEF Talks
      <4>2. peer[c] = "alive" /\ sock' = sock /\ peer' = peer
        BY <1>1, <1>2 DEF Here
      <4> QED
        BY <1>2, <3>2, <4>1, <4>2 DEF Talks
    <3>3. CASE sock[fd] # c
      BY <1>2, <3>1, <3>3 DEF Talks
    <3> QED
      BY <3>2, <3>3
  <2> QED
    BY <1>1, <1>2, <2>1, <2>2 DEF Accounts
<1>5. Listening' /\ Crowd'
  BY <1>1, <1>2 DEF Listening, Called, Ahead, Backlog, Crowd, Here
<1>6. Leavers # {} => Turns'
  <2>1. LeftFds' = LeftFds /\ AliveFds' = AliveFds
    BY <1>2 DEF LeftFds, AliveFds
  <2>2. \A fd \in AliveFds : Recent(fd) => Recent(fd)'
    <3>1. \A fd \in AliveFds : sock[fd] \in Conns
      BY OpenConns DEF AliveFds
    <3> QED
      BY <1>2, <1>3, <3>1 DEF Recent, Unread
  <2> QED
    BY <1>2, <2>1, <2>2 DEF SInv, Turns, Hole, Ahead, Called
<1> QED
  BY <1>2, <1>4, <1>5, <1>6, ClientsKeep

LEMMA DrainSInv ==
    ASSUME IInv, SInv, Running, NEW c \in Conns, Drain(c), UNCHANGED serverVars
    PROVE  SInv'
<1>1. /\ UNCHANGED <<stage, at, peer, rx, owed, mid, sent, sock>>
      /\ UNCHANGED <<slots, phase, index, previous, gRequest, gResponse>>
  BY DEF Drain, serverVars
<1>2. Accounts' /\ Listening' /\ Crowd'
  BY <1>1 DEF SInv, Accounts, Talks, Unread, Open, Listening, Called, Ahead, Backlog, Crowd, Here
<1>3. Leavers # {} => Turns'
  BY <1>1 DEF SInv, Turns, LeftFds, AliveFds, Open, Hole, Recent, Unread, Called, Ahead
<1> QED
  BY <1>1, <1>2, <1>3, ClientsKeep

(* A client leaves only when its connection is quiet, and then was served in  *)
(* this round or an earlier one.                                              *)
LEMMA LeaveSInv ==
    ASSUME OrderlyClients, IInv, SInv, Running, NEW c \in Conns, Leave(c), UNCHANGED serverVars
    PROVE  SInv'
<1>1. /\ TypeOK /\ Accounts /\ Listening /\ Crowd /\ Turns /\ Together <= 1 /\ c \in Leavers
      /\ Here(c) /\ sent[c] > 0 /\ owed[c] = 0 /\ ~mid[c]
  BY DEF OrderlyClients, IInv, SInv, Leave
<1>2. /\ UNCHANGED <<stage, at, rx, full, owed, mid, sent, sock>>
      /\ UNCHANGED <<slots, phase, index, previous, gRequest, gResponse>>
      /\ peer' = [peer EXCEPT ![c] = "fin"]
      /\ Open' = Open
  BY DEF OrderlyClients, Leave, serverVars, Open
<1>3. peer'[c] = "fin" /\ \A d \in Conns \ {c} : peer'[d] = peer[d]
  BY <1>1, <1>2 DEF TypeOK, SocketsTypeOK
<1>4. stage[c] = "open"
  <2>1. stage[c] # "queued"
    <3>1. stage[c] = "queued" => Talks(c, {}, 0) /\ Unread(c)
      BY <1>1 DEF Accounts
    <3> QED
      BY <1>1, <3>1, UnreadAsks
  <2> QED
    BY <1>1, <2>1 DEF Here
<1>5. Accounts'
  <2>1. \A d \in Conns : stage[d] \in {"new", "queued"} =>
            (Talks(d, {}, 0) /\ Unread(d) /\ peer[d] = "alive")'
    BY <1>1, <1>2, <1>3, <1>4 DEF Accounts, Talks, Unread
  <2>2. \A fd \in Open :
            /\ Talks(sock[fd], gRequest[fd], gResponse[fd].left)'
            /\ peer[sock[fd]]' # "alive" =>
                   /\ peer[sock[fd]]' = "fin"
                   /\ owed[sock[fd]]' = 0 /\ ~mid[sock[fd]]' /\ sock[fd] \in Leavers
    BY <1>1, <1>2, <1>3, OpenConns DEF Accounts, Talks
  <2> QED
    BY <1>1, <1>2, <2>1, <2>2 DEF Accounts
<1>6. Listening'
  BY <1>1, <1>2 DEF Listening, Called, Ahead, Backlog
<1>7. Crowd'
  <2> DEFINE here == {d \in Conns : Here(d)}
  <2>1. here' \in SUBSET here
    BY <1>2, <1>3 DEF Here
  <2>2. IsFiniteSet(here) /\ Cardinality(here) <= Together
    BY <1>1 DEF Crowd
  <2> HIDE DEF here
  <2>3. IsFiniteSet(here') /\ Cardinality(here') <= Cardinality(here)
        /\ Cardinality(here) \in Nat /\ Cardinality(here') \in Nat
    BY <2>1, <2>2, FS_Subset, FS_CardinalityType
  <2>4. IsFiniteSet(here') /\ Cardinality(here') <= Together
    BY <2>2, <2>3
  <2> QED
    BY <2>4 DEF Crowd, here
<1>8. Turns'
  <2>1. AliveFds' = {}
    <3> SUFFICES ASSUME NEW fd \in AliveFds' PROVE FALSE
      OBVIOUS
    <3>1. fd \in Open /\ peer'[sock[fd]] = "alive" /\ sock[fd] \in Conns
          /\ stage[sock[fd]] = "open"
      BY <1>2, OpenConns DEF AliveFds, LeftFds
    <3>2. sock[fd] # c /\ Here(sock[fd])
      BY <1>3, <3>1 DEF Here
    <3> QED
      BY <1>1, <3>1, <3>2, Alone
  <2>2. Called = {}
    <3> SUFFICES ASSUME NEW i \in Called PROVE FALSE
      OBVIOUS
    <3>1. PICK d \in Conns : stage[d] = "queued" /\ Here(d)
      BY <1>1, CalledHere
    <3> QED
      BY <1>1, <1>4, <3>1, Alone
  <2>3. CASE \E fd \in Open : sock[fd] = c
    <3>1. PICK fd \in Open : sock[fd] = c
      BY <2>3
    <3>2. fd \in AliveFds /\ fd \in ClientFds
      BY <1>1, <3>1, OpenConns DEF AliveFds, LeftFds, Here
    <3>3. ~Recent(fd)
      <4> SUFFICES ASSUME Recent(fd) PROVE FALSE
        OBVIOUS
      <4>1. Talks(c, {}, 0)
        BY <1>1, <3>1 DEF Accounts, Recent
      <4> QED
        BY <1>1, <3>1, <4>1, UnreadAsks DEF Recent
    <3>4. LeftFds = {} /\ phase # "accept"
      BY <1>1, <3>2, <3>3 DEF Turns, Running
    <3>5. LeftFds' \subseteq {fd}
      <4>1. \A other \in Open : other # fd => sock[other] # c /\ sock[other] \in Conns
        BY <3>1, OpenConns
      <4>2. \A other \in Open : peer[sock[other]] = "alive"
        BY <3>4 DEF LeftFds
      <4> QED
        BY <1>2, <1>3, <4>1, <4>2 DEF LeftFds
    <3>6. Called' = {} /\ phase' = phase
      BY <1>2, <2>2 DEF Called, Ahead
    <3> QED
      BY <2>1, <3>4, <3>5, <3>6 DEF Turns
  <2>4. CASE ~\E fd \in Open : sock[fd] = c
    <3>1. LeftFds' = LeftFds
      BY <1>2, <1>3, <2>4, OpenConns DEF LeftFds
    <3>2. Called' = {} /\ phase' = phase /\ Ahead' = Ahead /\ slots' = slots
      BY <1>2, <2>2 DEF Called, Ahead
    <3> QED
      BY <1>1, <2>1, <3>1, <3>2 DEF Turns
  <2> QED
    BY <2>3, <2>4
<1> QED
  BY <1>2, <1>5, <1>6, <1>7, <1>8, ClientsKeep

LEMMA ClientsSInv == OrderlyClients /\ IInv /\ SInv /\ Clients => SInv'
BY ConnectSInv, SendPartSInv, LeaveSInv, DrainSInv DEF Clients, ClientStep

-----------------------------------------------------------------------------
(* A round: poll() and the ends of the loops, which touch no buffer. *)

\* The connection of a client that left has nothing under way.
LEMMA LeftQuiet ==
    ASSUME IInv, Accounts, NEW fd \in LeftFds
    PROVE  /\ fd \in ClientFds /\ sock[fd] \in Leavers /\ peer[sock[fd]] = "fin"
           /\ gRequest[fd] = {} /\ gResponse[fd].left = 0 /\ rx[sock[fd]] = <<>>
BY OpenConns DEF LeftFds, Accounts, Talks, Account

LEMMA BuffersKeep ==
    ASSUME SInv, Running, UNCHANGED <<socketVars, gRequest, gResponse>>
    PROVE  /\ OwnBytes' /\ Accounts' /\ Crowd'
           /\ Open' = Open /\ LeftFds' = LeftFds /\ AliveFds' = AliveFds
<1>1. Open' = Open /\ LeftFds' = LeftFds /\ AliveFds' = AliveFds
  BY DEF socketVars, Open, LeftFds, AliveFds
<1>2. OwnBytes'
  BY <1>1 DEF SInv, socketVars, OwnBytes
<1>3. Accounts' /\ Crowd'
  BY <1>1 DEF SInv, socketVars, Accounts, Talks, Unread, Crowd, Here
<1> QED
  BY <1>1, <1>2, <1>3

\* What poll() reports is there when it returns, and every connection whose
\* client has left is reported.
LEMMA PollSInv ==
    ASSUME IInv, SInv, Poll
    PROVE  SInv'
<1>1. /\ UNCHANGED <<socketVars, gRequest, gResponse>>
      /\ phase = "poll" /\ phase' = "serve" /\ index' = 1
      /\ Running /\ Running' /\ TypeOK
  BY DEF IInv, Poll, Running
<1>2. /\ SameSlots /\ DOMAIN slots = 1..Len(slots)
      /\ \A i \in DOMAIN slots :
             /\ slots'[i].fd = slots[i].fd
             /\ slots'[i].events = slots[i].events
             /\ slots'[i].revents = IF Ready(slots[i]) THEN slots[i].events ELSE "none"
  BY <1>1, PollSlots, SlotsType
<1>3. /\ OwnBytes' /\ Accounts' /\ Crowd'
      /\ Open' = Open /\ LeftFds' = LeftFds /\ AliveFds' = AliveFds
  BY <1>1, BuffersKeep
<1>4. ~Hole /\ ~Hole'
  <2>1. ~Hole
    BY <1>1 DEF IInv, HolesBehind, Hole
  <2> QED
    BY <1>2, <2>1 DEF Hole, SameSlots
<1>5. /\ \A i \in Ahead' : i \in DOMAIN slots /\ Ready(slots[i])
      /\ \A i \in DOMAIN slots : Ready(slots[i]) /\ slots[i].events = "in" => i \in Ahead'
  BY <1>1, <1>2 DEF Ahead, SameSlots
<1>6. InterestMatches'
  BY <1>1, <1>2 DEF SInv, InterestMatches, SameSlots
<1>7. Interests'
  <2>1. SlotFds' = SlotFds
    BY <1>2 DEF SlotFds, SameSlots
  <2> QED
    BY <1>1, <1>2, <1>4, <1>5, <2>1 DEF SInv, Interests
<1>8. Listening'
  BY <1>1, <1>2, <1>5 DEF Listening, Called, Ready, Backlog, socketVars, Servers, ClientFds
<1>9. Leavers # {} => Turns'
  <2> SUFFICES ASSUME Turns PROVE Turns'
    BY <1>1 DEF SInv
  <2>1. LeftFds # {} => AliveFds = {}
    BY <1>1 DEF Turns
  <2>2. ASSUME NEW fd \in LeftFds PROVE \E i \in Ahead' : slots'[i].fd = fd
    <3>1. fd \in ClientFds /\ fd \in Open /\ ~Fresh(fd) /\ gResponse[fd].left = 0
      BY <1>1, LeftQuiet DEF SInv, LeftFds, Fresh
    <3>2. PICK i \in DOMAIN slots : slots[i].fd = fd
      BY <1>1, <3>1 DEF IInv, SlotsCover, SlotFds
    <3>3. slots[i].events = "in"
      BY <1>1, <3>1, <3>2, SlotsType DEF SInv, InterestMatches, Slot
    <3>4. Ready(slots[i])
      BY <3>1, <3>2, <3>3 DEF Ready, Readable, LeftFds
    <3> QED
      BY <1>2, <1>5, <3>2, <3>3, <3>4
  <2> QED
    BY <1>1, <1>3, <1>4, <2>1, <2>2 DEF Turns
<1> QED
  BY <1>1, <1>3, <1>4, <1>6, <1>7, <1>8, <1>9 DEF SInv

LEMMA StartAcceptSInv ==
    ASSUME OrderlyClients, IInv, SInv, NEW i \in DOMAIN slots, StartAccept(i)
    PROVE  SInv'
<1>1. /\ UNCHANGED <<socketVars, gRequest, gResponse, slots>>
      /\ phase = "serve" /\ phase' = "accept" /\ index' = i
      /\ slots[i].fd \in Servers /\ AtSlot(i)
      /\ Running /\ Running' /\ TypeOK
  BY DEF IInv, StartAccept, AtSlot, Running
<1>2. /\ OwnBytes' /\ Accounts' /\ Crowd'
      /\ Open' = Open /\ LeftFds' = LeftFds /\ AliveFds' = AliveFds
  BY <1>1, BuffersKeep
<1>3. Ahead' = Ahead /\ i \in Called /\ Called' \subseteq Called
  <2>1. Len(slots) \in Nat /\ index \in Nat /\ i \in index..Len(slots)
    BY <1>1, SlotsType DEF TypeOK, AtSlot
  <2>2. \A j \in index..(i - 1) : slots[j].revents = "none"
    BY <1>1 DEF AtSlot
  <2>3. Ahead' = Ahead /\ i \in Ahead
    BY <1>1, <2>1, <2>2 DEF Ahead, AtSlot
  <2> QED
    BY <1>1, <2>3 DEF Called
<1>4. InterestMatches' /\ Interests' /\ Hole' = Hole
  BY <1>1, <1>3 DEF SInv, InterestMatches, Interests, SlotFds, Hole
<1>5. Listening'
  BY <1>1, <1>3 DEF SInv, Listening, Backlog, socketVars
<1>6. Leavers # {} => Turns'
  <2> SUFFICES ASSUME Leavers # {} PROVE Turns'
    OBVIOUS
  <2>1. Turns /\ Together <= 1 /\ AliveFds = {}
    BY <1>1, <1>3, CalledAlone DEF SInv, OrderlyClients
  <2>2. \A fd \in LeftFds : \E j \in Ahead : slots[j].fd = fd
    BY <1>1, <1>3, <2>1 DEF Turns
  <2> QED
    BY <1>1, <1>2, <1>3, <2>1, <2>2 DEF Turns
<1> QED
  BY <1>1, <1>2, <1>4, <1>5, <1>6 DEF SInv

(* The end of the loop: whoever left was served when another is there. *)
LEMMA EndRoundSInv ==
    ASSUME IInv, SInv, EndRound
    PROVE  SInv'
<1>1. /\ UNCHANGED <<socketVars, gRequest, gResponse, slots>>
      /\ phase = "serve" /\ phase' \in {"poll", "clear"}
      /\ \A j \in index..Len(slots) : slots[j].revents = "none"
      /\ Running /\ Running' /\ TypeOK
  BY DEF IInv, EndRound, Running
<1>2. /\ OwnBytes' /\ Accounts' /\ Crowd'
      /\ Open' = Open /\ LeftFds' = LeftFds /\ AliveFds' = AliveFds
  BY <1>1, BuffersKeep
<1>3. Ahead = {} /\ Ahead' = {} /\ Called' = {}
  BY <1>1 DEF Ahead, Called
<1>4. InterestMatches' /\ Interests' /\ Hole' = Hole /\ Listening'
  BY <1>1, <1>3 DEF SInv, InterestMatches, Interests, SlotFds, Hole, Listening
<1>5. Turns => Turns'
  BY <1>1, <1>2, <1>3 DEF Turns
<1> QED
  BY <1>1, <1>2, <1>4, <1>5 DEF SInv

LEMMA ClearDoneSInv ==
    ASSUME IInv, SInv, ClearDone
    PROVE  SInv'
<1>1. /\ UNCHANGED <<socketVars, gRequest, gResponse, slots>>
      /\ phase = "clear" /\ phase' = "poll"
      /\ Running /\ Running' /\ TypeOK
  BY DEF IInv, ClearDone, Running
<1>2. /\ OwnBytes' /\ Accounts' /\ Crowd'
      /\ Open' = Open /\ LeftFds' = LeftFds /\ AliveFds' = AliveFds
  BY <1>1, BuffersKeep
<1>3. Ahead = {} /\ Ahead' = {} /\ Called' = {}
  BY <1>1 DEF Ahead, Called
<1>4. InterestMatches' /\ Interests' /\ Hole' = Hole /\ Listening'
  BY <1>1, <1>3 DEF SInv, InterestMatches, Interests, SlotFds, Hole, Listening
<1>5. Turns => Turns'
  BY <1>1, <1>2, <1>3 DEF Turns
<1> QED
  BY <1>1, <1>2, <1>4, <1>5 DEF SInv

(* clearPoll moves descriptors and leaves events: nothing is being answered *)
(* then, so that every slot asks for the same.                              *)
LEMMA ClearSlotSInv ==
    ASSUME IInv, SInv, NEW i \in DOMAIN slots, ClearSlot(i)
    PROVE  SInv'
<1>1. /\ UNCHANGED <<socketVars, gRequest, gResponse>>
      /\ phase = "clear" /\ phase' = "clear"
      /\ Running /\ Running' /\ TypeOK
      /\ slots[i].fd = Closed /\ slots' = Compact(i)
  BY DEF IInv, ClearSlot, Running
<1>2. /\ OwnBytes' /\ Accounts' /\ Crowd'
      /\ Open' = Open /\ LeftFds' = LeftFds /\ AliveFds' = AliveFds
  BY <1>1, BuffersKeep
<1>3. Ahead' = {} /\ Called' = {}
  BY <1>1 DEF Ahead, Called
<1>4. Hole /\ \A j \in DOMAIN slots : slots[j].fd \notin Servers => slots[j].events = "in"
  BY <1>1 DEF SInv, Interests, Hole
<1>5. \A fd \in ClientFds : ~(gResponse[fd].left > 0)
  <2> SUFFICES ASSUME NEW fd \in ClientFds, gResponse[fd].left > 0 PROVE FALSE
    OBVIOUS
  <2>1. PICK j \in DOMAIN slots : slots[j].fd = fd
    BY <1>1 DEF SInv, Interests, SlotFds
  <2> QED
    BY <1>4, <2>1 DEF SInv, InterestMatches, Servers, ClientFds
<1>6. \A j \in DOMAIN slots' : slots'[j].fd \notin Servers => slots'[j].events = "in"
  <2> SUFFICES ASSUME NEW j \in DOMAIN slots', slots'[j].fd \notin Servers
               PROVE  slots'[j].events = "in"
    OBVIOUS
  <2>1. /\ Len(slots) \in Nat /\ DOMAIN slots = 1..Len(slots)
        /\ j \in 1..(Len(slots) - 1)
        /\ slots'[j].fd = slots[IF j < i THEN j ELSE j + 1].fd
        /\ slots'[j].events = slots[j].events
    <3>1. \A k \in 1..(Len(slots) - 1) :
              /\ Compact(i)[k].fd = slots[IF k < i THEN k ELSE k + 1].fd
              /\ Compact(i)[k].events = slots[k].events
      BY <1>1, CompactType
    <3>2. DOMAIN Compact(i) = 1..(Len(slots) - 1)
      BY <1>1, CompactType
    <3> QED
      BY <1>1, <3>1, <3>2, SlotsType
  <2>2. j \in DOMAIN slots /\ i > NumServers
    BY <1>1, <2>1 DEF IInv, ListenersFirst, Closed
  <2>3. slots[j].fd \notin Servers
    BY <2>1, <2>2 DEF IInv, ListenersFirst, Servers
  <2> QED
    BY <1>4, <2>1, <2>2, <2>3
<1>7. InterestMatches'
  BY <1>1, <1>5, <1>6 DEF InterestMatches, Servers, ClientFds
<1>8. Interests' /\ Listening'
  BY <1>1, <1>3, <1>5, <1>6 DEF Interests, Listening
<1>9. Turns => Turns'
  BY <1>1, <1>2, <1>3 DEF Turns
<1> QED
  BY <1>1, <1>2, <1>4, <1>7, <1>8, <1>9 DEF SInv

(* A step that ends the process. *)
LEMMA EndsSInv ==
    ASSUME SInv, ~Running', UNCHANGED <<sock, slots, gRequest, gResponse>>
    PROVE  SInv'
BY DEF SInv, OwnBytes, InterestMatches, Open

-----------------------------------------------------------------------------
(* Connections are accepted. *)

\* What was left of an earlier connection is gone: its descriptor starts with
\* empty buffers.
LEMMA AcceptOneSInv ==
    ASSUME IInv, SInv, NEW s \in Servers, NEW c \in Conns, NEW fd \in Lowest,
           AcceptOne(s, c, fd)
    PROVE  SInv'
<1>1. /\ UNCHANGED <<at, peer, rx, owed, mid, sent, slots, phase, index, gRequest, gResponse>>
      /\ phase = "accept" /\ stage[c] = "queued" /\ at[c] = s
      /\ stage' = [stage EXCEPT ![c] = "open"]
      /\ sock' = [sock EXCEPT ![fd] = c]
      /\ Running /\ Running' /\ TypeOK
  BY DEF IInv, AcceptOne, Backlog, Running
<1>2. fd \in ClientFds /\ fd \notin Open /\ c # NoConn
  BY DEF Lowest, Free, Open
<1>3. index = s /\ index \in DOMAIN slots
  BY <1>1, AcceptingServer DEF IInv, AcceptOne
<1>4. /\ Open' = Open \cup {fd}
      /\ \A other \in Open : sock'[other] = sock[other]
      /\ sock'[fd] = c
  BY <1>1, <1>2 DEF Open, TypeOK, SocketsTypeOK
<1>5. /\ stage'[c] = "open"
      /\ \A d \in Conns \ {c} : stage'[d] = stage[d]
  BY <1>1 DEF TypeOK, SocketsTypeOK
<1>6. /\ Talks(c, {}, 0) /\ Unread(c) /\ peer[c] = "alive"
      /\ gRequest[fd] = {} /\ gResponse[fd].left = 0
  BY <1>1, <1>2 DEF SInv, Accounts
<1>7. OwnBytes'
  BY <1>1, <1>4, <1>6 DEF SInv, OwnBytes
<1>8. Accounts'
  <2>1. ASSUME NEW d \in Conns, stage'[d] \in {"new", "queued"}
        PROVE  (Talks(d, {}, 0) /\ Unread(d) /\ peer[d] = "alive")'
    <3>1. d # c /\ stage'[d] = stage[d]
      BY <1>5, <2>1
    <3> QED
      BY <1>1, <2>1, <3>1 DEF SInv, Accounts, Talks, Unread
  <2>2. ASSUME NEW other \in Open
        PROVE  /\ Talks(sock[other], gRequest[other], gResponse[other].left)'
               /\ peer[sock[other]]' # "alive" =>
                      /\ peer[sock[other]]' = "fin"
                      /\ owed[sock[other]]' = 0 /\ ~mid[sock[other]]'
                      /\ sock'[other] \in Leavers
    BY <1>1, <1>4 DEF SInv, Accounts, Talks
  <2>3. /\ Talks(sock[fd], gRequest[fd], gResponse[fd].left)'
        /\ peer[sock[fd]]' = "alive"
    BY <1>1, <1>4, <1>6 DEF Talks
  <2>4. \A other \in ClientFds \ Open' : gRequest'[other] = {} /\ gResponse'[other].left = 0
    BY <1>1, <1>4 DEF SInv, Accounts
  <2> QED
    BY <1>4, <2>1, <2>2, <2>3, <2>4 DEF Accounts
<1>9. InterestMatches' /\ Interests' /\ Hole' = Hole /\ Ahead' = Ahead /\ Called' = Called
  <2>1. InterestMatches' /\ Hole' = Hole /\ Ahead' = Ahead /\ SlotFds' = SlotFds
    BY <1>1 DEF SInv, InterestMatches, Hole, Ahead, SlotFds
  <2>2. Called' = Called
    BY <1>1, <2>1 DEF Called
  <2> QED
    BY <1>1, <2>1, <2>2 DEF SInv, Interests
<1>10. Listening'
  <2> SUFFICES ASSUME NEW i \in Called PROVE Backlog(slots[i].fd)' # {}
    BY <1>1, <1>9 DEF Listening
  <2>1. i \in DOMAIN slots /\ slots[i].fd \in Servers /\ i # index
    BY <1>1, SlotsType DEF IInv, TypeOK, Called, Ahead
  <2>2. slots[i].fd # s
    BY <1>3, <2>1 DEF IInv, ListenersFirst, Servers
  <2>3. PICK d \in Conns : stage[d] = "queued" /\ at[d] = slots[i].fd
    BY <1>1 DEF SInv, Listening, Backlog
  <2>4. d # c
    BY <1>1, <2>2, <2>3
  <2> QED
    BY <1>1, <1>5, <2>3, <2>4 DEF Backlog
<1>11. Crowd'
  <2>1. \A d \in Conns : Here(d)' <=> Here(d)
    BY <1>1, <1>5 DEF Here
  <2>2. {d \in Conns : Here(d)'} = {d \in Conns : Here(d)}
    BY <2>1
  <2> QED
    BY <1>1, <2>2 DEF SInv, Crowd
<1>12. Leavers # {} => Turns'
  <2> SUFFICES ASSUME Turns PROVE Turns'
    BY <1>1 DEF SInv
  <2>1. LeftFds' = LeftFds /\ AliveFds' = AliveFds \cup {fd}
    BY <1>1, <1>2, <1>4, <1>6 DEF LeftFds, AliveFds
  <2>2. ASSUME NEW other \in AliveFds PROVE Recent(other)'
    <3>1. Recent(other) /\ other \in Open
      BY <1>1 DEF Turns, AliveFds
    <3> QED
      BY <1>1, <1>4, <3>1 DEF Recent, Unread
  <2>3. Recent(fd)'
    <3>1. \A i \in DOMAIN slots : slots[i].fd # fd
      BY <1>1, <1>2 DEF IInv, SlotsCover, SlotFds
    <3> QED
      BY <1>1, <1>4, <1>6, <3>1 DEF Recent, Unread
  <2>4. \A other \in LeftFds : \E i \in Ahead : slots[i].fd = other
    BY <1>1 DEF Turns
  <2> QED
    BY <1>1, <1>9, <2>1, <2>2, <2>3, <2>4 DEF Turns
<1> QED
  BY <1>1, <1>7, <1>8, <1>9, <1>10, <1>11, <1>12 DEF SInv

LEMMA AcceptDoneSInv ==
    ASSUME IInv, IInv', SInv, NEW s \in Servers, AcceptDone(s)
    PROVE  SInv'
<1>1. /\ UNCHANGED <<socketVars, gRequest, gResponse, connected>>
      /\ phase = "accept" /\ phase' \in {"serve", "undefined"} /\ index' = index + 1
      /\ Running /\ TypeOK
  BY DEF IInv, AcceptDone, Running
<1>2. index = s /\ index \in DOMAIN slots /\ previous <= Len(connected[s])
      /\ slots[index].fd \in Servers
  BY <1>1, AcceptingServer DEF IInv, AcceptDone
<1>3. /\ Len(slots) \in Nat /\ DOMAIN slots = 1..Len(slots) /\ Len(slots') \in Nat
      /\ DOMAIN slots' = 1..Len(slots') /\ Len(slots) <= Len(slots') /\ index \in Nat
      /\ \A i \in DOMAIN slots : slots'[i] = slots[i]
      /\ \A i \in (Len(slots) + 1)..Len(slots') :
             slots'[i].events = "in" /\ slots'[i].revents = "none"
  <2>1. /\ Len(slots) \in Nat /\ DOMAIN slots = 1..Len(slots)
        /\ Len(connected[s]) \in Nat /\ previous \in Nat /\ index \in Nat
    BY <1>1, SlotsType, VectorType DEF TypeOK
  <2>2. /\ Len(slots') = Len(slots) + Len(connected[s]) - previous
        /\ DOMAIN slots' = 1..Len(slots')
        /\ \A i \in DOMAIN slots : slots'[i] = slots[i]
        /\ \A i \in (Len(slots) + 1)..Len(slots') :
               slots'[i].events = "in" /\ slots'[i].revents = "none"
    BY <1>1, <1>2, AcceptDoneSlots
  <2> QED
    BY <1>2, <2>1, <2>2
<1>4. ASSUME NEW i \in (Len(slots) + 1)..Len(slots')
      PROVE  /\ slots'[i].fd \in ClientFds
             /\ \A j \in DOMAIN slots : slots[j].fd # slots'[i].fd
  <2>1. slots'[i].fd \in ClientFds
    <3>1. slots'[i].fd = connected[s][previous + i - Len(slots)]
      BY <1>1, <1>2, AcceptDoneSlots
    <3>2. Len(slots') = Len(slots) + Len(connected[s]) - previous
      BY <1>1, <1>2, AcceptDoneSlots
    <3>3. previous \in Nat /\ Len(connected[s]) \in Nat
          /\ connected[s] \in [1..Len(connected[s]) -> ClientFds]
      BY <1>1, VectorType DEF TypeOK
    <3>4. previous + i - Len(slots) \in 1..Len(connected[s])
      BY <1>2, <1>3, <3>2, <3>3
    <3> QED
      BY <3>1, <3>3, <3>4
  <2>2. ASSUME NEW j \in DOMAIN slots, slots[j].fd = slots'[i].fd PROVE FALSE
    <3>1. slots'[j].fd = slots'[i].fd /\ j \in DOMAIN slots' /\ i \in DOMAIN slots' /\ i # j
      BY <1>3, <2>2
    <3>2. slots'[i].fd # Closed
      BY <2>1 DEF ClientFds, Closed
    <3>3. SlotsUnique'
      BY DEF IInv
    <3> QED
      BY <3>1, <3>2, <3>3 DEF SlotsUnique
  <2> QED
    BY <2>1, <2>2
<1>5. ASSUME NEW i \in (Len(slots) + 1)..Len(slots')
      PROVE  gResponse[slots'[i].fd].left = 0
  <2>1. gResponse[slots'[i].fd].left \in Nat
    BY <1>4, Buffers
  <2>2. slots'[i].fd \notin SlotFds
    BY <1>4 DEF SlotFds
  <2> QED
    BY <1>1, <1>4, <2>1, <2>2 DEF SInv, Interests
<1>6. /\ OwnBytes' /\ Accounts' /\ Crowd'
      /\ Open' = Open /\ LeftFds' = LeftFds /\ AliveFds' = AliveFds
  BY <1>1, BuffersKeep
<1>7. InterestMatches'
  <2> SUFFICES ASSUME NEW i \in DOMAIN slots', slots'[i].fd \in ClientFds
               PROVE  slots'[i].events = "out" <=> gResponse[slots'[i].fd].left > 0
    BY <1>1 DEF InterestMatches
  <2>1. CASE i \in DOMAIN slots
    BY <1>1, <1>3, <2>1 DEF SInv, InterestMatches
  <2>2. CASE i \in (Len(slots) + 1)..Len(slots')
    BY <1>3, <1>5, <2>2
  <2> QED
    BY <1>3, <2>1, <2>2
<1>8. CASE phase' = "undefined"
  BY <1>6, <1>7, <1>8 DEF SInv, Running
<1>9. CASE phase' = "serve"
  <2>1. Ahead' = Ahead \ {index}
    <3>1. \A i \in DOMAIN slots' : slots'[i].revents # "none" =>
              i \in DOMAIN slots /\ slots'[i] = slots[i]
      BY <1>3
    <3> QED
      BY <1>1, <1>3, <1>9, <3>1 DEF Ahead
  <2>2. Ahead \subseteq DOMAIN slots
    BY <1>3 DEF IInv, Ahead
  <2>3. Called' \subseteq Called /\ \A i \in Called' : slots'[i] = slots[i]
    BY <1>1, <1>3, <1>9, <2>1, <2>2 DEF Called
  <2>4. Hole' = Hole
    <3>1. \A i \in (Len(slots) + 1)..Len(slots') : slots'[i].fd # Closed
      BY <1>4 DEF ClientFds, Closed
    <3>2. \A i \in DOMAIN slots' : i \in DOMAIN slots \/ i \in (Len(slots) + 1)..Len(slots')
      BY <1>3
    <3>3. \A i \in DOMAIN slots : i \in DOMAIN slots'
      BY <1>3
    <3> QED
      BY <1>3, <3>1, <3>2, <3>3 DEF Hole
  <2>5. Interests'
    <3>1. \A i \in Ahead' : slots'[i].fd \in ClientFds => slots'[i].revents = slots'[i].events
      BY <1>1, <1>3, <2>1, <2>2 DEF SInv, Interests
    <3>2. SlotFds \subseteq SlotFds'
      BY <1>3 DEF SlotFds
    <3>3. \A fd \in ClientFds : gResponse'[fd].left > 0 => fd \in SlotFds'
      BY <1>1, <3>2 DEF SInv, Interests
    <3>4. ASSUME Hole', NEW i \in DOMAIN slots', slots'[i].fd \notin Servers
          PROVE  slots'[i].events = "in"
      <4>1. CASE i \in DOMAIN slots
        BY <1>1, <1>3, <2>4, <3>4, <4>1 DEF SInv, Interests
      <4>2. CASE i \in (Len(slots) + 1)..Len(slots')
        BY <1>3, <4>2
      <4> QED
        BY <1>3, <4>1, <4>2
    <3> QED
      BY <3>1, <3>3, <3>4 DEF Interests
  <2>6. Listening'
    BY <1>1, <2>3 DEF SInv, Listening, Backlog, socketVars
  <2>7. Leavers # {} => Turns'
    <3> SUFFICES ASSUME Turns PROVE Turns'
      BY <1>1 DEF SInv
    <3>1. ASSUME NEW fd \in AliveFds PROVE Recent(fd)'
      <4>1. Recent(fd)
        BY <1>1 DEF Turns
      <4>2. \A i \in DOMAIN slots' : slots'[i].fd = fd => slots'[i].revents = "none"
        <5> SUFFICES ASSUME NEW i \in DOMAIN slots', slots'[i].fd = fd
                     PROVE  slots'[i].revents = "none"
          OBVIOUS
        <5>1. CASE i \in DOMAIN slots
          BY <1>3, <4>1, <5>1 DEF Recent
        <5>2. CASE i \in (Len(slots) + 1)..Len(slots')
          BY <1>3, <5>2
        <5> QED
          BY <1>3, <5>1, <5>2
      <4> QED
        BY <1>1, <4>1, <4>2 DEF Recent, Unread, socketVars
    <3>2. ASSUME NEW fd \in LeftFds PROVE \E i \in Ahead' : slots'[i].fd = fd
      <4>1. PICK i \in Ahead : slots[i].fd = fd
        BY <1>1 DEF Turns
      <4>2. fd \in ClientFds
        BY OpenConns DEF LeftFds
      <4>3. i # index
        BY <1>2, <4>1, <4>2 DEF Servers, ClientFds
      <4> QED
        BY <1>3, <2>1, <2>2, <4>1, <4>3
    <3>3. \A fd, other \in LeftFds : fd = other
      BY DEF Turns
    <3> QED
      BY <1>6, <1>9, <3>1, <3>2, <3>3 DEF Turns
  <2> QED
    BY <1>1, <1>6, <1>7, <2>4, <2>5, <2>6, <2>7 DEF SInv, Running
<1> QED
  BY <1>1, <1>8, <1>9

-----------------------------------------------------------------------------
(* Connections are served. *)

\* Whose turn it is: its client is there, and then nobody has left in this
\* round, or it has left with nothing under way and all others are new.
LEMMA Served ==
    ASSUME OrderlyClients, IInv, SInv, NEW i \in DOMAIN slots, NEW c \in Conns, NEW event,
           event # "none", Serving(i, c, event)
    PROVE  /\ Running /\ phase = "serve" /\ i \in Ahead
           /\ slots[i].fd \in Open /\ slots[i].fd \in ClientFds
           /\ sock[slots[i].fd] = c /\ stage[c] = "open"
           /\ slots[i].events = event /\ event \in {"in", "out"}
           /\ event = "out" <=> gResponse[slots[i].fd].left > 0
           /\ gRequest[slots[i].fd] \subseteq {c}
           /\ Account(owed[c], mid[c], rx[c], gRequest[slots[i].fd], gResponse[slots[i].fd].left)
           /\ peer[c] = "alive" => ~Hole /\ LeftFds = {}
           /\ peer[c] # "alive" =>
                  /\ LeftFds = {slots[i].fd} /\ Leavers # {} /\ peer[c] = "fin"
                  /\ \A fd \in AliveFds : Recent(fd)
<1> DEFINE fd == slots[i].fd
<1>1. /\ fd \in ClientFds /\ sock[fd] = c /\ slots[i].revents = event /\ phase = "serve"
      /\ i \in index..Len(slots) /\ Running /\ TypeOK
  BY ServingSlot DEF IInv, Serving, AtSlot, Running
<1>2. fd \in Open /\ c # NoConn
  BY <1>1 DEF Open
<1>3. stage[c] = "open"
  BY <1>1, <1>2, OpenConns
<1>4. i \in Ahead
  BY <1>1 DEF Ahead
<1>5. slots[i].events = event /\ event \in {"in", "out"}
  BY <1>1, <1>4, ServingSlot DEF SInv, Interests
<1>6. event = "out" <=> gResponse[fd].left > 0
  BY <1>1, <1>5 DEF SInv, InterestMatches
<1>7. gRequest[fd] \subseteq {c}
  BY <1>1, <1>2 DEF SInv, OwnBytes
<1>8. /\ Account(owed[c], mid[c], rx[c], gRequest[fd], gResponse[fd].left)
      /\ peer[c] # "alive" => peer[c] = "fin" /\ c \in Leavers
  BY <1>1, <1>2 DEF SInv, Accounts, Talks
<1>9. ~Recent(fd)
  BY <1>1 DEF Recent
<1>10. ASSUME peer[c] = "alive" PROVE ~Hole /\ LeftFds = {}
  <2>1. fd \in AliveFds
    BY <1>1, <1>2, <1>10 DEF AliveFds, LeftFds
  <2>2. CASE Leavers # {}
    BY <1>1, <1>9, <2>1, <2>2 DEF SInv, Turns
  <2>3. CASE Leavers = {}
    <3>1. LeftFds = {}
      BY <1>1, <2>3, LeftQuiet DEF SInv
    <3> QED
      BY <1>1, <2>3, <3>1 DEF SInv
  <2> QED
    BY <2>2, <2>3
<1>11. ASSUME peer[c] # "alive"
       PROVE  LeftFds = {fd} /\ Leavers # {} /\ \A other \in AliveFds : Recent(other)
  <2>1. fd \in LeftFds /\ Leavers # {}
    BY <1>1, <1>2, <1>8, <1>11 DEF LeftFds
  <2>2. Turns
    BY <1>1, <2>1 DEF SInv
  <2> QED
    BY <1>1, <2>1, <2>2 DEF Turns
<1> QED
  BY <1>1, <1>2, <1>3, <1>4, <1>5, <1>6, <1>7, <1>8, <1>10, <1>11

\* recv() returns 0: the connection of the client that left is closed.
LEMMA ReceiveNothingSInv ==
    ASSUME OrderlyClients, IInv, SInv, NEW i \in DOMAIN slots, NEW c \in Conns,
           ReceiveNothing(i, c)
    PROVE  SInv'
<1> DEFINE fd == slots[i].fd
<1>1. /\ Serving(i, c, "in") /\ peer[c] # "alive" /\ Close(i, c, slots[i].events)
      /\ UNCHANGED <<at, peer, rx, owed, mid, sent, phase, gRequest, gResponse>>
      /\ index' = i + 1 /\ TypeOK
  BY DEF ReceiveNothing, IInv
<1>2. /\ Running /\ phase = "serve" /\ i \in Ahead
      /\ fd \in Open /\ fd \in ClientFds /\ sock[fd] = c /\ stage[c] = "open"
      /\ slots[i].events = "in"
      /\ LeftFds = {fd} /\ Leavers # {} /\ \A other \in AliveFds : Recent(other)
  BY <1>1, Served
<1>3. gRequest[fd] = {} /\ gResponse[fd].left = 0
  BY <1>2, LeftQuiet DEF SInv
<1>4. /\ SameSlots /\ slots'[i].fd = Closed /\ slots'[i].events = "in"
      /\ \A j \in DOMAIN slots \ {i} : slots'[j] = slots[j]
  <2>1. slots'[i].events = "in"
    BY <1>1, <1>2, SlotsType DEF Close, Slot
  <2> QED
    BY <1>1, <1>2, <2>1, CloseSlots
<1>5. /\ Open' = Open \ {fd}
      /\ \A other \in Open' : sock'[other] = sock[other]
      /\ stage'[c] = "gone" /\ \A d \in Conns \ {c} : stage'[d] = stage[d]
  BY <1>1, <1>2 DEF Close, Open, TypeOK, SocketsTypeOK
<1>6. \A other \in Open' : other # fd /\ sock[other] \in Conns /\ sock[other] # c
  BY <1>2, <1>5, OpenConns
<1>7. LeftFds' = {} /\ AliveFds' = AliveFds
  BY <1>1, <1>2, <1>5, <1>6 DEF LeftFds, AliveFds
<1>8. /\ \A j \in Ahead' : j \in Ahead /\ j # i /\ j \in DOMAIN slots /\ slots'[j] = slots[j]
      /\ Called' \subseteq Called
  <2>1. /\ DOMAIN slots = 1..Len(slots) /\ index \in Nat /\ index >= 1 /\ i \in index..Len(slots)
    BY <1>1, SlotsType DEF IInv, TypeOK, Serving, AtSlot
  <2>2. \A j \in Ahead' : j \in Ahead /\ j # i /\ j \in DOMAIN slots /\ slots'[j] = slots[j]
    BY <1>1, <1>2, <1>4, <2>1 DEF Ahead, SameSlots
  <2> QED
    BY <1>1, <1>2, <2>2 DEF Called
<1>9. OwnBytes'
  BY <1>1, <1>5 DEF SInv, OwnBytes
<1>10. InterestMatches'
  BY <1>1, <1>4 DEF SInv, InterestMatches, SameSlots, ClientFds, Closed
<1>11. Accounts'
  <2>1. ASSUME NEW d \in Conns, stage'[d] \in {"new", "queued"}
        PROVE  (Talks(d, {}, 0) /\ Unread(d) /\ peer[d] = "alive")'
    <3>1. stage[d] \in {"new", "queued"}
      BY <1>5, <2>1
    <3> QED
      BY <1>1, <1>2, <3>1 DEF SInv, Accounts, Talks, Unread
  <2>2. ASSUME NEW other \in Open'
        PROVE  /\ Talks(sock[other], gRequest[other], gResponse[other].left)'
               /\ peer[sock[other]]' # "alive" =>
                      /\ peer[sock[other]]' = "fin"
                      /\ owed[sock[other]]' = 0 /\ ~mid[sock[other]]'
                      /\ sock'[other] \in Leavers
    BY <1>1, <1>2, <1>5 DEF SInv, Accounts, Talks
  <2>3. \A other \in ClientFds \ Open' : gRequest'[other] = {} /\ gResponse'[other].left = 0
    BY <1>1, <1>2, <1>3, <1>5 DEF SInv, Accounts
  <2> QED
    BY <2>1, <2>2, <2>3 DEF Accounts
<1>12. Interests'
  <2>1. \A j \in Ahead' : slots'[j].fd \in ClientFds => slots'[j].revents = slots'[j].events
    BY <1>2, <1>8 DEF SInv, Interests
  <2>2. ASSUME NEW other \in ClientFds, gResponse'[other].left > 0
        PROVE  other \in SlotFds'
    <3>1. other # fd
      BY <1>1, <1>3, <2>2
    <3>2. PICK j \in DOMAIN slots : slots[j].fd = other
      BY <1>1, <1>2, <2>2 DEF SInv, Interests, SlotFds
    <3> QED
      BY <1>4, <3>1, <3>2 DEF SlotFds, SameSlots
  <2>3. ASSUME NEW j \in DOMAIN slots, slots'[j].fd \notin Servers
        PROVE  slots'[j].events = "in"
    <3>1. CASE j = i
      BY <1>4, <3>1
    <3>2. CASE j # i /\ slots[j].fd = Closed
      BY <1>2, <1>4, <2>3, <3>2 DEF SInv, Interests, Hole
    <3>3. CASE j # i /\ slots[j].fd # Closed
      <4>1. /\ slots'[j] = slots[j] /\ slots[j].fd \in ClientFds
            /\ slots[j].events \in {"in", "out"}
        BY <1>1, <1>4, <2>3, <3>3, SlotsType DEF Slot
      <4>2. slots[j].fd \in Open /\ slots[j].fd # fd
        BY <1>2, <3>3, <4>1 DEF IInv, SlotsCover, SlotFds, SlotsUnique
      <4>3. Recent(slots[j].fd)
        BY <1>2, <4>2 DEF AliveFds
      <4> QED
        BY <4>1, <4>3 DEF SInv, InterestMatches, Recent
    <3> QED
      BY <3>1, <3>2, <3>3
  <2> QED
    BY <1>4, <2>1, <2>2, <2>3 DEF Interests, SameSlots
<1>13. Listening'
  <2> SUFFICES ASSUME NEW j \in Called' PROVE Backlog(slots[j].fd)' # {}
    BY <1>8 DEF Listening, Called
  <2>1. j \in Called /\ slots'[j] = slots[j]
    BY <1>8 DEF Called
  <2>2. PICK d \in Conns : stage[d] = "queued" /\ at[d] = slots[j].fd
    BY <1>2, <2>1 DEF SInv, Listening, Backlog
  <2> QED
    BY <1>1, <1>2, <1>5, <2>1, <2>2 DEF Backlog
<1>14. Crowd'
  <2>1. {d \in Conns : Here(d)'} = {d \in Conns : Here(d)}
    BY <1>1, <1>5 DEF Here
  <2> QED
    BY <1>2, <2>1 DEF SInv, Crowd
<1>15. Turns'
  <2>1. ASSUME NEW other \in AliveFds PROVE Recent(other)'
    <3>1. Recent(other) /\ other \in Open'
      BY <1>2, <1>5, <2>1 DEF AliveFds
    <3>2. \A j \in DOMAIN slots' : slots'[j].fd = other => j # i /\ slots'[j] = slots[j]
      BY <1>4, <3>1, OpenConns DEF SameSlots, Open, ClientFds, Closed
    <3> QED
      BY <1>1, <1>4, <1>5, <3>1, <3>2 DEF Recent, Unread, SameSlots
  <2> QED
    BY <1>1, <1>2, <1>7, <2>1 DEF Turns
<1> QED
  BY <1>1, <1>2, <1>9, <1>10, <1>11, <1>12, <1>13, <1>14, <1>15 DEF SInv, Running

\* Bytes that complete no request wait in g_request.
LEMMA StoreAccount ==
    ASSUME NEW queue \in Seq(BOOLEAN), NEW n \in 1..Len(queue), \A k \in 1..n : ~queue[k],
           NEW owes, NEW part, NEW kept, NEW more, more # {},
           Account(owes, part, queue, kept, 0)
    PROVE  Account(owes, part, SubSeq(queue, n + 1, Len(queue)), more, 0)
<1> DEFINE rest == SubSeq(queue, n + 1, Len(queue))
<1>1. Len(queue) \in Nat /\ DOMAIN queue = 1..Len(queue) /\ n \in 1..Len(queue)
  BY LenProperties
<1>2. queue # <<>>
  BY <1>1
<1>3. /\ rest \in Seq(BOOLEAN) /\ Len(rest) = Len(queue) - n
      /\ \A k \in 1..(Len(queue) - n) : rest[k] = queue[n + k]
  <2> DEFINE m == Len(queue)
  <2>1. \A k \in (n + 1)..m : queue[k] \in BOOLEAN
    BY <1>1, ElementOfSeq
  <2>2. /\ rest \in Seq(BOOLEAN)
        /\ Len(rest) = IF n + 1 <= m THEN m - (n + 1) + 1 ELSE 0
        /\ \A k \in 1..(m - (n + 1) + 1) : rest[k] = queue[(n + 1) + k - 1]
    BY <1>1, <2>1, SubSeqProperties
  <2>3. m \in Nat /\ n \in 1..m
    BY <1>1
  <2> HIDE DEF m, rest
  <2>4. Len(rest) = m - n /\ m - (n + 1) + 1 = m - n
    BY <2>2, <2>3
  <2>5. ASSUME NEW k \in 1..(m - n) PROVE rest[k] = queue[n + k]
    <3>1. (n + 1) + k - 1 = n + k
      BY <2>3
    <3> QED
      BY <2>2, <2>4, <2>5, <3>1
  <2> QED
    BY <2>2, <2>4, <2>5 DEF m
<1>4. DOMAIN rest = 1..(Len(queue) - n)
  BY <1>3, LenProperties
<1> HIDE DEF rest
<1>5. ASSUME NEW k \in DOMAIN rest, rest[k] PROVE k = Len(rest) /\ owes = 1
  <2>1. n + k \in DOMAIN queue /\ queue[n + k]
    BY <1>1, <1>3, <1>4, <1>5
  <2>2. n + k = Len(queue) /\ owes = 1
    BY <2>1 DEF Account
  <2> QED
    BY <1>1, <1>3, <1>4, <2>2
<1>6. owes = 1 => rest # <<>> /\ rest[Len(rest)]
  <2> SUFFICES ASSUME owes = 1 PROVE rest # <<>> /\ rest[Len(rest)]
    OBVIOUS
  <2>1. queue[Len(queue)]
    BY DEF Account
  <2>2. n < Len(queue)
    BY <1>1, <2>1
  <2>3. Len(rest) \in 1..(Len(queue) - n) /\ n + Len(rest) = Len(queue)
    BY <1>1, <1>3, <2>2
  <2> QED
    BY <1>3, <2>1, <2>3
<1>7. Account(owes, part, rest, more, 0)
  BY <1>2, <1>5, <1>6 DEF Account
<1> QED
  BY <1>7 DEF rest

\* Bytes that complete a request are the last there are.
LEMMA RespondAccount ==
    ASSUME NEW queue \in Seq(BOOLEAN), NEW n \in 1..Len(queue), \E k \in 1..n : queue[k],
           NEW owes, NEW part, NEW kept, NEW chunks \in Nat \ {0},
           Account(owes, part, queue, kept, 0)
    PROVE  Account(owes, part, SubSeq(queue, n + 1, Len(queue)), {}, chunks)
<1>1. Len(queue) \in Nat /\ DOMAIN queue = 1..Len(queue) /\ n \in 1..Len(queue)
  BY LenProperties
<1>2. n = Len(queue) /\ owes = 1
  <2>1. PICK k \in 1..n : queue[k]
    OBVIOUS
  <2> DEFINE m == Len(queue)
  <2>2. k \in DOMAIN queue /\ m \in Nat /\ n \in 1..m
    BY <1>1
  <2>3. k = m /\ owes = 1
    BY <2>1, <2>2 DEF Account
  <2> HIDE DEF m
  <2>4. n = m
    BY <2>2, <2>3
  <2> QED
    BY <2>3, <2>4 DEF m
<1>3. SubSeq(queue, n + 1, Len(queue)) = <<>>
  BY <1>1, <1>2, SubSeqEmpty
<1>4. Account(owes, part, <<>>, {}, chunks)
  BY <1>2 DEF Account
<1> QED
  BY <1>3, <1>4

\* A step that serves a connection whose client is there: nobody has left, so
\* that it is enough to look at its own buffers.
LEMMA ServeSInv ==
    ASSUME OrderlyClients, IInv, SInv, NEW i \in DOMAIN slots, NEW c \in Conns,
           NEW event \in {"in", "out"}, Serving(i, c, event), Touches(i, c),
           peer[c] = "alive", UNCHANGED <<peer, mid, sent>>,
           \A d \in Conns \ {c} : owed'[d] = owed[d],
           \A fd \in ClientFds \ {slots[i].fd} :
               gRequest'[fd] = gRequest[fd] /\ gResponse'[fd] = gResponse[fd],
           gRequest'[slots[i].fd] \subseteq {c},
           gResponse'[slots[i].fd].left > 0 => gResponse'[slots[i].fd].for = {c},
           Account(owed'[c], mid[c], rx'[c], gRequest'[slots[i].fd], gResponse'[slots[i].fd].left),
           slots'[i].events = "out" <=> gResponse'[slots[i].fd].left > 0,
           \A j \in DOMAIN slots \ {i} : slots'[j].events = slots[j].events
    PROVE  SInv'
<1> DEFINE fd == slots[i].fd
<1>1. /\ Running /\ phase = "serve" /\ i \in Ahead
      /\ fd \in Open /\ fd \in ClientFds /\ sock[fd] = c /\ stage[c] = "open"
      /\ ~Hole /\ LeftFds = {}
      /\ TypeOK
  BY Served DEF IInv
<1>2. /\ UNCHANGED <<stage, at, peer, mid, sent, sock, phase>>
      /\ SameSlots /\ index' = i + 1
      /\ \A j \in DOMAIN slots : slots'[j].fd = slots[j].fd /\ slots'[j].revents = slots[j].revents
      /\ \A d \in Conns \ {c} : rx'[d] = rx[d] /\ owed'[d] = owed[d]
  BY DEF Touches
<1>3. \A other \in Open : /\ sock[other] \in Conns
                          /\ other # fd => sock[other] # c
                          /\ other # fd => gRequest'[other] = gRequest[other]
                                           /\ gResponse'[other] = gResponse[other]
  BY <1>1, OpenConns
<1>4. /\ Open' = Open /\ LeftFds' = {} /\ ~Hole' /\ SlotFds' = SlotFds
  BY <1>1, <1>2 DEF Open, LeftFds, Hole, SameSlots, SlotFds
<1>5. /\ \A j \in Ahead' : j \in Ahead /\ j # i /\ j \in DOMAIN slots
      /\ Called' \subseteq Called
  <2>1. /\ DOMAIN slots = 1..Len(slots) /\ index \in Nat /\ index >= 1 /\ i \in index..Len(slots)
    BY <1>1, SlotsType DEF IInv, TypeOK, Serving, AtSlot
  <2>2. \A j \in Ahead' : j \in Ahead /\ j # i /\ j \in DOMAIN slots
    BY <1>1, <1>2, <2>1 DEF Ahead, SameSlots
  <2> QED
    BY <1>1, <1>2, <2>2 DEF Called
<1>6. \A j \in DOMAIN slots : j # i => slots[j].fd # fd
  BY <1>1 DEF IInv, SlotsUnique, ClientFds, Closed
<1>7. OwnBytes'
  BY <1>1, <1>2, <1>3, <1>4 DEF SInv, OwnBytes
<1>8. InterestMatches'
  BY <1>2, <1>6 DEF SInv, InterestMatches, SameSlots
<1>9. Accounts'
  <2>1. ASSUME NEW d \in Conns, stage[d] \in {"new", "queued"}
        PROVE  (Talks(d, {}, 0) /\ Unread(d) /\ peer[d] = "alive")'
    <3>1. d # c
      BY <1>1, <2>1
    <3> QED
      BY <1>1, <1>2, <2>1, <3>1 DEF SInv, Accounts, Talks, Unread
  <2>2. ASSUME NEW other \in Open
        PROVE  /\ Talks(sock[other], gRequest[other], gResponse[other].left)'
               /\ peer[sock[other]] = "alive"
    <3>1. peer[sock[other]] = "alive"
      BY <1>1, <2>2 DEF LeftFds
    <3>2. CASE other = fd
      BY <1>1, <1>2, <3>1, <3>2 DEF Talks
    <3>3. CASE other # fd
      BY <1>1, <1>2, <1>3, <3>1, <3>3 DEF SInv, Accounts, Talks
    <3> QED
      BY <3>2, <3>3
  <2>3. \A other \in ClientFds \ Open : gRequest'[other] = {} /\ gResponse'[other].left = 0
    BY <1>1, <1>3 DEF SInv, Accounts
  <2> QED
    BY <1>2, <1>4, <2>1, <2>2, <2>3 DEF Accounts
<1>10. Interests'
  <2>1. \A j \in Ahead' : slots'[j].fd \in ClientFds => slots'[j].revents = slots'[j].events
    BY <1>1, <1>2, <1>5 DEF SInv, Interests
  <2>2. \A other \in ClientFds : gResponse'[other].left > 0 => other \in SlotFds
    BY <1>1 DEF SInv, Interests, SlotFds
  <2> QED
    BY <1>4, <2>1, <2>2 DEF Interests
<1>11. Listening'
  <2> SUFFICES ASSUME NEW j \in Called' PROVE Backlog(slots[j].fd)' # {}
    BY <1>2, <1>5 DEF Listening, Called
  <2>1. j \in Called /\ slots'[j].fd = slots[j].fd
    BY <1>2, <1>5 DEF Called
  <2> QED
    BY <1>1, <1>2, <2>1 DEF SInv, Listening, Backlog
<1>12. Crowd'
  BY <1>1, <1>2 DEF SInv, Crowd, Here
<1>13. Turns'
  BY <1>1, <1>2, <1>4 DEF Turns
<1> QED
  BY <1>1, <1>2, <1>4, <1>7, <1>8, <1>9, <1>10, <1>11, <1>12, <1>13 DEF SInv, Running

LEMMA StoreSInv ==
    ASSUME OrderlyClients, IInv, SInv, NEW i \in DOMAIN slots, NEW c \in Conns,
           NEW n \in 1..Len(rx[c]), Store(i, c, n)
    PROVE  SInv'
<1> DEFINE fd == slots[i].fd
<1>1. /\ Serving(i, c, "in") /\ Received(i, c, n) /\ TypeOK /\ rx[c] \in Seq(BOOLEAN)
      /\ UNCHANGED <<peer, owed, mid, sent, slots, gResponse>>
      /\ gRequest' = [gRequest EXCEPT ![fd] = @ \cup {c}]
  BY DEF Store, Received, IInv, TypeOK, SocketsTypeOK
<1>2. Touches(i, c)
  BY <1>1 DEF Store, Received, Touches, SameSlots, TypeOK, SocketsTypeOK
<1>3. /\ fd \in ClientFds /\ gRequest[fd] \subseteq {c} /\ ~(gResponse[fd].left > 0)
      /\ slots[i].events = "in" /\ fd \in Open /\ sock[fd] = c /\ Running
      /\ Account(owed[c], mid[c], rx[c], gRequest[fd], gResponse[fd].left)
  BY <1>1, Served
<1>4. gResponse[fd].left = 0
  BY <1>3, Buffers
<1>5. rx[c] # <<>>
  BY <1>1, LenProperties
<1>6. peer[c] = "alive"
  BY <1>3, <1>5, LeftQuiet DEF SInv, LeftFds
<1>7. \A k \in 1..n : ~rx[c][k]
  <2>1. ~Foreign(i, c)
    BY <1>3 DEF Foreign
  <2> QED
    BY <2>1 DEF Store, Complete
<1>8. /\ gRequest'[fd] = gRequest[fd] \cup {c} /\ gRequest'[fd] # {} /\ gRequest'[fd] \subseteq {c}
      /\ \A other \in ClientFds \ {fd} : gRequest'[other] = gRequest[other]
  BY <1>1, <1>3 DEF TypeOK
<1>9. rx'[c] = SubSeq(rx[c], n + 1, Len(rx[c]))
  BY <1>1 DEF Received, TypeOK, SocketsTypeOK
<1>10. Account(owed'[c], mid[c], rx'[c], gRequest'[fd], gResponse'[fd].left)
  <2>1. Account(owed[c], mid[c], SubSeq(rx[c], n + 1, Len(rx[c])), gRequest'[fd], 0)
    BY <1>1, <1>3, <1>4, <1>7, <1>8, StoreAccount
  <2> QED
    BY <1>1, <1>4, <1>9, <2>1
<1> QED
  BY <1>1, <1>2, <1>3, <1>6, <1>8, <1>10, ServeSInv

LEMMA RespondSInv ==
    ASSUME OrderlyClients, IInv, SInv, NEW i \in DOMAIN slots, NEW c \in Conns,
           NEW n \in 1..Len(rx[c]), NEW chunks \in 1..MaxChunks, Respond(i, c, n, chunks)
    PROVE  SInv'
<1> DEFINE fd == slots[i].fd
<1>1. /\ Serving(i, c, "in") /\ Received(i, c, n) /\ TypeOK /\ rx[c] \in Seq(BOOLEAN)
      /\ UNCHANGED <<peer, owed, mid, sent>>
      /\ gRequest' = [gRequest EXCEPT ![fd] = {}]
      /\ gResponse' = [gResponse EXCEPT ![fd] = [for |-> gRequest[fd] \cup {c}, left |-> chunks]]
      /\ slots' = [slots EXCEPT ![i].events = "out"]
  BY DEF Respond, Remaining, Received, IInv, TypeOK, SocketsTypeOK
<1>2. Touches(i, c)
  <2>1. SetsEvents(i)
    BY <1>1, RespondType
  <2> QED
    BY <1>1, <2>1, SetsEventsSlots DEF Respond, Received, Touches, TypeOK, SocketsTypeOK
<1>3. /\ fd \in ClientFds /\ gRequest[fd] \subseteq {c} /\ ~(gResponse[fd].left > 0)
      /\ fd \in Open /\ sock[fd] = c /\ Running
      /\ Account(owed[c], mid[c], rx[c], gRequest[fd], gResponse[fd].left)
  BY <1>1, Served
<1>4. gResponse[fd].left = 0
  BY <1>3, Buffers
<1>5. rx[c] # <<>>
  BY <1>1, LenProperties
<1>6. peer[c] = "alive"
  BY <1>3, <1>5, LeftQuiet DEF SInv, LeftFds
<1>7. \E k \in 1..n : rx[c][k]
  <2>1. ~Foreign(i, c)
    BY <1>3 DEF Foreign
  <2> QED
    BY <2>1 DEF Respond, Complete
<1>8. /\ gRequest'[fd] = {} /\ gResponse'[fd] = [for |-> gRequest[fd] \cup {c}, left |-> chunks]
      /\ \A other \in ClientFds \ {fd} : /\ gRequest'[other] = gRequest[other]
                                         /\ gResponse'[other] = gResponse[other]
  BY <1>1, <1>3 DEF TypeOK
<1>9. gResponse'[fd].for = {c} /\ gResponse'[fd].left = chunks /\ chunks \in Nat \ {0}
  BY <1>3, <1>8
<1>10. rx'[c] = SubSeq(rx[c], n + 1, Len(rx[c]))
  BY <1>1 DEF Received, TypeOK, SocketsTypeOK
<1>11. Account(owed'[c], mid[c], rx'[c], gRequest'[fd], gResponse'[fd].left)
  <2>1. Account(owed[c], mid[c], SubSeq(rx[c], n + 1, Len(rx[c])), {}, chunks)
    BY <1>1, <1>3, <1>4, <1>7, <1>9, RespondAccount
  <2> QED
    BY <1>1, <1>8, <1>9, <1>10, <2>1
<1>12. /\ slots'[i].events = "out"
       /\ \A j \in DOMAIN slots \ {i} : slots'[j].events = slots[j].events
  BY <1>1, SlotsType DEF Slot
<1>13. /\ Serving(i, c, "in") /\ UNCHANGED <<peer, mid, sent>> /\ owed' = owed
       /\ slots'[i].events = "out" <=> gResponse'[fd].left > 0
       /\ gRequest'[fd] \subseteq {c}
       /\ \A other \in ClientFds \ {fd} : /\ gRequest'[other] = gRequest[other]
                                          /\ gResponse'[other] = gResponse[other]
  BY <1>1, <1>8, <1>9, <1>12
<1> QED
  BY <1>2, <1>6, <1>9, <1>11, <1>12, <1>13, ServeSInv

LEMMA SendChunkSInv ==
    ASSUME OrderlyClients, IInv, SInv, NEW i \in DOMAIN slots, NEW c \in Conns, SendChunk(i, c)
    PROVE  SInv'
<1> DEFINE fd == slots[i].fd
           left == gResponse[fd].left - 1
<1>1. /\ Serving(i, c, "out") /\ TypeOK
      /\ UNCHANGED <<rx, mid, sent, gRequest>>
  BY DEF SendChunk, IInv
<1>2. Touches(i, c)
  <2>1. SetsEvents(i)
    BY <1>1, SendChunkType
  <2>2. \A d \in Conns \ {c} : peer'[d] = peer[d] /\ full'[d] = full[d]
    BY <1>1 DEF SendChunk, TypeOK, SocketsTypeOK
  <2> QED
    BY <1>1, <2>1, <2>2, SetsEventsSlots DEF SendChunk, Touches
<1>3. /\ fd \in ClientFds /\ gRequest[fd] \subseteq {c} /\ gResponse[fd].left > 0
      /\ slots[i].events = "out" /\ fd \in Open /\ sock[fd] = c /\ Running
      /\ Account(owed[c], mid[c], rx[c], gRequest[fd], gResponse[fd].left)
  BY <1>1, Served
<1>4. gResponse[fd].left \in Nat /\ left \in Nat /\ gResponse[fd].for = {c}
  BY <1>3, Buffers DEF SInv, OwnBytes
<1>5. peer[c] = "alive"
  BY <1>3, LeftQuiet DEF SInv, LeftFds
<1>6. peer' = peer
  <2>1. peer' = [peer EXCEPT ![c] = peer[c]]
    BY <1>5 DEF SendChunk
  <2> QED
    BY <1>1, <2>1 DEF TypeOK, SocketsTypeOK
<1>7. /\ gResponse'[fd].left = left /\ gResponse'[fd].for = {c}
      /\ \A other \in ClientFds \ {fd} : gResponse'[other] = gResponse[other]
  <2>1. gResponse' = [gResponse EXCEPT ![fd] = [gResponse[fd] EXCEPT !.left = left]]
    BY DEF SendChunk
  <2>2. [gResponse[fd] EXCEPT !.left = left].left = left
        /\ [gResponse[fd] EXCEPT !.left = left].for = {c}
    BY <1>3, <1>4, Buffers DEF Response
  <2> HIDE DEF left
  <2> QED
    BY <1>1, <1>3, <2>1, <2>2 DEF TypeOK
<1>8. /\ slots'[i].events = Interest(left, "out")
      /\ \A j \in DOMAIN slots \ {i} : slots'[j].events = slots[j].events
  <2>1. slots' = [slots EXCEPT ![i].events = Interest(left, slots[i].events)]
    BY DEF SendChunk
  <2> HIDE DEF left
  <2> QED
    BY <1>1, <1>3, <2>1, SlotsType DEF Slot
<1>9. owed[c] = 1 /\ rx[c] = <<>> /\ gRequest[fd] = {} /\ ~mid[c]
  BY <1>3, <1>4 DEF Account
<1>10. /\ owed'[c] = IF left = 0 THEN 0 ELSE 1
       /\ \A d \in Conns \ {c} : owed'[d] = owed[d]
  <2>1. owed' = [owed EXCEPT ![c] = IF left = 0 /\ gResponse[fd].for = {c} /\ owed[c] > 0
                                    THEN owed[c] - 1 ELSE owed[c]]
    BY DEF SendChunk
  <2> HIDE DEF left
  <2> QED
    BY <1>1, <1>4, <1>9, <2>1 DEF TypeOK, SocketsTypeOK
<1>11. Account(owed'[c], mid[c], rx'[c], gRequest'[fd], gResponse'[fd].left)
  <2> HIDE DEF left
  <2>1. Account(IF left = 0 THEN 0 ELSE 1, mid[c], <<>>, {}, left)
    BY <1>4, <1>9 DEF Account
  <2> QED
    BY <1>1, <1>7, <1>9, <1>10, <2>1
<1>12. slots'[i].events = "out" <=> gResponse'[fd].left > 0
  <2> HIDE DEF left
  <2> QED
    BY <1>4, <1>7, <1>8 DEF Interest
<1> QED
  BY <1>1, <1>2, <1>3, <1>5, <1>6, <1>7, <1>8, <1>10, <1>11, <1>12, ServeSInv

\* send() of nothing and to a client that is gone never happen.
LEMMA SendsAnswer ==
    ASSUME OrderlyClients, IInv, SInv, NEW i \in DOMAIN slots, NEW c \in Conns
    PROVE  ~SendNothing(i, c) /\ ~SendFails(i, c) /\ ~SendKills(i, c)
<1>1. ASSUME Serving(i, c, "out")
      PROVE  gResponse[slots[i].fd].left > 0 /\ peer[c] \in {"alive", "fin"}
  BY <1>1, Served
<1> QED
  BY <1>1 DEF SendNothing, SendFails, SendKills

-----------------------------------------------------------------------------
(* The theorems. *)

LEMMA InitSInv == Init => SInv
<1> SUFFICES ASSUME Init PROVE SInv
  OBVIOUS
<1>1. Open = {} /\ phase = "poll" /\ ~Hole
  <2>1. Open = {} /\ phase = "poll"
    BY DEF Init, SocketsInit, Open
  <2>2. DOMAIN slots = Servers /\ \A s \in Servers : slots[s].fd = s
    BY DEF Init
  <2> QED
    BY <2>1, <2>2 DEF Hole, Servers, Closed
<1>2. LeftFds = {} /\ AliveFds = {} /\ Ahead = {} /\ Called = {}
  BY <1>1 DEF LeftFds, AliveFds, Ahead, Called
<1>3. OwnBytes /\ InterestMatches
  BY <1>1 DEF OwnBytes, InterestMatches, Init, Servers, ClientFds
<1>4. Accounts
  <2>1. \A c \in Conns : Talks(c, {}, 0) /\ Unread(c) /\ peer[c] = "alive"
    BY LenProperties DEF Init, SocketsInit, Talks, Account, Unread
  <2>2. \A fd \in ClientFds : gRequest[fd] = {} /\ gResponse[fd].left = 0
    BY DEF Init
  <2> QED
    BY <1>1, <2>1, <2>2 DEF Accounts
<1>5. Interests /\ Listening /\ Turns
  BY <1>1, <1>2 DEF Interests, Listening, Turns, Init
<1>6. Crowd
  <2>1. {c \in Conns : Here(c)} = {}
    BY DEF Init, SocketsInit, Here
  <2> QED
    BY <2>1, FS_EmptySet DEF Crowd
<1> QED
  BY <1>1, <1>3, <1>4, <1>5, <1>6 DEF SInv

LEMMA NextSInv ==
    ASSUME OrderlyClients
    PROVE  IInv /\ SInv /\ [Next]_vars => SInv'
<1> SUFFICES ASSUME IInv, SInv, [Next]_vars PROVE SInv'
  OBVIOUS
<1>1. IInv'
  BY NextInv
<1>2. CASE UNCHANGED vars
  <2>1. Open' = Open /\ LeftFds' = LeftFds /\ AliveFds' = AliveFds /\ Hole' = Hole
        /\ Ahead' = Ahead /\ Called' = Called /\ SlotFds' = SlotFds
    BY <1>2 DEF vars, socketVars, serverVars, Open, LeftFds, AliveFds, Hole, Ahead, Called, SlotFds
  <2>2. OwnBytes' /\ InterestMatches' /\ Running' = Running
    BY <1>2, <2>1 DEF vars, socketVars, serverVars, SInv, OwnBytes, InterestMatches, Running
  <2>3. Accounts => Accounts'
    BY <1>2, <2>1 DEF vars, socketVars, serverVars, Accounts, Talks, Unread
  <2>4. Interests => Interests'
    BY <1>2, <2>1 DEF vars, socketVars, serverVars, Interests
  <2>5. (Listening => Listening') /\ (Crowd => Crowd')
    BY <1>2, <2>1 DEF vars, socketVars, serverVars, Listening, Backlog, Crowd, Here
  <2>6. Turns => Turns'
    BY <1>2, <2>1 DEF vars, socketVars, serverVars, Turns, Recent, Unread
  <2> QED
    BY <2>1, <2>2, <2>3, <2>4, <2>5, <2>6 DEF SInv
<1>3. CASE Interrupt \/ AcceptFails
  <2>1. ~Running' /\ UNCHANGED <<sock, slots, gRequest, gResponse>>
    BY <1>3 DEF Interrupt, AcceptFails, Running, socketVars
  <2> QED
    BY <2>1, EndsSInv
<1>4. ASSUME NEW i \in DOMAIN slots, NEW c \in Conns, NEW n \in 1..Len(rx[c]), PipeFails(i, c, n)
      PROVE  SInv'
  <2>1. ~Running' /\ UNCHANGED <<sock, slots, gRequest, gResponse>>
    BY <1>4 DEF PipeFails, Received, Running
  <2> QED
    BY <2>1, EndsSInv
<1> QED
  BY <1>1, <1>2, <1>3, <1>4, ClientsSInv, PollSInv, StartAcceptSInv, ClearSlotSInv,
     AcceptDoneSInv, AcceptOneSInv, ReceiveNothingSInv, StoreSInv, RespondSInv, SendChunkSInv,
     SendsAnswer, EndRoundSInv, ClearDoneSInv
  DEF Next, ServerStep

\* With orderly clients the accounts of all connections stay right in every
\* behaviour of the event loop.
THEOREM SessionsInvariance ==
    ASSUME OrderlyClients
    PROVE  Spec => [](IInv /\ SInv)
<1>1. Init => IInv /\ SInv
  BY InitInv, InitSInv
<1>2. IInv /\ SInv /\ [Next]_vars => (IInv /\ SInv)'
  BY NextInv, NextSInv
<1> QED
  BY <1>1, <1>2, PTL DEF Spec

\* launchServers asks for POLLOUT exactly where a response is buffered,
\* although clearPoll moves descriptors without their events.
THEOREM InterestFollowsResponse ==
    ASSUME OrderlyClients
    PROVE  Spec => []InterestMatches
<1>1. IInv /\ SInv => InterestMatches
  BY DEF SInv
<1> QED
  BY <1>1, SessionsInvariance, PTL

\* g_request and g_reponse, which are indexed by descriptors and never reset
\* when one is closed, hold bytes of the connection that has it now only.
THEOREM BytesOwn ==
    ASSUME OrderlyClients
    PROVE  Spec => []OwnBytes
<1>1. IInv /\ SInv => OwnBytes
  BY DEF SInv
<1> QED
  BY <1>1, SessionsInvariance, PTL

-----------------------------------------------------------------------------
(* What the clients see: every step is one of HttpSessions or none. *)

Progress == [c \in Conns |-> IF owed[c] = 0 THEN "quiet"
                             ELSE IF Answering(c) THEN "answering" ELSE "asked"]
Left == {c \in Conns : peer[c] # "alive"}
Ended == {c \in Conns : stage[c] = "gone"}

\* A connection is being answered when pieces of a response are buffered for
\* its descriptor.
LEMMA AnsweringAt ==
    ASSUME IInv, NEW fd \in Open
    PROVE  Answering(sock[fd]) <=> gResponse[fd].left > 0
BY OpenConns DEF Answering

LEMMA SessionsStutter ==
    ASSUME \A c \in Conns : owed'[c] = owed[c] /\ Answering(c)' = Answering(c),
           Left' = Left, Ended' = Ended
    PROVE  UNCHANGED Sessions!sessionVars
<1>1. Progress' = Progress
  BY DEF Progress
<1> QED
  BY <1>1 DEF Sessions!sessionVars, Progress, Left, Ended

\* The steps of one connection.
LEMMA SessionsMove ==
    ASSUME NEW c \in Conns, NEW from, NEW to, Progress[c] = from, Progress'[c] = to,
           \A d \in Conns \ {c} : Progress'[d] = Progress[d],
           Left' = Left, Ended' = Ended
    PROVE  Sessions!Move(c, from, to)
<1>1. Progress' = [Progress EXCEPT ![c] = to]
  BY DEF Progress
<1> QED
  BY <1>1 DEF Sessions!Move, Progress, Left, Ended

LEMMA ProgressOf ==
    ASSUME NEW c \in Conns
    PROVE  /\ Progress[c] = IF owed[c] = 0 THEN "quiet"
                            ELSE IF Answering(c) THEN "answering" ELSE "asked"
           /\ Progress'[c] = IF owed'[c] = 0 THEN "quiet"
                             ELSE IF Answering(c)' THEN "answering" ELSE "asked"
BY DEF Progress

\* A step that leaves the sockets' ends, the accounts and the responses.
LEMMA QuietStep ==
    ASSUME UNCHANGED <<owed, peer, stage, sock>>,
           \A fd \in ClientFds : gResponse'[fd].left = gResponse[fd].left
    PROVE  UNCHANGED Sessions!sessionVars
<1>1. Left' = Left /\ Ended' = Ended
  BY DEF Left, Ended
<1>2. \A c \in Conns : Answering(c)' = Answering(c)
  BY DEF Answering, Open
<1> QED
  BY <1>1, <1>2, SessionsStutter

LEMMA ClientsSession ==
    ASSUME OrderlyClients, IInv, SInv, Clients
    PROVE  Sessions!Next \/ UNCHANGED Sessions!sessionVars
<1>1. /\ Running /\ UNCHANGED <<gResponse, slots>> /\ TypeOK
      /\ \E c \in Conns : \/ Connect(c)
                          \/ \E last \in BOOLEAN : SendPart(c, last)
                          \/ Leave(c)
                          \/ Drain(c)
  BY DEF Clients, ClientStep, serverVars, IInv
<1>2. ASSUME NEW c \in Conns, Connect(c) PROVE UNCHANGED Sessions!sessionVars
  <2>1. Left' = Left /\ \A d \in Conns : owed'[d] = owed[d] /\ Answering(d)' = Answering(d)
    BY <1>1, <1>2 DEF Connect, Left, Answering, Open
  <2>2. Ended' = Ended
    BY <1>1, <1>2 DEF Connect, Ended, TypeOK, SocketsTypeOK
  <2> QED
    BY <2>1, <2>2, SessionsStutter
<1>3. ASSUME NEW c \in Conns, NEW last \in BOOLEAN, SendPart(c, last)
      PROVE  Sessions!Next \/ UNCHANGED Sessions!sessionVars
  <2>1. /\ owed[c] = 0 /\ peer[c] = "alive"
        /\ UNCHANGED <<stage, peer, sock>>
        /\ owed'[c] = (IF last THEN 1 ELSE 0)
        /\ \A d \in Conns \ {c} : owed'[d] = owed[d]
    BY <1>1, <1>3 DEF OrderlyClients, SendPart, Here, TypeOK, SocketsTypeOK
  <2>2. /\ Left' = Left /\ Ended' = Ended /\ c \notin Left
        /\ \A d \in Conns : Answering(d)' = Answering(d)
    BY <1>1, <2>1 DEF Left, Ended, Answering, Open
  <2>3. CASE ~last
    BY <2>1, <2>2, <2>3, SessionsStutter
  <2>4. CASE last
    <3>1. ~Answering(c)
      BY <1>1, <2>1 DEF Answering, SInv, Accounts, Talks, Account
    <3>2. /\ Progress[c] = "quiet" /\ Progress'[c] = "asked"
          /\ \A d \in Conns \ {c} : Progress'[d] = Progress[d]
      BY <2>1, <2>2, <2>4, <3>1, ProgressOf
    <3>3. Sessions!Move(c, "quiet", "asked")
      BY <2>2, <3>2, SessionsMove
    <3> QED
      BY <2>2, <3>3 DEF Sessions!Next, Sessions!Ask, Left
  <2> QED
    BY <2>3, <2>4
<1>4. ASSUME NEW c \in Conns, Leave(c) PROVE Sessions!Next
  <2>1. /\ c \in Leavers /\ owed[c] = 0 /\ peer[c] = "alive"
        /\ UNCHANGED <<stage, owed, sock>>
        /\ peer'[c] = "fin" /\ \A d \in Conns \ {c} : peer'[d] = peer[d]
    BY <1>1, <1>4 DEF OrderlyClients, Leave, Here, TypeOK, SocketsTypeOK
  <2>2. Left' = Left \cup {c} /\ c \notin Left /\ Ended' = Ended
    BY <2>1 DEF Left, Ended
  <2>3. Progress' = Progress /\ Progress[c] = "quiet"
    BY <1>1, <2>1 DEF Progress, Answering, Open
  <2>4. Sessions!Leave(c)
    BY <2>1, <2>2, <2>3 DEF Sessions!Leave, Progress, Left, Ended
  <2> QED
    BY <2>4 DEF Sessions!Next
<1>5. ASSUME NEW c \in Conns, Drain(c) PROVE UNCHANGED Sessions!sessionVars
  BY <1>1, <1>5, QuietStep DEF Drain
<1> QED
  BY <1>1, <1>2, <1>3, <1>4, <1>5

LEMMA AcceptOneSession ==
    ASSUME IInv, SInv, NEW s \in Servers, NEW c \in Conns, NEW fd \in Lowest,
           AcceptOne(s, c, fd)
    PROVE  UNCHANGED Sessions!sessionVars
<1>1. /\ UNCHANGED <<peer, owed, gResponse>> /\ stage[c] = "queued"
      /\ stage' = [stage EXCEPT ![c] = "open"]
      /\ sock' = [sock EXCEPT ![fd] = c]
      /\ Running /\ TypeOK
  BY DEF IInv, AcceptOne, Backlog, Running
<1>2. fd \in ClientFds /\ fd \notin Open /\ c # NoConn
  BY DEF Lowest, Free, Open
<1>3. /\ Open' = Open \cup {fd} /\ sock'[fd] = c
      /\ \A other \in Open : sock'[other] = sock[other]
  BY <1>1, <1>2 DEF Open, TypeOK, SocketsTypeOK
<1>4. ~(gResponse[fd].left > 0)
  BY <1>1, <1>2 DEF SInv, Accounts
<1>5. \A d \in Conns : Answering(d)' = Answering(d)
  BY <1>1, <1>2, <1>3, <1>4 DEF Answering
<1>6. Left' = Left /\ Ended' = Ended
  BY <1>1 DEF Left, Ended, TypeOK, SocketsTypeOK
<1> QED
  BY <1>1, <1>5, <1>6, SessionsStutter

LEMMA ReceiveNothingSession ==
    ASSUME OrderlyClients, IInv, SInv, NEW i \in DOMAIN slots, NEW c \in Conns,
           ReceiveNothing(i, c)
    PROVE  Sessions!Next
<1> DEFINE fd == slots[i].fd
<1>1. /\ Serving(i, c, "in") /\ peer[c] # "alive" /\ Close(i, c, slots[i].events)
      /\ UNCHANGED <<peer, owed, gResponse>> /\ TypeOK
  BY DEF ReceiveNothing, IInv
<1>2. /\ fd \in Open /\ fd \in ClientFds /\ sock[fd] = c /\ stage[c] = "open"
      /\ ~(gResponse[fd].left > 0)
  BY <1>1, Served
<1>3. /\ Open' = Open \ {fd}
      /\ \A other \in Open' : sock'[other] = sock[other]
      /\ stage'[c] = "gone" /\ \A d \in Conns \ {c} : stage'[d] = stage[d]
  BY <1>1, <1>2 DEF Close, Open, TypeOK, SocketsTypeOK
<1>4. \A d \in Conns : Answering(d)' = Answering(d)
  BY <1>1, <1>2, <1>3 DEF Answering
<1>5. Progress' = Progress /\ Left' = Left
  BY <1>1, <1>4 DEF Progress, Left
<1>6. c \in Left \ Ended /\ Ended' = Ended \cup {c}
  BY <1>1, <1>2, <1>3 DEF Left, Ended
<1>7. Sessions!End(c)
  BY <1>5, <1>6 DEF Sessions!End, Progress, Left, Ended
<1> QED
  BY <1>7 DEF Sessions!Next

LEMMA RespondSession ==
    ASSUME OrderlyClients, IInv, SInv, NEW i \in DOMAIN slots, NEW c \in Conns,
           NEW n \in 1..Len(rx[c]), NEW chunks \in 1..MaxChunks, Respond(i, c, n, chunks)
    PROVE  Sessions!Next
<1> DEFINE fd == slots[i].fd
<1>1. /\ Serving(i, c, "in") /\ TypeOK /\ rx[c] \in Seq(BOOLEAN)
      /\ UNCHANGED <<stage, peer, owed, sock>>
      /\ gResponse' = [gResponse EXCEPT ![fd] = [for |-> gRequest[fd] \cup {c}, left |-> chunks]]
  BY DEF Respond, Received, IInv, TypeOK, SocketsTypeOK
<1>2. /\ fd \in Open /\ fd \in ClientFds /\ sock[fd] = c /\ gRequest[fd] \subseteq {c}
      /\ ~(gResponse[fd].left > 0)
      /\ Account(owed[c], mid[c], rx[c], gRequest[fd], gResponse[fd].left)
  BY <1>1, Served
<1>3. /\ gResponse'[fd].left > 0
      /\ \A other \in ClientFds \ {fd} : gResponse'[other] = gResponse[other]
  BY <1>1, <1>2 DEF TypeOK
<1>4. owed[c] = 1
  <2>1. \E k \in 1..n : rx[c][k]
    BY <1>2 DEF Respond, Complete, Foreign
  <2>2. DOMAIN rx[c] = 1..Len(rx[c]) /\ Len(rx[c]) \in Nat
    BY <1>1, LenProperties
  <2> QED
    BY <1>2, <2>1, <2>2 DEF Account
<1>5. /\ ~Answering(c) /\ Answering(c)'
      /\ \A d \in Conns \ {c} : Answering(d)' = Answering(d)
  <2>1. ~Answering(c)
    BY <1>2, AnsweringAt
  <2>2. Open' = Open /\ \A other \in Open \ {fd} : gResponse'[other] = gResponse[other]
    BY <1>1, <1>3 DEF Open
  <2>3. Answering(c)'
    BY <1>1, <1>2, <1>3, <2>2 DEF Answering
  <2>4. ASSUME NEW d \in Conns \ {c} PROVE Answering(d)' = Answering(d)
    <3>1. \A other \in Open : sock[other] = d => other # fd
      BY <1>2
    <3> QED
      BY <1>1, <2>2, <3>1 DEF Answering
  <2> QED
    BY <2>1, <2>3, <2>4
<1>6. Left' = Left /\ Ended' = Ended
  BY <1>1 DEF Left, Ended
<1>7. /\ Progress[c] = "asked" /\ Progress'[c] = "answering"
      /\ \A d \in Conns \ {c} : Progress'[d] = Progress[d]
  BY <1>1, <1>4, <1>5, ProgressOf
<1>8. Sessions!Move(c, "asked", "answering")
  BY <1>6, <1>7, SessionsMove
<1> QED
  BY <1>8 DEF Sessions!Next, Sessions!Compose

LEMMA SendChunkSession ==
    ASSUME OrderlyClients, IInv, SInv, NEW i \in DOMAIN slots, NEW c \in Conns, SendChunk(i, c)
    PROVE  Sessions!Next \/ UNCHANGED Sessions!sessionVars
<1> DEFINE fd == slots[i].fd
           left == gResponse[fd].left - 1
<1>1. /\ Serving(i, c, "out") /\ TypeOK /\ UNCHANGED <<stage, sock>>
  BY DEF SendChunk, IInv
<1>2. /\ fd \in Open /\ fd \in ClientFds /\ sock[fd] = c /\ Running
      /\ gResponse[fd].left > 0 /\ gResponse[fd].left \in Nat
      /\ Account(owed[c], mid[c], rx[c], gRequest[fd], gResponse[fd].left)
  BY <1>1, Served, Buffers
<1>3. gResponse[fd].for = {c} /\ owed[c] = 1 /\ peer[c] = "alive" /\ left \in Nat
  <2>1. peer[c] = "alive"
    BY <1>2, LeftQuiet DEF SInv, LeftFds
  <2> QED
    BY <1>2, <2>1 DEF SInv, OwnBytes, Account
<1>4. /\ gResponse'[fd].left = left
      /\ \A other \in ClientFds \ {fd} : gResponse'[other] = gResponse[other]
  <2>1. gResponse' = [gResponse EXCEPT ![fd] = [gResponse[fd] EXCEPT !.left = left]]
    BY DEF SendChunk
  <2>2. [gResponse[fd] EXCEPT !.left = left].left = left
    BY <1>2, Buffers DEF Response
  <2> HIDE DEF left
  <2> QED
    BY <1>1, <1>2, <2>1, <2>2 DEF TypeOK
<1>5. /\ owed'[c] = IF left = 0 THEN 0 ELSE 1
      /\ \A d \in Conns \ {c} : owed'[d] = owed[d]
  <2>1. owed' = [owed EXCEPT ![c] = IF left = 0 /\ gResponse[fd].for = {c} /\ owed[c] > 0
                                    THEN owed[c] - 1 ELSE owed[c]]
    BY DEF SendChunk
  <2> HIDE DEF left
  <2> QED
    BY <1>1, <1>3, <2>1 DEF TypeOK, SocketsTypeOK
<1>6. Left' = Left /\ Ended' = Ended
  <2>1. peer' = [peer EXCEPT ![c] = peer[c]]
    BY <1>3 DEF SendChunk
  <2> QED
    BY <1>1, <2>1 DEF Left, Ended, TypeOK, SocketsTypeOK
<1> HIDE DEF left
<1>7. Open' = Open /\ \A other \in Open \ {fd} : gResponse'[other] = gResponse[other]
  BY <1>1, <1>4 DEF Open
<1>8. Answering(c) /\ (Answering(c)' <=> left > 0)
  <2>1. Answering(c)
    BY <1>2 DEF Answering
  <2>2. \A other \in Open : sock[other] = c => other = fd
    BY <1>2, OpenConns
  <2> QED
    BY <1>1, <1>2, <1>4, <1>7, <2>1, <2>2 DEF Answering
<1>9. ASSUME NEW d \in Conns \ {c} PROVE Answering(d)' = Answering(d)
  <2>1. \A other \in Open : sock[other] = d => other # fd
    BY <1>2
  <2> QED
    BY <1>1, <1>7, <2>1 DEF Answering
<1>10. CASE left = 0
  <2>1. /\ Progress[c] = "answering" /\ Progress'[c] = "quiet"
        /\ \A d \in Conns \ {c} : Progress'[d] = Progress[d]
    BY <1>3, <1>5, <1>8, <1>9, <1>10, ProgressOf
  <2>2. Sessions!Move(c, "answering", "quiet")
    BY <1>6, <2>1, SessionsMove
  <2> QED
    BY <2>2 DEF Sessions!Next, Sessions!Finish
<1>11. CASE left # 0
  <2>1. left > 0 /\ owed'[c] = owed[c]
    BY <1>3, <1>5, <1>11
  <2>2. Answering(c)' = Answering(c)
    BY <1>8, <2>1 DEF Answering
  <2>3. \A d \in Conns : owed'[d] = owed[d] /\ Answering(d)' = Answering(d)
    BY <1>5, <1>9, <2>1, <2>2
  <2> QED
    BY <1>6, <2>3, SessionsStutter
<1> QED
  BY <1>10, <1>11

LEMMA ServerSession ==
    ASSUME OrderlyClients, IInv, SInv, ServerStep
    PROVE  Sessions!Next \/ UNCHANGED Sessions!sessionVars
<1>1. ASSUME \/ Poll
             \/ \E i \in DOMAIN slots : StartAccept(i) \/ ClearSlot(i)
             \/ \E s \in Servers : AcceptDone(s)
             \/ AcceptFails
             \/ \E i \in DOMAIN slots, c \in Conns : \E n \in 1..Len(rx[c]) :
                    Store(i, c, n) \/ PipeFails(i, c, n)
             \/ EndRound
             \/ ClearDone
      PROVE  UNCHANGED Sessions!sessionVars
  <2>1. UNCHANGED <<owed, peer, stage, sock, gResponse>>
    BY <1>1 DEF Poll, StartAccept, ClearSlot, AcceptDone, AcceptFails, Store, Received,
                PipeFails, EndRound, ClearDone, socketVars
  <2> QED
    BY <2>1, QuietStep
<1> QED
  BY <1>1, AcceptOneSession, ReceiveNothingSession, RespondSession, SendChunkSession, SendsAnswer
  DEF ServerStep

\* Every step of the event loop is, for the clients, a request, the start or
\* the end of its response, a departure, the end of a connection whose client
\* left, or nothing.
THEOREM SessionsKept ==
    ASSUME OrderlyClients
    PROVE  Spec => Sessions!SafeSpec
<1>1. Init => Sessions!Init
  <2> SUFFICES ASSUME Init PROVE Sessions!Init
    OBVIOUS
  <2>1. \A c \in Conns : owed[c] = 0 /\ peer[c] = "alive" /\ stage[c] = "new"
    BY DEF Init, SocketsInit
  <2> QED
    BY <2>1 DEF Sessions!Init
<1>2. IInv /\ SInv /\ [Next]_vars => [Sessions!Next]_(Sessions!sessionVars)
  <2> SUFFICES ASSUME IInv, SInv, [Next]_vars
               PROVE  Sessions!Next \/ UNCHANGED Sessions!sessionVars
    OBVIOUS
  <2>1. CASE UNCHANGED vars \/ Interrupt
    <3>1. UNCHANGED <<owed, peer, stage, sock, gResponse>>
      BY <2>1 DEF Interrupt, vars, socketVars, serverVars
    <3> QED
      BY <3>1, QuietStep
  <2> QED
    BY <2>1, ClientsSession, ServerSession DEF Next
<1> QED
  BY <1>1, <1>2, SessionsInvariance, PTL DEF Spec, Sessions!SafeSpec

\* recv() of nothing and send() of nothing close a connection; only the first
\* happens, and only after the client has left.
THEOREM ClosesAfterClients ==
    ASSUME OrderlyClients
    PROVE  Spec => NeverHangsUp
<1>1. ASSUME IInv, SInv, [Next]_vars,
             NEW c \in Conns, stage[c] = "open", stage'[c] = "gone"
      PROVE  peer[c] # "alive"
  <2>1. TypeOK
    BY <1>1 DEF IInv
  <2>2. CASE UNCHANGED stage
    BY <1>1, <2>2
  <2>3. CASE Clients
    BY <1>1, <2>1, <2>3, ClientsFrame
  <2>4. ASSUME NEW s \in Servers, NEW d \in Conns, NEW fd \in Lowest, AcceptOne(s, d, fd)
        PROVE  FALSE
    BY <1>1, <2>1, <2>4 DEF AcceptOne, TypeOK, SocketsTypeOK
  <2>5. ASSUME NEW i \in DOMAIN slots, NEW d \in Conns, ReceiveNothing(i, d)
        PROVE  peer[c] # "alive"
    BY <1>1, <2>1, <2>5 DEF ReceiveNothing, Close, TypeOK, SocketsTypeOK
  <2>6. \/ UNCHANGED stage
        \/ Clients
        \/ \E s \in Servers, d \in Conns, fd \in Lowest : AcceptOne(s, d, fd)
        \/ \E i \in DOMAIN slots, d \in Conns : ReceiveNothing(i, d)
    <3>1. CASE ServerStep
      <4>1. ASSUME \/ Poll
                   \/ \E i \in DOMAIN slots : StartAccept(i) \/ ClearSlot(i)
                   \/ \E s \in Servers : AcceptDone(s)
                   \/ AcceptFails \/ EndRound \/ ClearDone
            PROVE  UNCHANGED stage
        BY <4>1 DEF Poll, StartAccept, ClearSlot, AcceptDone, AcceptFails, EndRound, ClearDone,
                    socketVars
      <4>2. ASSUME NEW i \in DOMAIN slots, NEW d \in Conns,
                   \/ \E n \in 1..Len(rx[d]) :
                          \/ Store(i, d, n)
                          \/ \E chunks \in 1..MaxChunks : Respond(i, d, n, chunks)
                          \/ PipeFails(i, d, n)
                   \/ SendChunk(i, d)
            PROVE  UNCHANGED stage
        BY <4>2 DEF Store, Respond, Received, PipeFails, SendChunk
      <4> QED
        BY <1>1, <3>1, <4>1, <4>2, SendsAnswer DEF ServerStep
    <3>2. CASE UNCHANGED vars \/ Interrupt
      BY <3>2 DEF Interrupt, vars, socketVars
    <3> QED
      BY <1>1, <3>1, <3>2 DEF Next
  <2> QED
    BY <2>2, <2>3, <2>4, <2>5, <2>6
<1>2. IInv /\ SInv /\ [Next]_vars =>
          [\A c \in Conns : stage[c] = "open" /\ stage'[c] = "gone" => peer[c] # "alive"]_vars
  BY <1>1
<1> QED
  BY <1>2, SessionsInvariance, PTL DEF Spec, NeverHangsUp

-----------------------------------------------------------------------------
(* The process ends only as its operator wants. *)

\* The descriptor limit leaves room for every client that is there at once
\* and, when clients leave, for the one that is not yet closed.
RoomForAll ==
    NumServers + Together + (IF Leavers = {} THEN 0 ELSE 1) < MaxFd

\* Every descriptor of a client that is there stands for another one.
LEMMA AliveFdsFew ==
    ASSUME IInv, Crowd
    PROVE  IsFiniteSet(AliveFds) /\ Cardinality(AliveFds) <= Together
<1> DEFINE here == {c \in Conns : Here(c)}
<1>1. IsFiniteSet(here) /\ Cardinality(here) <= Together
  BY DEF Crowd
<1>2. IsFiniteSet(AliveFds)
  <2>1. AliveFds \in SUBSET ClientFds
    BY OpenConns DEF AliveFds
  <2>2. IsFiniteSet(ClientFds)
    BY FS_Interval DEF ClientFds
  <2> QED
    BY <2>1, <2>2, FS_Subset
<1>3. /\ [fd \in AliveFds |-> sock[fd]] \in [AliveFds -> here]
      /\ \A fd, other \in AliveFds : sock[fd] = sock[other] => fd = other
  BY OpenConns DEF AliveFds, LeftFds, Here
<1>4. Cardinality(AliveFds) \in Nat /\ Cardinality(here) \in Nat
  BY <1>1, <1>2, FS_CardinalityType
<1> HIDE DEF here
<1>5. ~(Cardinality(here) < Cardinality(AliveFds))
  <2> SUFFICES ASSUME Cardinality(here) < Cardinality(AliveFds) PROVE FALSE
    OBVIOUS
  <2> DEFINE f == [fd \in AliveFds |-> sock[fd]]
  <2>1. f \in [AliveFds -> here]
    BY <1>3
  <2> HIDE DEF f
  <2>2. \E x, y \in AliveFds : x # y /\ f[x] = f[y]
    BY <1>1, <1>2, <2>1, FS_PigeonHole
  <2> QED
    BY <1>3, <2>2 DEF f
<1> QED
  BY <1>1, <1>2, <1>4, <1>5

LEMMA LeftFdsFew ==
    ASSUME IInv, SInv, Running
    PROVE  /\ IsFiniteSet(LeftFds)
           /\ Cardinality(LeftFds) <= IF Leavers = {} THEN 0 ELSE 1
<1>1. CASE LeftFds = {}
  BY <1>1, FS_EmptySet
<1>2. ASSUME NEW fd \in LeftFds
      PROVE  LeftFds = {fd} /\ Leavers # {}
  <2>1. Leavers # {}
    BY LeftQuiet DEF SInv
  <2> QED
    BY <2>1 DEF SInv, Turns
<1>3. CASE LeftFds # {}
  <2>1. PICK fd \in LeftFds : TRUE
    BY <1>3
  <2>2. LeftFds = {fd} /\ Leavers # {}
    BY <1>2
  <2>3. IsFiniteSet({fd}) /\ Cardinality({fd}) = 1
    BY FS_Singleton
  <2> QED
    BY <2>2, <2>3
<1> QED
  BY <1>1, <1>3

\* accept() finds a free descriptor.
LEMMA RoomLeft ==
    ASSUME IInv, SInv, Running, pipes = {}, RoomForAll
    PROVE  Free # {}
<1> SUFFICES ASSUME Free = {} PROVE FALSE
  OBVIOUS
<1>1. ClientFds = AliveFds \cup LeftFds
  BY OpenConns DEF Free, Open, AliveFds, LeftFds
<1> DEFINE clients == Cardinality(ClientFds)
           alive == Cardinality(AliveFds)
           left == Cardinality(LeftFds)
<1>2. clients = MaxFd - NumServers
  BY FS_Interval DEF ClientFds
<1>3. IsFiniteSet(AliveFds) /\ alive <= Together /\ alive \in Nat
  BY AliveFdsFew, FS_CardinalityType DEF SInv
<1>4. IsFiniteSet(LeftFds) /\ left <= (IF Leavers = {} THEN 0 ELSE 1) /\ left \in Nat
  BY LeftFdsFew, FS_CardinalityType
<1>5. clients <= alive + left
  <2>1. /\ IsFiniteSet(AliveFds \cap LeftFds)
        /\ clients = alive + left - Cardinality(AliveFds \cap LeftFds)
    BY <1>1, <1>3, <1>4, FS_Union, FS_Intersection
  <2>2. Cardinality(AliveFds \cap LeftFds) \in Nat
    BY <2>1, FS_CardinalityType
  <2> QED
    BY <1>3, <1>4, <2>1, <2>2
<1> HIDE DEF clients, alive, left
<1> QED
  BY <1>2, <1>3, <1>4, <1>5 DEF RoomForAll

\* "Your server should never die": it does not, as long as clients are orderly,
\* descriptors and slots suffice for all of them, no CGI script takes
\* descriptors for good and nobody presses Ctrl-C.
THEOREM LivesOn ==
    ASSUME OrderlyClients, RoomForAll, MaxFd <= PollFdSize, Cgis = {}, ~CtrlC
    PROVE  Spec => []NeverDies
<1> DEFINE Living == Running /\ pipes = {}
<1>1. Init => Living
  BY DEF Init, Running
<1>2. IInv /\ SInv /\ WritesInsideArray' /\ Living /\ [Next]_vars => Living'
  <2> SUFFICES ASSUME IInv, SInv, WritesInsideArray', Running, pipes = {}, [Next]_vars
               PROVE  Running' /\ pipes' = {}
    OBVIOUS
  <2>1. CASE Clients \/ UNCHANGED vars
    BY <2>1 DEF Clients, vars, serverVars, Running
  <2>2. ~Interrupt
    BY DEF Interrupt
  <2>3. ~AcceptFails
    BY RoomLeft DEF AcceptFails
  <2>4. ASSUME NEW i \in DOMAIN slots, NEW c \in Conns
        PROVE  ~SendKills(i, c) /\ ~SendNothing(i, c) /\ ~SendFails(i, c)
               /\ \A n \in 1..Len(rx[c]) : ~PipeFails(i, c, n)
    BY SendsAnswer DEF PipeFails
  <2>5. ASSUME \/ Poll \/ EndRound \/ ClearDone
               \/ \E i \in DOMAIN slots : StartAccept(i) \/ ClearSlot(i)
               \/ \E s \in Servers, c \in Conns, fd \in Lowest : AcceptOne(s, c, fd)
        PROVE  Running' /\ pipes' = {}
    BY <2>5 DEF Poll, EndRound, ClearDone, StartAccept, ClearSlot, AcceptOne, Running
  <2>6. ASSUME NEW s \in Servers, AcceptDone(s) PROVE Running' /\ pipes' = {}
    BY <2>6 DEF AcceptDone, WritesInsideArray, Running
  <2>7. ASSUME NEW i \in DOMAIN slots, NEW c \in Conns,
               \/ ReceiveNothing(i, c)
               \/ \E n \in 1..Len(rx[c]) :
                      Store(i, c, n) \/ \E chunks \in 1..MaxChunks : Respond(i, c, n, chunks)
               \/ SendChunk(i, c)
        PROVE  Running' /\ pipes' = {}
    BY <2>7 DEF ReceiveNothing, Store, Respond, SendChunk, Running
  <2> QED
    BY <2>1, <2>2, <2>3, <2>4, <2>5, <2>6, <2>7 DEF Next, ServerStep
<1>3. Living => NeverDies
  BY DEF NeverDies
<1>4. Spec => [](IInv /\ SInv)
  BY SessionsInvariance
<1>5. Spec => []WritesInsideArray
  BY NeverUndefined
<1> HIDE DEF Living
<1> QED
  BY <1>1, <1>2, <1>3, <1>4, <1>5, PTL DEF Spec
=============================================================================
