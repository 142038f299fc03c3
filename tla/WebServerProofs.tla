--------------------------- MODULE WebServerProofs ---------------------------
(***************************************************************************)
(* Proofs about WebServer, for any clients, any number of listening        *)
(* sockets and any descriptor limit.                                       *)
(***************************************************************************)
EXTENDS WebServer, SequenceTheorems, FiniteSetTheorems, TLAPS

USE SocketsAssumption, WebServerAssumption

-----------------------------------------------------------------------------
(* Sequences. *)

\* Shifting the tail of a sequence over position p yields a sequence.
LEMMA ShiftType ==
    ASSUME NEW S, NEW n \in Nat, NEW t \in [1..n -> S]
    PROVE  t \in Seq(S) /\ Len(t) = n /\ DOMAIN t = 1..n
OBVIOUS

\* A client that writes leaves something to read.
LEMMA AppendNotEmpty ==
    ASSUME NEW S, NEW s \in Seq(S), NEW e \in S
    PROVE  Append(s, e) # <<>>
BY AppendProperties

\* What eraseClientSocketFD leaves of a vector is a vector.
LEMMA EraseType ==
    ASSUME TypeOK, NEW s \in Servers, NEW fd
    PROVE  Erase(s, fd) \in Seq(ClientFds)
<1> DEFINE v == connected[s]
           n == Len(v)
           p == CHOOSE k \in 1..n : v[k] = fd
<1>1. v \in Seq(ClientFds) /\ n \in Nat /\ v \in [1..n -> ClientFds]
  BY LenProperties DEF TypeOK
<1>2. CASE \E k \in 1..n : v[k] = fd
  <2>1. p \in 1..n
    BY <1>2
  <2>2. [k \in 1..(n - 1) |-> v[IF k < p THEN k ELSE k + 1]] \in [1..(n - 1) -> ClientFds]
    BY <1>1, <2>1
  <2>3. n - 1 \in Nat
    BY <1>1, <2>1
  <2> QED
    BY <1>2, <2>2, <2>3, ShiftType, <1>1 DEF Erase
<1>3. CASE ~\E k \in 1..n : v[k] = fd
  BY <1>1, <1>3 DEF Erase
<1> QED
  BY <1>2, <1>3

\* The slots after a change of one of them.
LEMMA UpdateSlot ==
    ASSUME TypeOK, NEW i \in DOMAIN slots, NEW slot \in Slot
    PROVE  /\ [slots EXCEPT ![i] = slot] \in Seq(Slot)
           /\ Len([slots EXCEPT ![i] = slot]) = Len(slots)
           /\ DOMAIN [slots EXCEPT ![i] = slot] = DOMAIN slots
           /\ \A j \in DOMAIN slots :
                  [slots EXCEPT ![i] = slot][j] = IF j = i THEN slot ELSE slots[j]
<1>1. slots \in Seq(Slot) /\ DOMAIN slots = 1..Len(slots)
  BY LenProperties DEF TypeOK
<1> QED
  BY <1>1, ExceptSeq, LenProperties

\* Compact removes a slot.
LEMMA CompactType ==
    ASSUME TypeOK, NEW i \in DOMAIN slots
    PROVE  /\ Compact(i) \in Seq(Slot)
           /\ Len(Compact(i)) = Len(slots) - 1
           /\ DOMAIN Compact(i) = 1..(Len(slots) - 1)
           /\ \A j \in 1..(Len(slots) - 1) :
                  /\ Compact(i)[j].fd = slots[IF j < i THEN j ELSE j + 1].fd
                  /\ Compact(i)[j].events = slots[j].events
<1>1. slots \in [1..Len(slots) -> Slot] /\ Len(slots) \in Nat /\ DOMAIN slots = 1..Len(slots)
  BY LenProperties DEF TypeOK
<1>2. Compact(i) \in [1..(Len(slots) - 1) -> Slot]
  <2>1. ASSUME NEW j \in 1..(Len(slots) - 1)
        PROVE  (IF j < i THEN slots[j] ELSE [slots[j] EXCEPT !.fd = slots[j + 1].fd]) \in Slot
    <3>1. slots[j] \in Slot /\ slots[j + 1] \in Slot
      BY <1>1
    <3> QED
      BY <3>1 DEF Slot
  <2> QED
    BY <2>1, Zenon DEF Compact
<1>3. Len(slots) - 1 \in Nat
  BY <1>1
<1>4. \A j \in 1..(Len(slots) - 1) :
          /\ Compact(i)[j].fd = slots[IF j < i THEN j ELSE j + 1].fd
          /\ Compact(i)[j].events = slots[j].events
  BY <1>1 DEF Compact, Slot
<1>5. /\ Compact(i) \in Seq(Slot)
      /\ Len(Compact(i)) = Len(slots) - 1
      /\ DOMAIN Compact(i) = 1..(Len(slots) - 1)
  <2> HIDE DEF Compact
  <2> QED
    BY <1>2, <1>3, ShiftType
<1> QED
  BY <1>4, <1>5

\* NewSlots has one slot for each descriptor after the first previous ones.
LEMMA NewSlotsType ==
    ASSUME TypeOK, NEW s \in Servers, previous <= Len(connected[s])
    PROVE  /\ NewSlots(s) \in Seq(Slot)
           /\ Len(NewSlots(s)) = Len(connected[s]) - previous
           /\ \A k \in 1..(Len(connected[s]) - previous) :
                  /\ NewSlots(s)[k].fd = connected[s][previous + k]
                  /\ NewSlots(s)[k].events = "in"
                  /\ NewSlots(s)[k].revents = "none"
<1>1. /\ connected[s] \in [1..Len(connected[s]) -> ClientFds]
      /\ Len(connected[s]) \in Nat /\ previous \in Nat
  BY LenProperties DEF TypeOK
<1>2. NewSlots(s) \in [1..(Len(connected[s]) - previous) -> Slot]
  BY <1>1 DEF NewSlots, Slot, Events
<1>3. Len(connected[s]) - previous \in Nat
  BY <1>1
<1>4. \A k \in 1..(Len(connected[s]) - previous) :
          /\ NewSlots(s)[k].fd = connected[s][previous + k]
          /\ NewSlots(s)[k].events = "in"
          /\ NewSlots(s)[k].revents = "none"
  BY <1>1 DEF NewSlots
<1> QED
  BY <1>2, <1>3, <1>4, ShiftType
-----------------------------------------------------------------------------
(* Type correctness. *)

LEMMA SlotsType ==
    TypeOK => /\ slots \in Seq(Slot)
              /\ slots \in [1..Len(slots) -> Slot]
              /\ Len(slots) \in Nat
              /\ DOMAIN slots = 1..Len(slots)
BY LenProperties DEF TypeOK

LEMMA VectorType ==
    TypeOK => \A s \in Servers : /\ connected[s] \in Seq(ClientFds)
                                 /\ connected[s] \in [1..Len(connected[s]) -> ClientFds]
                                 /\ Len(connected[s]) \in Nat
                                 /\ DOMAIN connected[s] = 1..Len(connected[s])
BY LenProperties DEF TypeOK

LEMMA InitType == Init => TypeOK
<1> SUFFICES ASSUME Init PROVE TypeOK
  OBVIOUS
<1>1. SocketsTypeOK
  BY DEF Init, SocketsInit, SocketsTypeOK, Stages, Peers, Servers
<1>2. slots \in Seq(Slot)
  <2>1. slots \in [1..NumServers -> Slot]
    BY DEF Init, Slot, Events, Servers
  <2> QED
    BY <2>1, ShiftType
<1>3. connected \in [Servers -> Seq(ClientFds)]
  BY EmptySeq DEF Init
<1>4. gResponse \in [ClientFds -> Response]
  BY DEF Init, Response
<1> QED
  BY <1>1, <1>2, <1>3, <1>4 DEF Init, TypeOK, Phases

LEMMA ClientsType == TypeOK /\ Clients => TypeOK'
<1> SUFFICES ASSUME TypeOK, Clients PROVE SocketsTypeOK'
  BY DEF TypeOK, Clients, serverVars
<1> USE DEF SocketsTypeOK, Stages, Peers
<1>1. PICK c \in Conns : \/ Connect(c)
                         \/ \E last \in BOOLEAN : SendPart(c, last)
                         \/ Leave(c)
                         \/ Drain(c)
  BY DEF Clients, ClientStep
<1>2. CASE Connect(c)
  BY <1>2 DEF TypeOK, Connect
<1>3. ASSUME NEW last \in BOOLEAN, SendPart(c, last) PROVE SocketsTypeOK'
  <2>1. rx' \in [Conns -> Seq(BOOLEAN)]
    BY <1>3, AppendProperties DEF TypeOK, SendPart
  <2> QED
    BY <1>3, <2>1 DEF TypeOK, SendPart
<1>4. CASE Leave(c)
  BY <1>4 DEF TypeOK, Leave
<1>5. CASE Drain(c)
  BY <1>5 DEF TypeOK, Drain
<1> QED
  BY <1>1, <1>2, <1>3, <1>4, <1>5

-----------------------------------------------------------------------------
(* What the actions do to the slots. *)

\* All that the server's steps other than accepting and compacting do: the
\* slots stay where they are.
SameSlots == Len(slots') = Len(slots) /\ DOMAIN slots' = DOMAIN slots

LEMMA PollSlots ==
    ASSUME TypeOK, Poll
    PROVE  /\ slots' \in Seq(Slot) /\ SameSlots
           /\ \A i \in DOMAIN slots :
                  /\ slots'[i].fd = slots[i].fd
                  /\ slots'[i].events = slots[i].events
                  /\ slots'[i].revents = IF Ready(slots[i]) THEN slots[i].events ELSE "none"
<1>1. slots' = [i \in DOMAIN slots |->
                   [slots[i] EXCEPT !.revents = IF Ready(slots[i])
                                                THEN slots[i].events ELSE "none"]]
  BY DEF Poll
<1>2. slots' \in [1..Len(slots) -> Slot]
  BY <1>1, SlotsType DEF Slot, Events
<1>3. slots' \in Seq(Slot) /\ SameSlots
  BY <1>2, SlotsType, ShiftType DEF SameSlots
<1>4. ASSUME NEW i \in DOMAIN slots
      PROVE  /\ slots'[i].fd = slots[i].fd
             /\ slots'[i].events = slots[i].events
             /\ slots'[i].revents = IF Ready(slots[i]) THEN slots[i].events ELSE "none"
  BY <1>1, <1>4, SlotsType DEF Slot
<1> QED
  BY <1>3, <1>4

LEMMA CloseSlots ==
    ASSUME TypeOK, NEW i \in DOMAIN slots, NEW c, NEW events \in {"in", "out"},
           Close(i, c, events)
    PROVE  /\ slots' \in Seq(Slot) /\ SameSlots
           /\ slots'[i].fd = Closed
           /\ \A j \in DOMAIN slots \ {i} : slots'[j] = slots[j]
<1> DEFINE slot == [slots[i] EXCEPT !.fd = Closed, !.events = events]
<1>1. slot \in Slot /\ slot.fd = Closed
  BY SlotsType DEF Slot, Closed
<1>2. slots' = [slots EXCEPT ![i] = slot]
  BY DEF Close
<1> HIDE DEF slot
<1> QED
  BY <1>1, <1>2, UpdateSlot DEF SameSlots

\* A step that only sets events in slot i.
SetsEvents(i) ==
    \E events \in {"in", "out"} : slots' = [slots EXCEPT ![i].events = events]

LEMMA SetsEventsSlots ==
    ASSUME TypeOK, NEW i \in DOMAIN slots, SetsEvents(i)
    PROVE  /\ slots' \in Seq(Slot) /\ SameSlots
           /\ \A j \in DOMAIN slots : /\ slots'[j].fd = slots[j].fd
                                      /\ slots'[j].revents = slots[j].revents
<1>1. PICK events \in {"in", "out"} : slots' = [slots EXCEPT ![i].events = events]
  BY DEF SetsEvents
<1> DEFINE slot == [slots[i] EXCEPT !.events = events]
<1>2. slot \in Slot /\ slot.fd = slots[i].fd /\ slot.revents = slots[i].revents
  BY SlotsType DEF Slot
<1>3. slots' = [slots EXCEPT ![i] = slot]
  BY <1>1
<1> HIDE DEF slot
<1> QED
  BY <1>2, <1>3, UpdateSlot DEF SameSlots

LEMMA AcceptDoneSlots ==
    ASSUME TypeOK, NEW s \in Servers, previous <= Len(connected[s]), AcceptDone(s)
    PROVE  /\ slots' \in Seq(Slot)
           /\ Len(slots') = Len(slots) + Len(connected[s]) - previous
           /\ DOMAIN slots' = 1..Len(slots')
           /\ \A i \in DOMAIN slots : slots'[i] = slots[i]
           /\ \A i \in (Len(slots) + 1)..Len(slots') :
                  /\ slots'[i].fd = connected[s][previous + i - Len(slots)]
                  /\ slots'[i].events = "in"
                  /\ slots'[i].revents = "none"
<1>1. slots' = slots \o NewSlots(s)
  BY DEF AcceptDone
<1>2. /\ Len(slots) \in Nat /\ Len(connected[s]) \in Nat /\ previous \in Nat
      /\ slots \in Seq(Slot) /\ DOMAIN slots = 1..Len(slots)
  BY SlotsType, VectorType DEF TypeOK
<1>3. /\ slots' \in Seq(Slot)
      /\ Len(slots') = Len(slots) + Len(NewSlots(s))
      /\ \A i \in 1..(Len(slots) + Len(NewSlots(s))) :
             slots'[i] = IF i <= Len(slots) THEN slots[i] ELSE NewSlots(s)[i - Len(slots)]
  BY <1>1, <1>2, NewSlotsType, ConcatProperties
<1>4. DOMAIN slots' = 1..Len(slots')
  BY <1>3, LenProperties
<1>5. ASSUME NEW i \in (Len(slots) + 1)..Len(slots')
      PROVE  /\ slots'[i].fd = connected[s][previous + i - Len(slots)]
             /\ slots'[i].events = "in"
             /\ slots'[i].revents = "none"
  <2>1. i - Len(slots) \in 1..(Len(connected[s]) - previous)
    BY <1>2, <1>3, NewSlotsType
  <2>2. slots'[i] = NewSlots(s)[i - Len(slots)]
    BY <1>2, <1>3, <2>1, NewSlotsType
  <2>3. previous + (i - Len(slots)) = previous + i - Len(slots)
    BY <1>2
  <2> QED
    BY <2>1, <2>2, <2>3, NewSlotsType
<1>6. Len(slots') = Len(slots) + Len(connected[s]) - previous
  <2>1. Len(NewSlots(s)) = Len(connected[s]) - previous
    BY NewSlotsType
  <2> QED
    BY <1>2, <1>3, <2>1
<1>7. \A i \in DOMAIN slots : slots'[i] = slots[i]
  <2>1. Len(NewSlots(s)) \in Nat
    BY <1>2, NewSlotsType
  <2> QED
    BY <1>2, <1>3, <2>1
<1> QED
  BY <1>3, <1>4, <1>5, <1>6, <1>7

-----------------------------------------------------------------------------
(* Each step of the server preserves the types. *)

LEMMA AcceptingServer ==
    ASSUME TypeOK, ListenersFirst, Accepting, phase = "accept"
    PROVE  /\ index \in Servers /\ index \in DOMAIN slots
           /\ slots[index].fd = index
           /\ previous <= Len(connected[index])
BY SlotsType DEF ListenersFirst, Accepting, Servers

LEMMA ServingSlot ==
    ASSUME TypeOK, NEW i \in DOMAIN slots, NEW c \in Conns, NEW event, Serving(i, c, event)
    PROVE  /\ slots[i].fd \in ClientFds
           /\ sock[slots[i].fd] = c
           /\ slots[i].events \in {"in", "out"}
<1>1. PICK s \in Servers : slots[i].fd \in Vector(s)
  BY DEF Serving
<1>2. slots[i].fd \in ClientFds
  BY <1>1, VectorType DEF Vector
<1> QED
  BY <1>2, SlotsType DEF Serving, Slot

LEMMA CloseType ==
    ASSUME TypeOK, NEW i \in DOMAIN slots, NEW c \in Conns, NEW events \in {"in", "out"},
           Close(i, c, events),
           index' = i + 1,
           UNCHANGED <<at, peer, rx, full, owed, mid, sent, phase, previous,
                       gRequest, gResponse, pipes>>
    PROVE  TypeOK'
<1>1. slots' \in Seq(Slot)
  BY CloseSlots
<1>2. connected' \in [Servers -> Seq(ClientFds)]
  BY EraseType DEF Close
<1>3. SocketsTypeOK'
  BY DEF Close, TypeOK, SocketsTypeOK, Stages
<1>4. index' \in Nat
  BY SlotsType
<1>5. compress' \in BOOLEAN
  BY DEF Close
<1> QED
  BY <1>1, <1>2, <1>3, <1>4, <1>5 DEF TypeOK

LEMMA ReceivedType ==
    ASSUME TypeOK, NEW i \in DOMAIN slots, NEW c \in Conns, NEW n \in 1..Len(rx[c]),
           Received(i, c, n)
    PROVE  SocketsTypeOK' /\ index' \in Nat
<1>1. rx[c] \in Seq(BOOLEAN) /\ Len(rx[c]) \in Nat
  BY DEF TypeOK, SocketsTypeOK
<1>2. SubSeq(rx[c], n + 1, Len(rx[c])) \in Seq(BOOLEAN)
  <2>1. \A k \in (n + 1)..Len(rx[c]) : rx[c][k] \in BOOLEAN
    BY <1>1, ElementOfSeq
  <2>2. n + 1 \in Int /\ Len(rx[c]) \in Int
    BY <1>1
  <2> QED
    BY <2>1, <2>2, SubSeqProperties
<1>3. rx' \in [Conns -> Seq(BOOLEAN)]
  BY <1>2 DEF Received, TypeOK, SocketsTypeOK
<1> QED
  BY <1>3, SlotsType, SMTT(30) DEF Received, TypeOK, SocketsTypeOK

LEMMA StoreType ==
    ASSUME TypeOK, NEW i \in DOMAIN slots, NEW c \in Conns, NEW n \in 1..Len(rx[c]),
           Store(i, c, n)
    PROVE  TypeOK'
<1>1. SocketsTypeOK' /\ index' \in Nat
  BY ReceivedType DEF Store
<1>2. gRequest' \in [ClientFds -> SUBSET Conns]
  BY DEF Store, TypeOK
<1> QED
  BY <1>1, <1>2 DEF Store, Received, TypeOK

LEMMA RespondType ==
    ASSUME TypeOK, NEW i \in DOMAIN slots, NEW c \in Conns, NEW n \in 1..Len(rx[c]),
           NEW chunks \in 1..MaxChunks, Respond(i, c, n, chunks)
    PROVE  TypeOK' /\ SetsEvents(i)
<1>1. SocketsTypeOK' /\ index' \in Nat
  BY ReceivedType DEF Respond
<1>2. slots[i].fd \in ClientFds
  BY ServingSlot DEF Respond, Received
<1>3. gRequest' \in [ClientFds -> SUBSET Conns]
  BY <1>2 DEF Respond, Remaining, TypeOK
<1>4. gResponse' \in [ClientFds -> Response]
  <2>1. [for |-> gRequest[slots[i].fd] \cup {c}, left |-> chunks] \in Response
    BY <1>2 DEF Response, TypeOK
  <2> QED
    BY <2>1 DEF Respond, TypeOK
<1>5. pipes' \subseteq ClientFds
  <2>1. RunsScript => pipes' = pipes \/ \E fd \in Free : pipes' = pipes \cup {fd}
    BY DEF RunsScript
  <2> QED
    BY <2>1 DEF Respond, TypeOK, Free
<1>6. SetsEvents(i)
  BY DEF Respond, SetsEvents
<1>7. slots' \in Seq(Slot)
  BY <1>6, SetsEventsSlots
<1> QED
  BY <1>1, <1>3, <1>4, <1>5, <1>6, <1>7 DEF Respond, Received, TypeOK

LEMMA SendChunkType ==
    ASSUME TypeOK, NEW i \in DOMAIN slots, NEW c \in Conns, SendChunk(i, c)
    PROVE  TypeOK' /\ SetsEvents(i)
<1>1. slots[i].fd \in ClientFds /\ slots[i].events \in {"in", "out"}
  BY ServingSlot DEF SendChunk
<1> DEFINE left == gResponse[slots[i].fd].left - 1
<1>2. left \in 0..MaxChunks
  BY <1>1 DEF SendChunk, TypeOK, Response
<1>3. gResponse' \in [ClientFds -> Response]
  <2>1. gResponse \in [ClientFds -> Response]
    BY DEF TypeOK
  <2>2. [gResponse[slots[i].fd] EXCEPT !.left = left] \in Response
    <3>1. gResponse[slots[i].fd] \in Response
      BY <1>1, <2>1
    <3> HIDE DEF left
    <3> QED
      BY <1>2, <3>1 DEF Response
  <2>3. gResponse' = [gResponse EXCEPT ![slots[i].fd] = [gResponse[slots[i].fd] EXCEPT !.left = left]]
    BY <1>1, <2>1 DEF SendChunk
  <2> HIDE DEF left
  <2> QED
    BY <1>1, <2>1, <2>2, <2>3
<1>4. SetsEvents(i)
  <2>1. slots' = [slots EXCEPT ![i].events = Interest(left, slots[i].events)]
    BY DEF SendChunk
  <2>2. Interest(left, slots[i].events) \in {"in", "out"}
    BY <1>1 DEF Interest
  <2> QED
    BY <2>1, <2>2 DEF SetsEvents
<1>5. slots' \in Seq(Slot)
  BY <1>4, SetsEventsSlots
<1>6. owed' \in [Conns -> Nat]
  BY SMTT(30) DEF SendChunk, TypeOK, SocketsTypeOK
<1>7. full' \in [Conns -> BOOLEAN] /\ peer' \in [Conns -> Peers]
  BY DEF SendChunk, TypeOK, SocketsTypeOK, Peers
<1>8. SocketsTypeOK'
  BY <1>6, <1>7 DEF SendChunk, TypeOK, SocketsTypeOK
<1> QED
  BY <1>3, <1>4, <1>5, <1>8, SlotsType DEF SendChunk, TypeOK

LEMMA ServerType == TypeOK /\ ListenersFirst /\ Accepting /\ ServerStep => TypeOK'
<1> SUFFICES ASSUME TypeOK, ListenersFirst, Accepting, ServerStep PROVE TypeOK'
  OBVIOUS
<1>1. CASE Poll
  <2>1. slots' \in Seq(Slot)
    BY <1>1, PollSlots
  <2> QED
    BY <1>1, <2>1 DEF Poll, socketVars, TypeOK, SocketsTypeOK, Phases
<1>2. ASSUME NEW i \in DOMAIN slots, StartAccept(i) PROVE TypeOK'
  <2>1. previous' \in Nat /\ index' \in Nat
    BY <1>2, VectorType, SlotsType DEF StartAccept
  <2> QED
    BY <1>2, <2>1 DEF StartAccept, socketVars, TypeOK, SocketsTypeOK, Phases
<1>3. ASSUME NEW i \in DOMAIN slots, ClearSlot(i) PROVE TypeOK'
  <2>1. slots' \in Seq(Slot)
    BY <1>3, CompactType DEF ClearSlot
  <2> QED
    BY <1>3, <2>1 DEF ClearSlot, socketVars, TypeOK, SocketsTypeOK, Phases
<1>4. ASSUME NEW s \in Servers, AcceptDone(s) PROVE TypeOK'
  <2>1. phase = "accept" /\ s = slots[index].fd
    BY <1>4 DEF AcceptDone
  <2>2. slots' \in Seq(Slot)
    BY <1>4, <2>1, AcceptDoneSlots, AcceptingServer
  <2> QED
    BY <1>4, <2>2 DEF AcceptDone, socketVars, TypeOK, SocketsTypeOK, Phases
<1>5. ASSUME NEW s \in Servers, NEW c \in Conns, NEW fd \in Lowest, AcceptOne(s, c, fd)
      PROVE  TypeOK'
  <2>1. fd \in ClientFds
    BY DEF Lowest, Free
  <2>2. connected' \in [Servers -> Seq(ClientFds)]
    BY <1>5, <2>1, VectorType, AppendProperties DEF AcceptOne, TypeOK
  <2> QED
    BY <1>5, <2>1, <2>2 DEF AcceptOne, TypeOK, SocketsTypeOK, Stages
<1>6. CASE AcceptFails
  BY <1>6 DEF AcceptFails, socketVars, TypeOK, SocketsTypeOK, Phases
<1>7. ASSUME NEW i \in DOMAIN slots, NEW c \in Conns, ReceiveNothing(i, c) PROVE TypeOK'
  BY <1>7, CloseType, ServingSlot DEF ReceiveNothing
<1>8. ASSUME NEW i \in DOMAIN slots, NEW c \in Conns, SendNothing(i, c) PROVE TypeOK'
  BY <1>8, CloseType DEF SendNothing, Interest
<1>9. ASSUME NEW i \in DOMAIN slots, NEW c \in Conns, NEW n \in 1..Len(rx[c]), PipeFails(i, c, n)
      PROVE  TypeOK'
  BY <1>9, ReceivedType DEF PipeFails, Received, TypeOK, Phases
<1>10. ASSUME NEW i \in DOMAIN slots, NEW c \in Conns, SendFails(i, c) PROVE TypeOK'
  BY <1>10, SlotsType DEF SendFails, TypeOK, SocketsTypeOK, Peers
<1>11. ASSUME NEW i \in DOMAIN slots, NEW c \in Conns, SendKills(i, c) PROVE TypeOK'
  BY <1>11 DEF SendKills, socketVars, TypeOK, SocketsTypeOK, Phases
<1>12. CASE EndRound
  BY <1>12 DEF EndRound, socketVars, TypeOK, SocketsTypeOK, Phases
<1>13. CASE ClearDone
  BY <1>13 DEF ClearDone, socketVars, TypeOK, SocketsTypeOK, Phases
<1> QED
  BY <1>1, <1>2, <1>3, <1>4, <1>5, <1>6, <1>7, <1>8, <1>9, <1>10, <1>11, <1>12, <1>13,
     StoreType, RespondType, SendChunkType DEF ServerStep

-----------------------------------------------------------------------------
(* The inductive invariant. *)

LEMMA InitInv == Init => IInv
<1> SUFFICES ASSUME Init PROVE IInv
  OBVIOUS
<1>1. TypeOK
  BY InitType
<1>2. Len(slots) = NumServers /\ DOMAIN slots = 1..NumServers
  <2>1. slots \in [1..NumServers -> Slot]
    BY DEF Init, Slot, Events, Servers
  <2> QED
    BY <2>1, ShiftType
<1>3. \A i \in DOMAIN slots : slots[i].fd = i
  BY <1>2 DEF Init, Servers
<1>4. Open = {}
  BY DEF Open, Init, SocketsInit
<1>5. \A s \in Servers : Len(connected[s]) = 0 /\ DOMAIN connected[s] = {}
  BY EmptySeq DEF Init
<1>6. SocksOpen /\ Accepting /\ NeverBlocks
  BY <1>4 DEF SocksOpen, Accepting, NeverBlocks, Init
<1>7. VectorsPartition
  BY <1>4, <1>5 DEF VectorsPartition, Vector, Open
<1>8. ListenersFirst /\ SlotsUnique /\ PollTableBounded
  BY <1>2, <1>3 DEF ListenersFirst, SlotsUnique, PollTableBounded, Servers
<1>9. SlotsCover /\ HolesBehind
  BY <1>2, <1>3, <1>4 DEF SlotsCover, HolesBehind, SlotFds, ClientFds, Servers, Closed
<1> QED
  BY <1>1, <1>6, <1>7, <1>8, <1>9 DEF IInv, Init

\* A client's step takes nothing from what poll() reported about an open
\* connection.
LEMMA ClientsFrame ==
    ASSUME TypeOK, Clients
    PROVE  /\ UNCHANGED <<serverVars, sock>>
           /\ \A c \in Conns : stage[c] = "open" =>
                  /\ stage'[c] = "open" /\ at'[c] = at[c]
                  /\ Readable(c) => Readable(c)'
                  /\ Writable(c) => Writable(c)'
<1> USE DEF TypeOK, SocketsTypeOK, Readable, Writable
<1>1. PICK c \in Conns : \/ Connect(c)
                         \/ \E last \in BOOLEAN : SendPart(c, last)
                         \/ Leave(c)
                         \/ Drain(c)
  BY DEF Clients, ClientStep
<1>2. CASE Connect(c)
  BY <1>2 DEF Clients, Connect
<1>3. ASSUME NEW last \in BOOLEAN, SendPart(c, last)
      PROVE  /\ UNCHANGED sock
             /\ \A d \in Conns : stage[d] = "open" =>
                    /\ stage'[d] = "open" /\ at'[d] = at[d]
                    /\ Readable(d) => Readable(d)'
                    /\ Writable(d) => Writable(d)'
  <2>1. rx'[c] = Append(rx[c], last) /\ rx[c] \in Seq(BOOLEAN)
    BY <1>3 DEF SendPart
  <2>2. Append(rx[c], last) # <<>>
    BY <2>1, AppendNotEmpty
  <2> QED
    BY <1>3, <2>1, <2>2 DEF SendPart
<1>4. CASE Leave(c)
  BY <1>4 DEF Clients, Leave
<1>5. CASE Drain(c)
  BY <1>5 DEF Clients, Drain
<1> QED
  BY <1>1, <1>2, <1>3, <1>4, <1>5 DEF Clients

LEMMA ClientsInv == IInv /\ Clients => IInv'
<1> SUFFICES ASSUME IInv, Clients PROVE IInv'
  OBVIOUS
<1>1. TypeOK /\ TypeOK'
  BY ClientsType DEF IInv
<1>2. /\ UNCHANGED <<slots, connected, phase, index, previous, compress, sock>>
      /\ \A c \in Conns : stage[c] = "open" =>
             /\ stage'[c] = "open" /\ at'[c] = at[c]
             /\ Readable(c) => Readable(c)'
             /\ Writable(c) => Writable(c)'
  BY <1>1, ClientsFrame DEF serverVars
<1>3. \A fd \in Open : sock[fd] \in Conns /\ stage[sock[fd]] = "open"
  BY <1>1 DEF IInv, SocksOpen, Open, TypeOK, SocketsTypeOK
<1>4. SocksOpen'
  BY <1>2, <1>3 DEF IInv, SocksOpen, Open
<1>5. VectorsPartition'
  BY <1>2, <1>3 DEF IInv, VectorsPartition, Vector, Open
<1>6. NeverBlocks'
  <2> SUFFICES ASSUME phase \in {"serve", "accept"}, NEW i \in index..Len(slots),
                      slots[i].fd \in ClientFds, slots[i].revents # "none"
               PROVE  /\ slots[i].fd \in Open
                      /\ slots[i].revents = "in" => Readable(sock[slots[i].fd])'
                      /\ slots[i].revents = "out" => Writable(sock[slots[i].fd])'
    BY <1>2 DEF NeverBlocks, Open
  <2>1. /\ slots[i].fd \in Open
        /\ slots[i].revents = "in" => Readable(sock[slots[i].fd])
        /\ slots[i].revents = "out" => Writable(sock[slots[i].fd])
    BY DEF IInv, NeverBlocks
  <2>2. sock' = sock
    BY <1>2
  <2> QED
    BY <1>2, <1>3, <2>1, <2>2
<1>7. (ListenersFirst /\ Accepting /\ SlotsUnique /\ SlotsCover /\ HolesBehind
           /\ PollTableBounded /\ index >= 1)'
  BY <1>2 DEF IInv, ListenersFirst, Accepting, SlotsUnique, SlotsCover, HolesBehind,
              PollTableBounded, Running, SlotFds, Open, Fresh
<1> QED
  BY <1>1, <1>4, <1>5, <1>6, <1>7 DEF IInv

\* The parts of IInv that look at the slots' descriptors and events only.
LEMMA PollInv == IInv /\ Poll => IInv'
<1> SUFFICES ASSUME IInv, Poll PROVE IInv'
  OBVIOUS
<1>1. TypeOK /\ TypeOK'
  BY ServerType DEF IInv, ServerStep
<1>2. /\ SameSlots
      /\ \A i \in DOMAIN slots :
             /\ slots'[i].fd = slots[i].fd
             /\ slots'[i].revents = IF Ready(slots[i]) THEN slots[i].events ELSE "none"
  BY <1>1, PollSlots
<1>3. /\ UNCHANGED <<stage, at, peer, rx, full, sock, connected, previous, compress>>
      /\ phase = "poll" /\ phase' = "serve" /\ index' = 1
  BY DEF Poll, socketVars
<1>4. SocksOpen' /\ VectorsPartition'
  BY <1>3 DEF IInv, SocksOpen, Open, VectorsPartition, Vector
<1>5. (ListenersFirst /\ SlotsUnique /\ PollTableBounded)'
  BY <1>2 DEF IInv, ListenersFirst, SlotsUnique, PollTableBounded, SameSlots
<1>6. Accepting' /\ HolesBehind'
  BY <1>2, <1>3 DEF IInv, Accepting, HolesBehind, SameSlots, Running
<1>7. SlotsCover'
  <2>1. SlotFds' = SlotFds
    BY <1>2 DEF SlotFds, SameSlots
  <2> QED
    BY <1>3, <2>1 DEF IInv, SlotsCover, Open, Fresh, Running
<1>8. NeverBlocks'
  <2> SUFFICES ASSUME NEW i \in 1..Len(slots),
                      slots'[i].fd \in ClientFds, slots'[i].revents # "none"
               PROVE  /\ slots'[i].fd \in Open
                      /\ slots'[i].revents = "in" => Readable(sock[slots'[i].fd])
                      /\ slots'[i].revents = "out" => Writable(sock[slots'[i].fd])
    BY <1>2, <1>3 DEF NeverBlocks, Open, Readable, Writable, SameSlots
  <2>1. i \in DOMAIN slots /\ slots[i].fd = slots'[i].fd /\ slots[i].fd \notin Servers
    BY <1>1, <1>2, SlotsType DEF ClientFds, Servers
  <2>2. slots[i].fd \in Open
    BY <1>3, <2>1 DEF IInv, SlotsCover, SlotFds, Running
  <2>3. Ready(slots[i]) /\ slots'[i].revents = slots[i].events
    BY <1>2, <2>1
  <2> QED
    BY <2>1, <2>2, <2>3 DEF Ready
<1> QED
  BY <1>1, <1>3, <1>4, <1>5, <1>6, <1>7, <1>8 DEF IInv

\* A step that ends the process, and changes no slot and no vector.
LEMMA EndsInv ==
    ASSUME IInv, TypeOK', ~Running', phase' # "accept",
           UNCHANGED <<stage, at, sock, slots, connected>>, index' >= 1
    PROVE  IInv'
<1>1. SocksOpen' /\ VectorsPartition'
  BY DEF IInv, SocksOpen, Open, VectorsPartition, Vector
<1>2. (ListenersFirst /\ SlotsUnique /\ PollTableBounded)'
  BY DEF IInv, ListenersFirst, SlotsUnique, PollTableBounded
<1>3. (Accepting /\ SlotsCover /\ HolesBehind /\ NeverBlocks)'
  BY DEF Accepting, SlotsCover, HolesBehind, NeverBlocks, Running
<1> QED
  BY <1>1, <1>2, <1>3 DEF IInv

LEMMA StartAcceptInv ==
    ASSUME IInv, NEW i \in DOMAIN slots, StartAccept(i)
    PROVE  IInv'
<1>1. TypeOK /\ TypeOK'
  BY ServerType DEF IInv, ServerStep
<1>2. /\ UNCHANGED <<stage, at, peer, rx, full, sock, slots, connected, compress>>
      /\ phase = "serve" /\ phase' = "accept" /\ index' = i
      /\ i \in index..Len(slots) /\ slots[i].fd \in Servers
      /\ previous' = Len(connected[slots[i].fd])
  BY DEF StartAccept, AtSlot, socketVars
<1>3. i \in Nat /\ i >= 1 /\ index \in Nat /\ index <= i
  BY <1>1, <1>2, SlotsType DEF IInv, TypeOK
<1>4. i \in Servers /\ slots[i].fd = i
  BY <1>1, <1>2, <1>3, SlotsType DEF IInv, ListenersFirst, Servers
<1>5. SocksOpen' /\ VectorsPartition'
  BY <1>2 DEF IInv, SocksOpen, Open, VectorsPartition, Vector
<1>6. (ListenersFirst /\ SlotsUnique /\ PollTableBounded)'
  BY <1>2 DEF IInv, ListenersFirst, SlotsUnique, PollTableBounded
<1>7. Accepting'
  BY <1>1, <1>2, <1>4, VectorType DEF Accepting
<1>8. HolesBehind'
  BY <1>2, <1>3, <1>1, SlotsType DEF IInv, HolesBehind, Running
<1>9. SlotsCover'
  <2>1. \A fd \in ClientFds : ~Fresh(fd) /\ ~Fresh(fd)'
    BY <1>1, <1>2, <1>4, VectorType DEF Fresh
  <2> QED
    BY <1>2, <2>1 DEF IInv, SlotsCover, SlotFds, Open, Running
<1>10. NeverBlocks'
  BY <1>2, <1>3, <1>1, SlotsType DEF IInv, NeverBlocks, Open, Readable, Writable
<1> QED
  BY <1>1, <1>2, <1>3, <1>5, <1>6, <1>7, <1>8, <1>9, <1>10 DEF IInv

\* acceptNewConnections adds a descriptor that was nobody's: to a vector, and
\* to no slot as yet.
LEMMA AcceptOneInv ==
    ASSUME IInv, NEW s \in Servers, NEW c \in Conns, NEW fd \in Lowest, AcceptOne(s, c, fd)
    PROVE  IInv'
<1>1. TypeOK /\ TypeOK'
  BY ServerType DEF IInv, ServerStep
<1>2. /\ UNCHANGED <<at, peer, rx, full, slots, phase, index, previous, compress>>
      /\ phase = "accept" /\ stage[c] = "queued" /\ at[c] = s
      /\ stage' = [stage EXCEPT ![c] = "open"]
      /\ sock' = [sock EXCEPT ![fd] = c]
      /\ connected' = [connected EXCEPT ![s] = Append(connected[s], fd)]
  BY DEF AcceptOne, Backlog
<1>3. fd \in ClientFds /\ fd \notin Open /\ c # NoConn
  BY DEF Lowest, Free, Open
<1>4. index = s /\ previous <= Len(connected[s]) /\ index \in DOMAIN slots
  BY <1>1, AcceptingServer DEF IInv, AcceptOne
<1>5. /\ Open' = Open \cup {fd}
      /\ \A other \in Open : sock'[other] = sock[other]
      /\ sock'[fd] = c
  BY <1>1, <1>2, <1>3 DEF Open, TypeOK, SocketsTypeOK
<1>6. \A other \in Open : /\ sock[other] \in Conns
                          /\ stage[sock[other]] = "open"
                          /\ sock[other] # c
  BY <1>1, <1>2 DEF IInv, SocksOpen, Open, TypeOK, SocketsTypeOK
<1>7. SocksOpen'
  <2>1. stage'[c] = "open" /\ \A d \in Conns \ {c} : stage'[d] = stage[d]
    BY <1>1, <1>2 DEF TypeOK, SocketsTypeOK
  <2> QED
    BY <1>5, <1>6, <2>1 DEF IInv, SocksOpen
<1>8. /\ connected'[s] = Append(connected[s], fd)
      /\ \A t \in Servers \ {s} : connected'[t] = connected[t]
      /\ Len(connected[s]) \in Nat
      /\ DOMAIN connected[s] = 1..Len(connected[s])
  BY <1>1, <1>2, VectorType DEF TypeOK
<1>9. /\ Len(connected'[s]) = Len(connected[s]) + 1
      /\ DOMAIN connected'[s] = 1..(Len(connected[s]) + 1)
      /\ \A k \in 1..Len(connected[s]) : connected'[s][k] = connected[s][k]
      /\ connected'[s][Len(connected[s]) + 1] = fd
  BY <1>1, <1>3, <1>8, VectorType, AppendProperties, LenProperties
<1>10. /\ Vector(s)' = Vector(s) \cup {fd}
       /\ \A t \in Servers \ {s} : Vector(t)' = Vector(t)
  <2>1. Vector(s)' = Vector(s) \cup {fd}
    BY <1>8, <1>9 DEF Vector
  <2> QED
    BY <1>8, <2>1 DEF Vector
<1>11. VectorsPartition'
  <2>1. ASSUME NEW other \in ClientFds, NEW t \in Servers
        PROVE  other \in Vector(t)' <=> (sock'[other] # NoConn /\ at'[sock'[other]] = t)
    <3>1. CASE other = fd
      <4>1. fd \notin Vector(t)
        BY <1>3 DEF IInv, VectorsPartition, Open
      <4> QED
        BY <1>2, <1>3, <1>5, <1>10, <3>1, <4>1
    <3>2. CASE other # fd
      <4>1. sock'[other] = sock[other]
        BY <1>1, <1>2, <3>2 DEF TypeOK, SocketsTypeOK
      <4>2. other \in Vector(t)' <=> other \in Vector(t)
        BY <1>10, <3>2
      <4> QED
        BY <1>2, <4>1, <4>2 DEF IInv, VectorsPartition
    <3> QED
      BY <3>1, <3>2
  <2>2. ASSUME NEW t \in Servers, NEW j \in DOMAIN connected'[t], NEW k \in DOMAIN connected'[t],
               connected'[t][j] = connected'[t][k]
        PROVE  j = k
    <3>1. CASE t = s
      <4>1. fd \notin Vector(s)
        BY <1>3 DEF IInv, VectorsPartition, Open
      <4>2. \A m \in 1..Len(connected[s]) : connected[s][m] # fd
        BY <1>8, <4>1 DEF Vector
      <4>3. \A m, l \in 1..Len(connected[s]) : connected[s][m] = connected[s][l] => m = l
        BY <1>8 DEF IInv, VectorsPartition
      <4>4. j \in 1..(Len(connected[s]) + 1) /\ k \in 1..(Len(connected[s]) + 1)
        BY <1>9, <3>1
      <4>5. CASE j \in 1..Len(connected[s]) /\ k \in 1..Len(connected[s])
        BY <1>9, <2>2, <3>1, <4>3, <4>5
      <4>6. CASE j \notin 1..Len(connected[s])
        BY <1>8, <1>9, <2>2, <3>1, <4>2, <4>4, <4>6
      <4>7. CASE k \notin 1..Len(connected[s])
        BY <1>8, <1>9, <2>2, <3>1, <4>2, <4>4, <4>7
      <4> QED
        BY <4>5, <4>6, <4>7
    <3>2. CASE t # s
      BY <1>8, <2>2, <3>2 DEF IInv, VectorsPartition
    <3> QED
      BY <3>1, <3>2
  <2> QED
    BY <2>1, <2>2 DEF VectorsPartition
<1>12. (ListenersFirst /\ SlotsUnique /\ PollTableBounded)'
  BY <1>2 DEF IInv, ListenersFirst, SlotsUnique, PollTableBounded
<1>13. Accepting' /\ HolesBehind'
  BY <1>1, <1>2, <1>4, <1>8, <1>9 DEF IInv, Accepting, HolesBehind, Running, TypeOK
<1>14. SlotsCover'
  <2>1. Fresh(fd)'
    BY <1>1, <1>2, <1>4, <1>8, <1>9 DEF Fresh, TypeOK
  <2>2. \A other \in ClientFds \ {fd} : Fresh(other)' <=> Fresh(other)
    BY <1>1, <1>2, <1>4, <1>8, <1>9 DEF Fresh, TypeOK
  <2>3. fd \notin SlotFds
    BY <1>2, <1>3 DEF IInv, SlotsCover, Running
  <2>4. SlotFds' = SlotFds
    BY <1>2 DEF SlotFds
  <2> QED
    BY <1>2, <1>5, <2>1, <2>2, <2>3, <2>4 DEF IInv, SlotsCover, Running
<1>15. NeverBlocks'
  <2>1. \A d \in Conns : (Readable(d)' <=> Readable(d)) /\ (Writable(d)' <=> Writable(d))
    BY <1>2 DEF Readable, Writable
  <2> QED
    BY <1>2, <1>5, <1>6, <2>1 DEF IInv, NeverBlocks
<1> QED
  BY <1>1, <1>2, <1>7, <1>11, <1>12, <1>13, <1>14, <1>15 DEF IInv

\* No two slots for one descriptor: no more slots than descriptors.
LEMMA SlotsPigeonHole ==
    ASSUME NEW n \in Nat, NEW f \in [1..n -> 1..MaxFd],
           \A i, j \in 1..n : f[i] = f[j] => i = j
    PROVE  n <= MaxFd
<1>1. /\ IsFiniteSet(1..n) /\ Cardinality(1..n) = n
      /\ IsFiniteSet(1..MaxFd) /\ Cardinality(1..MaxFd) = MaxFd
  BY FS_Interval
<1> SUFFICES ASSUME n > MaxFd PROVE FALSE
  OBVIOUS
<1>2. \E x, y \in 1..n : x # y /\ f[x] = f[y]
  BY <1>1, FS_PigeonHole
<1> QED
  BY <1>2

\* addFdsToPollFds gives every fresh descriptor its slot.
LEMMA AcceptDoneInv ==
    ASSUME IInv, NEW s \in Servers, AcceptDone(s)
    PROVE  IInv'
<1>1. TypeOK /\ TypeOK'
  BY ServerType DEF IInv, ServerStep
<1>2. /\ UNCHANGED <<stage, at, peer, rx, full, sock, connected, previous, compress>>
      /\ phase = "accept" /\ phase' \in {"serve", "undefined"} /\ index' = index + 1
  BY DEF AcceptDone, socketVars
<1>3. index = s /\ previous <= Len(connected[s]) /\ index \in DOMAIN slots
  BY <1>1, AcceptingServer DEF IInv, AcceptDone
<1> DEFINE old == Len(slots)
           v == connected[s]
<1>4. /\ old \in Nat /\ DOMAIN slots = 1..old
      /\ Len(v) \in Nat /\ DOMAIN v = 1..Len(v)
      /\ previous \in Nat /\ index \in Nat /\ index >= 1
  BY <1>1, SlotsType, VectorType DEF IInv, TypeOK
<1>5. /\ Len(slots') = old + Len(v) - previous
      /\ DOMAIN slots' = 1..Len(slots')
      /\ \A i \in 1..old : slots'[i] = slots[i]
      /\ \A i \in (old + 1)..Len(slots') :
             slots'[i].fd = v[previous + i - old] /\ slots'[i].revents = "none"
  BY <1>1, <1>3, <1>4, AcceptDoneSlots
<1>6. ASSUME NEW i \in (old + 1)..Len(slots')
      PROVE  /\ previous + i - old \in (previous + 1)..Len(v)
             /\ slots'[i].fd \in ClientFds
             /\ slots'[i].fd \in Open
             /\ Fresh(slots'[i].fd)
             /\ slots'[i].fd \notin SlotFds
  <2>1. previous + i - old \in (previous + 1)..Len(v) /\ previous + i - old \in DOMAIN v
    BY <1>3, <1>4, <1>5
  <2>2. slots'[i].fd \in ClientFds /\ slots'[i].fd \in Vector(s)
    BY <1>1, <1>5, <2>1, VectorType DEF Vector
  <2>3. slots'[i].fd \in Open
    <3>1. VectorsPartition
      BY DEF IInv
    <3> QED
      BY <2>2, <3>1 DEF VectorsPartition, Open
  <2>4. Fresh(slots'[i].fd)
    BY <1>2, <1>3, <1>5, <2>1 DEF Fresh
  <2> QED
    BY <1>2, <2>1, <2>2, <2>3, <2>4, SMTT(30) DEF IInv, SlotsCover, Running
<1>7. SocksOpen' /\ VectorsPartition'
  BY <1>2 DEF IInv, SocksOpen, Open, VectorsPartition, Vector
<1>8. ListenersFirst'
  <2>1. NumServers <= Len(slots')
    BY <1>3, <1>4, <1>5 DEF IInv, ListenersFirst
  <2>2. \A i \in (old + 1)..Len(slots') : i > NumServers /\ slots'[i].fd \notin Servers
    BY <1>4, <1>6, SMTT(30) DEF IInv, ListenersFirst, ClientFds, Servers
  <2> QED
    BY <1>4, <1>5, <2>1, <2>2 DEF IInv, ListenersFirst
<1>9. \A i, j \in 1..Len(slots') :
          slots'[i].fd = slots'[j].fd /\ slots'[i].fd # Closed => i = j
  <2> SUFFICES ASSUME NEW i \in 1..Len(slots'), NEW j \in 1..Len(slots'),
                      slots'[i].fd = slots'[j].fd, slots'[i].fd # Closed
               PROVE  i = j
    OBVIOUS
  <2>0. Len(slots') \in Nat /\ i \in Nat /\ j \in Nat
    BY <1>3, <1>4, <1>5
  <2>1. CASE i <= old /\ j <= old
    <3>1. i \in 1..old /\ j \in 1..old
      BY <1>4, <2>0, <2>1
    <3>2. slots[i].fd = slots[j].fd /\ slots[i].fd # Closed
      BY <1>5, <3>1
    <3> QED
      BY <1>4, <3>1, <3>2 DEF IInv, SlotsUnique
  <2>2. CASE i > old /\ j > old
    <3>1. i \in (old + 1)..Len(slots') /\ j \in (old + 1)..Len(slots')
      BY <1>4, <2>0, <2>2
    <3>2. v[previous + i - old] = v[previous + j - old]
      BY <1>5, <3>1
    <3>3. previous + i - old \in DOMAIN v /\ previous + j - old \in DOMAIN v
      BY <1>4, <1>6, <3>1
    <3>4. previous + i - old = previous + j - old
      BY <3>2, <3>3 DEF IInv, VectorsPartition
    <3> QED
      BY <1>4, <3>1, <3>4
  <2>3. CASE i <= old /\ j > old
    <3>1. i \in 1..old /\ j \in (old + 1)..Len(slots')
      BY <1>4, <2>0, <2>3
    <3>2. slots'[i].fd \in SlotFds
      BY <1>4, <1>5, <3>1 DEF SlotFds
    <3> QED
      BY <1>6, <3>1, <3>2
  <2>4. CASE i > old /\ j <= old
    <3>1. j \in 1..old /\ i \in (old + 1)..Len(slots')
      BY <1>4, <2>0, <2>4
    <3>2. slots'[j].fd \in SlotFds
      BY <1>4, <1>5, <3>1 DEF SlotFds
    <3> QED
      BY <1>6, <3>1, <3>2
  <2> QED
    BY <1>4, <2>0, <2>1, <2>2, <2>3, <2>4
<1>10. SlotsUnique'
  BY <1>5, <1>9 DEF SlotsUnique
<1>11. \A i \in 1..Len(slots') : slots'[i].fd # Closed
  <2>1. ASSUME NEW i \in 1..old PROVE slots[i].fd # Closed
    <3> SUFFICES ASSUME slots[i].fd = Closed PROVE FALSE
      OBVIOUS
    <3>1. i < index
      BY <1>2, <1>4 DEF IInv, HolesBehind, Running
    <3>2. slots[i].fd = i
      BY <1>3, <1>4, <3>1 DEF IInv, ListenersFirst, Servers
    <3> QED
      BY <1>4, <3>2 DEF Closed
  <2>2. \A i \in (old + 1)..Len(slots') : slots'[i].fd # Closed
    BY <1>6 DEF ClientFds, Closed
  <2> QED
    BY <1>4, <1>5, <2>1, <2>2
<1>12. HolesBehind' /\ Accepting'
  BY <1>2, <1>5, <1>11 DEF HolesBehind, Accepting
<1>13. SlotsCover'
  <2> SUFFICES ASSUME NEW fd \in ClientFds PROVE fd \in SlotFds' <=> fd \in Open
    BY <1>2 DEF SlotsCover, Fresh, Open
  <2>1. ASSUME fd \in SlotFds' PROVE fd \in Open
    <3>1. PICK i \in 1..Len(slots') : slots'[i].fd = fd
      BY <1>5, <2>1 DEF SlotFds
    <3>2. CASE i <= old
      <4>1. fd \in SlotFds
        BY <1>4, <1>5, <3>1, <3>2 DEF SlotFds
      <4> QED
        BY <1>2, <4>1 DEF IInv, SlotsCover, Running
    <3>3. CASE i > old
      BY <1>4, <1>6, <3>1, <3>3
    <3> QED
      BY <1>4, <3>2, <3>3
  <2>2. ASSUME fd \in Open PROVE fd \in SlotFds'
    <3>1. CASE Fresh(fd)
      <4>1. PICK k \in (previous + 1)..Len(v) : v[k] = fd
        BY <1>3, <3>1 DEF Fresh
      <4>2. /\ old + k - previous \in (old + 1)..Len(slots')
            /\ previous + (old + k - previous) - old = k
            /\ old + k - previous \in 1..Len(slots')
        BY <1>4, <1>5, <4>1, SMTT(30)
      <4>3. slots'[old + k - previous].fd = fd
        BY <1>5, <4>1, <4>2
      <4> QED
        BY <1>5, <4>2, <4>3 DEF SlotFds
    <3>2. CASE ~Fresh(fd)
      <4>1. fd \in SlotFds
        BY <1>2, <2>2, <3>2 DEF IInv, SlotsCover, Running
      <4>2. 1..old \subseteq 1..Len(slots')
        BY <1>3, <1>4, <1>5
      <4> QED
        BY <1>4, <1>5, <4>1, <4>2 DEF SlotFds
    <3> QED
      BY <3>1, <3>2
  <2> QED
    BY <2>1, <2>2
<1>14. NeverBlocks'
  <2>1. \A i \in (index + 1)..Len(slots') : slots'[i].revents # "none" =>
            i \in index..old /\ slots'[i] = slots[i]
    BY <1>4, <1>5
  <2> QED
    BY <1>2, <2>1 DEF IInv, NeverBlocks, Open, Readable, Writable
<1>15. PollTableBounded'
  <2> DEFINE f == [i \in 1..Len(slots') |-> slots'[i].fd]
  <2>1. \A i \in 1..Len(slots') : slots'[i].fd \in 1..MaxFd
    <3> SUFFICES ASSUME NEW i \in 1..Len(slots') PROVE slots'[i].fd \in 1..MaxFd
      OBVIOUS
    <3>1. slots'[i] \in Slot
      BY <1>1, ElementOfSeq DEF TypeOK
    <3>2. slots'[i].fd \in {Closed} \cup Servers \cup ClientFds
      BY <3>1 DEF Slot
    <3> QED
      BY <1>11, <3>2 DEF Servers, ClientFds
  <2>2. f \in [1..Len(slots') -> 1..MaxFd]
    BY <2>1
  <2>3. \A i, j \in 1..Len(slots') : f[i] = f[j] => i = j
    BY <1>9, <1>11
  <2>4. Len(slots') \in Nat
    BY <1>3, <1>4, <1>5
  <2> HIDE DEF f
  <2> QED
    BY <2>2, <2>3, <2>4, SlotsPigeonHole DEF PollTableBounded
<1>16. index' >= 1
  BY <1>2, <1>4
<1> QED
  BY <1>1, <1>7, <1>8, <1>10, <1>12, <1>13, <1>14, <1>15, <1>16 DEF IInv

\* recv() and send() that close nothing: the slots keep their descriptors and
\* events, and no other connection is touched.
Touches(i, c) ==
    /\ UNCHANGED <<stage, at, sock, connected, phase, previous, compress>>
    /\ index' = i + 1
    /\ SameSlots
    /\ \A j \in DOMAIN slots : /\ slots'[j].fd = slots[j].fd
                               /\ slots'[j].revents = slots[j].revents
    /\ \A d \in Conns \ {c} : /\ rx'[d] = rx[d]
                              /\ peer'[d] = peer[d]
                              /\ full'[d] = full[d]

LEMMA TouchesInv ==
    ASSUME IInv, TypeOK', NEW i \in DOMAIN slots, NEW c \in Conns, NEW event,
           Serving(i, c, event), Touches(i, c)
    PROVE  IInv'
<1>1. /\ TypeOK /\ slots[i].fd \in ClientFds /\ sock[slots[i].fd] = c
      /\ phase = "serve" /\ i \in index..Len(slots)
  BY ServingSlot DEF IInv, Serving, AtSlot
<1>2. /\ Len(slots) \in Nat /\ DOMAIN slots = 1..Len(slots)
      /\ index \in Nat /\ index >= 1 /\ i \in Nat /\ i >= index
  BY <1>1, SlotsType DEF IInv, TypeOK
<1>3. SocksOpen' /\ VectorsPartition' /\ Accepting'
  BY <1>1 DEF Touches, IInv, SocksOpen, Open, VectorsPartition, Vector, Accepting
<1>4. (ListenersFirst /\ SlotsUnique /\ PollTableBounded)'
  BY DEF Touches, SameSlots, IInv, ListenersFirst, SlotsUnique, PollTableBounded
<1>5. SlotsCover'
  <2>1. SlotFds' = SlotFds
    BY DEF Touches, SameSlots, SlotFds
  <2> QED
    BY <1>1, <2>1 DEF Touches, IInv, SlotsCover, Open, Fresh, Running
<1>6. HolesBehind'
  BY <1>1, <1>2 DEF Touches, SameSlots, IInv, HolesBehind, Running
<1>7. NeverBlocks'
  <2> SUFFICES ASSUME NEW j \in (i + 1)..Len(slots),
                      slots[j].fd \in ClientFds, slots[j].revents # "none"
               PROVE  /\ slots[j].fd \in Open
                      /\ slots[j].revents = "in" => Readable(sock[slots[j].fd])'
                      /\ slots[j].revents = "out" => Writable(sock[slots[j].fd])'
    BY <1>1, <1>2 DEF NeverBlocks, Open, Touches, SameSlots
  <2>1. /\ slots[j].fd \in Open
        /\ slots[j].revents = "in" => Readable(sock[slots[j].fd])
        /\ slots[j].revents = "out" => Writable(sock[slots[j].fd])
    BY <1>1, <1>2 DEF IInv, NeverBlocks
  <2>2. slots[j].fd # slots[i].fd
    BY <1>1, <1>2 DEF IInv, SlotsUnique, ClientFds, Closed
  <2>3. slots[i].fd \in Open
    BY <1>1 DEF Open
  <2>4. sock[slots[j].fd] # c
    BY <1>1, <2>1, <2>2, <2>3 DEF IInv, SocksOpen
  <2>5. sock[slots[j].fd] \in Conns
    BY <1>1, <2>1 DEF Open, TypeOK, SocketsTypeOK
  <2>6. sock' = sock
    BY DEF Touches
  <2> QED
    BY <2>1, <2>4, <2>5, <2>6 DEF Touches, Readable, Writable
<1> QED
  BY <1>2, <1>3, <1>4, <1>5, <1>6, <1>7 DEF Touches, IInv

\* What eraseClientSocketFD does to the descriptors of a vector without
\* repetitions.
LEMMA EraseVector ==
    ASSUME TypeOK, NEW s \in Servers, NEW fd,
           \A j, k \in DOMAIN connected[s] : connected[s][j] = connected[s][k] => j = k
    PROVE  /\ {Erase(s, fd)[k] : k \in DOMAIN Erase(s, fd)} = Vector(s) \ {fd}
           /\ \A j, k \in DOMAIN Erase(s, fd) : Erase(s, fd)[j] = Erase(s, fd)[k] => j = k
<1> DEFINE v == connected[s]
           n == Len(v)
           p == CHOOSE k \in 1..n : v[k] = fd
           e == [k \in 1..(n - 1) |-> v[IF k < p THEN k ELSE k + 1]]
<1>1. n \in Nat /\ DOMAIN v = 1..n
  BY VectorType
<1>2. CASE \E k \in 1..n : v[k] = fd
  <2>1. p \in 1..n /\ v[p] = fd
    BY <1>2
  <2>2. Erase(s, fd) = e
    BY <1>2 DEF Erase
  <2> HIDE DEF p
  <2>3. \A k \in 1..(n - 1) : /\ (IF k < p THEN k ELSE k + 1) \in 1..n
                              /\ (IF k < p THEN k ELSE k + 1) # p
    BY <1>1, <2>1
  <2>4. ASSUME NEW k \in 1..(n - 1) PROVE e[k] \in Vector(s) \ {fd}
    <3>1. e[k] = v[IF k < p THEN k ELSE k + 1]
      OBVIOUS
    <3> QED
      BY <1>1, <2>1, <2>3, <3>1 DEF Vector
  <2>5. ASSUME NEW other \in Vector(s) \ {fd} PROVE \E k \in 1..(n - 1) : e[k] = other
    <3>1. PICK k \in 1..n : v[k] = other
      BY <1>1 DEF Vector
    <3>2. k # p
      BY <2>1, <3>1
    <3>3. CASE k < p
      <4>1. k \in 1..(n - 1) /\ e[k] = v[k]
        BY <1>1, <2>1, <3>3
      <4> QED
        BY <3>1, <4>1
    <3>4. CASE k > p
      <4>1. k - 1 \in 1..(n - 1) /\ ~(k - 1 < p) /\ (k - 1) + 1 = k
        BY <1>1, <2>1, <3>4
      <4>2. e[k - 1] = v[k]
        BY <4>1
      <4> QED
        BY <3>1, <4>1, <4>2
    <3>5. k < p \/ k > p
      BY <1>1, <2>1, <3>2
    <3> QED
      BY <3>3, <3>4, <3>5
  <2>6. ASSUME NEW j \in 1..(n - 1), NEW k \in 1..(n - 1), e[j] = e[k]
        PROVE  j = k
    <3>1. (IF j < p THEN j ELSE j + 1) = (IF k < p THEN k ELSE k + 1)
      BY <1>1, <2>3, <2>6
    <3> QED
      BY <1>1, <2>1, <3>1
  <2>7. DOMAIN e = 1..(n - 1)
    OBVIOUS
  <2> HIDE DEF e
  <2>8. {e[k] : k \in DOMAIN e} = Vector(s) \ {fd}
    <3>1. \A x \in {e[k] : k \in DOMAIN e} : x \in Vector(s) \ {fd}
      BY <2>4, <2>7
    <3>2. \A x \in Vector(s) \ {fd} : x \in {e[k] : k \in DOMAIN e}
      BY <2>5, <2>7
    <3> QED
      BY <3>1, <3>2
  <2>9. \A j, k \in DOMAIN e : e[j] = e[k] => j = k
    BY <2>6, <2>7
  <2> QED
    BY <2>2, <2>8, <2>9
<1>3. CASE ~\E k \in 1..n : v[k] = fd
  BY <1>1, <1>3 DEF Erase, Vector
<1> QED
  BY <1>2, <1>3

\* A connection is closed: its descriptor leaves the vectors and its slot is
\* marked, behind the loop.
LEMMA CloseInv ==
    ASSUME IInv, TypeOK', NEW i \in DOMAIN slots, NEW c \in Conns, NEW event,
           NEW events \in {"in", "out"},
           Serving(i, c, event), Close(i, c, events), index' = i + 1,
           UNCHANGED <<at, peer, rx, full, phase, previous>>
    PROVE  IInv'
<1> DEFINE fd == slots[i].fd
<1>1. /\ TypeOK /\ fd \in ClientFds /\ sock[fd] = c
      /\ phase = "serve" /\ i \in index..Len(slots)
  BY ServingSlot DEF IInv, Serving, AtSlot
<1>2. /\ Len(slots) \in Nat /\ DOMAIN slots = 1..Len(slots)
      /\ index \in Nat /\ index >= 1 /\ i \in Nat /\ i >= index
  BY <1>1, SlotsType DEF IInv, TypeOK
<1>3. /\ SameSlots
      /\ slots'[i].fd = Closed
      /\ \A j \in DOMAIN slots \ {i} : slots'[j] = slots[j]
  BY <1>1, CloseSlots
<1>4. /\ sock' = [sock EXCEPT ![fd] = NoConn]
      /\ stage' = [stage EXCEPT ![c] = "gone"]
      /\ connected' = [s \in Servers |-> Erase(s, fd)]
      /\ compress' = TRUE
  BY DEF Close
<1>5. fd \in Open /\ c # NoConn
  BY <1>1 DEF Open
<1>6. /\ Open' = Open \ {fd}
      /\ \A other \in Open \ {fd} : sock'[other] = sock[other]
  <2>1. /\ sock'[fd] = NoConn
        /\ \A other \in ClientFds \ {fd} : sock'[other] = sock[other]
    BY <1>1, <1>4 DEF TypeOK, SocketsTypeOK
  <2> QED
    BY <2>1 DEF Open
<1>7. \A other \in Open \ {fd} : sock[other] # c /\ sock[other] \in Conns
  <2>1. SocksOpen
    BY DEF IInv
  <2>2. \A other \in Open : sock[other] \in Conns
    BY <1>1 DEF Open, TypeOK, SocketsTypeOK
  <2> QED
    BY <1>1, <1>5, <2>1, <2>2 DEF SocksOpen
<1> HIDE DEF fd
<1>8. SocksOpen'
  <2>1. \A d \in Conns \ {c} : stage'[d] = stage[d]
    BY <1>1, <1>4 DEF TypeOK, SocketsTypeOK
  <2> QED
    BY <1>6, <1>7, <2>1 DEF IInv, SocksOpen
<1>9. ASSUME NEW s \in Servers
      PROVE  /\ Vector(s)' = Vector(s) \ {fd}
             /\ \A j, k \in DOMAIN connected'[s] : connected'[s][j] = connected'[s][k] => j = k
  <2>1. connected'[s] = Erase(s, fd)
    BY <1>4
  <2>2. \A j, k \in DOMAIN connected[s] : connected[s][j] = connected[s][k] => j = k
    BY DEF IInv, VectorsPartition
  <2>3. /\ {Erase(s, fd)[k] : k \in DOMAIN Erase(s, fd)} = Vector(s) \ {fd}
        /\ \A j, k \in DOMAIN Erase(s, fd) : Erase(s, fd)[j] = Erase(s, fd)[k] => j = k
    BY <1>1, <2>2, EraseVector
  <2>4. Vector(s)' = {connected'[s][k] : k \in DOMAIN connected'[s]}
    BY DEF Vector
  <2> QED
    BY <2>1, <2>3, <2>4
<1>10. VectorsPartition'
  <2> SUFFICES ASSUME NEW other \in ClientFds, NEW s \in Servers
               PROVE  other \in Vector(s)' <=> (sock'[other] # NoConn /\ at[sock'[other]] = s)
    BY <1>9 DEF VectorsPartition
  <2>1. CASE other = fd
    BY <1>1, <1>4, <1>9, <2>1 DEF TypeOK, SocketsTypeOK
  <2>2. CASE other # fd
    <3>1. sock'[other] = sock[other]
      BY <1>1, <1>4, <2>2 DEF TypeOK, SocketsTypeOK
    <3>2. other \in Vector(s)' <=> other \in Vector(s)
      BY <1>9, <2>2
    <3> QED
      BY <3>1, <3>2 DEF IInv, VectorsPartition
  <2> QED
    BY <2>1, <2>2
<1>11. i > NumServers
  BY <1>1, <1>2 DEF IInv, ListenersFirst, ClientFds, fd
<1>12. ListenersFirst'
  <2>1. \A j \in DOMAIN slots : slots'[j].fd = IF j = i THEN Closed ELSE slots[j].fd
    BY <1>3
  <2> QED
    BY <1>2, <1>3, <1>11, <2>1 DEF SameSlots, IInv, ListenersFirst, Closed, Servers
<1>13. SlotsUnique' /\ PollTableBounded'
  BY <1>3 DEF SameSlots, IInv, SlotsUnique, PollTableBounded
<1>14. Accepting' /\ HolesBehind'
  BY <1>1, <1>2, <1>3, <1>4 DEF SameSlots, IInv, Accepting, HolesBehind, Running
<1>15. SlotsCover'
  <2>1. \A other \in ClientFds : ~Fresh(other) /\ ~Fresh(other)'
    BY <1>1 DEF Fresh
  <2>2. ASSUME NEW other \in ClientFds
        PROVE  other \in SlotFds' <=> other \in SlotFds /\ other # fd
    <3>1. other # Closed
      BY DEF ClientFds, Closed
    <3>2. ASSUME other \in SlotFds' PROVE other \in SlotFds /\ other # fd
      <4>1. PICK j \in DOMAIN slots : slots'[j].fd = other
        BY <1>3, <3>2 DEF SlotFds, SameSlots
      <4>2. j # i /\ slots[j].fd = other
        BY <1>3, <3>1, <4>1
      <4> QED
        BY <3>1, <4>1, <4>2 DEF SlotFds, IInv, SlotsUnique, fd
    <3>3. ASSUME other \in SlotFds, other # fd PROVE other \in SlotFds'
      <4>1. PICK j \in DOMAIN slots : slots[j].fd = other
        BY <3>3 DEF SlotFds
      <4>2. j # i
        BY <3>3, <4>1 DEF fd
      <4> QED
        BY <1>3, <4>1, <4>2 DEF SlotFds, SameSlots
    <3> QED
      BY <3>2, <3>3
  <2> QED
    BY <1>1, <1>6, <2>1, <2>2 DEF IInv, SlotsCover, Running
<1>16. NeverBlocks'
  <2> SUFFICES ASSUME NEW j \in (i + 1)..Len(slots),
                      slots[j].fd \in ClientFds, slots[j].revents # "none"
               PROVE  /\ slots[j].fd \in Open'
                      /\ slots[j].revents = "in" => Readable(sock'[slots[j].fd])
                      /\ slots[j].revents = "out" => Writable(sock'[slots[j].fd])
    <3>1. \A j \in (i + 1)..Len(slots) : slots'[j] = slots[j]
      BY <1>2, <1>3
    <3> QED
      BY <1>1, <1>2, <1>3, <3>1 DEF NeverBlocks, Readable, Writable, SameSlots
  <2>1. /\ slots[j].fd \in Open
        /\ slots[j].revents = "in" => Readable(sock[slots[j].fd])
        /\ slots[j].revents = "out" => Writable(sock[slots[j].fd])
    BY <1>1, <1>2 DEF IInv, NeverBlocks
  <2>2. slots[j].fd # fd
    BY <1>1, <1>2 DEF IInv, SlotsUnique, ClientFds, Closed, fd
  <2> QED
    BY <1>6, <2>1, <2>2
<1> QED
  BY <1>2, <1>8, <1>10, <1>12, <1>13, <1>14, <1>15, <1>16 DEF IInv

LEMMA EndRoundInv == IInv /\ EndRound => IInv'
<1> SUFFICES ASSUME IInv, EndRound PROVE IInv'
  OBVIOUS
<1>1. TypeOK /\ TypeOK'
  BY ServerType DEF IInv, ServerStep
<1>2. /\ UNCHANGED <<stage, at, sock, slots, connected, index>>
      /\ phase = "serve" /\ phase' = IF compress THEN "clear" ELSE "poll"
  BY DEF EndRound, socketVars
<1>3. SocksOpen' /\ VectorsPartition'
  BY <1>2 DEF IInv, SocksOpen, Open, VectorsPartition, Vector
<1>4. (ListenersFirst /\ SlotsUnique /\ PollTableBounded)'
  BY <1>2 DEF IInv, ListenersFirst, SlotsUnique, PollTableBounded
<1>5. (Accepting /\ HolesBehind /\ NeverBlocks)'
  BY <1>2 DEF IInv, Accepting, HolesBehind, NeverBlocks, Running
<1>6. SlotsCover'
  BY <1>2 DEF IInv, SlotsCover, SlotFds, Open, Fresh, Running
<1> QED
  BY <1>1, <1>2, <1>3, <1>4, <1>5, <1>6 DEF IInv

LEMMA ClearDoneInv == IInv /\ ClearDone => IInv'
<1> SUFFICES ASSUME IInv, ClearDone PROVE IInv'
  OBVIOUS
<1>1. TypeOK /\ TypeOK'
  BY ServerType DEF IInv, ServerStep
<1>2. /\ UNCHANGED <<stage, at, sock, slots, connected, index>>
      /\ phase = "clear" /\ phase' = "poll"
      /\ \A i \in DOMAIN slots : slots[i].fd # Closed
  BY DEF ClearDone, socketVars
<1>3. SocksOpen' /\ VectorsPartition'
  BY <1>2 DEF IInv, SocksOpen, Open, VectorsPartition, Vector
<1>4. (ListenersFirst /\ SlotsUnique /\ PollTableBounded)'
  BY <1>2 DEF IInv, ListenersFirst, SlotsUnique, PollTableBounded
<1>5. (Accepting /\ HolesBehind /\ NeverBlocks)'
  BY <1>2 DEF IInv, Accepting, HolesBehind, NeverBlocks, Running
<1>6. SlotsCover'
  BY <1>2 DEF IInv, SlotsCover, SlotFds, Open, Fresh, Running
<1> QED
  BY <1>1, <1>2, <1>3, <1>4, <1>5, <1>6 DEF IInv

\* clearPoll removes a marked slot and nothing else.
LEMMA ClearSlotInv ==
    ASSUME IInv, NEW i \in DOMAIN slots, ClearSlot(i)
    PROVE  IInv'
<1>1. TypeOK /\ TypeOK'
  BY ServerType DEF IInv, ServerStep
<1>2. /\ UNCHANGED <<stage, at, sock, connected, index, phase>>
      /\ phase = "clear" /\ slots[i].fd = Closed
  BY DEF ClearSlot, socketVars
<1> DEFINE n == Len(slots)
           From(j) == IF j < i THEN j ELSE j + 1
<1>3. n \in Nat /\ DOMAIN slots = 1..n /\ i \in 1..n
  BY <1>1, SlotsType
<1>4. /\ Len(slots') = n - 1 /\ DOMAIN slots' = 1..(n - 1)
      /\ \A j \in 1..(n - 1) : slots'[j].fd = slots[From(j)].fd
  BY <1>1, CompactType DEF ClearSlot
<1>5. /\ \A j \in 1..(n - 1) : From(j) \in 1..n /\ From(j) # i
      /\ \A j, k \in 1..(n - 1) : From(j) = From(k) => j = k
      /\ \A k \in 1..n : k # i => \E j \in 1..(n - 1) : From(j) = k
  <2>1. \A j \in 1..(n - 1) : From(j) \in 1..n /\ From(j) # i
    BY <1>3
  <2>2. \A j, k \in 1..(n - 1) : From(j) = From(k) => j = k
    BY <1>3
  <2>3. ASSUME NEW k \in 1..n, k # i PROVE \E j \in 1..(n - 1) : From(j) = k
    <3>1. CASE k < i
      <4>1. k \in 1..(n - 1) /\ From(k) = k
        BY <1>3, <3>1
      <4> QED
        BY <4>1
    <3>2. CASE k > i
      <4>1. k - 1 \in 1..(n - 1) /\ From(k - 1) = k
        BY <1>3, <3>2
      <4> QED
        BY <4>1
    <3>3. k < i \/ k > i
      BY <1>3, <2>3
    <3> QED
      BY <3>1, <3>2, <3>3
  <2> QED
    BY <2>1, <2>2, <2>3
<1>6. i > NumServers
  BY <1>2, <1>3 DEF IInv, ListenersFirst, Servers, Closed
<1>7. ListenersFirst'
  <2>1. \A j \in 1..(n - 1) : j <= NumServers => From(j) = j
    BY <1>3, <1>6
  <2>2. \A j \in 1..(n - 1) : j > NumServers => From(j) > NumServers
    BY <1>3, <1>6
  <2>3. NumServers <= n - 1
    BY <1>3, <1>6
  <2> HIDE DEF From
  <2> QED
    BY <1>3, <1>4, <1>5, <2>1, <2>2, <2>3 DEF IInv, ListenersFirst
<1> HIDE DEF From
<1>8. SlotsUnique'
  <2> SUFFICES ASSUME NEW j \in 1..(n - 1), NEW k \in 1..(n - 1),
                      slots'[j].fd = slots'[k].fd, slots'[j].fd # Closed
               PROVE  j = k
    BY <1>4 DEF SlotsUnique
  <2>1. From(j) \in DOMAIN slots /\ From(k) \in DOMAIN slots
    BY <1>3, <1>5
  <2>2. slots[From(j)].fd = slots[From(k)].fd /\ slots[From(j)].fd # Closed
    BY <1>4
  <2>3. From(j) = From(k)
    BY <2>1, <2>2 DEF IInv, SlotsUnique
  <2> QED
    BY <1>5, <2>3
<1>9. SlotsCover'
  <2>1. ASSUME NEW fd \in ClientFds PROVE fd \in SlotFds' <=> fd \in SlotFds
    <3>1. ASSUME fd \in SlotFds' PROVE fd \in SlotFds
      BY <1>3, <1>4, <1>5, <3>1 DEF SlotFds
    <3>2. ASSUME fd \in SlotFds PROVE fd \in SlotFds'
      <4>1. PICK k \in 1..n : slots[k].fd = fd
        BY <1>3, <3>2 DEF SlotFds
      <4>2. k # i
        BY <1>2, <4>1 DEF ClientFds, Closed
      <4>3. PICK j \in 1..(n - 1) : From(j) = k
        BY <1>5, <4>2
      <4> QED
        BY <1>4, <4>1, <4>3 DEF SlotFds
    <3> QED
      BY <3>1, <3>2
  <2> QED
    BY <1>2, <2>1 DEF IInv, SlotsCover, Open, Fresh, Running
<1>10. SocksOpen' /\ VectorsPartition'
  BY <1>2 DEF IInv, SocksOpen, Open, VectorsPartition, Vector
<1>11. (Accepting /\ HolesBehind /\ NeverBlocks)'
  BY <1>2 DEF Accepting, HolesBehind, NeverBlocks
<1>12. PollTableBounded'
  BY <1>3, <1>4 DEF IInv, PollTableBounded
<1> QED
  BY <1>1, <1>2, <1>7, <1>8, <1>9, <1>10, <1>11, <1>12 DEF IInv

LEMMA ServerInv == IInv /\ ServerStep => IInv'
<1> SUFFICES ASSUME IInv, ServerStep PROVE IInv'
  OBVIOUS
<1>1. TypeOK /\ TypeOK' /\ index \in Nat /\ index >= 1
  BY ServerType DEF IInv, TypeOK
<1>2. CASE AcceptFails
  BY <1>1, <1>2, EndsInv DEF AcceptFails, socketVars, Running
<1>3. ASSUME NEW i \in DOMAIN slots, NEW c \in Conns, ReceiveNothing(i, c) PROVE IInv'
  <2>1. slots[i].events \in {"in", "out"}
    BY <1>1, SlotsType DEF Slot
  <2> QED
    BY <1>1, <1>3, <2>1, CloseInv DEF ReceiveNothing
<1>4. ASSUME NEW i \in DOMAIN slots, NEW c \in Conns, SendNothing(i, c) PROVE IInv'
  <2>1. Interest(0, "out") \in {"in", "out"}
    BY DEF Interest
  <2> QED
    BY <1>1, <1>4, <2>1, CloseInv DEF SendNothing
<1>5. ASSUME NEW i \in DOMAIN slots, NEW c \in Conns, NEW n \in 1..Len(rx[c]), Store(i, c, n)
      PROVE  IInv'
  <2>1. Touches(i, c)
    BY <1>1, <1>5 DEF Store, Received, Touches, SameSlots, TypeOK, SocketsTypeOK
  <2> QED
    BY <1>1, <1>5, <2>1, TouchesInv DEF Store, Received
<1>6. ASSUME NEW i \in DOMAIN slots, NEW c \in Conns, NEW n \in 1..Len(rx[c]),
             NEW chunks \in 1..MaxChunks, Respond(i, c, n, chunks)
      PROVE  IInv'
  <2>1. SetsEvents(i)
    BY <1>1, <1>6, RespondType
  <2>2. Touches(i, c)
    BY <1>1, <1>6, <2>1, SetsEventsSlots DEF Respond, Received, Touches, TypeOK, SocketsTypeOK
  <2> QED
    BY <1>1, <1>6, <2>2, TouchesInv DEF Respond, Received
<1>7. ASSUME NEW i \in DOMAIN slots, NEW c \in Conns, NEW n \in 1..Len(rx[c]), PipeFails(i, c, n)
      PROVE  IInv'
  <2>1. UNCHANGED <<stage, at, sock, slots, connected>> /\ index' >= 1
    BY <1>1, <1>7, SlotsType DEF PipeFails, Received, Serving, AtSlot
  <2> QED
    BY <1>1, <1>7, <2>1, EndsInv DEF PipeFails, Running
<1>8. ASSUME NEW i \in DOMAIN slots, NEW c \in Conns, SendChunk(i, c) PROVE IInv'
  <2>1. SetsEvents(i)
    BY <1>1, <1>8, SendChunkType
  <2>2. \A d \in Conns \ {c} : peer'[d] = peer[d] /\ full'[d] = full[d]
    BY <1>1, <1>8 DEF SendChunk, TypeOK, SocketsTypeOK
  <2>3. Touches(i, c)
    BY <1>1, <1>8, <2>1, <2>2, SetsEventsSlots DEF SendChunk, Touches
  <2> QED
    BY <1>1, <1>8, <2>3, TouchesInv DEF SendChunk
<1>9. ASSUME NEW i \in DOMAIN slots, NEW c \in Conns, SendFails(i, c) PROVE IInv'
  <2>1. Touches(i, c)
    BY <1>1, <1>9 DEF SendFails, Touches, SameSlots, TypeOK, SocketsTypeOK
  <2> QED
    BY <1>1, <1>9, <2>1, TouchesInv DEF SendFails
<1>10. ASSUME NEW i \in DOMAIN slots, NEW c \in Conns, SendKills(i, c) PROVE IInv'
  BY <1>1, <1>10, EndsInv DEF SendKills, socketVars, Running
<1> QED
  BY <1>2, <1>3, <1>4, <1>5, <1>6, <1>7, <1>8, <1>9, <1>10, PollInv, StartAcceptInv,
     ClearSlotInv, AcceptDoneInv, AcceptOneInv, EndRoundInv, ClearDoneInv DEF ServerStep

LEMMA NextInv == IInv /\ [Next]_vars => IInv'
<1> SUFFICES ASSUME IInv, [Next]_vars PROVE IInv'
  OBVIOUS
<1>1. CASE Interrupt
  <2>1. TypeOK'
    BY <1>1 DEF Interrupt, socketVars, IInv, TypeOK, SocketsTypeOK, Phases
  <2> QED
    BY <1>1, <2>1, EndsInv DEF Interrupt, socketVars, IInv, Running
<1>2. CASE UNCHANGED vars
  BY <1>2 DEF vars, socketVars, serverVars, IInv, TypeOK, SocketsTypeOK, SocksOpen, Open,
              VectorsPartition, Vector, ListenersFirst, Accepting, SlotsUnique, SlotsCover,
              SlotFds, Fresh, Running, HolesBehind, NeverBlocks, Readable, Writable,
              PollTableBounded
<1> QED
  BY <1>1, <1>2, ClientsInv, ServerInv DEF Next

\* The inductive invariant holds in every behaviour of the event loop.
THEOREM Invariance == Spec => []IInv
<1>1. Init => IInv
  BY InitInv
<1>2. IInv /\ [Next]_vars => IInv'
  BY NextInv
<1> QED
  BY <1>1, <1>2, PTL DEF Spec

-----------------------------------------------------------------------------
(* The theorems. *)

\* Every variable of the server and of its sockets keeps its type.
THEOREM TypeCorrect == Spec => []TypeOK
<1>1. IInv => TypeOK
  BY DEF IInv
<1> QED
  BY <1>1, Invariance, PTL

\* Each open descriptor is in the vector of exactly one Server, once.
THEOREM ConnectionsPartitioned == Spec => []VectorsPartition
<1>1. IInv => VectorsPartition
  BY DEF IInv
<1> QED
  BY <1>1, Invariance, PTL

\* poll() is called with the listening sockets and the open connections, each
\* once, and with no slot of a closed one.
THEOREM PollTableCorrect == Spec => []PollTableExact
<1>1. IInv => PollTableExact
  <2> SUFFICES ASSUME IInv, phase = "poll"
               PROVE  /\ SlotFds = Servers \cup Open
                      /\ \A i, j \in DOMAIN slots : slots[i].fd = slots[j].fd => i = j
    BY DEF PollTableExact
  <2>1. /\ slots \in [1..Len(slots) -> Slot] /\ DOMAIN slots = 1..Len(slots)
        /\ Len(slots) \in Nat
    BY SlotsType DEF IInv
  <2>2. \A i \in DOMAIN slots : slots[i].fd # Closed
    BY DEF IInv, HolesBehind, Running
  <2>3. \A i, j \in DOMAIN slots : slots[i].fd = slots[j].fd => i = j
    BY <2>2 DEF IInv, SlotsUnique
  <2>4. \A s \in Servers : s \in SlotFds
    <3> SUFFICES ASSUME NEW s \in Servers PROVE s \in SlotFds
      OBVIOUS
    <3>1. s \in DOMAIN slots /\ slots[s].fd = s
      BY <2>1 DEF IInv, ListenersFirst, Servers
    <3> QED
      BY <3>1 DEF SlotFds
  <2>5. \A fd \in ClientFds : fd \in SlotFds <=> fd \in Open
    BY DEF IInv, SlotsCover, Fresh, Running
  <2>6. SlotFds \subseteq Servers \cup ClientFds
    BY <2>1, <2>2 DEF SlotFds, Slot
  <2>7. Open \subseteq ClientFds
    BY DEF Open
  <2> QED
    BY <2>3, <2>4, <2>5, <2>6, <2>7
<1> QED
  BY <1>1, Invariance, PTL

\* An event poll() reported is still there when it is served: recv() and
\* send() do not block.
THEOREM ServingNeverBlocks == Spec => []NeverBlocks
<1>1. IInv => NeverBlocks
  BY DEF IInv
<1> QED
  BY <1>1, Invariance, PTL

\* _pollFds needs no more entries than the process may have descriptors.
THEOREM PollTableNeverLarger == Spec => []PollTableBounded
<1>1. IInv => PollTableBounded
  BY DEF IInv
<1> QED
  BY <1>1, Invariance, PTL

\* With a descriptor limit of at most POLLFD_SIZE and no CGI script, nothing
\* is written past the end of _pollFds.
THEOREM NeverUndefined == Spec => []WritesInsideArray
<1>1. Init => WritesInsideArray
  BY DEF Init, WritesInsideArray
<1>2. IInv /\ IInv' /\ WritesInsideArray /\ [Next]_vars => WritesInsideArray'
  <2> SUFFICES ASSUME IInv, IInv', [Next]_vars, MaxFd <= PollFdSize, Cgis = {},
                      phase # "undefined"
               PROVE  phase' # "undefined"
    BY DEF WritesInsideArray
  <2>1. ASSUME NEW s \in Servers, AcceptDone(s) PROVE phase' # "undefined"
    <3>1. Len(slots') <= MaxFd /\ Len(slots') \in Nat
      BY SlotsType DEF IInv, PollTableBounded, TypeOK
    <3> QED
      BY <2>1, <3>1 DEF AcceptDone
  <2>2. ASSUME NEW i \in DOMAIN slots, NEW c \in Conns, NEW n \in 1..Len(rx[c]), PipeFails(i, c, n)
        PROVE  FALSE
    BY <2>2 DEF PipeFails
  <2>3. CASE ServerStep
    <3>1. CASE Poll \/ AcceptFails \/ EndRound \/ ClearDone
      BY <3>1 DEF Poll, AcceptFails, EndRound, ClearDone
    <3>2. ASSUME NEW i \in DOMAIN slots, StartAccept(i) \/ ClearSlot(i)
          PROVE  phase' # "undefined"
      BY <3>2 DEF StartAccept, ClearSlot
    <3>3. ASSUME NEW s \in Servers, NEW c \in Conns, NEW fd \in Lowest, AcceptOne(s, c, fd)
          PROVE  phase' # "undefined"
      BY <3>3 DEF AcceptOne
    <3>4. ASSUME NEW i \in DOMAIN slots, NEW c \in Conns, NEW n \in 1..Len(rx[c]),
                 Store(i, c, n) \/ \E chunks \in 1..MaxChunks : Respond(i, c, n, chunks)
          PROVE  phase' # "undefined"
      BY <3>4 DEF Store, Respond
    <3>5. ASSUME NEW i \in DOMAIN slots, NEW c \in Conns,
                 \/ ReceiveNothing(i, c) \/ SendChunk(i, c) \/ SendNothing(i, c)
                 \/ SendFails(i, c) \/ SendKills(i, c)
          PROVE  phase' # "undefined"
      BY <3>5 DEF ReceiveNothing, SendChunk, SendNothing, SendFails, SendKills
    <3> QED
      BY <2>1, <2>2, <2>3, <3>1, <3>2, <3>3, <3>4, <3>5 DEF ServerStep
  <2>4. CASE Clients \/ Interrupt \/ UNCHANGED vars
    BY <2>4 DEF Clients, Interrupt, vars, serverVars
  <2> QED
    BY <2>3, <2>4 DEF Next
<1> QED
  BY <1>1, <1>2, Invariance, PTL DEF Spec
=============================================================================
