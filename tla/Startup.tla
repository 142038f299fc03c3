------------------------------ MODULE Startup ------------------------------
(***************************************************************************)
(* The constructor of WebServer: the configuration is read, then           *)
(* buildServers opens one listening socket per server block.  Ports and    *)
(* blocks are two lists that are matched by position, and a request finds  *)
(* its block by the text of the port (getInfo).                            *)
(***************************************************************************)
EXTENDS ConfigParser

CONSTANTS
    PollfdSize,  \* entries of _pollFds
    Taken,       \* ports that another program has
    Padded       \* values of digits that are not how a number is printed

ASSUME StartupAssumption ==
    PollfdSize \in Nat /\ Taken \subseteq Nat /\ Padded \subseteq Texts

VARIABLES
    stage,      \* what the constructor does, or how the program ended
    listServer  \* ports of the servers that are set up; its length is _nfds

startVars == <<stage, listServer>>
vars == <<parserVars, startVars>>

StartTypeOK ==
    /\ TypeOK
    /\ stage \in {"config", "building", "launched", "exited", "terminated", "undefined"}
    /\ listServer \in Seq(Nat)

Init == ParserInit /\ stage = "config" /\ listServer = <<>>

Parse == stage = "config" /\ ParserNext /\ UNCHANGED startVars

\* isBroken is asked once; a text that was thrown comes to nobody.
Configured ==
    /\ stage = "config" /\ outcome # "parsing"
    /\ stage' = CASE outcome = "ok" -> "building"
                  [] outcome = "broken" -> "exited"
                  [] outcome = "terminated" -> "terminated"
    /\ UNCHANGED <<parserVars, listServer>>

Nfds == Len(listServer)
More == stage = "building" /\ Nfds < Len(serverList)

\* Variant with a fault: ports are counted from one.
NextPortShifted == IF Nfds > 0 /\ Nfds <= Len(ports) THEN ports[Nfds] ELSE 8080
NextPort == IF Nfds < Len(ports) THEN ports[Nfds + 1] ELSE 8080

\* The 16 bits of a port that htons keeps; a port has one listener.
Address(port) == port % 65536
CanBind(port) ==
    /\ Address(port) \notin Taken
    /\ \A i \in DOMAIN listServer : Address(listServer[i]) # Address(port)

SetupServer ==
    /\ More /\ CanBind(NextPort)
    /\ Nfds < PollfdSize
    /\ listServer' = Append(listServer, NextPort)
    /\ UNCHANGED <<parserVars, stage>>

\* socket(), setsockopt(), fcntl(), bind() or listen() fails.
SetupFails ==
    /\ More
    /\ stage' = "exited"
    /\ UNCHANGED <<parserVars, listServer>>

\* A write past the end of _pollFds.
SetupOverflows ==
    /\ More /\ CanBind(NextPort)
    /\ Nfds >= PollfdSize
    /\ stage' = "undefined"
    /\ UNCHANGED <<parserVars, listServer>>

Launch ==
    /\ stage = "building" /\ Nfds = Len(serverList)
    /\ stage' = "launched"
    /\ UNCHANGED <<parserVars, listServer>>

Next == Parse \/ Configured \/ SetupServer \/ SetupFails \/ SetupOverflows \/ Launch

Spec == Init /\ [][Next]_vars

-----------------------------------------------------------------------------

\* getInfo finds a block of this port.
Finds(port) ==
    \E i \in DOMAIN serverList : \E j \in DOMAIN serverList[i] :
        LET here == serverList[i][j]
        IN  /\ <<"listen">> \in DOMAIN here
            /\ here[<<"listen">>] \in DOMAIN PortOf \ Padded
            /\ PortOf[here[<<"listen">>]] = port

\* Once a whole file that keeps the layout is launched, the ports that are
\* listened on and the ports of the blocks are the same: requests find a block
\* on every port, and every block is reached (buildServers, getInfo).
PortsHaveBlocks ==
    (stage = "launched" /\ tidy /\ nest = <<>>) =>
        /\ \A i \in DOMAIN listServer : Finds(listServer[i])
        /\ \A i \in DOMAIN serverList :
               \E j \in DOMAIN listServer :
                   listServer[j] = PortOf[serverList[i][1][<<"listen">>]]

\* The servers that are launched listen where their blocks say, whatever the
\* file is like (the comment of _ports, ConfigParser.hpp).
ListensWhereSaid ==
    stage = "launched" =>
        \A i \in DOMAIN serverList : \E j \in DOMAIN listServer :
            Address(listServer[j]) = PortOf[serverList[i][1][<<"listen">>]]

\* A program that was launched has a port to serve.
LaunchedServes == stage = "launched" => listServer # <<>>

-----------------------------------------------------------------------------
(* What PortsHaveBlocks rests on. *)

\* The file writes its ports as numbers are printed.
PortsPrinted ==
    \A v \in Padded : /\ v # <<>> /\ v # <<"8080">>
                      /\ \A p \in Phrases : \A i \in DOMAIN p : p[i] # v[1]

\* No other value begins with a word that is in the file.
Printed(words) == \A i \in DOMAIN words : \A u \in Padded : words[i] # u[1]
AllPrinted ==
    /\ Printed(ahead) /\ Printed(directive_value)
    /\ blockServer[<<"listen">>] \notin Padded
    /\ \A i \in DOMAIN serverList : Head(serverList[i])[<<"listen">>] \notin Padded

\* The port of a block; the server around has put its own into its block.
PortIn(dictionary) == PortOf[dictionary[<<"listen">>]]
Listens == item # <<>> /\ Head(item) = "listen"
Own == listened /\ ~Listens

\* A server that is closed is without a "listen" of its own: the ports are
\* fewer than the servers.
Spare == Len(ports) < IF Own THEN Len(serverList) + 1 ELSE Len(serverList)

\* While a file is tidy its ports and its servers are paired: a "listen" stands
\* in a server and goes to its block; each port is that of a server; each
\* server has its port among them or is one of those that have the default.
ListenPlaced ==
    /\ nest = <<>> => ~listened
    /\ Listens => listened /\ nest = <<"server">>
OwnPort ==
    /\ ~Own => blockServer[<<"listen">>] = <<"8080">>
    /\ Own => \E k \in DOMAIN ports : ports[k] = PortIn(blockServer)
    /\ Len(ports) <= IF Own THEN Len(serverList) + 1 ELSE Len(serverList)
PortsServed ==
    \A k \in DOMAIN ports :
        \/ Own /\ ports[k] = PortIn(blockServer)
        \/ \E i \in DOMAIN serverList : PortIn(Head(serverList[i])) = ports[k]
ServersPorted ==
    \A i \in DOMAIN serverList :
        \/ \E k \in DOMAIN ports : ports[k] = PortIn(Head(serverList[i]))
        \/ Spare /\ PortIn(Head(serverList[i])) = 8080
SpareServed == Spare => \E i \in DOMAIN serverList : PortIn(Head(serverList[i])) = 8080
Pairing == ListenPlaced /\ OwnPort /\ PortsServed /\ ServersPorted /\ SpareServed
PortsPaired == (outcome \in {"parsing", "ok"} /\ tidy) => Pairing

\* The servers that are set up have the ports in their order, then the default.
Paired ==
    /\ stage = "config" => listServer = <<>>
    /\ stage \in {"building", "launched"} =>
           /\ outcome = "ok"
           /\ Len(listServer) <= Len(serverList)
           /\ stage = "launched" => Len(listServer) = Len(serverList)
           /\ \A k \in DOMAIN listServer :
                  listServer[k] = IF k <= Len(ports) THEN ports[k] ELSE 8080
=============================================================================
