---------------------------- MODULE ConfigLayout ----------------------------
(***************************************************************************)
(* What a configuration file is promised: each directive goes to the block *)
(* it stands in, a location belongs to the server around it, the servers   *)
(* are kept in order, and a file that keeps the layout is refused for a    *)
(* value or for an error page only.  There is no token machine, no counter *)
(* and no flag: the blocks are those of the file.  Of a file that does not *)
(* keep the layout nothing is promised.                                    *)
(***************************************************************************)
EXTENDS ConfigFile

VARIABLES
    global,   \* the directives outside any server
    block,    \* those of the server that is open
    places,   \* its locations that are closed
    place,    \* the directives of the location that is open
    servers,  \* the servers that are closed: each a block, then its locations
    verdict

layoutVars == <<fileVars, global, block, places, place, servers, verdict>>
blockVars == <<global, block, places, place, servers>>

Name == <<Head(item)>>
Inside == IF nest = <<>> THEN "none" ELSE Head(nest)

LayoutInit ==
    /\ FileInit
    /\ global = Empty /\ block = Defaults /\ places = <<>> /\ place = Empty
    /\ servers = <<>>
    /\ verdict = "parsing"

OpenLocation ==
    /\ Read("{") /\ Head(item) = "location"
    /\ place' = Put(Empty, <<"location">>, Tail(item))
    /\ UNCHANGED <<global, block, places, servers, verdict>>

\* The directive that ends here, as it is kept.
Kept(dictionary) ==
    Put(dictionary, NameKept(Name, Tail(item)), ValueKept(Name, Tail(item)))

Unfit == NotAllowed(Name, Tail(item), Inside = "location")

Directive ==
    /\ Read(";") /\ ~Unfit
    /\ global' = IF Inside = "none" THEN Kept(global) ELSE global
    /\ block' = IF Inside = "server" THEN Kept(block) ELSE block
    /\ place' = IF Inside = "location" THEN Kept(place) ELSE place
    /\ UNCHANGED <<places, servers, verdict>>

CloseLocation ==
    /\ Read("}") /\ Inside = "location"
    /\ places' = Append(places, place)
    /\ place' = Empty
    /\ UNCHANGED <<global, block, servers, verdict>>

CloseServer ==
    /\ Read("}") /\ Inside = "server"
    /\ servers' = Append(servers, <<block>> \o places)
    /\ block' = Defaults /\ places' = <<>>
    /\ UNCHANGED <<global, place, verdict>>

\* A word that neither opens a location nor ends anything.
Mention ==
    /\ ahead # <<>> /\ Read(Head(ahead))
    /\ Head(ahead) \notin {"}", ";"}
    /\ Head(ahead) = "{" => Head(item) = "server"
    /\ UNCHANGED <<blockVars, verdict>>

Write == WritePhrase /\ UNCHANGED <<blockVars, verdict>>

Accept ==
    /\ ahead = <<>> /\ verdict' = "ok"
    /\ UNCHANGED <<fileVars, blockVars>>

\* The file cannot be opened, or a value is refused.
Refuse ==
    /\ \/ written = 0 /\ UNCHANGED fileVars
       \/ Read(";") /\ Unfit
    /\ verdict' = "broken"
    /\ UNCHANGED blockVars

\* An error page of the server is missing.
Miss ==
    /\ Read("}") /\ Inside = "server"
    /\ PageNames(block) # {} \/ \E i \in DOMAIN places : PageNames(places[i]) # {}
    /\ verdict' = "terminated"

LayoutNext ==
    \/ verdict = "parsing" /\ tidy'
           /\ \/ OpenLocation \/ Directive \/ CloseLocation \/ CloseServer
              \/ Mention \/ Write \/ Accept \/ Refuse \/ Miss
    \/ ~tidy'

LayoutSpec == LayoutInit /\ [][LayoutNext]_layoutVars
=============================================================================
