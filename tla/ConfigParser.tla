---------------------------- MODULE ConfigParser ----------------------------
(***************************************************************************)
(* ConfigParser::startParsing: the token machine and the blocks it builds. *)
(* One step is one turn of parse(): createToken and methodLookup with the  *)
(* handler it finds and all that handler calls.                            *)
(***************************************************************************)
EXTENDS ConfigFile

VARIABLES
    previousToken,
    bracketCounter,
    isLocation,
    directive_name,
    directive_value,
    block_location,
    blockServer,
    singleList,
    serverList,
    globalConfig,
    ports,
    outcome  \* of startParsing; "terminated" is what no catch names

headVars == <<previousToken, bracketCounter, isLocation, directive_name, directive_value>>
dictVars == <<block_location, blockServer, singleList, serverList, globalConfig, ports>>
parserVars == <<fileVars, headVars, dictVars, outcome>>

\* The token a word is, by the handler of methodLookup that takes it.
Token(word) ==
    CASE word = "server" -> "server"
      [] word = "{" -> "brackets_open"
      [] word = "}" -> "brackets_close"
      [] word \in Keywords -> "name"
      [] word = ";" -> "semicolon"
      [] word = "location" -> "location"
      [] OTHER -> "value"

\* The tokens a handler takes its word after.
Follows ==
    [server |-> {"initialized", "brackets_close", "semicolon"},
     brackets_open |-> {"server", "location", "value"},
     brackets_close |-> {"semicolon", "brackets_close", "brackets_open"},
     name |-> {"semicolon", "brackets_open", "brackets_close", "initialized"},
     semicolon |-> {"value"},
     location |-> {"semicolon", "brackets_open", "brackets_close"},
     value |-> {"name", "location", "value"}]

Tokens == DOMAIN Follows \cup {"initialized"}
Dictionary(d) == DOMAIN d \subseteq Texts /\ d \in [DOMAIN d -> Texts]

TypeOK ==
    /\ FileTypeOK
    /\ previousToken \in Tokens
    /\ bracketCounter \in Int
    /\ isLocation \in BOOLEAN
    /\ directive_name \in Texts /\ directive_value \in Texts
    /\ Dictionary(block_location) /\ Dictionary(blockServer) /\ Dictionary(globalConfig)
    /\ \A i \in DOMAIN singleList : Dictionary(singleList[i])
    /\ \A i \in DOMAIN serverList : \A j \in DOMAIN serverList[i] : Dictionary(serverList[i][j])
    /\ ports \in Seq(Nat)
    /\ outcome \in {"parsing", "ok", "broken", "terminated"}

ParserInit ==
    /\ FileInit
    /\ previousToken = "initialized"
    /\ bracketCounter = 0
    /\ isLocation = FALSE
    /\ directive_name = <<>> /\ directive_value = <<>>
    /\ block_location = Empty
    /\ blockServer = Defaults
    /\ singleList = <<>> /\ serverList = <<>>
    /\ globalConfig = Empty
    /\ ports = <<>>
    /\ outcome = "parsing"

-----------------------------------------------------------------------------

\* The writer goes on; the whole file is read before it is parsed.
Write == outcome = "parsing" /\ WritePhrase /\ UNCHANGED <<headVars, dictVars, outcome>>

\* openConfFile finds no file.
OpenFails ==
    /\ outcome = "parsing" /\ written = 0
    /\ outcome' = "broken"
    /\ UNCHANGED <<fileVars, headVars, dictVars>>

EndOfFile ==
    /\ outcome = "parsing" /\ ahead = <<>>
    /\ outcome' = "ok"
    /\ UNCHANGED <<fileVars, headVars, dictVars>>

\* The handler of a token takes the next word.
Takes(token) ==
    /\ outcome = "parsing"
    /\ ahead # <<>> /\ Token(Head(ahead)) = token
    /\ previousToken \in Follows[token]
    /\ Read(Head(ahead))
    /\ previousToken' = token

\* A handler throws, as the word does not belong after the one before it.
Misplaced ==
    /\ outcome = "parsing" /\ ahead # <<>>
    /\ \/ previousToken \notin Follows[Token(Head(ahead))]
       \/ Head(ahead) = "location" /\ isLocation
    /\ Read(Head(ahead))
    /\ outcome' = "broken"
    /\ UNCHANGED <<headVars, dictVars>>

BlockServer ==
    /\ Takes("server")
    /\ UNCHANGED <<bracketCounter, isLocation, directive_name, directive_value, dictVars, outcome>>

HasDirectName ==
    /\ Takes("name")
    /\ directive_name' = <<Head(ahead)>>
    /\ UNCHANGED <<bracketCounter, isLocation, directive_value, dictVars, outcome>>

\* Mutant: the flag is not set.
HasLocationUnmarked ==
    /\ ~isLocation /\ Takes("location")
    /\ directive_name' = <<"location">>
    /\ UNCHANGED <<bracketCounter, isLocation, directive_value, dictVars, outcome>>

HasLocation ==
    /\ ~isLocation
    /\ Takes("location")
    /\ directive_name' = <<"location">>
    /\ isLocation' = TRUE
    /\ UNCHANGED <<bracketCounter, directive_value, dictVars, outcome>>

HasValue ==
    /\ Takes("value")
    /\ directive_value' = IF previousToken = "value" THEN Append(directive_value, Head(ahead))
                          ELSE <<Head(ahead)>>
    /\ UNCHANGED <<bracketCounter, isLocation, directive_name, dictVars, outcome>>

OpenBracket ==
    /\ Takes("brackets_open")
    /\ bracketCounter' = bracketCounter + 1
    /\ block_location' = IF isLocation THEN Put(block_location, directive_name, directive_value)
                         ELSE block_location
    /\ UNCHANGED <<isLocation, directive_name, directive_value, blockServer, singleList,
                   serverList, globalConfig, ports, outcome>>

-----------------------------------------------------------------------------
(* hasSemicolon *)

\* checkPort comes before the test for a location.
PortsAfter ==
    IF directive_name = <<"listen">> /\ directive_value \in DOMAIN PortOf
    THEN Append(ports, PortOf[directive_value]) ELSE ports

Refused ==
    /\ outcome = "parsing" /\ previousToken = "value"
    /\ Read(";")
    /\ NotAllowed(directive_name, directive_value, isLocation)
    /\ ports' = PortsAfter
    /\ outcome' = "broken"
    /\ UNCHANGED <<headVars, block_location, blockServer, singleList, serverList, globalConfig>>

\* Mutant: a directive of a location is put into the server's block.
HasSemicolonFlat ==
    /\ Takes("semicolon")
    /\ ~NotAllowed(directive_name, directive_value, isLocation)
    /\ ports' = PortsAfter
    /\ directive_name' = NameKept(directive_name, directive_value)
    /\ directive_value' = ValueKept(directive_name, directive_value)
    /\ blockServer' = Put(blockServer, directive_name', directive_value')
    /\ UNCHANGED <<bracketCounter, isLocation, block_location, singleList, serverList,
                   globalConfig, outcome>>

HasSemicolon ==
    /\ Takes("semicolon")
    /\ ~NotAllowed(directive_name, directive_value, isLocation)
    /\ ports' = PortsAfter
    /\ directive_name' = NameKept(directive_name, directive_value)
    /\ directive_value' = ValueKept(directive_name, directive_value)
    /\ globalConfig' = IF bracketCounter = 0
                       THEN Put(globalConfig, directive_name', directive_value') ELSE globalConfig
    /\ block_location' = IF bracketCounter # 0 /\ isLocation
                         THEN Put(block_location, directive_name', directive_value')
                         ELSE block_location
    /\ blockServer' = IF bracketCounter # 0 /\ ~isLocation
                      THEN Put(blockServer, directive_name', directive_value') ELSE blockServer
    /\ UNCHANGED <<bracketCounter, isLocation, singleList, serverList, outcome>>

-----------------------------------------------------------------------------
(* closeBracket and push_someWhere *)

\* The list a server's block becomes the front of.
Closing == <<blockServer>> \o singleList

CloseServer ==
    /\ bracketCounter = 1
    /\ Takes("brackets_close")
    /\ ~PageMissing(Closing)
    /\ bracketCounter' = 0
    /\ serverList' = Append(serverList, Closing)
    /\ singleList' = <<>>
    /\ blockServer' = Defaults
    /\ UNCHANGED <<isLocation, directive_name, directive_value, block_location, globalConfig,
                   ports, outcome>>

\* verrify_error_page throws a text, which ends the program.
CloseServerFails ==
    /\ outcome = "parsing" /\ bracketCounter = 1
    /\ previousToken \in Follows["brackets_close"]
    /\ Read("}")
    /\ PageMissing(Closing)
    /\ bracketCounter' = 0
    /\ serverList' = Append(serverList, Closing)
    /\ singleList' = Closing
    /\ outcome' = "terminated"
    /\ UNCHANGED <<previousToken, isLocation, directive_name, directive_value, block_location,
                   blockServer, globalConfig, ports>>

\* Mutant: the flag stays set.
CloseLocationMarked ==
    /\ bracketCounter # 1 /\ isLocation
    /\ Takes("brackets_close")
    /\ bracketCounter' = bracketCounter - 1
    /\ singleList' = Append(singleList, block_location)
    /\ block_location' = Empty
    /\ UNCHANGED <<isLocation, directive_name, directive_value, blockServer, serverList,
                   globalConfig, ports, outcome>>

CloseLocation ==
    /\ bracketCounter # 1 /\ isLocation
    /\ Takes("brackets_close")
    /\ bracketCounter' = bracketCounter - 1
    /\ singleList' = IF block_location = Empty THEN singleList
                     ELSE Append(singleList, block_location)
    /\ block_location' = Empty
    /\ isLocation' = FALSE
    /\ UNCHANGED <<directive_name, directive_value, blockServer, serverList, globalConfig, ports,
                   outcome>>

\* A bracket that closes neither: of a block after a value, or one too many.
CloseOther ==
    /\ bracketCounter # 1 /\ ~isLocation
    /\ Takes("brackets_close")
    /\ bracketCounter' = bracketCounter - 1
    /\ UNCHANGED <<isLocation, directive_name, directive_value, dictVars, outcome>>

ParserNext ==
    \/ Write \/ OpenFails \/ EndOfFile \/ Misplaced
    \/ BlockServer \/ HasDirectName \/ HasLocation \/ HasValue \/ OpenBracket
    \/ Refused \/ HasSemicolon
    \/ CloseServer \/ CloseServerFails \/ CloseLocation \/ CloseOther

ParserSpec == ParserInit /\ [][ParserNext]_parserVars

-----------------------------------------------------------------------------
(* Properties *)

\* Of a file that keeps the layout every directive goes to the block it stands
\* in, every block to its server, and the file is refused for a value or a
\* page only (methodLookup with all its handlers, push_someWhere).
Layout == INSTANCE ConfigLayout WITH
    global <- globalConfig, block <- blockServer, places <- singleList,
    place <- block_location, servers <- serverList, verdict <- outcome
ImplementsLayout == Layout!LayoutSpec

\* Whatever the file is like: a list begins with the block of its server, which
\* is not a location, for find_directive looks at the first block only; its
\* values have passed not_allow, though openBracket keeps some that have not.
Checked(dictionary) ==
    /\ <<"location">> \notin DOMAIN dictionary /\ <<"return">> \notin DOMAIN dictionary
    /\ {<<"listen">>, <<"root">>} \subseteq DOMAIN dictionary
    /\ dictionary[<<"root">>] \in Directories \cup {<<Home>>}
    /\ dictionary[<<"listen">>] \in DOMAIN PortOf
    /\ \/ PortOf[dictionary[<<"listen">>]] = 8080
       \/ \E i \in DOMAIN ports : ports[i] = PortOf[dictionary[<<"listen">>]]
ServersChecked ==
    \A i \in DOMAIN serverList : serverList[i] # <<>> /\ Checked(Head(serverList[i]))

\* What ServersChecked rests on: the next block is as the others, and a name is
\* "location" only while isLocation is set.
NextChecked == Checked(blockServer)
LocationMarked ==
    (previousToken \in {"name", "location", "value"} /\ directive_name = <<"location">>)
        => isLocation

\* What ImplementsLayout rests on: while the file is tidy the counter and the
\* flag say which blocks are open, the token says how far an item has come, and
\* the name and the value are the words of the item.
Depths ==
    /\ nest \in {<<>>, <<"server">>, <<"location", "server">>}
    /\ bracketCounter = Len(nest)
    /\ isLocation <=> \/ nest = <<"location", "server">>
                      \/ item # <<>> /\ Head(item) = "location"
    /\ (block_location = Empty) <=> (nest # <<"location", "server">>)
Between ==
    item = <<>> => /\ previousToken \in {"initialized", "semicolon", "brackets_open",
                                         "brackets_close"}
                   /\ previousToken = "initialized" => nest = <<>>
                   /\ previousToken = "brackets_open" => nest # <<>>
Heading ==
    item # <<>> =>
        \/ Head(item) = "server" /\ Len(item) = 1 /\ previousToken = "server" /\ nest = <<>>
        \/ /\ Head(item) = "location" /\ nest = <<"server">>
           /\ \/ Len(item) = 1 /\ previousToken = "location"
              \/ Len(item) = 2 /\ previousToken = "value"
        \/ /\ Head(item) \in Keywords
           /\ previousToken = IF Len(item) = 1 THEN "name" ELSE "value"
Said ==
    (item # <<>> /\ Head(item) # "server") =>
        /\ directive_name = <<Head(item)>>
        /\ Len(item) > 1 => directive_value = Tail(item)
Aligned == (outcome = "parsing" /\ tidy) => Depths /\ Between /\ Heading /\ Said

InStep == ServersChecked /\ NextChecked /\ LocationMarked /\ Aligned

\* The comments of hasSemicolon (ConfigParser.cpp 294-299): the directive that
\* was just ended is where it stands, outside any server, in the location or in
\* the server.  The code keeps to it as long as the file keeps the layout.
StoredWhereWritten ==
    (outcome = "parsing" /\ previousToken = "semicolon") =>
        LET Has(dictionary) == /\ directive_name \in DOMAIN dictionary
                               /\ dictionary[directive_name] = directive_value
        IN  /\ nest = <<>> => Has(globalConfig)
            /\ nest = <<"server">> => Has(blockServer)
            /\ nest = <<"location", "server">> => Has(block_location)

\* The first error page of a block is in the root that counts for the block.
PageFound(blocks, i) ==
    <<IF <<"root">> \in DOMAIN blocks[i] THEN blocks[i][<<"root">>] ELSE blocks[1][<<"root">>],
      FirstPage(blocks[i])>> \in Pages

\* What processRequest relies on ever after: the first error page of each block
\* is there, below the root of the block or, if it has none, of its server
\* (verrify_error_page), but for a block after a location with a root of its own.
PagesWhereRooted ==
    \A s \in DOMAIN serverList : LET blocks == serverList[s] IN
        \A i \in DOMAIN blocks :
            /\ outcome # "terminated" /\ PageNames(blocks[i]) # {}
            /\ \/ <<"root">> \in DOMAIN blocks[i]
               \/ \A j \in 2..(i - 1) :
                      PageNames(blocks[j]) = {} \/ <<"root">> \notin DOMAIN blocks[j]
            => PageFound(blocks, i)

\* The comment of verrify_error_page (ConfigParser.cpp 451): a location without
\* a root has its error pages where the server has its own.  For a block after
\* a location with a root of its own that is not so, as root_location stays.
PagesUnderOwnRoot ==
    \A s \in DOMAIN serverList : LET blocks == serverList[s] IN
        \A i \in DOMAIN blocks :
            outcome = "ok" /\ PageNames(blocks[i]) # {} => PageFound(blocks, i)
=============================================================================
