------------------------ MODULE MCRequestProcessing ------------------------
(* RequestProcessing on small instances; each cfg chooses a configuration, *)
(* its files and the requests that come.                                   *)
EXTENDS RequestProcessing, TLC

Srv == <<"srv">>
WwwDir == <<"srv", "www">>
Data == <<"srv", "data">>

Absolute(path) == [absolute |-> TRUE, path |-> path]
Relative(path) == [absolute |-> FALSE, path |-> path]

Digit(n) == [digits |-> 1, value |-> n]
None == [digits |-> 0, value |-> 0]

\* A server as _defautConfig makes it, with other pages.
Server(root, pages) ==
    [directives |-> [allow |-> Methods, root |-> root, index |-> "index",
                     autoindex |-> FALSE, cli_max_size |-> Digit(2)],
     pages |-> pages]

Block(directives, pages) == [directives |-> directives, pages |-> pages]

Request(method, path, size, type) ==
    [port |-> 8080, method |-> method, url |-> path, size |-> size, type |-> type,
     name |-> "new", disposed |-> FALSE, misread |-> 0]
Get_(path) == Request("GET", path, None, "other")
Post(path, n, type) == Request("POST", path, Digit(n), type)
Remove(path) == Request("DELETE", path, None, "other")
Disposed(r) == [r EXCEPT !.disposed = TRUE]
Misread(r, error) == [r EXCEPT !.misread = error]
MCJoined(a, b) == "wwwnew"
At3000(r) == [r EXCEPT !.port = 3000]
At4000(r) == [r EXCEPT !.port = 4000]

MCNames == {"srv", "www", "data", "a", "b", "api", "doc", "err", "gone.php", "img", "index",
            "locked", "new", "old", "script.php", "sub", "toobig",
            "wwwnew"}
MCDirs == {<<>>, Srv, WwwDir, WwwDir \o <<"api">>, WwwDir \o <<"img">>, WwwDir \o <<"sub">>,
           WwwDir \o <<"img", "sub">>,
           Data, Data \o <<"doc">>, Data \o <<"www">>}

-----------------------------------------------------------------------------
(* One root; error pages that are themselves refused, redirected or served. *)

OneRoot ==
    8080 :> [server |-> Server(Absolute(WwwDir),
                 400 :> <<"err">> @@ 404 :> <<"err">> @@ 405 :> <<"locked">> @@ 415 :> <<"old", "a">>),
             locations |->
                 "api" :> Block([allow |-> {"GET", "POST"}, cli_max_size |-> Digit(1)],
                                404 :> <<"api", "err">> @@ 413 :> <<"toobig">>)
                 @@ "old" :> Block([return |-> 307], <<>>)
                 @@ "img" :> Block([autoindex |-> TRUE], <<>>)]

OneRootFiles ==
    {WwwDir \o path : path \in {<<"a">>, <<"err">>, <<"locked">>, <<"toobig">>, <<"index">>,
         <<"script.php">>, <<"api", "err">>, <<"img", "a">>, <<"old", "a">>}}
    \cup {Append(Srv, "wwwnew")}
OneRootUnreadable == {WwwDir \o <<"locked">>, WwwDir \o <<"img", "sub">>}

\* The hypotheses of the theorems about lengths, pages and scripts.
ASSUME OneRootAssumption ==
    Config = OneRoot => ScriptsAt(WwwDir) /\ NoPageFor200 /\ PlainPages

OneRootRequests ==
    {Get_(path) : path \in {<<>>, <<"a">>, <<"new">>, <<"sub">>, <<"img">>, <<"img", "sub">>, <<"api", "a">>,
         <<"old", "b">>, <<"script.php">>}}
    \cup {Post(<<"a">>, 1, "mime"), Post(<<"a">>, 3, "mime"),
          Post(<<"api", "a">>, 2, "mime"), Post(<<"a">>, 1, "other"),
          Post(<<"gone.php">>, 1, "form"), Post(<<"err", "a">>, 1, "mime")}
    \cup {Remove(path) :
              path \in {<<"a">>, <<"new">>, <<"index">>, <<"api", "err">>, <<>>}}
    \cup {Request("PUT", <<"a">>, Digit(1), "mime")}
    \cup {Disposed(Remove(<<"a">>)), Disposed(Post(<<"a">>, 1, "mime")),
          Misread(Post(<<"a">>, 1, "mime"), 401),
          Misread(Get_(<<"api", "a">>), 400),
          Request("POST", <<"a">>, [digits |-> 2, value |-> 1], "mime")}

-----------------------------------------------------------------------------
(* Two servers and a location, each with its own root. *)

Roots ==
    8080 :> [server |-> Server(Absolute(WwwDir), 404 :> <<"err">> @@ 405 :> <<"err">>),
             locations |-> "doc" :> Block([root |-> Absolute(Data), allow |-> {"GET"}],
                                          404 :> <<"doc", "err">>)]
    @@ 3000 :> [server |-> Server(Absolute(Data), <<>>), locations |-> <<>>]

RootsFiles ==
    {WwwDir \o <<"err">>, WwwDir \o <<"a">>, Data \o <<"a">>, Data \o <<"doc", "a">>,
     Data \o <<"doc", "err">>}

RootsRequests ==
    {Get_(path) : path \in {<<>>, <<"a">>, <<"doc", "a">>, <<"doc", "b">>}}
    \cup {At3000(Get_(path)) : path \in {<<"a">>, <<"b">>, <<"doc", "a">>}}
    \cup {Post(<<"a">>, 1, "mime"), At3000(Post(<<"a">>, 1, "mime")),
          Post(<<"doc", "a">>, 1, "mime"),
          At3000(Remove(<<"a">>))}

-----------------------------------------------------------------------------
(* What ends the process as well: a root that is relative, an error page    *)
(* that is removed, a form that is no script's.                             *)

Faults == Roots @@ 4000 :> [server |-> Server(Relative(<<"www">>), <<>>), locations |-> <<>>]
FaultsFiles == RootsFiles

RelativeRequests == {At4000(Get_(<<"a">>)), At4000(Post(<<"a">>, 1, "mime"))}
PageRequests == {Get_(<<"a">>), Get_(<<"b">>), Remove(<<"err">>)}
FormRequests == {Get_(<<"a">>), Post(<<"a">>, 1, "form")}
FaultsRequests == RootsRequests \cup RelativeRequests \cup PageRequests \cup FormRequests

-----------------------------------------------------------------------------
(* Scripts of servers with other roots, and a location that has a root. *)

ScriptFiles == RootsFiles \cup {WwwDir \o <<"script.php">>, Data \o <<"script.php">>}
PostScriptRequests == {At3000(Get_(<<"a">>)), Post(<<"script.php">>, 1, "form")}

RootedFiles == RootsFiles \cup {Data \o <<"a">>}
RootedRequests == {Get_(<<"a">>), Get_(<<"doc", "a">>)}
=============================================================================
