------------------------- MODULE RequestProcessing -------------------------
(***************************************************************************)
(* Request::processRequest and what it calls: the lookup of directives     *)
(* (return_config_info, utils.cpp), the handlers of the three methods, and *)
(* the mutual recursion of http_code, which serves an error page by        *)
(* _process_GET, and _process_GET, which ends with http_code.              *)
(*                                                                         *)
(* Requests are processed one after another; what one leaves to the next   *)
(* is the process's working directory and the files.  A path is a sequence *)
(* of names, a block of the configuration [directives, pages], where pages *)
(* are the directives named "error_page" and a code.                       *)
(***************************************************************************)
EXTENDS Naturals, Sequences

CONSTANTS
    Names,      \* names of files and directories
    Config,     \* port -> [server, locations], as ConfigParser built it
    Requests,   \* the requests that may come
    Start,      \* directory the process is started in
    Dirs,       \* directories there are; none of them is empty
    InitFiles,  \* files there are at the start
    Unreadable, \* files and directories that cannot be opened
    Php,        \* names that end in .php
    Www,        \* names that begin with "www"
    Nothing,    \* the empty string
    Dead,       \* stands for the request when the process has ended
    MaxDepth,   \* calls there is room for on the stack
    Joined(_, _) \* the name of two names written one after the other

Paths == Seq(Names)
Methods == {"GET", "POST", "DELETE"}
Types == {"mime", "form", "other"}  \* in mime_types, a form's, none of these

\* A number as it is written: 0s at its beginning count.  None has no digits.
Number == [digits : Nat, value : Nat]

\* The directives a block may have, with their values.
Typed(block) ==
    /\ "allow" \in DOMAIN block.directives => block.directives["allow"] \subseteq Methods
    /\ "root" \in DOMAIN block.directives =>
           block.directives["root"] \in [absolute : BOOLEAN, path : Paths]
    /\ "index" \in DOMAIN block.directives => block.directives["index"] \in Names
    /\ "return" \in DOMAIN block.directives => block.directives["return"] \in Nat \ {0}
    /\ \A code \in DOMAIN block.pages : block.pages[code] \in Paths

\* A server has every directive but "return", for ConfigParser starts with the
\* values of _defautConfig; a location has those that are written.
ASSUME ProcessingAssumption ==
    /\ "www" \in Names
    /\ Start \in Paths /\ Dirs \subseteq Paths
    /\ InitFiles \subseteq Paths /\ InitFiles \cap Dirs = {}
    /\ MaxDepth \in Nat \ {0}
    /\ Nothing \notin Names \cup Nat \cup Paths \cup Requests \cup {Dead}
    /\ Dead \notin Requests
    /\ \A r \in Requests :
           /\ r.port \in DOMAIN Config /\ r.method \in STRING /\ r.url \in Paths
           /\ r.size \in Number /\ r.type \in Types /\ r.name \in Names
           /\ r.disposed \in BOOLEAN /\ r.misread \in {0, 400, 401, 402}
    /\ \A port \in DOMAIN Config :
           /\ {"allow", "root", "index", "autoindex", "cli_max_size"} \subseteq
                  DOMAIN Config[port].server.directives
           /\ Typed(Config[port].server)
           /\ \A place \in DOMAIN Config[port].locations : Typed(Config[port].locations[place])

ASSUME JoinedAssumption == \A a, b \in Names : Joined(a, b) \in Names

VARIABLES
    cwd,       \* the process's working directory
    files,     \* the files there are
    request,   \* what is processed: [port, method, url, size, type, name,
               \* disposed, misread]; its name is that of a Content-Disposition if
               \* it is disposed, misread is the error of its chunks, or 0
    url,       \* header["url"]
    pc,        \* the function that runs, or how the process ended
    raising,   \* the argument of http_code
    stack,     \* calls that wait for another one to return
    response   \* reponse: its code, its body, and what CONTENT-LENGTH is the length of

vars == <<cwd, files, request, url, pc, raising, stack, response>>

\* What a body, or a length, was made of.
Contents == {Nothing} \cup
    [kind : {"listing", "file", "cgi", "created", "deleted", "default", "request", "location"},
     path : Paths]
Content(kind, path) == [kind |-> kind, path |-> path]

TypeOK ==
    /\ cwd \in Paths
    /\ files \subseteq Paths
    /\ request \in Requests \cup {Nothing}
    /\ url \in Paths
    /\ pc \in {"idle", "processRequest", "http_code", "return", "exited", "crashed"} \cup Methods
    /\ raising \in Nat
    /\ stack \in Seq([code : Nat, body : Contents])
    /\ response \in [code : Nat, body : Contents, length : Contents]

NoResponse == [code |-> 0, body |-> Nothing, length |-> Nothing]

Init ==
    /\ cwd = Start
    /\ files = InitFiles
    /\ request = Nothing
    /\ url = <<>>
    /\ pc = "idle"
    /\ raising = 0
    /\ stack = <<>>
    /\ response = NoResponse

-----------------------------------------------------------------------------
(* Directives. *)

NoBlock == [directives |-> <<>>, pages |-> <<>>]

\* get_location_url and find_location: the block of the first name of the url
\* that is a location.  A location of several names, or of none, is never it.
Location(port, path) ==
    LET places == Config[port].locations
        First(k) == /\ path[k] \in DOMAIN places
                    /\ \A j \in 1..(k - 1) : path[j] \notin DOMAIN places
    IN  IF \E k \in DOMAIN path : First(k)
        THEN places[path[CHOOSE k \in DOMAIN path : First(k)]]
        ELSE NoBlock

\* return_config_info: the location's directive, or the server's.
Lookup(kind, name, port, path) ==
    LET server == Config[port].server[kind]
        here == Location(port, path)[kind]
    IN  IF name \in DOMAIN here THEN here[name]
        ELSE IF name \in DOMAIN server THEN server[name] ELSE Nothing

Info(name) == Lookup("directives", name, request.port, url)
ErrorPage(code) == Lookup("pages", code, request.port, url)

\* Variant with a fault: a root is always below the working directory.
ResolveRelative(from, root) == from \o root.path

\* A root is absolute or not.
Resolve(from, root) == IF root.absolute THEN root.path ELSE from \o root.path

-----------------------------------------------------------------------------
(* processRequest *)

Receive(r) ==
    /\ pc = "idle"
    /\ request' = r
    /\ url' = r.url
    /\ response' = NoResponse
    /\ pc' = "processRequest"
    /\ UNCHANGED <<cwd, files, raising, stack>>

\* What is raised before a handler is chosen, 0 if nothing is: by parseText for
\* the chunks of the body, after which processRequest returns at once; or for the
\* method.  Any may be allowed, but there are handlers for three.
Objection ==
    IF request.misread # 0 THEN request.misread
    ELSE IF request.method \notin Methods \cap Info("allow") THEN 405
    ELSE 0

Dispatch ==
    /\ pc = "processRequest"
    /\ Objection = 0
    /\ pc' = request.method
    /\ UNCHANGED <<cwd, files, request, url, raising, stack, response>>

\* return http_code(code)
Raise(code) ==
    /\ pc' = "http_code"
    /\ raising' = code
    /\ UNCHANGED stack

\* A body, and CONTENT-LENGTH.
Filled(body) == [response EXCEPT !.body = body, !.length = body]

\* http_code(code), and then body and its length.
RaiseThen(code, body) ==
    /\ pc' = "http_code"
    /\ raising' = code
    /\ stack' = Append(stack, [code |-> 0, body |-> body])

Refuse ==
    /\ pc = "processRequest"
    /\ Objection # 0
    /\ Raise(Objection)
    /\ UNCHANGED <<cwd, files, request, url, response>>

-----------------------------------------------------------------------------
(* _process_GET *)

Redirect ==
    /\ pc = "GET"
    /\ Info("return") # Nothing
    /\ Raise(Info("return"))
    /\ response' = [response EXCEPT !.length = Content("location", <<>>)]
    /\ UNCHANGED <<cwd, files, request, url>>

\* chdir(root), where the files are then looked up.
Root == Resolve(cwd, Info("root"))

\* exit(0)
ChdirFails ==
    /\ pc = "GET"
    /\ Info("return") = Nothing
    /\ Root \notin Dirs
    /\ pc' = "exited"
    /\ UNCHANGED <<cwd, files, request, url, raising, stack, response>>

\* The path that is opened: the index of a directory if there is one.
Target ==
    LET index == Append(url, Info("index"))
    IN  IF Root \o url \in Dirs /\ Root \o index \in files THEN index ELSE url

\* Variant with a fault: the path is below the working directory as it is.
ScriptOfDir(dir, path) == dir \o path

\* Cgi::complete_the_name_of_script: "/www" is put between the working
\* directory and the path unless the working directory has it.
Script(dir, path) ==
    IF \E k \in DOMAIN dir : dir[k] \in Www THEN dir \o path ELSE dir \o <<"www">> \o path

IsPhp(path) == path # <<>> /\ path[Len(path)] \in Php

Get ==
    /\ pc = "GET"
    /\ Info("return") = Nothing
    /\ Root \in Dirs
    /\ cwd' = Root
    /\ LET path == Root \o Target
           opens == path \in Dirs \cup files /\ path \notin Unreadable
       IN  \/ /\ path \in Dirs /\ Info("autoindex")
              /\ IF opens THEN RaiseThen(200, Content("listing", path))
                 ELSE Raise(401)
           \/ /\ ~(path \in Dirs /\ Info("autoindex"))
              /\ IF ~opens THEN Raise(404)
                 ELSE IF IsPhp(Target)
                 THEN RaiseThen(200, Content("cgi", Script(Root, Target)))
                 ELSE RaiseThen(200, Content("file", path))
    /\ UNCHANGED <<files, request, url, response>>

-----------------------------------------------------------------------------
(* _process_POST *)

\* The longer of two numbers is the greater one, 0s at the beginning or not.
Exceeds(a, b) == a.digits > b.digits \/ (a.digits = b.digits /\ a.value > b.value)

\* The checks in order; 0 when the request passes.
Refusal ==
    IF Exceeds(request.size, Info("cli_max_size")) THEN 413
    ELSE IF request.type = "other" THEN 415
    ELSE 0

\* find_url_and_name_from_file for an upload, which has a name of its own.
Upload == Resolve(cwd, Info("root")) \o Append(SubSeq(url, 1, Len(url) - 1), request.name)
Folder == SubSeq(Upload, 1, Len(Upload) - 1)

PostRefused ==
    /\ pc = "POST"
    /\ Refusal # 0
    /\ Raise(Refusal)
    /\ UNCHANGED <<cwd, files, request, url, response>>

PostScript ==
    /\ pc = "POST"
    /\ Refusal = 0
    /\ IsPhp(url)
    /\ RaiseThen(200, Content("cgi", Script(cwd, url)))
    /\ response' = [response EXCEPT !.length = Content("request", <<>>)]
    /\ UNCHANGED <<cwd, files, request, url>>

\* The type of a form is not in mime_types: create_file(it->first) reads the
\* end of the map.  The process dies, or a file of some name is made (PostFile).
PostUndefined ==
    /\ pc = "POST"
    /\ Refusal = 0
    /\ ~IsPhp(url)
    /\ request.type = "form"
    /\ pc' = "crashed"
    /\ UNCHANGED <<cwd, files, request, url, raising, stack, response>>

PostFile ==
    /\ pc = "POST"
    /\ Refusal = 0
    /\ ~IsPhp(url)
    /\ IF Folder \in Dirs /\ Upload \notin Dirs \cup Unreadable
       THEN /\ files' = files \cup {Upload}
            /\ response' = Filled(Content("created", Upload))
            /\ Raise(200)
       ELSE /\ Raise(400)
            /\ response' = [response EXCEPT !.length = Content("request", <<>>)]
            /\ UNCHANGED files
    /\ UNCHANGED <<cwd, request, url>>

-----------------------------------------------------------------------------
(* _process_DELETE *)

\* find_url_and_name_from_file for a removal: the url below the root, or the name
\* of a Content-Disposition, which is put after the root without a "/".
Removal ==
    LET root == Resolve(cwd, Info("root"))
    IN  IF ~request.disposed THEN root \o url
        ELSE IF root = <<>> THEN <<request.name>>
        ELSE [root EXCEPT ![Len(root)] = Joined(@, request.name)]

Delete ==
    /\ pc = "DELETE"
    /\ IF url # <<>> /\ Removal \in files
       THEN /\ files' = files \ {Removal}
            /\ response' = Filled(Content("deleted", Removal))
            /\ Raise(200)
       ELSE /\ Raise(204)
            /\ UNCHANGED <<files, response>>
    /\ UNCHANGED <<cwd, request, url>>

-----------------------------------------------------------------------------
(* http_code *)

\* The error page is fetched as if its path had been asked for.
ServePage ==
    /\ pc = "http_code"
    /\ ErrorPage(raising) # Nothing
    /\ Len(stack) < MaxDepth
    /\ url' = ErrorPage(raising)
    /\ pc' = "GET"
    /\ stack' = Append(stack, [code |-> raising, body |-> Nothing])
    /\ UNCHANGED <<cwd, files, request, raising, response>>

\* No room for one more call.
StackOverflow ==
    /\ pc = "http_code"
    /\ ErrorPage(raising) # Nothing
    /\ Len(stack) >= MaxDepth
    /\ pc' = "crashed"
    /\ UNCHANGED <<cwd, files, request, url, raising, stack, response>>

\* Variant with a fault: an error that has no page is raised again.
DefaultPageAgain ==
    /\ pc = "http_code"
    /\ ErrorPage(raising) = Nothing
    /\ response' = [Filled(Content("default", <<>>)) EXCEPT !.code = raising]
    /\ UNCHANGED <<cwd, files, request, url, pc, raising, stack>>

\* Variant with a fault: the code is set for errors only.
DefaultPageNoCode ==
    /\ pc = "http_code"
    /\ ErrorPage(raising) = Nothing
    /\ response' = IF raising >= 400
                   THEN [Filled(Content("default", <<>>)) EXCEPT !.code = raising]
                   ELSE response
    /\ pc' = "return"
    /\ UNCHANGED <<cwd, files, request, url, raising, stack>>

\* The page for errors that have none; the code.
DefaultPage ==
    /\ pc = "http_code"
    /\ ErrorPage(raising) = Nothing
    /\ response' = IF raising >= 400
                   THEN [Filled(Content("default", <<>>)) EXCEPT !.code = raising]
                   ELSE [response EXCEPT !.code = raising]
    /\ pc' = "return"
    /\ UNCHANGED <<cwd, files, request, url, raising, stack>>

-----------------------------------------------------------------------------
(* Returns. *)

\* Variant with a fault: the code of the page's own request stays.
ReturnedNested(call) == IF call.code # 0 THEN response ELSE Filled(call.body)

\* Variant with a fault: the body for errors that have no page is always put.
ReturnedDefault(call) ==
    IF call.code # 0
    THEN [Filled(Content("default", <<>>)) EXCEPT !.code = call.code]
    ELSE Filled(call.body)

\* Variant with a fault: CONTENT-LENGTH is not computed anew.
ReturnedLength(call) ==
    IF call.code # 0 THEN [response EXCEPT !.code = call.code]
    ELSE [response EXCEPT !.body = call.body]

\* What a call does after the one it waited for.
Returned(call) ==
    IF call.code # 0 THEN [response EXCEPT !.code = call.code] ELSE Filled(call.body)

Return ==
    /\ pc = "return"
    /\ stack # <<>>
    /\ response' = Returned(stack[Len(stack)])
    /\ stack' = SubSeq(stack, 1, Len(stack) - 1)
    /\ UNCHANGED <<cwd, files, request, url, pc, raising>>

\* processRequest returns, and composeReponse sends what it left.
Answer ==
    /\ pc = "return"
    /\ stack = <<>>
    /\ pc' = "idle"
    /\ UNCHANGED <<cwd, files, request, url, raising, stack, response>>

-----------------------------------------------------------------------------
Process ==
    \/ Dispatch \/ Refuse
    \/ Redirect \/ ChdirFails \/ Get
    \/ PostRefused \/ PostScript \/ PostUndefined \/ PostFile
    \/ Delete
    \/ ServePage \/ StackOverflow \/ DefaultPage
    \/ Return \/ Answer

Next == Process \/ \E r \in Requests : Receive(r)

Spec == Init /\ [][Next]_vars
FairSpec == Spec /\ WF_vars(Process)

-----------------------------------------------------------------------------
(* Properties. *)

Ended == pc \in {"exited", "crashed"}

\* processRequest returns.
Processed == pc = "return" /\ stack = <<>>

\* "Your server should never die.": no request ends the process.
StaysUp == ~Ended

\* Every request is answered, whatever error page it leads to: neither does it
\* go on for ever nor does it end the process.
RequestsEnd == pc # "idle" ~> pc = "idle"

\* The blocks that requests to a port may meet.
Blocks(port) ==
    {Config[port].server}
        \cup {Config[port].locations[place] : place \in DOMAIN Config[port].locations}

\* Roots are absolute and there, and pages are files that GET sends at once,
\* for codes that GET does not end with itself.
RootsThere(port) ==
    \A block \in Blocks(port) :
        "root" \in DOMAIN block.directives =>
            LET root == block.directives["root"]
            IN  root.absolute /\ root.path \in Dirs
PagesThere(port) ==
    \A block \in Blocks(port) : \A code \in DOMAIN block.pages :
        LET page == block.pages[code]
            root == Lookup("directives", "root", port, page)
        IN  /\ code # 200
            /\ Lookup("directives", "return", port, page) = Nothing
            /\ root.path \o page \in files \ (Unreadable \cup Dirs)

\* What it takes for a request to end the process, whatever came before it: a
\* form that is no script's, a root that is relative or missing, or an error
\* page that is missing or leads to another one.
Survives ==
    Ended =>
        \/ request.type = "form"
        \/ ~RootsThere(request.port)
        \/ ~PagesThere(request.port)

\* The code the request is answered with, from the first call of http_code on,
\* or 0: an error page that is fetched, and fails in its turn, changes nothing.
\* A body waits for the code 200 only.
Chosen ==
    IF stack # <<>> THEN IF Head(stack).code # 0 THEN Head(stack).code ELSE 200
    ELSE IF pc = "http_code" THEN raising
    ELSE IF pc \in {"return", "idle"} THEN response.code
    ELSE 0

\* Each request is an operation on the files, answered with one code.
Resources ==
    INSTANCE HttpResources WITH
        Nobody <- Nothing,
        FirstFiles <- InitFiles,
        store <- files,
        asked <- IF pc = "idle" THEN Nothing ELSE IF Ended THEN Dead ELSE request,
        code <- Chosen
ImplementsResources == Resources!SafeSpec

\* The error page of the request for a code, its root, and whether it can be
\* sent.
PageOf(code) == Lookup("pages", code, request.port, request.url)
PageRoot(page) == Lookup("directives", "root", request.port, page)
Sendable(page) ==
    /\ PageRoot(page).absolute /\ PageRoot(page).path \o page \in files \ Unreadable
    /\ Lookup("directives", "return", request.port, page) = Nothing

\* An error is answered with the page configured for it where it was asked
\* for, if that is a file there, and with the default one if there is none.
ErrorPageShown ==
    Processed /\ response.code >= 400 =>
        LET page == PageOf(response.code)
        IN  IF page = Nothing THEN response.body.kind = "default"
            ELSE Sendable(page) => response.body.path = PageRoot(page).path \o page

\* What is announced as the length of the body is its length: a client that
\* reads as much as it was told reads this answer and not the next one.
LengthAgrees == Processed /\ response.body # Nothing => response.length = response.body

ScriptMeant(body) ==
    LET root == Lookup("directives", "root", request.port, request.url)
    IN  IF request.method = "GET" THEN body.path \in files
        ELSE body.path = Resolve(Start, root) \o request.url
IsScript(body) == body # Nothing /\ body.kind = "cgi"

\* "the cgi should be run in the correct directory": the script that is run is
\* the file that GET has found, or the one that POST names.
ScriptNamed ==
    Processed /\ response.code = 200 /\ IsScript(response.body) => ScriptMeant(response.body)

\* "if url /kapouet is rooted to /tmp/www, url /kapouet/pouic/toto/pouet is
\* /tmp/www/pouic/toto/pouet": a location's name is not part of the path.
LocationRooted ==
    Processed /\ response.code = 200 /\ response.body.kind = "file"
        /\ request.url # <<>>
        /\ Head(request.url) \in DOMAIN Config[request.port].locations
    => LET root == Lookup("directives", "root", request.port, request.url)
       IN  root.absolute => response.body.path = root.path \o Tail(request.url)

-----------------------------------------------------------------------------
(* The inductive invariant. *)

\* What runs and what waits.
Handled ==
    /\ pc # "idle" => request \in Requests
    /\ pc \in Methods /\ stack = <<>> => pc = request.method
    /\ stack # <<>> => pc \in {"GET", "http_code", "return"} \/ Ended

\* Once chosen the code is on its way into the response.
CodeSettled ==
    /\ pc = "http_code" => raising # 0
    /\ pc = "return" => response.code # 0
    /\ stack # <<>> /\ Head(stack).code = 0 =>
           IF Len(stack) > 1 THEN stack[2].code = 200
           ELSE /\ pc # "GET"
                /\ pc = "http_code" => raising = 200
                /\ pc = "return" => response.code = 200

IInv == TypeOK /\ Handled /\ CodeSettled

-----------------------------------------------------------------------------
(* What Survives, LengthAgrees and ErrorPageShown rest on. *)

\* Nothing that Survives names is met.
Favourable ==
    /\ request.type # "form"
    /\ RootsThere(request.port) /\ PagesThere(request.port)

\* No request crashes the process by itself or removes a file, and it is started
\* with a configuration whose directories and pages are there.
Harmless == \A r \in Requests : r.type # "form" /\ r.method # "DELETE"
WellConfigured == \A port \in DOMAIN Config : RootsThere(port) /\ PagesThere(port)

Pages(port) == UNION {{block.pages[code] : code \in DOMAIN block.pages} : block \in Blocks(port)}

\* Then the recursion goes no deeper than an error page and its body.
BodyWaits == Len(stack) = 1 /\ stack[1].code = 0
PageWaits == Len(stack) = 1 /\ stack[1].code # 0
BothWait == Len(stack) = 2 /\ stack[2].code = 0
Succeeds == pc = "return" \/ (pc = "http_code" /\ raising = 200)
Shallow ==
    pc # "idle" /\ Favourable =>
        /\ ~Ended
        /\ \/ stack = <<>>
           \/ (BodyWaits \/ BothWait) /\ Succeeds
           \/ PageWaits /\ (pc = "return" \/ (pc = "GET" /\ url \in Pages(request.port)))

\* A page for 200 would be fetched after a body has been made (an upload, a
\* removal), and what that request leaves goes with the body made before.
NoPageFor200 ==
    \A port \in DOMAIN Config : \A block \in Blocks(port) : 200 \notin DOMAIN block.pages

\* There is no body before the request has succeeded or the default page is
\* put, and no length but its own afterwards.
LengthKept ==
    /\ response.body # Nothing => response.length = response.body
    /\ \/ pc \in Methods \cup {"processRequest"}
       \/ pc = "http_code" /\ raising # 200
       => response.body = Nothing

\* Error pages are files, and not scripts, whose path Cgi changes.
PlainPages ==
    \A port \in DOMAIN Config : \A block \in Blocks(port) :
        \A code \in DOMAIN block.pages : ~IsPhp(block.pages[code])

\* The page is on its way into the response, if nothing ends the process.
PageShown(page) ==
    LET path == PageRoot(page).path \o page
    IN  \/ Ended
        \/ PageWaits /\ pc = "GET" /\ url = page
        \/ BothWait /\ Succeeds /\ stack[2].body.path = path
        \/ PageWaits /\ pc = "return" /\ response.body.path = path

\* The page that is fetched is the one of the code first raised, looked up
\* with the url of the request; if it can be sent nothing else is put.
UrlAsked == stack = <<>> /\ pc \notin {"idle", "return"} => url = request.url \/ Ended
PageKept ==
    stack # <<>> /\ stack[1].code # 0 =>
        LET page == PageOf(stack[1].code)
        IN  page # Nothing /\ (Sendable(page) => PageShown(page))
PageFetched == files \cap Dirs = {} /\ UrlAsked /\ PageKept

\* Every root is the same one, absolute and with a name that Cgi looks for: it is
\* where the process is started, or the "www" there.  No directory has the name
\* of a script.
ScriptsAt(root) ==
    /\ \A port \in DOMAIN Config : \A block \in Blocks(port) :
           "root" \in DOMAIN block.directives =>
               block.directives["root"] = [absolute |-> TRUE, path |-> root]
    /\ \E k \in DOMAIN root : root[k] \in Www
    /\ \/ root = Start
       \/ root = Start \o <<"www">> /\ \A k \in DOMAIN Start : Start[k] \notin Www
    /\ \A dir \in Dirs : ~IsPhp(dir)

\* Then the script that waits for the code, or has been put, is the one that is
\* meant, and no error page stands in for a success.
ScriptKept(root) ==
    /\ cwd \in {Start, root}
    /\ stack # <<>> => stack[1].code # 200
    /\ stack # <<>> /\ stack[1].code = 0 /\ IsScript(stack[1].body) => ScriptMeant(stack[1].body)
    /\ stack = <<>> /\ Chosen = 200 /\ IsScript(response.body) => ScriptMeant(response.body)
=============================================================================
