# webserv in TLA+

webserv is an HTTP/1.1 server in C++98: one process, one thread, one `poll()`
for all sockets, virtual servers and locations from an nginx-like file, static
files, uploads, removals, directory listings and CGI scripts. This directory
models its core, checks it with TLC on small instances, and proves the
invariants that do not depend on the size of the instance with TLAPS.

Paths below are relative to `src/`; `W`, `S`, `R`, `C`, `P`, `U` stand for
`src/WebServer.cpp`, `src/Server.cpp`, `src/Request.cpp`, `src/Cgi.cpp`,
`src/ConfigParser.cpp` and `src/utils.cpp`.

## 1. Inventory

| Component | State it keeps | Operations | What makes it correct |
|---|---|---|---|
| Event loop (`W`) | `_pollFds`, `_nfds`, `_compressPollFds`, the list of servers | `launchServers`, `serveConnectionAt`, `addFdsToPollFds`, `clearPoll` | the table holds the listening sockets and the open connections, each once, inside the array; nothing blocks; every connection is served and given back |
| Server (`S`) | listening socket, port, `_socketsConnected`, `_closedConnection` | `setup`, `acceptNewConnections`, `serveEstablishedConnectionFor`, `receiveData`, `eraseClientSocketFD` | a descriptor is in the vector of its own server and in no other |
| Request buffers (`R` 4-5) | `g_request`, `g_reponse`: bytes by descriptor | `store`, the clear in `parseText`, `composeReponse`, `sendResponse` | what is buffered for a descriptor belongs to the connection it stands for |
| Framing (`R` 10-22, 390-449) | none of its own | `store`, `isFullyReceived` | a request is complete when all of it has arrived, and only then |
| Request text (`R` 57-253) | `header` | `parseText` | line, query, fields and body are what was sent; what is refused is refused for its line, by the server it came to |
| Request processing (`R` 255-811) | `header`, `reponse`, and of the process: working directory, files | `processRequest`, `_process_GET/POST/DELETE`, `http_code`, `create_file` | one code per request, the page configured for it, a length that fits the body, no other effect on files, an end |
| Routing (`U`, `R` 497-521) | none | `getInfo`, `find_location`, `return_config_info` | the location's directive goes before the server's |
| CGI (`C`) | pipes, child, `_data`, `_env_map` | `exec_Cgi`, `check_error`, `complete_the_name_of_script`, `remove_headers` | returns, with all the script wrote; the script hears the whole body; failures reach the request |
| Configuration (`P`) | token machine (`previousToken`, `bracketCounter`, `isLocation`), blocks, ports | `startParsing`, `methodLookup` and its handlers, `push_someWhere`, `verrify_error_page` | accepts what its layout rules allow; each directive lands in its block; pages it has checked are there |
| Startup (`W` 5-45, `S` 7-26) | servers that are set up, `_nfds` | the constructor of `WebServer`, `buildServers`, `Server::setup` | a socket for each block and a block for each socket |
| Entry point (`main.cpp`) | none | choice of the file | - |
| Tables (`initialize_mime_types`, `http_table`) | constants | - | - |

How they interact: the loop calls a Server for each slot with an event; the
Server receives or sends and calls the Request, whose four functions run to the
end within that call; the Request calls Cgi, which blocks the thread until the
script has ended. There are no threads and no callbacks but the SIGINT handler,
which prints. State that outlives a call is the poll table, the vectors, the two
maps of buffers, the working directory, the files and open descriptors.

What is hard: clients act between any two system calls; descriptors are reused
at once; slots of the table move; TCP cuts requests anywhere; `http_code` and
`_process_GET` call each other; one request changes the working directory of
the next; the parent, the child and the script wait for each other over two
pipes. `PROJECT.json` lists each hazard at its line.

## 2. Modules

| Module | Models | Role |
|---|---|---|
| `HttpSessions` | what a client is promised of its connection | abstract specification |
| `Sockets` | clients and kernel | external environment |
| `WebServer` | `W`, `S`, the buffers of `R` | extends `Sockets`, implements `HttpSessions` |
| `WebServerProofs` | | theorems about `WebServer`, whatever clients do |
| `SessionsProofs` | | theorems about `WebServer` and orderly clients, extends `WebServerProofs` |
| `CgiCall` | what a request is promised of a script | abstract specification |
| `Cgi` | `C` 90-147: parent, child, script | implements `CgiCall` |
| `CgiProofs` | | theorems about `Cgi` and `CgiHeaders`, extends `TextsProofs` |
| `HttpResources` | each request as one operation on the files with one code | abstract specification |
| `RequestProcessing` | `R` 255-276 and 470-811, `U`, `C` 27-53 | implements `HttpResources` |
| `RequestProcessingProofs` | | theorems about `RequestProcessing` |
| `Texts` | `std::string` and `std::map` as the scans use them | operators |
| `RequestText` | `R` 57-253: `parseText` | operators, extends `Texts` |
| `RequestFraming` | `R` 10-22 and 390-449: one connection on which requests arrive | extends `RequestText` |
| `TextsProofs` | | lemmas about texts and loops, of any length |
| `RequestFramingProofs` | | what the parts of `parseText` return, and a theorem about `isFullyReceived`; extends `TextsProofs` |
| `RequestReadProofs` | | theorems about what `parseText` makes of requests, extends `RequestFramingProofs` |
| `CgiHeaders` | `C` 155-180: `remove_headers` | extends `Cgi` and `Texts` |
| `ConfigDirectives` | names, values and blocks; `not_allow`, the error pages | operators |
| `ConfigFile` | the file as it is meant: words in blocks in braces | extends `ConfigDirectives` |
| `ConfigLayout` | what a configuration file is promised | abstract specification, extends `ConfigFile` |
| `ConfigParser` | `P`: the token machine and what it builds | extends `ConfigFile`, implements `ConfigLayout` |
| `Startup` | `W` 5-45, `S` 7-26, `getInfo` | extends `ConfigParser` |
| `ConfigProofs` | | theorems about `ConfigParser` and `Startup` |
| `MCWebServer`, `MCCgi`, `MCRequestProcessing`, `MCRequestFraming`, `MCStartup` | | instances for TLC |

The components meet at these points. `Startup` ends with the listening sockets
from which `WebServer` starts. `WebServer` takes a request as a sequence of
pieces, the last of which completes it, and a response as a number of pieces;
`RequestFraming` shows for which requests that is so, and hands on the map
`header`, of which `RequestProcessing` takes url, method and length.
`WebServer` takes the handlers as one step that returns; `RequestProcessing`
and `Cgi` show when they do. `RequestProcessing` takes what `exec_Cgi` returns
as one content and the blocks that `ConfigParser` builds as a constant.

### WebServer

A step is one system call with the code that follows it up to the next one, and
`Clients` steps come between any two.

* `slots` is `_pollFds[0.._nfds-1]`, a sequence; `Closed` is the `-1` written by
  `serveEstablishedConnectionFor`. `index` is the loop variable, `phase` the
  statement that runs or how the process ended.
* `connected[s]` is the vector of server `s`, whose listening descriptor is `s`.
  Client descriptors are `NumServers+1..MaxFd`, given lowest first; descriptors
  0-2 are left out. `pipes` are the ends of `pipeFd` that `exec_Cgi` keeps.
* `gRequest[fd]` is whose bytes are buffered, `gResponse[fd]` whose request is
  answered and how many pieces are left. Contents are no part of it.
* `Poll`, `Interrupt`, `StartAccept`, `AcceptOne`, `AcceptDone`, `AcceptFails`,
  `ReceiveNothing`, `Store`, `Respond`, `PipeFails`, `SendChunk`, `SendNothing`,
  `SendFails`, `SendKills`, `EndRound`, `ClearSlot` and `ClearDone` are the exits
  of the functions named in their comments. `Respond` is the whole of
  `parseText`, `processRequest` and `composeReponse`. `RunsScript` counts the
  descriptors of a script: two for its pipe, one of which stays open, and one more
  that GET holds meanwhile for the file of the script (`R` 617).

Simplifications: a backlog is a set, not a queue; a `send()` of 10000 bytes on a
socket that `poll()` reports writable is taken not to block; a client closes both
directions at once; ECONNRESET is reported once. Where the behaviour of
the C++ is undefined (a write past `_pollFds`, the integers of a failed
`pipe()`), the process goes to "undefined" and stays there.

### Cgi

`parent` and `child` are the next system call of either; `writers` says who has
the write end of `pipeFd` open, on which the end of the output depends. A pipe
holds `Capacity` pieces. Output pieces are numbered, so that order and
completeness can be stated. `status` is as `wait()` reports it: `NotStarted` is
what becomes of `exit(-1)`. Of the environment only the body is kept.

`CgiHeaders` gives the pieces of the output a text: piece `k` is symbol `k` of
what the script wrote. `RemoveHeaders` is the loop of `remove_headers` with its
two positions; `ValueIn` keeps the length that wraps around when nothing
follows a colon.

### RequestProcessing

One variable per thing that lasts: `cwd` is the process's working directory,
`files` the files. The C++ call stack of `http_code` and `_process_GET` is
`stack`, each frame with what the caller does when the call returns (set the
code again, or set a body and its length). `url` is `header["url"]`, which
`http_code` overwrites. A path is a sequence of names, a body or a length is
named by what it was made of. `Location` is the search of
`utils.cpp`; `Lookup` is `return_config_info`.

A request has what `parseText` left: its Content-Length with the number of digits
it is written with, which the code compares first (`Exceeds`; none without a
Content-Length, so that a chunked body passes `cli_max_size` by), the error its
chunks have raised (`misread`, after which `processRequest` returns at once:
`Objection`), and the name it gives an upload. If that is the one of a
Content-Disposition (`disposed`), a removal looks for it too, and writes it after the
root without a slash between them (`Removal`, `Joined`).

Simplifications: directories do not change and are not empty (`remove()` of one
fails); `..` and trailing slashes are not split; the file name within a
Content-Disposition is data; roots are written without a trailing slash; headers of
scripts are not looked at; `MaxDepth` stands for the stack. `PostUndefined` is one outcome of
`create_file(mime_types.end()->first)`, `PostFile` the other one. `LengthAgrees`
and `ErrorPageShown` do not speak of a page for the code 200.

### RequestText and RequestFraming

A text is a sequence of symbols. CR, LF, spaces, `0`, `:`, `/` and `?` are
symbols of their own, as the code compares them; numbers, names, the boundary
and the rest of a word are one symbol each. `toupper` is `Upper`, from each name
that is used in more than one form to the form it becomes.

`ParseText` is all of `parseText`, in its order: the request line with its
errors, the path check, the fields in the loop `Fields`, the
boundary that is noted one field late, the lines around a part, the body.
`Dechunk` is the decoder with its three error codes, the `at()` that throws and
the one that is caught. `header` is a function from texts to texts.

A step of `Receive` is one `recv()` with `store`, `isFullyReceived` and, when
that is true, `parseText`. `Scan` keeps what makes the loops of
`isFullyReceived` particular: `++i` inside the condition goes past the symbol
that did not match. `FullyReceived` is the set of values the function may
return, for `content_length` is not initialized and may stay so
(`LengthsSaid`). A request is a record of what the client means: how it is
framed, the pieces of its body, method, path, query, version, fields with the
spaces around their values; `Bytes` is what it sends.

The loops of the code are written with `Loop` of `Texts`: as many turns as the
text is long, which are enough since each takes something away. It is a
recursive function and not a recursive operator, so that it can be reasoned
about. The paragraphs `Framed` and `Readable` are hypotheses of theorems (section
4); TLC evaluates on the run's instance that every request of it satisfies them.

Simplifications: a form has one part. TCP cuts between symbols, so never within a
number. The code looks up a Content-Type that is not there with `[]`, which leaves an
empty entry in `header` (`R` 204); the model's map has none, which reads the same.
`misread` of `RequestProcessing` stands for the codes of `Dechunk`.

### ConfigFile, ConfigParser and Startup

`ConfigFile` writes a file phrase by phrase while the parser reads it, which
covers all files of a length. It keeps what the file means (`nest`, the blocks
around the next word; `item`, the words since the last brace or semicolon) and
whether it is `tidy`: laid out as the files in `configs/` are. The parser sees
none of this.

`ConfigParser` has the variables of the class under their names. A step is one
turn of `parse()`: `createToken`, then `methodLookup` with the handler it finds
and all that handler calls. `Token` is the table of patterns, `Follows` the
tokens each handler looks for in `previousToken`. `BlockServer`, `OpenBracket`,
the cases of the closing bracket, `HasDirectName`, `HasLocation`, `HasValue` and
those of the semicolon are the handlers; `Misplaced`, `OpenFails` and
`EndOfFile` the other ways on. `outcome` tells the exceptions that
`startParsing` catches from the `const char*` it does not name.

`ConfigLayout` has neither token nor counter nor flag: it puts each directive in
the block the file says. Of an untidy file it promises nothing.

`Startup` adds the constructor of `WebServer`: `Parse`, `Configured`
(`isBroken`), one `SetupServer` or one of its failures for each block, `Launch`.
Ports are taken by position, and `Finds` is the search of `getInfo` by the text
of a port. 16 bits of a port are kept (`Address`).

Simplifications: of the default values two are kept (`listen`, `root`), as the
others are stored in the same way; comments and the space after a name are
below the words; of the error pages of a block `verrify_error_page` looks at the
first, which is `FirstPage`, in the order of `std::map` (`Lexicon`).

## 3. Runs

| Run | Shows | Instance, and why it is enough |
|---|---|---|
| `persistent` | with clients that stay connected every request is answered, as `HttpSessions` promises | 2 servers, 2 clients at once, 2 pieces per request and response: every interleaving of two slots |
| `sequential` | with orderly clients one at a time nothing of an earlier client shows and the server hangs up on nobody | 3 clients, descriptors 2-4: each is reused |
| `churn` | poll table, vectors and descriptors agree in every round; nothing blocks; the array is not left | 2 servers, 3 clients, 3 descriptors: two closed slots and a fresh one in one round |
| `reclaim` | connections are accepted and given back whatever clients do, unless the process ends | 2 clients that may reset at any point, one of them asks for a script; all ways to end are reached |
| `concurrent` | *violation* of `RequestsAnswered` | 2 orderly clients side by side |
| `cgi` | the call returns with all the script wrote, its headers apart from its content | pipe of 24, outputs as long as the answers: content that is empty, looks like a header or has blank lines; bodies of 0, 1 and 24: empty, partly full, full |
| `cgi_big_output` | *violation* of `CallReturns` | one piece more than the pipe holds |
| `one_root` | no request ends the process; code, page, length, script and files are right | 26 requests in any order over pages that are refused, redirected or missing in their turn, with numbers that begin with 0, chunks that could not be read and a removal by name |
| `faults` | what one request leaves does not change the next; only three things end the process | 3 servers and a location with roots of their own; 16 requests in any order |
| `relative_root` | *violation* of `StaysUp` | two GETs below a relative root |
| `framing` | a request is complete when it is whole and not before; its line, fields and body are read as sent | 156 requests cut anywhere, two on a connection: bodies of CR, LF, `0`, `:` in every order, all paths of up to 4 steps, names of the code's own entries as fields |
| `config` | of a tidy file each directive lands in its block and each port has a server; of any file what is launched has passed the checks | files of up to 6 phrases out of 17 that open, close, set, set wrongly or break off; 2 entries in `_pollFds`, so that a third server overflows them |

`CHECK_DEADLOCK FALSE` stands where the system may rest: `poll()` waits when no
client does anything, a process that has ended does nothing, a call that has
returned is over. Bounds: `MaxParts` (pieces a client sends), `MaxChunks` (pieces
of a response), `MaxFd`, `MaxDepth`, `MaxNumber`, `MaxSent`, `MaxPhrases`; none of
them guards an action of the program but `MaxDepth`, the stack. `one_root` and
`faults` need a depth of 4 at most unless the recursion has no end.

Fairness. `WF(ServerStep)`: the thread runs when it is not in `poll()` with
nothing to do. `WF(Drain)` for clients that are not `Rude`: a client that waits
for an answer reads it. `WF` of the parent, the child and the script in `Cgi`:
the kernel runs processes, and a script goes on to its end (a script that never
ends is not excluded by the code; it would hold the server). `WF(Process)`: a
function that runs goes on. `WF_wire(Deliver)`: bytes that were sent arrive, in
whatever pieces; what the server makes of them is no part of it. Nothing is
assumed of the parser, which has no liveness to state.
Nothing is assumed of clients that connect, send or leave.

### Clients for whom the promises hold

`HttpSessions` is implemented for clients that send one request at a time and
either stay (`persistent`) or come one after another (`sequential`). The limits
are the code's: `clearPoll` moves the descriptor of a slot but not its `events`
(`W` 133), so that with clients side by side one that leaves hands its interest
to another (`concurrent`). `SessionsProofs` states them as `OrderlyClients` and proves
the safety part for any number of clients.

### Disagreements met on the way

Three are runs. The others have a configuration of their own, which
`tlc -config <file> <module>` refutes; they are not runs, since they
ask again what a run asks. The passing runs exclude their causes, or their
properties end with them: those of `reclaim` hold until the process ends, `Survives`
names the three things that end it in `faults`, `persistent` has neither leavers nor
pipeliners. So these configurations, and not the passing runs, show those hazards. The
first six, like the runs, go against the subject: "Your server should never die."
(`www/pdf/en.subject.pdf`, page 7) and "A request to your server should never hang
forever." (page 4).

| Configuration | Refutes | What happens |
|---|---|---|
| `MCRude` | `NeverDies` | `send()` to a connection that was reset raises SIGPIPE (`R` 367) |
| `MCCgiLeak` | `NeverDies` | each script costs a descriptor (`C` 137); then a `pipe()` that failed is used, or `accept()` throws what nobody catches (`S` 42, `W` 87) |
| `MCCrowd` | `NeverDies` | a descriptor limit above `POLLFD_SIZE` (`W` 146) |
| `MCForm` | `StaysUp` | `create_file` reads the end of a map (`R` 739) |
| `MCPageRemoved` | `StaysUp` | a 404 whose page is missing leads to a 404 (`R` 790) |
| `MCPipelined` | `RequestsAnswered` | the clear of the buffer drops a second request (`R` 241) |
| `MCAbandoned` | `OwnBytes` | buffers are not cleared on close (`S` 81); the next client of the descriptor inherits them |
| `MCCgiBigBody` | `CallReturns` | the child writes the body before anyone reads it (`C` 121) |
| `MCCgiBigBody` with `Outputs = {1}`, `Bodies = {0}`, `Terminal = TRUE` | `CallReturns` | without a body the script has the server's standard input (`C` 115) |
| `MCCgiNotInstalled` | `ExecFailureReported` | the status of a failed `execve()` is positive (`C` 135) |
| `MCRefused` | `RefusedByServer` | a line is refused before `header["port"]` is set, so the page is not the server's (`R` 87) |
| `MCCgiEmptyValue` | `HeadersRemoved` | a header with nothing after its colon takes all that follows as its value (`C` 174) |
| `MCConfigPages` | `PagesUnderOwnRoot` | the root of a location stays for the locations after it (`P` 449-451) |
| `MCConfigStray` | `StoredWhereWritten` | after a brace too many directives land in the wrong block (`P` 392) |
| `MCConfigPorts` | `ListensWhereSaid`, `PortsHaveBlocks` | a port above 65535 is cut to 16 bits (`S` 22); `08080` is listened on, but `getInfo` compares texts and finds no block |
| `MCConfigNothing` | `LaunchedServes` | a file without a server is launched and serves nothing (`P` 228) |
| `MCPostScript` | `ScriptNamed` | the path of a script is built from the working directory (`C` 42-50) |
| `MCRooted` | `LocationRooted` | a location's root is put before the whole url (`R` 600) |

`MCRequestFraming` names more sets of requests, each of which refutes a
property of `framing` when it takes the place of `WellFramed`:

| Set | Refutes | What happens |
|---|---|---|
| `EmptyLength` | `RequestsComplete` | `Content-Length: 0` waits for one more byte (`R` 430) |
| `EmptyChunked`, `ChunkEnd`, `ChunkZero` | `RequestsComplete` | `++i` goes past the CR where the end begins (`R` 402) |
| `ChunkLast` | `WholeOnly` | data that look like the last chunk end the request |
| `Mention` | `RequestsComplete` | headers are looked for in the body too (`R` 396) |
| `Upload` | `BodyDelivered` | a form whose Content-Type is the last field keeps its boundary lines (`R` 204), as `curl -F` sends it |
| `SpaceAfter` | `HeadersRead` | a space after a value is kept, though the comment says it is skipped (`R` 236) |
| `SpacesBefore` | `RequestsComplete` | with two spaces before it the Content-Length is not read, and `content_length` is not initialized (`R` 415-422) |
| `EmptyPart` | `BodyDelivered` | an empty part is stored as CR LF (`R` 193) |
| `LastUp` | `LineJudged` | `/..` leaves the root and is not refused, as only steps with a `/` behind them count (`R` 104); the comment says "check that path is valid (does not go beyond root)" (`R` 95) |
| `Dots`, `EmptyStep` | `LineJudged` | `.` and the step between two slashes count as steps down (`R` 107), so that `/././../../a` and `//../a` are not refused, against the same comment |

## 4. Proofs

Every theorem is about `Spec`, for all values of the constants that satisfy the
named assumptions (`SocketsAssumption`, `WebServerAssumption`, `CgiAssumption`,
`ProcessingAssumption`, `JoinedAssumption`, `DirectivesAssumption`, `FileAssumption`, `TextAssumption`,
`FramingAssumption`, `SizesAssumption`), which TLC evaluates in the runs. The library's facts
about finite sets and sequences are the only others used.

* `WebServerProofs`. None of the properties is inductive. `PollTableExact`
  speaks of `poll` only; in between, descriptors that were just accepted have no
  slot (`Fresh`) and closed connections still have one. `IInv` says so for every
  phase: the vectors partition the open descriptors (`VectorsPartition`), the
  slots cover those that are not fresh, once (`SlotsCover`, `SlotsUnique`),
  closed slots are behind the loop and `compress` is set (`HolesBehind`),
  listeners keep the first slots (`ListenersFirst`), a connection has one
  descriptor (`SocksOpen`). `PollTableBounded` needs a counting argument: each
  slot, open or closed in this round, is charged to a descriptor of its own, as
  a slot is marked only after `poll()` and slots are added for descriptors that
  had none. There is one lemma per action; `NextInv` puts them
  together. Theorems: `Invariance`, `TypeCorrect`, `ConnectionsPartitioned`,
  `PollTableCorrect`, `ServingNeverBlocks`, `PollTableNeverLarger`,
  `NeverUndefined`.
* `SessionsProofs`. `OrderlyClients` says of the constants what the section above
  says: nobody resets a connection or leaves one with a request open (`Rude`),
  nobody asks before the answer (`Pipeliners`), and either nobody leaves or at most
  one client is there. `InterestMatches` and `OwnBytes` are not inductive: `SInv`
  adds where the one request of a connection is (`Accounts`: with the client, in
  the socket, in `g_request` or as pieces in `g_reponse`; what is closed has left
  nothing), that what was reported is what the slot asks for, and that while a slot
  is marked every other one waits for a request (`Interests`), so that it does no
  harm that `clearPoll` moves descriptors without events. Without leavers no slot
  is ever marked. With them, `Turns` says that a connection that was left is closed
  in the very round in which the next one is accepted, which is served in a later
  round; `Listening` that an `accept()` finds the connection `poll()` reported, and
  `Crowd` counts the clients. Theorems: `SessionsInvariance`,
  `InterestFollowsResponse`, `BytesOwn`, `ClosesAfterClients` (no connection is
  closed before its client left it), `SessionsKept` (each step is one of
  `HttpSessions` or none) and `LivesOn`: the process keeps running if there are no
  scripts, no signal, as many slots as descriptors and `RoomForAll`, a descriptor for
  each listener, for each client that may be there and for the connection just left.
  Each hypothesis excludes one way of `MCRude`, `MCAbandoned`, `MCPipelined`,
  `MCCgiLeak`, `MCCrowd` and `concurrent`; the constants of `sequential` and of
  `persistent` satisfy `OrderlyClients`.
* `CgiProofs`. `IInv` relates the pipe, `_data` and what was produced
  (`InOrder`), ties the write ends to what runs (`WriteEnds`, `WaitedFor`) and
  accounts for the body (`BodyKept`). From it `AnswerWhole`, `BodyDelivered`,
  `SurvivesScripts`, and `Refinement` of `CgiCall`.
  `HeadersTaken`: each turn of the loop takes one line (`LineTaken`), so after k
  turns the first lines are in `cgi_head` under their names and the text is that of
  the others (`Reached`), and there are no more lines than turns, since none is
  empty; the lines hold no blank line, not even across two of them, and end with
  the end of one (`NoBlank`, `EndsLine`), so the first blank line is where they
  end, whatever the content has. Its hypothesis `Separable` asks one space after
  each colon (`C` 174 skips a symbol whatever it is: `MCCgiEmptyValue`), no end of a line
  within a name or value, no colon in a name, and names that differ, as `cgi_head`
  keeps one value for each. All answers of `cgi` satisfy it (`SeparableAssumption`).
* `RequestProcessingProofs`. `IInv` says what a frame of the stack may wait for
  (`Handled`) and that the code once chosen is on its way (`CodeSettled`): the
  frame at the bottom fixes it, and nothing above the bottom changes it.
  `ProcessingRefines` follows: every step is a step of `HttpResources` or none.
  `ProcessingSurvives` needs how deep the recursion goes (`Shallow`): an error page
  and its body, and nothing more while roots and pages are there. `HarmlessStaysUp`
  adds that they stay there (`WellConfigured`) when no request removes a file
  (`Harmless`). `LengthsAgree` follows from `LengthKept`: there is no body before the
  request has succeeded, if no page is configured for 200 (`NoPageFor200`; with one, the
  length of that page goes with the body made before). `ErrorPagesShown` needs
  which page is on its way and for which url (`PageFetched`), and that pages are not scripts
  (`PlainPages`), whose path `Cgi` changes. The runs satisfy these two; the
  hypotheses of `HarmlessStaysUp` leave out what `MCForm` and `MCPageRemoved` refute.
  `ScriptsNamed`: the script that waits for its code, or has been put, is the file
  that was found or the one that was posted to (`ScriptKept`), since `chdir()` only ever
  goes to the one root (`ScriptsAt`: all roots are the same absolute path, which is
  where the process is started or the `www` there, and has a name `Cgi` cuts the path
  at). With two roots, or a root without such a name, the code runs another file:
  `MCPostScript`. TLC evaluates the hypotheses on the configuration of `one_root`
  (`OneRootAssumption`).
* `ConfigProofs`. `Typed` is the type invariant with dictionaries as sets of
  functions. `ServersChecked` needs that the block to come is checked too
  (`NextChecked`) and that `location` is a name only while `isLocation` is set
  (`LocationMarked`), whatever the file is like. `Aligned` speaks of tidy files:
  the counter and the flag say which blocks are open, the token how far an item
  has come, the name and value are its words (`InStep` is all of these). From it `FitsFollows` (a word that
  fits is never refused) and `ConfigRefines`: each turn of `parse()` is a step
  of `ConfigLayout`. `PagesAlwaysWhereRooted` follows the loop of
  `verrify_error_page` and the root it carries from block to block.
  `PortsAlwaysHaveBlocks` pairs ports and servers while the file is tidy
  (`Pairing`): each port is that of a server; each server has its port among
  them, or has the default because the ports are fewer than the servers, and is
  then set up with 8080 after them (`Paired`). Its hypothesis `PortsPrinted`
  says that no value whose text differs from its number as `getInfo` prints it
  begins with a word of the file; the file `08080` of `MCConfigPorts` violates
  it, and the theorem's conclusion with it. The theorems
  are about `Startup`, which takes the parser's steps one by one.
* `RequestFramingProofs` and `RequestReadProofs`. They are about paths, fields,
  queries, chunks and bodies of any length and number, and about TCP
  cutting them anywhere. What a loop does to a text is shown by a smallest
  counterexample (`Least`, `Induction` in `TextsProofs`): the positions at which a
  claim fails are a set of naturals, and a set that is not empty has a smallest one.
  `Loop` returns what a chain of states leads to that ends in one which a turn
  leaves alone.

  `Underway` is inductive: while the server receives, `buffer \o wire` is the
  request and something is left to come; once it has answered both are empty.
  A prefix of a request must not pass for a whole one, and the whole one must,
  whichever value `content_length` has: that is what `Framed` is for. The scan
  that goes past the symbol that did not match finds the blank line all the
  same, as what it goes past is no CR. `AnsweredWhole` follows.

  `Answering` adds what was made of the request: `header` and `code` are those of
  `ParseText` for all its bytes. `IInv` is both. The rest is one lemma,
  `TextParsed`: the path is a walk in which the depth of the directory is the
  steps down less those up, so that the code's count of slashes and `..`
  is never below the root unless the walk has left it (`PathJudged`); the text
  before the k-th field becomes, in one turn of the loop, the text before the
  next one, with the field in `header` under its name; the boundary is
  noted one turn after the Content-Type, hence `form, type last` is an exception;
  the decoder takes one chunk per turn and ends with its payload
  (`ChunkedDecoded`); the boundary that ends a part is found at its end, and the two
  dashes and the line before it are left out. Theorems: `NothingIsLost`,
  `LinesJudged`, `HeadersAreRead` and `BodyIsDelivered`.

  Each conjunct of the hypotheses leaves out what a set of `MCRequestFraming`
  refutes or the code does not read: words of a line or field that hold the end
  of a line, and `Content-Length` as a field of its own (`Mute`, without which
  `SpacesBefore` counts); other requests' headers in the body (`Mention`), a last chunk
  before the last one (`ChunkLast`), spaces after a value (`SpaceAfter`), two fields of
  one name, of which `header` keeps one, an empty part (`EmptyPart`), the boundary
  in the payload, and paths that end in `..` (`LastUp`) or have steps that stay where
  they are (`Still`: `Dots`, `EmptyStep`). All 156 requests of `framing` satisfy them. The sets that refute
  only `RequestsComplete` are not left out: no answer is not a wrong one.

The inductive invariant of `Cgi`, and the types and the bound of the poll table
of `WebServer`, are proved and no longer run.

Only model-checked: liveness (`RequestsAnswered`, `BacklogsServed`,
`LeaversReclaimed`, `CallReturns`, `RequestsEnd`, `RequestsComplete`, the
fairness part of `HttpSessions`), which rests on ENABLED. Every
invariant that a passing run checks is stated by a theorem.

## 5. Not modelled

* The environment of scripts but the body; the text of responses; MIME types and
  the table of codes, which are constants; the content of listings.
* `main.cpp`, the PHP pages and the shell scripts of tests.

## 6. Plan

Done, in this order: the event loop and its proof, CGI and its proof, request
processing and its proof, framing, the configuration and its proof, startup,
the text of requests, the headers of scripts.

1. A composition of `WebServer` with the outcome of `RequestProcessing`: the
   connection that asks and the request that ends the process.
2. An abstract specification of delivery on a connection, for `RequestFraming`;
   forms with several parts.
