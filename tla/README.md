# A TLA+ model of webserv

webserv is an HTTP/1.1 server in C++98: one process, one thread, one `select`
loop, configured like nginx. This directory models it in TLA+, checks the
models with TLC on small instances and proves with TLAPS, for every instance,
most of the safety properties of those checks, among them the refinement of the
event loop.

- Run a model: `tlc -workers 2 -config ConnectionServes.cfg MCConnection.tla`
- Check the proofs: `tlapm WebserverProofs.tla`, and the same for every other
  module whose name ends in `Proofs`; the longest, `LifecycleProofs` and
  `ParserProofs`, take a few minutes

## 1. Inventory

| Part (source) | State | Operations | Talks to |
|---|---|---|---|
| Event loop (`srcs/webserver.cpp`) | `read_v`, `write_v` (vectors of Socket), `nfds`, the two `fd_set`s, `quit_f` | `run`, `ready_to_read_loop`, `ready_to_write_loop`, `accept_new_connection`, `read_from_socket`, `write_to_socket`, signals, destructor | kernel; Socket |
| Socket (`srcs/socket.cpp`) | descriptor, address, servers of that address, one Request, one Response | copy (each move between the vectors is one), `build_request`, `build_response`, `marked_for_closing`, `clear_response` | Request, Response |
| Request parser (`srcs/request.cpp`, `msg_format/Body.cpp`) | `_buffer`, `_stage`, headers, Body with its chunk stage | `recv_buffer` and one handler per stage; it answers by throwing a status line | Server, for the size limit |
| Response (`srcs/response.cpp`) | status line, location, buffer, `_autoIndex`, `_endConn` | `fillBuffer`: return, methods, root and alias, index, listing, GET/HEAD/POST/PUT/DELETE, `fillError` | file system, CGI, Request (it rewrites the path) |
| CGI (`srcs/Cgi.cpp`, `srcs/webserv.cpp`) | four pipe ends, raw output, header map | `executeCGI`, `parse_response` | a child process |
| Writing of answers (`srcs/webserver.cpp`, `srcs/webserv.cpp`) | what is left of an answer | `write_to_socket`, `ft_write` | send buffer of the kernel, client |
| Server, Location (`srcs/server.cpp`, `srcs/location.cpp`) | listen address, names, routes | choice of a server by Host and of a location by path | Request |
| Configuration parser (`srcs/parser.cpp`) | token list and position, blocks being parsed | `tokenize`, `parse` and one function per directive | configuration blocks |
| Configuration blocks (`srcs/config_blocks.cpp`) | directives of a server or a location | defaults, inheritance, conversion to Server and Location | Webserver at start-up |
| Start-up (constructor of Webserver) | servers, listening sockets | `check_server_duplicates`, one socket per address | parser, kernel |
| Records (`msg_format/RequestLine.cpp`, `StatusLine.cpp`) | fields | accessors, `parse_path` | |
| Entry point (`srcs/main.cpp`) | | runs the server; its two handlers end the process | |

What makes it hard, and what has to be right:

- **Event loop.** Indices into vectors that change under the loop; bits of
  `select` used after descriptors were closed and reused; `nfds` kept by hand;
  a Socket that is copied whenever it or a neighbour moves. A Socket must always
  mean its own connection, none may be lost or served twice, and every client
  must be served in the end.
- **Request parser.** The network cuts the stream anywhere, requests share a
  connection, a 100 comes in between, and the stage indexes a table. A
  well-formed request must be accepted and executed as it was sent.
- **Response.** A look-up and a method with other processes in between, and up
  to three kinds of redirect in a row. Files may change only as the location
  allows and as the client is told, redirects must end, and the client must see
  where an answer ends.
- **CGI.** Two processes and two bounded pipes, a child that may die anywhere,
  errors thrown from the middle. The script gets the body, the server gets the
  output, and nothing is left behind, whatever the script does.
- **Writing of answers.** A non-blocking socket takes what it has room for, and
  the client may stall or leave. No byte may come twice or out of order, and a
  client that does not read must not hold up the loop.
- **Configuration.** A tokenizer that moves its own index, a recursive parser
  that looks past the last token, a dozen directives inherited one by one.
  Exactly the grammar must be accepted, whatever is wrong with the file, and a
  location must get what the file says and nothing that is meant for another.
- **Start-up and server routing.** Servers share sockets by address and are
  told apart by names, numbers are read in two ways, and a request is split by
  one location and served by another. Every Host must mean one server, and a
  request must be served by the server and the location that the file gives it.

## 2. Modules

| Module | Models | Notes |
|---|---|---|
| `ConnLifecycle` | what one connection is promised | abstract: none, queued, reading, writing; never lost, never twice |
| `Webserver` | the event loop and the kernel side of it | implements `ConnLifecycle` |
| `WebserverProofs` | theorems about `Webserver` | TLAPS |
| `LifecycleProofs` | that `Webserver` implements `ConnLifecycle`, and its select bits | TLAPS, on top of `WebserverProofs` |
| `Connection` | Request, Body, Socket's part in keeping or closing | one client, one connection |
| `ConnectionProofs` | theorems about `Connection` | TLAPS |
| `Sending` | write_to_socket and ft_write | one client, one send buffer |
| `SendingProofs` | theorems about `Sending` | TLAPS |
| `Cgi` | executeCGI, parse_response, execCgi | parent and child |
| `CgiProofs` | theorems about `Cgi` | TLAPS |
| `Routing` | paths, choice of server and location | operators only, used by `Response` and `Startup` |
| `ConfigBlocks` | config_blocks.cpp and the constructors of Location and Server | operators only |
| `Parser` | tokenize and parse | one action per turn, directive or bracket |
| `ParserProofs` | lemmas about `Parser`, `ConfigBlocks` and `ConfigGrammar` | TLAPS |
| `ConfigGrammar` | what a file means | abstract: the reference `Parser` is compared with |
| `Startup` | main, the constructor of Webserver, parse_uri, get_location | composes `Parser`, `ConfigBlocks` and `Routing` |
| `StartupProofs` | theorems about `Startup` | TLAPS, on top of `ParserProofs` |
| `Response` | fillBuffer and the methods | one server, a file system, other processes |
| `ResponseProofs` | theorems about `Response` | TLAPS |
| `MC...` | instances for TLC | requests, scripts, a site, files, answers |

How they meet: `Webserver` leaves open what a `recv` makes of its bytes
(`ReadStandsBy` or `ReadResponds`) and whether a written connection closes
(`WriteKeeps` or `WriteCloses`); `Connection` is what decides it, for one
Socket. `Connection` leaves open which code a complete request is answered with
(`Execute`); `Response` decides that, and leaves open what a script answers;
`Cgi` decides that. A write is one step in all of these; `Sending` is what
happens inside it. `Response` has one server whose location is that of the
path; `Startup` is how a file becomes servers and locations and how a request
finds its own.

### Webserver

`read_v` and `write_v` are sequences of `[fd, of]`: the descriptor a Socket
stores and, as a ghost, what the descriptor was when the Socket was made.
`fdtab` is the process's descriptor table, `backlog` the accept queues; new
descriptors are the lowest free, so numbers are reused at once. `pc` and `i`
are the place in `run` and the index of the current loop. One action is one
turn of a loop: `AcceptConnection`, `AcceptFails`, `AcceptFcntlFails` (line 70),
`ReadCloses`, `ReadStandsBy`, `ReadResponds`, `ReadThrows` (from lines 85 and 121),
`WriteCloses`, `WriteKeeps` (from lines 109 and 140), the `...Skip` and `...LoopEnd`
turns, and `BuildSets`, `SelectReturns`, `SelectInterrupted`, `Quit` for `run`.
`Erase` is `vector::erase` and, as in the code, the index still goes up, so the
next Socket is skipped in that round. `bstage` is the chunk stage inside each
Socket's request, because copying resets it.

### Connection

The stream is a sequence of tokens: CRLF, a line in one token, or a byte of
payload. `Send` puts any prefix of what the client still has to say on the wire
and `RecvBuffer` takes up to `RecvMax`; then each turn of the loop in
`recv_buffer` is an action named after its handler. A throw is `Answer` or
`Execute`. `WriteToSocket` is the write, `marked_for_closing` and
`clear_response`. A Content-Length is a text, and `Lengths` says how strtol with
base 0, which checks it, and atoi, which uses it, read that text: they differ
for octal and hexadecimal numbers.

### Sending

A byte is its position among the bytes of all answers on the connection, so
that what a client should have is 1, 2, 3, ... `WriteToSocket` is the call of
`ft_write` when select says there is room, or nobody to read; then each
`write(2)` is a step of its own: `Write` takes what there is room for and erases
what was asked for, as the code does, and `WriteFails` is EAGAIN on a full
buffer or EPIPE after the client left. `Written` is the return, after which the
Socket closes or goes back to `read_v`. The client asks, receives byte by byte
and may leave at any point. `total` is how many bytes all answers have.

### Cgi

`pc` follows the parent through `executeCGI`, one action per system call, after
`Construct`, the constructor of `CGI`: a `getcwd` that fails, or an empty path
in `set_cgi_path`, throws there what no handler before `main` catches, and the
server is at its end (`pc` is "exit") with a child never started. The child
executes a script that slurps its stdin or prints units. `fds` are the
pipe ends the parent has open: a read only ends when no writer is left, the
parent included, and a write to a full pipe waits as long as there is a reader,
the parent included. `Parse` is `parse_response` and the rest of `execCgi`;
`Unwound` is the destructor on the error paths. The child's `said` records what
it has printed, for `OutputWhole` to compare with; nothing in the code reads it.
`Texts` are the texts a unit of output may have. `BodyKept` and `FailureTold`
compare the answer with what was printed in terms of their own (`EmptyLines`,
`Answerable`), not with the functions of the parser.

### Response

A path is a sequence of names, slashes and dots, so that `find`, `rfind`,
`substr` and `erase` act on tokens as the code acts on characters. `files` is
the file system. A request is answered in two steps, the look-up (`Resolve`:
one action per way out of `fillBuffer` and `reconstructFullURI`) and the method
(`Execute`), with `Touch`, another process, at any point. A method that looks at
its file twice is two actions with `pc` "midway" between them, and `answer`
holds what has been made so far: `OpenFile` reads a file and `DateFile` asks for
its date, which may be gone by then (404); `PutDecides` takes 201 or 204 from a
stat and `Put` opens the file. Clients follow redirects to this server. A struct
stat that was not filled in (`ResolveUpload`) is a free choice, and so is what a
listing makes of an entry whose stat fails (`GetListing`): any page, or an
exception that ends the server. A write cut short by a full disk is another.

### Parser, ConfigBlocks, ConfigGrammar, Startup

A file is a sequence of pieces: a bracket, a semicolon, a hash, a blank, a line
end, a quote, an unprintable character, or a piece of a word, so that the
tokenizer's index and its jumps act on pieces as in the code on characters. A
name of a directive and a number are one piece each; `Numerals` gives base and
digits of a number, since `strtol` with base 0 and `atoi` read them in two ways.

`Parser` opens the file (`ReadConfigFile`, which may fail), then has one action
per kind of turn of `tokenize` (`TokenizeBracket`, `TokenizeSpace`,
`TokenizeWord`, ...) and one per directive or bracket of `parse` (`ServerOpens`, `ServerDirective`, `LocationOpens`, ...). `Throw` tells
exceptions apart by the handler of `main` they meet: a `runtime_error` is
reported ("fatal"), anything else is taken for the failure of a script ("cgi
error"), and a read of an empty deque is undefined: any of the three ends, or a
crash. It may go on for a while with what memory holds for tokens, but not to an
accepted file: `next` has then moved the front of the deque past its end,
`empty()` is false ever after, and `parse` returns only when it is true.
`ConfigGrammar` says what a file means without a parser: an automaton reads
tokens, and a token list is a configuration by where brackets stand and what
follows each name. `ConfigBlocks` has the defaults, the inheritance and the
constructors of `Location` and `Server`.

`Startup` goes on with `MakeServers` (empty file, duplicates), `AddServer` (one
per server: to the socket of its address, to a new one, or a system call that
fails) and `Run`, which lets a request come: its target, its Host header and the
socket it came to. `ParseUri` splits the target, with the location that is found
before Host is known; `ParseHeaders` decides who answers.

## 3. Runs

Each run's cfg gives the constants; all runs finish within two minutes. Of the
type invariants only that of `Webserver` is in a run, beside its proof; those of
`Cgi` and `Sending` are proved, and those of `Connection`, `Response` and
`Startup` hold on the instances of their runs (add `TypeOK` to the cfg to see
it).

| Run | Question | Instance |
|---|---|---|
| `WebserverSafety` | Do the vectors, the descriptor table, `nfds` and the `fd_set`s stay consistent, and is each connection's lifecycle kept? | 3 clients (interchangeable, `SYMMETRY`), 1 listener, descriptors for 2 of the 3 |
| `WebserverLiveness` | Is every request read, every answer sent, every signal obeyed? | 2 clients, 1 listener, `fcntl` may fail |
| `WebserverFdLimit` | Is a queued connection accepted in the end when descriptors ran out? | 2 clients, one descriptor |
| `ConnectionServes` | Is every request answered, accepted if well formed, executed as sent, and `Connection: close` honoured outside redirects? | 3 requests of 13 kinds, buffers of 8 and 5 tokens |
| `SendingDelivers` | Does `ft_write` always come back, in order, and whole if the answer fits? | 3 answers of 1 to 9 bytes, a send buffer of 5, writes of 3 |
| `CgiServes` | Does `execCgi` come to an end, with all of the output, the body that was printed or an error page, leaving nothing behind? | 2 requests, 11 scripts, pipes of 4 units written by 2 and read by 3 |
| `ResponseServes` | Do redirects end, is the error page shown, can answers be delimited, do files change only as allowed? | 2 requests of 31 kinds, 3 redirects, 2 changes by others |
| `StartupServes` | Is exactly the grammar accepted, do names, address and locations of each server say what the file says, does each request find its server and location? | over 1500 files, 5 targets, 4 Hosts |
| four more | known defects, section 6 | |

Why the bounds are enough for what is asked:

- Erasing steps over one Socket and closing frees one number: two connections
  and the listener show each effect alone; the third client in `WebserverSafety`
  is one whose descriptor was reused while it, another and the listener
  are all in the vectors, or waits because there is none for it.
- A request takes every stage with a head of at most four lines and a body of
  two chunks; `RecvMax` 5 and `BufferMax` 8 cut each of them in several places
  and make the 413 of a full buffer happen. Three requests let the third meet
  what the first two left.
- Bodies of 0, 3 and 7 units are below, below and above a pipe of 4, and are
  neither multiples of the write size nor of the read size.
- The site has every directive that changes the path of control, and each
  pair of requests with two changes puts one change before and one after a
  look-up. Two hops occur (slash, then index; return, then slash; 404, then
  error page), `MaxHops` 3 is one more than any request of a sound site needs.

- Sizes 1 to 9 against a send buffer of 5 and writes of 3 give answers of one
  write, of several, of exactly the buffer and of more, so that a write is whole,
  short or refused at each place in an answer; the third answer meets what two
  left.
- The texts are all of up to three pieces out of nine, all of five out of
  quotes, semicolons and letters, and files built from statements: each pair of
  directives in a server and inside a location next to another, each wrong
  value, one file with everything in it cut off after each word or missing one,
  and two or three servers with each combination of address and names. A
  directive interacts with one before it in the same block or with the one it
  inherits from, so pairs are enough.

Fairness. The process is scheduled (`WF` of its own steps); a client that has
begun a request sends it and reads answers (`WF` of `Send`, `Receive` in
`Connection`, of `Drain` in `Webserver`); a script runs. In `Sending` the client
owes nothing: `WriteReturns` holds without its help, and `Arrives` names the
fairness of `Receive` it needs in the property. In `Startup` only the server's
steps are fair. Nothing is assumed of
`Connect`, `Ask`, `Signal` or other processes. Only `WebserverFdLimit` needs
clients to leave (`FairLeavingSpec`): the server has no timeout, so a client
that stays keeps its descriptor, see section 6. `QuitEnds` excludes a signal
between the test of `quit_f` and a `select` that nobody wakes up, which is a
window the code has. Liveness holds although `erase` skips Sockets because the
skipped one is ready again in the next `select`.

`CHECK_DEADLOCK FALSE` appears only in the cfgs of defects that leave client
and server waiting for each other, where that is what the property shows.

## 4. Proofs

`WebserverProofs` proves, for any number of clients, listeners and descriptors
and with `fcntl` failing or not:

| Theorem | Statement |
|---|---|
| `TypeCorrect` | `Spec => []TypeOK` |
| `DescriptorsSafe` | `Spec => []DescriptorsMatch` |
| `DescriptorsDistinct` | `Spec => []DistinctFds` |
| `NfdsSafe` | `Spec => []NfdsCovers` |
| `NothingLeaks` | `~FcntlFails => (Spec => []NoLeak)` |

None of `DescriptorsMatch`, `DistinctFds` and `NfdsCovers` is inductive alone. That a reused descriptor does not
belong to another Socket needs that every Socket's descriptor is open
(`DescriptorsMatch`), closing one Socket keeps the others' open only if no two
share it (`DistinctFds`), and `nfds_down` takes one away only from the highest,
which is below `nfds` (`NfdsCovers`) and, being distinct, is nobody else's. The
inductive invariant is therefore `TypeOK /\ AllHeld`, where `AllHeld` is `Held`
of the two vectors, the table and `nfds`: the three properties in terms of the
indices. `Held` is symmetric in the two vectors, so the read loop and the write
loop share three lemmas: `HeldAfterClose` (close and erase), `HeldAfterMove`
(push_back to the other vector and erase) and `HeldAfterAccept`. `HeldStep` has
one step per action. `NothingLeaks` adds `Kept`: each descriptor that is open on
a connection is that of a Socket. It has a lemma for each of the same three ways
to change the vectors; that `Erase` gives up no Socket but the one whose
descriptor is closed needs `DistinctFds` again. It assumes that `fcntl` does not
fail, since line 70 of `webserver.cpp` returns without closing what it accepted.
The assumptions are those named in `Webserver`: there is at least one listener, its descriptors fit below the limit, and connections are
not numbers.

`ConnectionProofs` proves, for any requests, lengths, limits and cuts of the
stream:

| Theorem | Statement |
|---|---|
| `StageSafe` | `Spec => []StageInTable` |
| `ExecutedSafe` | `Civil => (Spec => []ExecutedAsSent)` |
| `AcceptedSafe` | `Civil /\ ~Impatient => (Spec => []WellFormedAccepted)` |
| `CloseSafe` | `Civil => (Spec => CloseUnlessRedirected)` |

The table of handlers has no entry for READY. `StageInv` adds that a Request
always has one of the stages there are, which a handler that only sets other
fields keeps; `ContinueStaged`, `AnswerStaged` and `StopStaged` are the ways a
turn can end, of which only `Continue` must show that the stage is not READY.

The other three are about what the parser makes of a whole conversation. `Civil`
says of which: clients that have one request unanswered at a time, and requests
that are `Regular`. Each part of `Regular` is there because of a defect of
section 6 (a length that strtol and atoi read differently, a body without a
length, CRLF inside a chunk, a chunk whose fate depends on the cut) or because
the client says one thing and does another (a length that is not that of the
body, a body where the method has none). All 13 kinds of requests that
`ConnectionServes` runs, well-formed or not, are regular, as `AllRegular` asserts.
`~Impatient` is there because of `ConnectionImpatientExpect`: a body that comes
before the 100 fills the buffer while nothing parses it.

The inductive invariant is `Talk`: the connection is closed, or `Quiet`, or
`Busy` with one request. The heart of it is one equation. `Stream` is everything
that the client has sent or will, from the parser's buffer over the network to
what it holds back for 100 Continue, and `Reading` says of each stage what the
stream then is: some lines of the head, the empty line and the body
(`HeadRest`); the payload without what the body already has; the rest of the
chunks, before a size (`ChunkRest`) or after it (`InChunk`). The members of the
Request are what was read before. No step of client or network changes the
stream, only where it is cut, and a turn of the parser takes exactly the line
that `BeginFacts` says the stream begins with, so that each handler has one
lemma. `RoomLeft` is why a well-formed request is not refused for its size: a
buffer without a whole line is short. The lemmas on sequences come first:
`Pieces` gives `FlattenSeq` step by step, forwards and backwards, `LineIs` what
`get_next_line` finds, and `HeadRestFacts` and `ChunkFacts` what a request is on
the wire. The invariant says a little more than the three theorems: that what is
left of the stream when a request is executed or answered is nothing.

`SendingProofs` proves, for answers, send buffers and writes of any size:

| Theorem | Statement |
|---|---|
| `SendingTyped` | `Spec => []TypeOK` |
| `OrderSafe` | `Spec => []OrderKept` |
| `FitsSafe` | `Spec => []FitsIntact` |

That no byte comes twice needs to know where `ft_write` is: `Ahead` says that
what it is about to write comes after all that was sent, and ends with the last
byte of the answers; `OrderInv` is that with the types and with `Increasing`,
the property by indices. `FitsInv` adds why nothing is dropped when answers fit:
the buffer is empty when a write begins, since a client asks when it has
everything before, and from then on there is room for what is left, so that
every write takes all it is given. `SentReceived` and `SentWritten` say what a
step does to the bytes that are out. The assumptions are those named in
`Sending`: sizes are positive.

`LifecycleProofs` proves, for any number of clients, listeners and descriptors:

| Theorem | Statement |
|---|---|
| `LifecycleKept` | `~FcntlFails => (Spec => KeepsLifecycle)` |
| `BitsSafe` | `Spec => []NoSpuriousIO` |

`LifecycleKept` is the refinement: each step of the event loop is, to each
connection, a step of `ConnLifecycle` or none. Where a connection is, is read off
the vectors and the queues, so that it is a function needs that no connection is
in two places: `OnePlace` (not twice in the queues, not queued and open, not
open twice) with `AllHeld` and `AllKept` of `WebserverProofs`. `MoveMeaning`
says when a change of the vectors is a step of one connection, and
`TakeMeaning`, `LeavesReadMeaning`, `LeavesWriteMeaning`, `ConnectMeaning` and
`ShutdownMeaning` are the moves there are. It assumes that `fcntl` does not fail
for the same reason as `NothingLeaks`.

For `BitsSafe` the inductive invariant is `Apart /\ Order /\ Bits`. `Order`: the
listening sockets come before the connections in `read_v` and are never in
`write_v`. `Bits`: a bit that is still to be looked at belongs to a Socket that
nobody has touched since `select`. The hard case is a descriptor that is closed
and reused inside a round: while the listening sockets are looked at, nothing is
closed, so what they accept has a descriptor whose bit is clear, and what is
closed later is accepted only in the next round.

`CgiProofs` proves, for any requests, scripts, texts and sizes of the pipes:

| Theorem | Statement |
|---|---|
| `TypesKept` | `Spec => []TypeOK` |
| `NothingIsLeft` | `Spec => []NothingLeft` |
| `OutputIsWhole` | `Spec => []OutputWhole` |
| `LengthIsTrue` | `Spec => []LengthTrue` |
| `BodyIsKept` | `Spec => [](PlainBody => BodyKept)` |
| `FailureIsTold` | `Spec => []FailureTold` |
| `StdinIsWhole` | `Spec => [](Measured => StdinIsBody)` |

`Typed` and `Placed` (the descriptors of parent and child are a function of
`pc`, and the child is as far as the parent can tell) are common to all. `Kept`:
what the script printed is what the server has read and what is in the pipe.
`Fed`: what the script has read, what is in its stdin and what `ft_write` has
left are the body. `Answered`: the answer is one of the fixed ones or made from
all the output. `BodyIsKept` and `FailureIsTold` need to know where the parser
cuts: its first separator is the first empty line of what was printed, also
after CRLF has become LF (`SeparatorsAreEmptyLines`, `FirstEmptyLine`), and a
tail without CRLF stays what it is (`PlainTail`). The two hypotheses are defects
of section 6, said exactly: the properties hold of every output without a CRLF
in its body (`PlainBody`), and of every body whose size is what `ft_write` is
given (`Measured`), that is, of every one that was not chunked. The assumptions are
that requests and scripts have their types and that the size is never more than
the body (`CallsAssumption`: `Body` counts what it has), that the texts include
the three the server writes itself (`TextsAssumption`), and that buffers are not
empty.

`ResponseProofs` proves, for any site, locations, requests and changes to the
files by others, with a disk that may fill:

| Theorem | Statement |
|---|---|
| `ListsWhereAllowed` | `Spec => []OnlyListable` |
| `AnswersFramed` | `Spec => []Framed` |
| `ChangesAreAsked` | `PlainUploads => (Spec /\ []Named => ChangesAsAsked)` |
| `PagesShown` | `Spec /\ []PageInPlace => ErrorPageShown` |
| `RedirectsStop` | `MaxHops >= 3 => (Spec /\ []PageInPlace /\ []Straight => []RedirectsEnd)` |

`IInv` is `Real` (files hold what somebody wrote), `Asked`, `Flagged` (the flag
is down until `addIndex` raises it for this request where the location allows
it), `Allowed`, `Answered`, which lists the answers there are (that a page of
the server's is a listing, and not a file with the same content, needs `Real`),
and `Halfway`, which says what there is of an answer between the two halves of a
GET or a PUT. `ExecuteComesTo` lists what a method may come to.
For `ChangesAreAsked` two
more parts: `Pathed` (clients and redirects give the server paths) and `Aimed`,
that between look-up and method a PUT is for `UploadPath`. `UploadGoes` says what
the two calls of `replaceLocInUri` make of a name without a slash: a file whose
folder is the upload directory below the root. What it needs was found in the
attempt. `PlainUploads`: no upload directory ends in two slashes. `Named`: the
path of a PUT has something after its last slash, or the upload directory is
written with a slash behind it; without either, a PUT of `/up/none/` while the
upload directory is gone makes a file of that directory's name
(`ResponseNameless.cfg`). TLC finds both true of `ResponseServes`.

The last two depend on the configuration, and the hypotheses say on what; both
speak only of the paths that are asked. `PageInPlace`: the error page of a
location is found with the root that location has, and is below no alias; below
one, the code looks for the page where no request would find it
(`ResponseErrorPage.cfg`). `Straight`: a `return` leads to no other `return`,
the slash added to a directory leads to no `return` and into no alias, and an
error page is a file's place and its own error page. A configuration that
redirects to itself, or an error page with another error page, sends clients in
circles, as it does with any server. TLC finds both true of `ResponseServes`, in
which another process removes and makes error pages between look-up, method and
answer.
`PagesShown` needs `SamePath`: a look-up starts from the path that was asked, so
that the page the server looks for (`LookedFor`, `PageServed`) is the one a
client would get. `RedirectsStop` has the inductive invariant `Going`. `Level`
says how far a client has come: after one redirect it asks where no `return` is,
after two for something with a slash at its end or for an error page, after
three for an error page that is its own. The error page asked for may be gone
again, but the 404 for it does not lead to it (`MissingLeads`): it would have to
exist for that. `GoingResolve` and `GoingExecute` show that each way out of
look-up and method leads one level on or nowhere.

`RoutesAssumption` and `RequestsAssumption` give the constants their types, and
`ContentsAssumption` says that no file and no body is the marker that the model
uses for the server's page or for no file.

`ParserProofs` and `StartupProofs` prove, for any set of files, targets and
Hosts, and whichever call on a socket fails:

| Theorem | Statement |
|---|---|
| `TokensAsRead` | `Spec => []TokensRight` |
| `GrammarAccepted` | `Spec => []AcceptsGrammar` |
| `SocketsOfAddresses` | `Spec => []OneSocketEach` |
| `NamesTellServers` | `Spec => []NamesUnambiguous` |
| `HostsSelect` | `Spec => []HostDecides` |
| `TargetsWhole` | `Spec => []TargetKept` |
| `BlocksWritten` | `Spec => []BlocksAsWritten` |

The inductive invariant `StartInv` has six parts. `ParserTyped` types what the
parser has, down to the words of each directive, and says that each finished
server has a location `/`, without which `get_location_by_path` would have
nothing to fall back on. `TokensInv` is the refinement of the tokenizer: before
each turn its list is what the automaton of `ConfigGrammar` has read up to that
index, and the automaton is at the beginning of something. A turn of the
tokenizer takes many pieces and jumps; `BracketRead`, `SpacesRead`,
`CommentRead` and `WordRead` say that the automaton takes the same. `GrammarInv`
is the same for the recursive descent. While it parses, it is at some place p of
the list that the automaton gives (`Parsing`): what it has left is that list from
p on (`Left`), the stage it is in is the depth of blocks there, and what it holds
of the open blocks is what the statements since their braces have said (`Told`,
and `Uris` for the locations of the open server). `Read` is the grammar, said
only of what is before p; it is the whole grammar when p is past the end and
nothing is open (`WholeRead`). The grammar compares each statement with every
other of its block, the parser with the directives it has kept, and `Unclosed`,
the statements of the blocks still open, is where these meet: `DirectiveAgrees`
and `LocationAgrees`. `OpenServer`, `ServerTakes`, `OpenLocation`,
`LocationTakes`, `CloseLocation`, `CloseServer` and `EndParse` show for each step
that it goes on to another such place, or fails and the text is not in the
grammar, or ends and it is. This covers the reads past the last token, which
throw (`EndsTooSoon`), and the tokens that are no word where one is expected
(`AtAnother`).

`WrittenInv` is what the blocks hold, on top of that. At token p (`Holding`),
`vsrv_vector` lists the servers that begin before p and have closed (`Listed`),
the server and the location being parsed have in each directive what the
statements of their unclosed block say so far (`ServerHeld`, `LocationHeld`), and
each location that has closed is in the server's list with what its block says
(`Described`). Where a block closes, what was unclosed is its whole `Block`, and
`setup_default_directives` gives each location what `Meant` says: its own, the
server's or the default (`SetUp`, `InEffect`, `MeantBy`). `ServerOpened` to
`LocationClosed` have one step of the parser each, `Held` puts them together, and
`EndsAsWritten` is the end of the file. The definition of what is written counts
servers with `Cardinality` and joins words with `FlattenSeq` over sorted
statements; the lemmas on `Saying` and `Said` take these one statement further.

`SocketsInv`
says that when n servers have been added each is at the socket of its address,
in order. `RequestsInv` says that what `parse_uri` cut can be put together again,
and that the answer is what Host and path select. The automaton and the removal
of quotes are recursive functions; `LeastExists`, `Upward` and `StepByStep`
carry the inductions over pieces, from the library's theorem that `<` is
well-founded on the naturals. The assumptions are that texts and targets are
sequences and that a request has at most one Host (`TextsAssumption`,
`RequestsAssumption`: `parse_header` inserts a header only once), and that a
numeral has one of three bases.

Only model-checked, and why:

- Liveness and everything with fairness (`RequestsRead`, `AnswersSent`,
  `QuitEnds`, `ConnectionsAccepted`, `Answered`, `Served`, `WriteReturns`,
  `Arrives`, `Decided`): out of the prover's reach.

Each safety property of a passing run is stated by a theorem.

## 5. Plan

Every part that changes state is modelled, and what is safety is proved. What
would be next is outside the models: a bound on time (the server has none), and
`FD_SETSIZE`.

## 6. Known defects

Each cfg makes TLC show one. The first four are listed runs; the others are kept
beside them.

| cfg | Property | What happens |
|---|---|---|
| `WebserverChunks` | `ChunkStageKept` | Other clients that come or go reset the chunk stage of an upload (`Body.cpp:6`) |
| `ConnectionPipelining` | `NotLeftWaiting` | `clear` drops the next request (`request.cpp:425`) |
| `CgiExitsEarly` | `Served` | A script that does not read a large body stops the server (`Cgi.cpp:387`) |
| `SendingShortWrites` | `Intact` | What a short write does not take is lost, and the next byte follows (`webserv.cpp:16`) |
| `ConnectionCloseOnRedirect` | `CloseHonoured` | `Connection: close` is forgotten on redirects (`response.cpp:126`) |
| `CgiEmptyHeader` | `ServerSurvives` | A header without a value ends the server (`Cgi.cpp:212`) |
| `ResponseReturn` | `ReturnReplaced` | `return` prepends where its comment says replace (`response.cpp:115`) |
| `ConnectionHexLength` | `ExecutedAsSent` | `Content-Length: 0x2` is accepted and read as 0 (`request.cpp:266`) |
| `StartupAbsoluteHost` | `AbsoluteDecides` | The host of an absolute URI is cut to "http" (`request.cpp:228`) |
| `StartupScriptSplit` | `ScriptOfItsLocation` | The extension of another location splits a path (`request.cpp:237`) |
| `StartupHexLimit` | `LimitsAsWritten` | A limit of 0x40 is none, one of 010 is ten, and one beyond an int wraps (`location.cpp:43`) |
| `StartupTruncated` | `ReportedAsFatal` | A file that ends inside a directive is reported as a failure of CGI, or is undefined (`parser.cpp:375`) |
| `ConnectionImpatientExpect` | `Answered` | A body sent without waiting for 100 is never looked at (`request.cpp:277`) |
| `ConnectionExpectWithoutBody` | `Answered` | Expect without a body gets a 100 and no answer (`request.cpp:278`) |
| `ConnectionPostWithoutLength` | `Answered` | No length is taken for chunked (`request.cpp:391`) |
| `ConnectionLineInChunk` | `WellFormedAccepted` | CRLF inside a chunk is refused (`request.cpp:443`) |
| `CgiPrintsFirst` | `Served` | Script and server wait for each other (`Cgi.cpp:387`) |
| `CgiChunkedBody` | `StdinIsBody` | A chunked body does not reach the script (`Cgi.cpp:387`) |
| `CgiLinesInBody` | `BodyKept` | CRLF in a body becomes LF (`Cgi.cpp:184`) |
| `ResponseErrorPage` | `ErrorPageShown` | An error page below an alias is not found (`response.cpp:371`) |
| `ResponseHead` | `HeadFramed` | HEAD of a file has no empty line (`response.cpp:420`) |
| `ResponseDiskFull` | `Stored` | A cut upload is confirmed (`response.cpp:456`) |
| `ResponseUpload` | `UploadsAccepted` | An uninitialised stat refuses an upload (`response.cpp:331`) |
| `ResponseNameless` | `ChangesAsAsked` | A PUT of `/up/none/` makes a file where the upload directory should be, if that is gone (`response.cpp:324`) |
| `ResponseIndexDirectory` | `ServerSurvives` | An index that is a directory ends the server (`response.cpp:414`) |

Not shown by a cfg, though in the model: a listing with an entry whose stat
fails, or whose size has more than ten digits, may end the server
(`response.cpp:508`), and so may the constructor of `CGI` (`Cgi.cpp:317`).

Seen while reading, not modelled: there are no timeouts and descriptors are not
held below `FD_SETSIZE`; `set_cgi_path` never returns an empty path, so the
built-in `.cgi` extension tries to execute the document root (`Cgi.cpp:29`); the
two arguments of the pair in `location.cpp:41` are unsequenced (gcc and clang
both give extension and path); the 201 of a PUT names a path of the file system
as its Location (`response.cpp:464`); `README.md:87` of the repository calls
`cgi_pass` `Accept_cgi`.

Seen, and in the models as the code has it: a chunk that fits into 64 KB but not
with a `recv` to spare is accepted or refused by how the network cuts it
(`request.cpp:164`); a body that comes with a GET is left in the buffer, and
dropped with it; `parser.hpp:30` says that no
directive may repeat, but `accept_method` and `cgi_pass` may; unprintable
characters are refused between words and accepted inside them; `listen ""` and
`localhost:` mean port 0; `Content-Length: 08` is refused, as octal (`request.cpp:266`); 256 is accepted as a part of an address
(`parser.cpp:155`).

## 7. Not modelled

How `argv` chooses the file; quotes inside the name of a directive, which is one
piece; the values of headers other than those
named, dates and content types; the HTML of pages; the environment and the
arguments given to scripts; logging; the scripts that build and start the server
and the content under `html/`.
