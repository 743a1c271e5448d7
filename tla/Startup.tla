-------------------------------- MODULE Startup --------------------------------
(***************************************************************************)
(* From the configuration file to the server that answers: main, the       *)
(* constructor of Webserver (srcs/webserver.cpp), and how a request finds  *)
(* its server and its location (parse_uri, get_location in                 *)
(* srcs/request.cpp, parse_path in srcs/msg_format/RequestLine.cpp).       *)
(*                                                                         *)
(* The loop that reads requests is Webserver's subject, the bytes of one   *)
(* are Connection's; here a request is its target, its Host header and the *)
(* address it came to.                                                     *)
(***************************************************************************)
EXTENDS ConfigGrammar

CONSTANTS
  Targets,   \* second words of request lines, sequences of pieces
  Hosts      \* Host headers: none, or one with a value

ASSUME RequestsAssumption ==
  /\ \A t \in Targets : t \in Seq(ToSet(t))
  /\ \A H \in Hosts : \A g, h \in H : g = h

VARIABLES
  server_v,  \* the servers
  read_v,    \* the listening sockets: address, and _serv_v by index
  asked,     \* the request being parsed: socket, target and Host header
  req,       \* what Request keeps of it: path, virtual path, query, Host
  served     \* who answers it: server and location, or a code

request == <<asked, req, served>>
vars == <<parser, pc, server_v, read_v, request>>

NoRequest == [path |-> <<>>, vpath |-> <<>>, query |-> <<>>, host |-> {}]
NoAnswer == [code |-> 0]

\* The pieces of "http://"; "https://" is treated in the same way.
Http == <<"http", ":", "/", "/">>

-----------------------------------------------------------------------------
(* Webserver::Webserver                                                    *)

\* check_server_duplicates, and a slip of it that leaves out the last server.
Duplicates_slip(servers) ==
  \E k \in 1..(Len(servers) - 1) : \E j \in 1..(k - 1) : SameServer(servers[k], servers[j])
Duplicates(servers) ==
  \E k \in DOMAIN servers : \E j \in 1..(k - 1) : SameServer(servers[k], servers[j])

\* A std::runtime_error, as from the parser; it ends main.
Refuse == pc' = "refused"

MakeServers ==
  /\ pc = "parsed"
  /\ LET servers == [k \in DOMAIN vsrv_vector |-> Server(vsrv_vector[k])] IN
     /\ IF servers = <<>> \/ Duplicates(servers) THEN Refuse ELSE pc' = "binding"
     /\ server_v' = servers
  /\ UNCHANGED <<parser, read_v, request>>

\* The server whose turn it is: they are added to sockets in order.
Next_server ==
  Min((1..(Len(server_v) + 1)) \ UNION {ToSet(s.serv_v) : s \in ToSet(read_v)})

\* The socket of an address, 0 for none, and a slip of it that compares ports.
SocketOf_slip(addr) == SelectInSeq(read_v, LAMBDA s : s.addr.port = addr.port)
SocketOf(addr) == SelectInSeq(read_v, LAMBDA s : s.addr = addr)

\* addr_comp finds the socket of an address; Socket's constructor makes one,
\* and socket, setsockopt, bind or listen may fail.
AddServer ==
  /\ pc = "binding" /\ Next_server <= Len(server_v)
  /\ LET addr == server_v[Next_server].listen
         k == SocketOf(addr)
     IN \/ /\ k > 0
           /\ read_v' = [read_v EXCEPT ![k].serv_v = Append(@, Next_server)]
           /\ UNCHANGED pc
        \/ /\ k = 0
           /\ read_v' = Append(read_v, [addr |-> addr, serv_v |-> <<Next_server>>])
           /\ UNCHANGED pc
        \/ k = 0 /\ Refuse /\ UNCHANGED read_v
  /\ UNCHANGED <<parser, server_v, request>>

Run ==
  /\ pc = "binding" /\ Next_server > Len(server_v)
  /\ pc' = "running"
  /\ UNCHANGED <<parser, server_v, read_v, request>>

-----------------------------------------------------------------------------
(* The request line                                                        *)

Before(w, p) ==
  LET k == SelectInSeq(w, LAMBDA x : x = p)
  IN IF k = 0 THEN w ELSE SubSeq(w, 1, k - 1)

\* get_location: the server by the name before the port, the location by path,
\* and a slip of it that takes the port for part of the name.
get_location_slip(sock, r) ==
  LET name == IF r.host = {} THEN <<>> ELSE CHOOSE h \in r.host : TRUE
      srv == find_server(server_v, read_v[sock].serv_v, name)
  IN [srv |-> srv, loc |-> get_location_by_path(server_v[srv].routes, r.path)]
get_location(sock, r) ==
  LET name == IF r.host = {} THEN <<>> ELSE Before(CHOOSE h \in r.host : TRUE, ":")
      srv == find_server(server_v, read_v[sock].serv_v, name)
  IN [srv |-> srv, loc |-> get_location_by_path(server_v[srv].routes, r.path)]

\* RequestLine::parse_path: the first extension of cgi with a "." before it
\* and a "/" behind it in the path ends the name of a script there, and a slip
\* of it that loses the "/".
Cut_slip(r, path, at) ==
  [r EXCEPT !.path = SubSeq(path, 1, at - 1), !.vpath = SubSeq(path, at + 1, Len(path))]
Cut(r, path, at) ==
  [r EXCEPT !.path = SubSeq(path, 1, at - 1), !.vpath = SubSeq(path, at, Len(path))]
parse_path(r, path, cgi) ==
  LET Id(k) == <<".">> \o cgi[k][1] \o <<"/">>
      At(k) == {n \in 1..(Len(path) + 1 - Len(Id(k))) :
                  SubSeq(path, n, n + Len(Id(k)) - 1) = Id(k)}
      scripts == {k \in DOMAIN cgi : At(k) # {}}
  IN IF scripts = {} THEN [r EXCEPT !.path = path]
     ELSE LET k == Min(scripts) IN Cut(r, path, Min(At(k)) + Len(Id(k)) - 1)

\* parse_uri of a request of which nothing else is known yet: no path, no Host.
\* One request will do, for parsing one leaves nothing to the next.
ParseUri ==
  /\ pc = "running" /\ served = NoAnswer
  /\ \E sock \in DOMAIN read_v, target \in Targets, host \in Hosts :
       LET uri == Before(target, "?")
           r == [NoRequest EXCEPT !.query = SubSeq(target, Len(uri) + 2, Len(target))]
           name == Before(SubSeq(uri, 5, Len(uri)), "/")
           path == SubSeq(uri, 5 + Len(name), Len(uri))
       IN /\ asked' = [sock |-> sock, target |-> target, host |-> host]
          /\ \/ /\ IsPrefix(Http, uri)
                /\ req' = [r EXCEPT !.host = {Http \o name},
                                    !.path = IF path = <<>> THEN <<"/">> ELSE path]
                /\ pc' = "headers" /\ served' = NoAnswer
             \/ /\ StartsWithSlash(uri)
                /\ req' = parse_path(r, uri, get_location(sock, r).loc.cgi)
                /\ pc' = "headers" /\ served' = NoAnswer
             \/ /\ ~IsPrefix(Http, uri) /\ ~StartsWithSlash(uri)
                /\ req' = r
                /\ served' = [code |-> 400] /\ UNCHANGED pc
  /\ UNCHANGED <<parser, server_v, read_v>>

\* parse_header inserts a Host if there is none, parse_header_end asks for one.
ParseHeaders ==
  /\ pc = "headers"
  /\ req' = [req EXCEPT !.host = IF @ = {} THEN asked.host ELSE @]
  /\ served' = IF req'.host = {} THEN [code |-> 400] ELSE get_location(asked.sock, req')
  /\ pc' = "running"
  /\ UNCHANGED <<parser, server_v, read_v, asked>>

-----------------------------------------------------------------------------
Init ==
  /\ ParserInit
  /\ server_v = <<>> /\ read_v = <<>>
  /\ asked = [sock |-> 0, target |-> <<>>, host |-> {}]
  /\ req = NoRequest /\ served = NoAnswer

Parse == ParserStep /\ UNCHANGED <<server_v, read_v, request>>

\* The program has ended, or the request is answered.
Ended ==
  /\ pc \in Failures \cup {"refused"} \/ served # NoAnswer
  /\ UNCHANGED vars

StartStep == Parse \/ MakeServers \/ AddServer \/ Run
Next == StartStep \/ ParseUri \/ ParseHeaders \/ Ended

Spec == Init /\ [][Next]_vars

\* The process is scheduled; nobody need make a request.
FairSpec == Spec /\ WF_vars(StartStep)

-----------------------------------------------------------------------------
(* Properties                                                              *)

TypeOK ==
  /\ i \in 1..(Len(text) + 1)
  /\ \A k \in DOMAIN tok_lst : tok_lst[k].type \in {"word"} \cup Brackets
  /\ pc \in {"read", "tokenize", "servers", "server", "location", "parsed", "binding",
             "running", "headers", "refused"} \cup Failures
  /\ \A s \in ToSet(read_v) : ToSet(s.serv_v) \subseteq DOMAIN server_v
  /\ \A k \in DOMAIN server_v : server_v[k].listen.port \in Nat

\* Once it runs, every address of the file has one listening socket, and every
\* server is reached through that of its address and no other.
OneSocketEach ==
  pc = "running" =>
    \A k \in DOMAIN server_v :
      LET of == {s \in DOMAIN read_v : k \in ToSet(read_v[s].serv_v)}
      IN /\ Cardinality(of) = 1
         /\ \A s \in DOMAIN read_v : s \in of <=> read_v[s].addr = server_v[k].listen

\* No Host could mean two servers of one address: what the comment of
\* check_server_duplicates, and the head of parser.hpp, promise.
NamesUnambiguous ==
  pc = "running" =>
    \A s \in DOMAIN read_v, h \in UNION {ToSet(server_v[k].names) : k \in DOMAIN server_v} :
      Cardinality({k \in ToSet(read_v[s].serv_v) : h \in ToSet(server_v[k].names)}) <= 1

Answered == pc = "running" /\ "srv" \in DOMAIN served
Absolute == IsPrefix(Http, asked.target)
Named(h) ==
  {k \in DOMAIN server_v :
     server_v[k].listen = read_v[asked.sock].addr /\ Before(h, ":") \in ToSet(server_v[k].names)}
Listening == {k \in DOMAIN server_v : server_v[k].listen = read_v[asked.sock].addr}

\* The server that has the name, or else the first the file has for the
\* address, answers, in the location with the longest uri that begins the path.
ServedBy(h) ==
  /\ served.srv = Min(IF Named(h) # {} THEN Named(h) ELSE Listening)
  /\ LET routes == server_v[served.srv].routes IN
     /\ served.loc \in ToSet(routes) /\ IsPrefix(served.loc.uri, req.path)
     /\ \A l \in ToSet(routes) : IsPrefix(l.uri, req.path) => Len(l.uri) <= Len(served.loc.uri)
HostDecides == Answered /\ ~Absolute => \A h \in asked.host : ServedBy(h)

\* As much for an absolute URI, whose host counts and not the header.
AbsoluteDecides ==
  Answered /\ Absolute =>
    ServedBy(Before(SubSeq(asked.target, 5, Len(asked.target)), "/"))

\* Nothing of the target is lost between path, virtual path and query.
TargetKept ==
  Answered /\ ~Absolute =>
    LET q == IF Contains(asked.target, "?") THEN <<"?">> \o req.query ELSE <<>>
    IN req.path \o req.vpath \o q = asked.target

\* A path ends at a script exactly when the location that serves it has the
\* script's extension.
ScriptOfItsLocation ==
  Answered /\ ~Absolute =>
    LET whole == req.path \o req.vpath
    IN req = [parse_path(NoRequest, whole, served.loc.cgi) EXCEPT
               !.query = req.query, !.host = req.host]

\* The limit a location enforces is the number its file gives.
LimitsAsWritten ==
  pc = "running" =>
    \A k \in DOMAIN server_v : \A l \in DOMAIN server_v[k].routes :
      server_v[k].routes[l].body_size =
        strtol(Given(vsrv_vector[k].loc[l].dir["client_max_body_size"]))

\* A file that is no configuration is reported as that, and never as what
\* main takes for the failure of a script, or worse.
ReportedAsFatal == pc \notin {"cgi error", "crashed"}

\* Every file is read to an end: the server runs, or says why not.
Decided == <>(pc \in Failures \cup {"refused", "running"})
=============================================================================
