------------------------------- MODULE Routing -------------------------------
(***************************************************************************)
(* Paths, and the choice of the server and of the location that serve a    *)
(* request (srcs/server.cpp, the string helpers of srcs/response.cpp).     *)
(*                                                                         *)
(* A path is the sequence of its slashes, its dots and what stands between *)
(* them: "/img/a.png" is <<"/", "img", "/", "a", ".", "png">>.  What the   *)
(* code does with find, rfind, substr and erase it does at these tokens.   *)
(***************************************************************************)
EXTENDS Integers, SequencesExt

\* Where a token occurs last, 0 for nowhere.
rfind(p, t) == Max({0} \cup {k \in DOMAIN p : p[k] = t})

EndsInSlash(p) == p # <<>> /\ Last(p) = "/"
StartsWithSlash(p) == p # <<>> /\ Head(p) = "/"

\* Response::replaceLocInUri: root is put before uri, one slash between them.
replaceLocInUri(uri, root) ==
  LET slashed == IF root # <<>> /\ ~EndsInSlash(root) /\ uri # <<>> /\ ~StartsWithSlash(uri)
                 THEN <<"/">> \o uri ELSE uri
      once    == IF EndsInSlash(root) /\ StartsWithSlash(slashed)
                 THEN Tail(slashed) ELSE slashed
  IN root \o once

get_filename_from_uri(uri) ==
  IF rfind(uri, "/") = 0 THEN <<>> ELSE SubSeq(uri, rfind(uri, "/") + 1, Len(uri))

\* Everything after the last dot, wherever it is.
getResourceExtension(uri) ==
  IF rfind(uri, "/") = 0 \/ rfind(uri, ".") = 0 THEN <<>>
  ELSE SubSeq(uri, rfind(uri, ".") + 1, Len(uri))

\* What is left of a path before its last slash.
Folder(p) == SubSeq(p, 1, rfind(p, "/") - 1)

-----------------------------------------------------------------------------
\* Server::get_location_by_path: the first of the routes with the longest uri
\* that begins the path; the first route of all when none does.
get_location_by_path(routes, path) ==
  LET tracker == [k \in DOMAIN routes |->
                    IF IsPrefix(routes[k].uri, path) THEN Len(routes[k].uri) ELSE 0]
      longest == Max({tracker[k] : k \in DOMAIN tracker})
  IN routes[Min({k \in DOMAIN routes : tracker[k] = longest})]

\* find_server_by_host over the servers of one socket, by their index in
\* servers: the first that has the name, or else the first of the socket.
find_server(servers, serv_v, host) ==
  LET named == {k \in DOMAIN serv_v : host \in ToSet(servers[serv_v[k]].names)}
  IN serv_v[IF named = {} THEN 1 ELSE Min(named)]
=============================================================================
