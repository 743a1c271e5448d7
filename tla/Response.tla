------------------------------- MODULE Response -------------------------------
(***************************************************************************)
(* What an answer is made of and what it changes: Response::fillBuffer and *)
(* the methods it runs (srcs/response.cpp), for the location that          *)
(* Server::get_location_by_path chose, with clients that follow redirects  *)
(* and with other processes at work on the same files.                     *)
(*                                                                         *)
(* A request is answered in two steps, the look-up of the resource and the *)
(* method, and in three where the method looks at the file twice: a GET of *)
(* a file opens it and then asks for its date, a PUT asks whether there is *)
(* one and then opens it.  Between any two of them the files can change.   *)
(* What a script answers is Cgi's subject; here it is one of its codes.    *)
(***************************************************************************)
EXTENDS Routing

CONSTANTS
  Tree,       \* the files at start, see files below
  Routes,     \* the locations of the server, see Location below
  Requests,   \* what clients ask: [method, path, body]
  MaxAsks,    \* how many requests there are
  MaxHops,    \* how many redirects a client follows
  Touches,    \* what others do to files: [path, to], to = NoFile for remove
  MaxTouches, \* how often they do
  DiskFills   \* a write may fail part of the way

ASSUME CountsAssumption ==
  MaxAsks \in Nat /\ MaxHops \in Nat /\ MaxTouches \in Nat /\ DiskFills \in BOOLEAN

\* What stands between slashes and dots is left as it is.
Paths == Seq({"/", "."} \cup STRING)
RouteType ==
  [uri : Paths, root : Paths, alias : BOOLEAN, methods : SUBSET STRING, index : Seq(Paths),
   autoindex : BOOLEAN, upload : Paths, return_uri : Paths, error_page : Paths,
   cgi : SUBSET Paths]
ASSUME RoutesAssumption == Routes \in Seq(RouteType) /\ Len(Routes) > 0
ASSUME RequestsAssumption == \A r \in Requests : r.path \in Paths

\* A file is <<its content>>.
Dir    == <<"directory">>
NoFile == <<"no file">>
Page   == <<"page made by the server">>
Cut    == <<"the part of a body that was written">>

\* The server's own page is nobody's file, and what is no file no content.
Contents(c) == c \notin {Page, NoFile}
ASSUME ContentsAssumption ==
  /\ \A p \in DOMAIN Tree : Contents(Tree[p])
  /\ \A r \in Requests : Contents(r.body)
  /\ \A t \in Touches : t.to # Page

\* class Location.  Missing directives are empty; cgi holds the extensions of
\* cgi_pass.
Location(uri, root, alias, methods) ==
  [uri |-> uri, root |-> root, alias |-> alias, methods |-> methods,
   index |-> <<>>, autoindex |-> FALSE, upload |-> <<>>, return_uri |-> <<>>,
   error_page |-> <<>>, cgi |-> {}]

VARIABLES
  files,      \* the file system: path -> content, for the paths that exist
  path,       \* the path of Response::_req
  autoIndex,  \* Response::_autoIndex
  realUri,    \* the resource that was found
  answer,     \* Response::_buffer: status, Location, Content-Length, body
  pc,         \* "idle" | "resolve" | "execute" | "midway" | "answered" | "exit"
  wish,       \* the client's request
  sent,       \* the path it has asked for, last of all
  hops,       \* the redirects it has followed
  asks, touches \* how many requests and changes by others there have been

server == <<path, autoIndex, realUri, answer>>
client == <<wish, sent, hops, asks>>
vars == <<files, server, pc, client, touches>>

NoRequest == [method |-> "", path |-> <<>>, body |-> NoFile]
NoAnswer == [code |-> 0, location |-> <<>>, ended |-> TRUE, length |-> NoFile, body |-> NoFile]

\* Response::_loc.
Loc == get_location_by_path(Routes, sent)

-----------------------------------------------------------------------------
(* The file system                                                         *)

Stripped(p) == SubSeq(p, 1, Max({0} \cup {k \in DOMAIN p : p[k] # "/"}))

\* stat: a path that ends in a slash names a directory or nothing.
Stat(p) ==
  IF Stripped(p) \in DOMAIN files /\ (EndsInSlash(p) => files[Stripped(p)] = Dir)
  THEN files[Stripped(p)] ELSE NoFile
Exists(p) == Stat(p) # NoFile
IsDir(p) == Stat(p) = Dir

With(p, content) == [q \in DOMAIN files \cup {p} |-> IF q = p THEN content ELSE files[q]]
Without(p) == Restrict(files, DOMAIN files \ {p})

\* open for writing, and remove, which takes files and empty directories.
Creatable(p) == ~IsDir(p) /\ ~EndsInSlash(p) /\ IsDir(Folder(p))
Removable(p) ==
  Exists(p) /\ \A q \in DOMAIN files : Folder(q) # Stripped(p)

-----------------------------------------------------------------------------
(* fillError                                                               *)

\* A relative error page is looked for beside the path that was asked.
ErrorUri_slip ==
  IF StartsWithSlash(Loc.error_page) THEN Loc.error_page ELSE <<"/">> \o Loc.error_page
ErrorUri ==
  IF StartsWithSlash(Loc.error_page) THEN Loc.error_page
  ELSE LET folder == Folder(path)
       IN (IF EndsInSlash(folder) THEN folder ELSE Append(folder, "/")) \o Loc.error_page

ErrorPageExists ==
  Loc.error_page # <<>> /\ Exists(replaceLocInUri(ErrorUri, Loc.root))

\* Fails(c, p): fillError with code c, the request's path having become p.
\* The status is sent with a page; 301 and 302 say where the path went.
Fails(c, p) ==
  LET elsewhere == c = 404 /\ ErrorPageExists
      code == IF elsewhere THEN 302 ELSE c
      last == IF elsewhere THEN ErrorUri ELSE p
      shown == IF wish.method = "HEAD" THEN NoFile ELSE Page
  IN /\ answer' = [code |-> code, location |-> IF code \in {301, 302} THEN last ELSE <<>>,
                   ended |-> TRUE, length |-> shown, body |-> shown]
     /\ path' = last
     /\ pc' = "answered"

-----------------------------------------------------------------------------
(* fillBuffer up to reconstructFullURI                                     *)

Stays == UNCHANGED <<files, client, touches>>

Found(uri, listed) ==
  /\ realUri' = uri
  /\ autoIndex' = listed
  /\ pc' = "execute"
  /\ UNCHANGED <<path, answer>>

Refused(c, p) == Fails(c, p) /\ UNCHANGED <<realUri, autoIndex>>

\* The method is allowed, and the location redirects nowhere.
Admitted_slip == pc = "resolve" /\ Loc.return_uri = <<>>
Admitted == pc = "resolve" /\ Loc.return_uri = <<>> /\ wish.method \in Loc.methods

HttpRedirection ==
  /\ pc = "resolve" /\ Loc.return_uri # <<>>
  /\ Refused(301, replaceLocInUri(path, Loc.return_uri))
  /\ Stays

CheckMethods ==
  /\ pc = "resolve" /\ Loc.return_uri = <<>> /\ wish.method \notin Loc.methods
  /\ Refused(405, path)
  /\ Stays

\* The path below the root; an alias takes the place of the location's uri.
Rooted ==
  LET below == IF Loc.alias /\ Len(Loc.uri) > 1
               THEN SubSeq(path, Len(Loc.uri) + 1, Len(path)) ELSE path
  IN replaceLocInUri(below, Loc.root)

NotFound ==
  /\ Admitted /\ wish.method # "PUT"
  /\ ~Exists(Rooted)
  /\ Refused(404, path)
  /\ Stays

UploadPath ==
  replaceLocInUri(replaceLocInUri(get_filename_from_uri(Rooted), Loc.upload), Loc.root)

\* S_ISDIR looks at a struct stat that is only filled in when the path exists
\* below the root as well: otherwise it may say anything.
ResolveUpload ==
  /\ Admitted /\ wish.method = "PUT"
  /\ \/ /\ Loc.upload = <<>> \/ IsDir(Rooted) \/ ~Exists(Rooted)
        /\ Refused(403, path)
     \/ /\ Loc.upload # <<>> /\ ~IsDir(Rooted)
        /\ Found(UploadPath, autoIndex)
  /\ Stays

\* A directory without its slash is asked for again, with it.
SlashMissing_slip == IsDir(Rooted)
SlashMissing == IsDir(Rooted) /\ ~EndsInSlash(Rooted)

RedirectDirectory ==
  /\ Admitted /\ wish.method # "PUT"
  /\ SlashMissing
  /\ Refused(301, Append(path, "/"))
  /\ Stays

Indexes == {k \in DOMAIN Loc.index : Exists(Rooted \o Loc.index[k])}

\* A directory that addIndex looks into.
Indexed ==
  Admitted /\ wish.method \notin {"PUT", "DELETE"} /\ IsDir(Rooted) /\ ~SlashMissing

AddIndex ==
  /\ Indexed /\ Indexes # {}
  /\ Found(Rooted \o Loc.index[Min(Indexes)], autoIndex)
  /\ Stays

AddListing ==
  /\ Indexed /\ Indexes = {} /\ Loc.autoindex
  /\ Found(Rooted, TRUE)
  /\ Stays

NoIndex ==
  /\ Indexed /\ Indexes = {} /\ ~Loc.autoindex
  /\ Refused(403, path)
  /\ Stays

ResolveFile ==
  /\ Admitted /\ wish.method # "PUT" /\ Exists(Rooted)
  /\ ~IsDir(Rooted) \/ (wish.method = "DELETE" /\ ~SlashMissing)
  /\ Found(Rooted, autoIndex)
  /\ Stays

-----------------------------------------------------------------------------
(* The methods                                                             *)

IsScript ==
  getResourceExtension(realUri) \in {<<"cgi">>} \cup Loc.cgi

Doing(place, methods) ==
  /\ pc = place /\ wish.method \in methods
  /\ UNCHANGED <<client, realUri, autoIndex, touches>>
Executing(methods) == Doing("execute", methods)

Failing(c) == Fails(c, path) /\ UNCHANGED files

Answers(code, length, body) ==
  /\ answer' = [code |-> code, location |-> IF code = 201 THEN realUri ELSE <<>>,
                ended |-> TRUE, length |-> length, body |-> body]
  /\ pc' = "answered"
  /\ UNCHANGED path

\* The first half of a method, which has put part of the answer together.
Prepares(part) ==
  /\ answer' = part
  /\ pc' = "midway"
  /\ UNCHANGED <<path, files>>

\* execGet on a file: read whole, and its length told.  A directory is opened
\* but cannot be read, which throws what only main catches.
OpenFile ==
  /\ Executing({"GET", "HEAD"}) /\ ~IsScript
  /\ ~EndsInSlash(realUri)
  /\ CASE IsDir(realUri) -> pc' = "exit" /\ UNCHANGED <<files, path, answer>>
       [] ~Exists(realUri) -> Failing(500)
       [] OTHER -> Prepares([NoAnswer EXCEPT !.code = 200, !.ended = FALSE,
                                             !.length = Stat(realUri)])

\* The body that was read follows its headers, and a slip that reads it now.
\* The headers of a HEAD have no empty line after them.
WithBody_slip == [answer EXCEPT !.ended = TRUE, !.body = Stat(realUri)]
WithBody == [answer EXCEPT !.ended = TRUE, !.body = answer.length]

\* fillLastModifiedHeader, and the rest of execGet.
DateFile ==
  /\ Doing("midway", {"GET", "HEAD"})
  /\ IF ~Exists(realUri) THEN Failing(404)
     ELSE /\ answer' = IF wish.method = "GET" THEN WithBody ELSE answer
          /\ pc' = "answered"
          /\ UNCHANGED <<path, files>>

\* autoIndexDisplayer, for HEAD as well.  Nobody looks whether the stat of an
\* entry succeeds, and one that is gone or leads nowhere has any date and size:
\* a date that is none, like a size of more than ten digits, throws what only
\* main catches.
GetListing ==
  /\ Executing({"GET", "HEAD"}) /\ ~IsScript
  /\ EndsInSlash(realUri)
  /\ IF autoIndex /\ IsDir(realUri)
     THEN \/ Answers(200, Page, Page) /\ UNCHANGED files
          \/ pc' = "exit" /\ UNCHANGED <<files, path, answer>>
     ELSE Failing(IF autoIndex THEN 500 ELSE 403)

\* execCgi, execPost: see Cgi for what a script can answer.
RunScript ==
  /\ Executing({"GET", "HEAD", "POST"}) /\ IsScript
  /\ IF ~Exists(realUri) THEN Failing(404)
     ELSE \/ Answers(200, NoFile, NoFile) /\ UNCHANGED files
          \/ Failing(500)

PostToFile == Executing({"POST"}) /\ ~IsScript /\ Failing(403)

\* execPut: whether the file is there decides what will be answered; that it
\* cannot be opened is seen later, and whether the write succeeds never.
Created == IF Exists(realUri) THEN 204 ELSE 201
PutDecides ==
  /\ Executing({"PUT"})
  /\ IF IsDir(realUri) THEN Failing(403) ELSE Prepares([NoAnswer EXCEPT !.code = Created])

Put ==
  /\ Doing("midway", {"PUT"})
  /\ IF ~Creatable(realUri) THEN Failing(500)
     ELSE /\ \E written \in {wish.body} \cup (IF DiskFills THEN {Cut} ELSE {}) :
               files' = With(realUri, written)
          /\ LET shown == IF answer.code = 201 THEN wish.body ELSE NoFile
             IN Answers(answer.code, shown, shown)

\* execDelete
Delete ==
  /\ Executing({"DELETE"})
  /\ IF Removable(realUri)
     THEN files' = Without(Stripped(realUri)) /\ Answers(204, NoFile, NoFile)
     ELSE Failing(500)

-----------------------------------------------------------------------------
(* Clients and the other processes                                         *)

Redirected == answer.code \in {301, 302} /\ StartsWithSlash(answer.location)

Asks(p) ==
  /\ sent' = p /\ path' = p
  /\ pc' = "resolve"
  /\ answer' = NoAnswer
  /\ UNCHANGED <<files, realUri, touches>>

Ask ==
  /\ pc = "idle" /\ asks < MaxAsks
  /\ \E r \in Requests : wish' = r /\ Asks(r.path)
  /\ hops' = 0 /\ asks' = asks + 1
  /\ UNCHANGED autoIndex

\* Response::clear, once the answer is written.
Cleared_slip == autoIndex' = autoIndex
Cleared == autoIndex' = FALSE

\* A redirect is followed.
Follow ==
  /\ pc = "answered" /\ Redirected /\ hops < MaxHops
  /\ Asks(answer.location)
  /\ hops' = hops + 1
  /\ Cleared
  /\ UNCHANGED <<wish, asks>>

Done ==
  /\ pc = "answered" /\ (Redirected => hops = MaxHops)
  /\ pc' = "idle"
  /\ Cleared
  /\ UNCHANGED <<files, path, realUri, answer, client, touches>>

Touch ==
  /\ touches < MaxTouches
  /\ \E t \in Touches :
       \/ t.to = NoFile /\ Removable(t.path) /\ files' = Without(t.path)
       \/ t.to # NoFile /\ Creatable(t.path) /\ files' = With(t.path, t.to)
  /\ touches' = touches + 1
  /\ UNCHANGED <<server, pc, client>>

Finished ==
  /\ pc = "exit" \/ (pc = "idle" /\ asks = MaxAsks)
  /\ UNCHANGED vars

Init ==
  /\ files = Tree
  /\ path = <<>> /\ autoIndex = FALSE /\ realUri = <<>> /\ answer = NoAnswer
  /\ pc = "idle"
  /\ wish = NoRequest /\ sent = <<>> /\ hops = 0
  /\ asks = 0 /\ touches = 0

Resolve ==
  \/ HttpRedirection \/ CheckMethods \/ NotFound \/ ResolveUpload
  \/ RedirectDirectory \/ AddIndex \/ AddListing \/ NoIndex \/ ResolveFile

Execute ==
  \/ OpenFile \/ DateFile \/ GetListing \/ RunScript \/ PostToFile
  \/ PutDecides \/ Put \/ Delete

Next == Resolve \/ Execute \/ Ask \/ Follow \/ Done \/ Touch \/ Finished

Spec == Init /\ [][Next]_vars

-----------------------------------------------------------------------------
(* Properties                                                              *)

Codes == {0, 200, 201, 204, 301, 302, 403, 404, 405, 500}

\* The variables have their types, and every file stands in a directory.
TypeOK ==
  /\ \A p \in DOMAIN files : Folder(p) = <<>> \/ IsDir(Folder(p))
  /\ autoIndex \in BOOLEAN
  /\ answer.code \in Codes
  /\ pc \in {"idle", "resolve", "execute", "midway", "answered", "exit"}
  /\ wish \in Requests \cup {NoRequest}
  /\ hops \in 0..MaxHops /\ asks \in 0..MaxAsks /\ touches \in 0..MaxTouches

\* A request changes at most one file, and only as its location lets it: a
\* PUT one in the upload directory itself, a DELETE by removing one; and then
\* the client is told that it is done.  An answer that says anything else has
\* changed nothing, whatever others did between the look-up and the method.
Uploads ==
  /\ wish.method = "PUT" /\ answer'.code \in {201, 204}
  /\ \E p \in DOMAIN files' :
       /\ Folder(p) = Stripped(replaceLocInUri(Loc.upload, Loc.root))
       /\ files' = With(p, files'[p])
Removes ==
  /\ wish.method = "DELETE" /\ answer'.code = 204
  /\ \E p \in DOMAIN files : files' = Without(p)
ChangesAsAsked ==
  [][pc' # pc /\ pc \in {"execute", "midway"} /\ files' # files =>
       wish.method \in Loc.methods /\ (Uploads \/ Removes)]_vars

\* For which uploads this holds: the directory is not written with two slashes
\* at its end; and a file is named, or else the directory ends in a slash.
PlainUploads ==
  \A k \in DOMAIN Routes :
    LET below == replaceLocInUri(Routes[k].upload, Routes[k].root)
    IN EndsInSlash(Routes[k].upload) => below = Stripped(below) \o <<"/">>
Named ==
  pc \in {"execute", "midway"} /\ wish.method = "PUT" =>
    get_filename_from_uri(Rooted) # <<>> \/ EndsInSlash(Loc.upload)

\* A listing is sent only where the location has autoindex on: the flag that
\* one request raised is not there for the next.
OnlyListable == pc = "answered" /\ answer.code = 200 /\ answer.body = Page => Loc.autoindex

\* A client can tell where an answer ends: there is an empty line, and the
\* length is the length of what follows, or nothing follows a 204.
Framed ==
  pc = "answered" /\ wish.method # "HEAD" /\ ~(answer.code = 200 /\ IsScript) =>
    /\ answer.ended
    /\ answer.length = answer.body
    /\ answer.code = 204 <=> answer.body = NoFile

-----------------------------------------------------------------------------
(* Where redirects and error pages lead                                    *)

At(p) == get_location_by_path(Routes, p)
Aliased(loc) == loc.alias /\ Len(loc.uri) > 1

\* What a GET of p would find.
Served(p) ==
  replaceLocInUri(IF Aliased(At(p)) THEN SubSeq(p, Len(At(p).uri) + 1, Len(p)) ELSE p,
                  At(p).root)

\* The error page for p, beside p or where the location says.
PageFor(p) ==
  IF StartsWithSlash(At(p).error_page) THEN At(p).error_page
  ELSE Folder(p) \o <<"/">> \o At(p).error_page
OwnPage(p) == At(p).error_page # <<>> /\ PageFor(p) = p

\* A client that follows the server's redirects comes to an answer: the slash
\* after a directory, the redirections of the configuration and the error
\* page, one after the other, do not send it in circles.
RedirectsEnd == pc = "answered" /\ hops = MaxHops => ~Redirected

\* A client that is told 404 could not have been shown the error page of the
\* location: at that moment a GET of it would find nothing either.
ErrorPageShown ==
  [][pc' # pc /\ pc' = "answered" /\ answer'.code = 404 /\ Loc.error_page # <<>> =>
       ~Exists(Served(PageFor(sent)))]_vars

\* For which configurations the one and the other holds.  The error page has the
\* root of the location it is for, and is below no alias.
PageInPlace ==
  pc \in {"resolve", "execute", "midway"} /\ Loc.error_page # <<>> =>
    /\ At(PageFor(sent)).root = Loc.root /\ ~Aliased(At(PageFor(sent)))
    /\ StartsWithSlash(Loc.error_page) \/ ~EndsInSlash(Folder(sent))

\* A redirection does not lead to another, nor to an alias without its slash; an
\* error page is no directory, and its own error page.
Straight ==
  pc \in {"resolve", "execute", "midway"} =>
    LET there == replaceLocInUri(sent, Loc.return_uri)
        slashed == Append(sent, "/")
        page == PageFor(sent)
    IN /\ Loc.return_uri # <<>> /\ StartsWithSlash(there) => At(there).return_uri = <<>>
       /\ IsDir(Served(sent)) /\ ~EndsInSlash(Served(sent)) =>
            /\ At(slashed).return_uri = <<>>
            /\ Aliased(At(slashed)) => Len(At(slashed).uri) <= Len(sent)
       /\ Loc.error_page # <<>> =>
            At(page).return_uri = <<>> /\ OwnPage(page) /\ ~IsDir(Served(page))

-----------------------------------------------------------------------------
(* What the repository says of it, and the code does not do                *)

\* "Replacing location name in the URI with the redirect string".
ReturnReplaced ==
  pc = "answered" /\ Loc.return_uri # <<>> =>
    answer.location =
      replaceLocInUri(SubSeq(sent, Len(Loc.uri) + 1, Len(sent)), Loc.return_uri)

\* The answer to a HEAD is the head of the answer to a GET: it ends with an
\* empty line, and no body follows.
HeadFramed ==
  pc = "answered" /\ wish.method = "HEAD" /\ ~(answer.code = 200 /\ IsScript) =>
    answer.ended /\ answer.body = NoFile

\* A PUT that is confirmed has stored the whole body.
Stored ==
  pc = "answered" /\ wish.method = "PUT" /\ answer.code \in {201, 204} =>
    Stat(realUri) = wish.body

\* A PUT of a file the location accepts is not taken for a directory.
UploadsAccepted ==
  pc = "answered" /\ wish.method = "PUT" /\ answer.code = 403 =>
    IsDir(realUri) \/ IsDir(Rooted)

\* No request ends the server.
ServerSurvives == pc # "exit"
=============================================================================
