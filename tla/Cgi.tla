--------------------------------- MODULE Cgi ---------------------------------
(***************************************************************************)
(* Response::execCgi: the server forks a script, writes the request's body *)
(* into its stdin, reads its stdout to the end and turns what it printed   *)
(* into an answer (srcs/Cgi.cpp).  All of it happens inside one turn of    *)
(* the event loop: while pc is not "idle" no other client is served.       *)
(*                                                                         *)
(* The parent and the script are two processes that share two pipes of     *)
(* PipeMax units; both ends of both pipes are blocking.  A unit is a byte  *)
(* of payload, a line terminator or the text of one header line.           *)
(***************************************************************************)
EXTENDS Integers, SequencesExt

CONSTANTS
  Texts,        \* what a byte or the name of a header may be
  Calls,        \* requests, each with the script that handles it, see Call
  MaxRequests,  \* how many requests are made
  PipeMax,      \* capacity of a pipe
  WriteMax,     \* S_BUFFR_WR
  ReadMax       \* S_BUFFR_CGI_PIPE

ASSUME SizesAssumption ==
  PipeMax \in Nat \ {0} /\ WriteMax \in 1..PipeMax /\ ReadMax \in Nat \ {0}
ASSUME BoundsAssumption == MaxRequests \in Nat

ASSUME TextsAssumption == {"", "page", "Content-Type"} \subseteq Texts

\* What a script prints, and what it does: read stdin to its end, print one unit.
Units == [t : {"lf", "crlf", "byte", "field", "blank"}, n : Texts, v : Nat]
Steps == [op : {"slurp", "print"}, u : Units]

\* get_body_size() never counts more than the body there is.
ASSUME CallsAssumption ==
  \A r \in Calls :
    /\ r \in [method : {"GET", "HEAD", "POST"}, body : Seq(Units), size : Nat, script : Seq(Steps),
              dies : BOOLEAN]
    /\ r.size <= Len(r.body)

Unit(t, n, v) == [t |-> t, n |-> n, v |-> v]
Lf          == Unit("lf", "", 0)
Crlf        == Unit("crlf", "", 0)
Byte(b)     == Unit("byte", b, 0)
Field(n, v) == Unit("field", n, v)      \* "n: v"
Blank(n)    == Unit("blank", n, 0)      \* "n:" and nothing after the colon

Slurp  == [op |-> "slurp", u |-> Lf]
Put(u) == [op |-> "print", u |-> u]

\* The request's method and body, and what get_body_size() says of it; the
\* script, a sequence of the steps above, and whether this run of it may fail to
\* start or be killed.
Call(m, body, size, script, dies) ==
  [method |-> m, body |-> body, size |-> size, script |-> script, dies |-> dies]

VARIABLES
  pc,         \* where the server is in execCgi
  req,        \* the request being handled, one of Calls
  fds,        \* the server's open ends among _fdIN and _fdOut
  child,      \* the script's process, with what it read (got) and printed (said)
  inpipe, outpipe,
  wr,         \* ft_write: what is left of wr_buff, and wr_buff_s
  raw,        \* _raw_response
  answer,     \* the last answer made, or that something else was thrown
  made        \* requests so far

pipes == <<inpipe, outpipe>>
vars == <<pc, req, fds, child, pipes, wr, raw, answer, made>>

Ends == {"in0", "in1", "out0", "out1"}
NoChild ==
  [st |-> "none", fds |-> {}, script |-> <<>>, ip |-> 1, got |-> <<>>, said |-> <<>>]
NoAnswer == [code |-> 0, length |-> -1, body |-> <<>>]
Thrown == [NoAnswer EXCEPT !.code = -1]

Children ==
  [st : {"none", "forked", "running", "ended"},
   fds : SUBSET (Ends \cup {"stdin", "stdout"}),
   script : Seq(Steps), ip : Nat \ {0}, got : Seq(Units), said : Seq(Units)]

TypeOK ==
  /\ pc \in {"idle", "make", "pipe", "fork", "write", "read", "wait", "parse", "exit"}
  /\ req \in Calls
  /\ fds \subseteq Ends
  /\ child \in Children /\ child.ip <= Len(child.script) + 1
  /\ inpipe \in Seq(Units) /\ Len(inpipe) <= PipeMax
  /\ outpipe \in Seq(Units) /\ Len(outpipe) <= PipeMax
  /\ wr \in [rest : Seq(Units), left : Nat]
  /\ raw \in Seq(Units)
  /\ answer \in [code : -1..599, length : Nat \cup {-1}, body : Seq(Units)]
  /\ made \in 0..MaxRequests

-----------------------------------------------------------------------------
(* Slips of the helpers below, which the properties must notice.           *)

AfterWrite_slip(n)   == [wr EXCEPT !.left = @ - n]
WithoutIn_slip(s)    == s \ {"in0"}
OutputEnded_slip     == outpipe = <<>>
ChildGone_slip       == child.st # "none"
Unwound_slip         == fds
LengthHolds_slip(h, b) == \A f \in h : f.n = "Content-Length" => f.v >= 0

-----------------------------------------------------------------------------
(* Pipes.                                                                  *)

InHasWriter  == "in1" \in fds \cup child.fds
OutHasWriter == "out1" \in fds \cup child.fds \/ "stdout" \in child.fds

-----------------------------------------------------------------------------
(* What the server does with the output: parse_response and execCgi.       *)

CgiHeaders == {"Content-Type", "Location", "Status"}

\* parse_normalize works on the headers and on the body alike.
Normalized(s) == [k \in DOMAIN s |-> IF s[k] = Crlf THEN Lf ELSE s[k]]

Separators(s) == {k \in DOMAIN s : k < Len(s) /\ s[k] = Lf /\ s[k + 1] = Lf}
Separator(s)  == Min(Separators(s))
BodyOf_slip(s) == SubSeq(s, Separator(s) + 1, Len(s))
BodyOf(s)     == SubSeq(s, Separator(s) + 2, Len(s))

\* The places of the header lines that have a colon, and the name in each.
HeaderLines(s) == {k \in 1..(Separator(s) - 1) : s[k].t \in {"field", "blank"}}
Name(u) == IF u.n = "Content-type" THEN "Content-Type" ELSE u.n

Repeats(s, k) ==
  Name(s[k]) \in CgiHeaders /\ \E j \in HeaderLines(s) : j < k /\ Name(s[j]) = Name(s[k])

\* The lines on which parse_response_headers stops: substr is called past the
\* end of a line with nothing after its colon; a CGI header occurs twice.
Stops(s) == {k \in HeaderLines(s) : s[k].t = "blank" \/ Repeats(s, k)}

\* substr's std::out_of_range is not a StatusLine.
Uncaught(s) == Stops(s) # {} /\ s[Min(Stops(s))].t = "blank"

\* _header_map: the first of each name.
HeaderMap(s) ==
  {[n |-> Name(s[k]), v |-> s[k].v] :
     k \in {k \in HeaderLines(s) : \A j \in HeaderLines(s) : j < k => Name(s[j]) # Name(s[k])}}
Has(h, name) == \E f \in h : f.n = name

LengthHolds(h, body) == \A f \in h : f.n = "Content-Length" => f.v = Len(body)
StatusHolds(h) == \A f \in h : f.n = "Status" => f.v \in 100..599

\* What parse_response refuses with a StatusLine 500, and a slip that lets an
\* output without any CGI header pass.
Refused_slip(h, body) ==
  \/ body # <<>> /\ ~Has(h, "Content-Type")
  \/ ~LengthHolds(h, body)
  \/ ~StatusHolds(h)

Refused(h, body) ==
  \/ \A name \in CgiHeaders : ~Has(h, name)
  \/ body # <<>> /\ ~Has(h, "Content-Type")
  \/ ~LengthHolds(h, body)
  \/ ~StatusHolds(h)

CodeOf(h) ==
  LET status == {f.v : f \in {g \in h : g.n = "Status"}} IN
  IF Has(h, "Location") THEN 302
  ELSE IF status = {400} THEN 500
  ELSE IF status = {} THEN 200 ELSE CHOOSE c \in status : TRUE

ExpectsBody(code) == code >= 200 /\ code \notin {204, 304} /\ req.method # "HEAD"

\* The script's Content-Length is passed on; without one execCgi adds one.
LengthOf(h, body) ==
  IF Has(h, "Content-Length") THEN (CHOOSE f \in h : f.n = "Content-Length").v
  ELSE IF ExpectsBody(CodeOf(h)) THEN Len(body) ELSE -1

Answering(h, body) ==
  [code |-> CodeOf(h),
   length |-> LengthOf(h, body),
   body |-> IF req.method = "HEAD" THEN <<>> ELSE body]

\* fillError's page.
ErrorPage == [code |-> 500, length |-> 1, body |-> <<Byte("page")>>]

-----------------------------------------------------------------------------
(* The server                                                              *)

\* ~CGI, when execCgi returns and when an exception leaves it.
Unwound == {}

Return(a) ==
  /\ pc' = "idle"
  /\ fds' = Unwound
  /\ answer' = a
  /\ wr' = [rest |-> <<>>, left |-> 0]

Ask ==
  /\ pc = "idle" /\ made < MaxRequests
  /\ req' \in Calls
  /\ made' = made + 1
  /\ pc' = "make"
  /\ child' = NoChild
  /\ inpipe' = <<>> /\ outpipe' = <<>> /\ raw' = <<>>
  /\ UNCHANGED <<fds, wr, answer>>

\* The constructor, before there is a pipe or a script.  What it throws when
\* getcwd fails, or at() when the root is empty, is no StatusLine: as out of
\* Parse below, it ends the server.
Construct ==
  /\ pc = "make"
  /\ \/ pc' = "pipe" /\ UNCHANGED answer
     \/ pc' = "exit" /\ answer' = Thrown
  /\ UNCHANGED <<req, fds, child, pipes, wr, raw, made>>

\* _fdOut is made before _fdIN; either call may find no descriptor.
MakePipes ==
  /\ pc = "pipe"
  /\ \/ pc' = "fork" /\ fds' = Ends /\ UNCHANGED <<answer, wr>>
     \/ Return(ErrorPage)
  /\ UNCHANGED <<req, child, pipes, raw, made>>

Fork ==
  /\ pc = "fork"
  /\ \/ /\ child' = [NoChild EXCEPT !.st = "forked", !.fds = fds, !.script = req.script]
        /\ fds' = fds \ {"out1"}
        /\ wr' = [rest |-> req.body, left |-> req.size]
        /\ pc' = IF req.method = "POST" THEN "write" ELSE "read"
        /\ UNCHANGED answer
     \/ Return(ErrorPage) /\ UNCHANGED child
  /\ UNCHANGED <<req, pipes, raw, made>>

CallSize == IF wr.left > WriteMax THEN WriteMax ELSE wr.left
AfterWrite(n) == [rest |-> SubSeq(wr.rest, n + 1, Len(wr.rest)), left |-> wr.left - n]

\* One write(2) of ft_write.  It waits for room; it cannot fail, for the
\* server itself holds a read end of the pipe.
WriteBody ==
  /\ pc = "write" /\ wr.left > 0
  /\ LET n == CallSize IN
     /\ Len(inpipe) + n <= PipeMax
     /\ inpipe' = inpipe \o SubSeq(wr.rest, 1, n)
     /\ wr' = AfterWrite(n)
  /\ UNCHANGED <<pc, req, fds, child, outpipe, raw, answer, made>>

BodyWritten ==
  /\ pc = "write" /\ wr.left = 0
  /\ pc' = "read"
  /\ UNCHANGED <<req, fds, child, pipes, wr, raw, answer, made>>

WithoutIn(s) == s \ {"in0", "in1"}      \* close_fdIN

CloseIn ==
  /\ pc = "read" /\ fds # WithoutIn(fds)
  /\ fds' = WithoutIn(fds)
  /\ UNCHANGED <<pc, req, child, pipes, wr, raw, answer, made>>

ReadOutput ==
  /\ pc = "read" /\ fds = WithoutIn(fds) /\ outpipe # <<>>
  /\ LET n == IF Len(outpipe) > ReadMax THEN ReadMax ELSE Len(outpipe) IN
     /\ raw' = raw \o SubSeq(outpipe, 1, n)
     /\ outpipe' = SubSeq(outpipe, n + 1, Len(outpipe))
  /\ UNCHANGED <<pc, req, fds, child, inpipe, wr, answer, made>>

\* read(2) returns 0.
OutputEnded == outpipe = <<>> /\ ~OutHasWriter

ReadEnd ==
  /\ pc = "read" /\ fds = WithoutIn(fds) /\ OutputEnded
  /\ fds' = fds \ {"out0", "out1"}
  /\ pc' = "wait"
  /\ UNCHANGED <<req, child, pipes, wr, raw, answer, made>>

\* SIGCHLD is ignored: waitpid waits for the script and then has no status to
\* give, so the test of its exit code that follows is never true.
ChildGone == child.st = "ended"

WaitChild ==
  /\ pc = "wait" /\ ChildGone
  /\ pc' = "parse"
  /\ UNCHANGED <<req, fds, child, pipes, wr, raw, answer, made>>

\* An exception other than a StatusLine leaves the event loop and ends the
\* server.
Parse ==
  /\ pc = "parse"
  /\ LET s == Normalized(raw) IN
     IF Separators(s) = {} THEN Return(ErrorPage)
     ELSE IF Uncaught(s)
     THEN pc' = "exit" /\ fds' = Unwound /\ answer' = Thrown /\ UNCHANGED wr
     ELSE IF Stops(s) # {} \/ Refused(HeaderMap(s), BodyOf(s))
     THEN Return(ErrorPage)
     ELSE Return(Answering(HeaderMap(s), BodyOf(s)))
  /\ UNCHANGED <<req, child, pipes, raw, made>>

-----------------------------------------------------------------------------
(* The script's process                                                    *)

\* dup2, close_fdOut, close_fdIN, execve.
ChildExec ==
  /\ child.st = "forked"
  /\ child' = [child EXCEPT !.st = "running", !.fds = {"stdin", "stdout"}]
  /\ UNCHANGED <<pc, req, fds, pipes, wr, raw, answer, made>>

\* chdir or execve fails and the copy of the server exits; or the script is
\* killed on the way.
ChildFails ==
  /\ req.dies /\ child.st \in {"forked", "running"}
  /\ child' = [child EXCEPT !.st = "ended", !.fds = {}]
  /\ UNCHANGED <<pc, req, fds, pipes, wr, raw, answer, made>>

At(op) ==
  /\ child.st = "running" /\ child.ip <= Len(child.script)
  /\ child.script[child.ip].op = op

ChildSlurps ==
  /\ At("slurp")
  /\ \/ /\ inpipe # <<>>
        /\ inpipe' = Tail(inpipe)
        /\ child' = [child EXCEPT !.got = Append(@, Head(inpipe))]
     \/ /\ inpipe = <<>> /\ ~InHasWriter
        /\ child' = [child EXCEPT !.ip = @ + 1]
        /\ UNCHANGED inpipe
  /\ UNCHANGED <<pc, req, fds, outpipe, wr, raw, answer, made>>

ChildPrints ==
  /\ At("print") /\ Len(outpipe) < PipeMax
  /\ outpipe' = Append(outpipe, child.script[child.ip].u)
  /\ child' = [child EXCEPT !.ip = @ + 1, !.said = Append(@, child.script[child.ip].u)]
  /\ UNCHANGED <<pc, req, fds, inpipe, wr, raw, answer, made>>

ChildExits ==
  /\ child.st = "running" /\ child.ip > Len(child.script)
  /\ child' = [child EXCEPT !.st = "ended", !.fds = {}]
  /\ UNCHANGED <<pc, req, fds, pipes, wr, raw, answer, made>>

-----------------------------------------------------------------------------
Init ==
  /\ pc = "idle"
  /\ req \in Calls
  /\ fds = {}
  /\ child = NoChild
  /\ inpipe = <<>> /\ outpipe = <<>>
  /\ wr = [rest |-> <<>>, left |-> 0]
  /\ raw = <<>>
  /\ answer = NoAnswer
  /\ made = 0

ServerStep ==
  \/ Construct \/ MakePipes \/ Fork \/ WriteBody \/ BodyWritten \/ CloseIn
  \/ ReadOutput \/ ReadEnd \/ WaitChild \/ Parse

ScriptStep == ChildExec \/ ChildSlurps \/ ChildPrints \/ ChildExits

Finished ==
  /\ pc = "exit" \/ (pc = "idle" /\ made = MaxRequests)
  /\ UNCHANGED vars

Next == Ask \/ ServerStep \/ ScriptStep \/ ChildFails \/ Finished

Spec == Init /\ [][Next]_vars

\* The operating system runs both processes, and a script is a program that
\* comes to its end once its reads and writes return.
FairSpec == Spec /\ WF_vars(ServerStep) /\ WF_vars(ScriptStep)

-----------------------------------------------------------------------------
(* Properties                                                              *)

\* A script that read its stdin to the end has read the request's body, all
\* of it and nothing else: the write loop, the closing of the server's ends
\* and the script's own copies of them agree on where the end is.
StdinIsBody ==
  child.st = "running" /\ child.ip > 1 /\ child.script[1] = Slurp /\ req.method = "POST"
    => child.got = req.body

\* The answer is made from everything the script printed, and from nothing
\* else, whenever it was interrupted.
OutputWhole == pc = "parse" => raw = child.said

\* When execCgi is left the server holds no end of a pipe and no script is
\* left running, on every path out of it, exceptions included.
NothingLeft ==
  pc \in {"idle", "exit"} => fds = {} /\ child.st \in {"none", "ended"}

\* A Content-Length in the answer is the length of the body that follows, or
\* the client takes the next answer for a part of this one.
LengthTrue ==
  pc = "idle" /\ answer.length # -1 /\ req.method # "HEAD"
    => answer.length = Len(answer.body)

\* The empty lines that follow another line, as the script printed them, with
\* LF or with CRLF: the first of them ends the headers.
EndsLine(u) == u \in {Lf, Crlf}
EmptyLines(s) == {k \in DOMAIN s : k > 1 /\ EndsLine(s[k - 1]) /\ EndsLine(s[k])}

\* What the client receives as the body is what the script printed after its
\* headers: all that follows the first empty line, and nothing before it.  A
\* HEAD has none of it.
BodyKept ==
  pc = "idle" /\ child.st = "ended" /\ answer # ErrorPage =>
    /\ EmptyLines(child.said) # {}
    /\ answer.body = IF req.method = "HEAD" THEN <<>>
                     ELSE SubSeq(child.said, Min(EmptyLines(child.said)) + 1, Len(child.said))

\* A CGI header and, after it, the empty line that ends the headers.
Answerable(s) ==
  \E k \in EmptyLines(s) : \E j \in 1..k :
    s[j].t \in {"field", "blank"} /\ Name(s[j]) \in CgiHeaders

\* The exit code of the script is never seen, so what it printed must do: a
\* script that could not be started, or that was killed, failed or ended before
\* it had printed a CGI header and the end of its headers, is answered with the
\* error page, and never with what another script printed.
FailureTold ==
  pc = "idle" /\ made > 0 /\ ~Answerable(child.said) => answer = ErrorPage

\* Nothing a script prints ends the server.
ServerSurvives == pc = "exit" => child.st = "none"

\* execCgi comes to its end, and with it the turn of the event loop.
Served == pc \notin {"idle", "exit"} ~> pc \in {"idle", "exit"}
=============================================================================
